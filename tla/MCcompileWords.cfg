SPECIFICATION Spec
CONSTANTS
  NoLowercase <- MCNoLowercase
  StartsWithUnderscore <- MCStartsWithUnderscore
  Programs <- MCWords
  Names <- ProgramNames
  Compiled <- CompiledProgram
  StackMapOf <- MapOfProgram
INVARIANT WordsMeanWhatTheySay
