SPECIFICATION Spec
CONSTANTS
  NoLowercase <- MCNoLowercase
  StartsWithUnderscore <- MCStartsWithUnderscore
  Programs <- MCPrograms
  Names <- ProgramNames
  Compiled <- CompiledProgram
  StackMapOf <- MapOfProgram
INVARIANTS
  TypeOK
  PrintsItsMeaning
  OnInstructions
  OperandsFit
  LocalsInFrame
  NothingLeftOver
  OnlyIllRejected
PROPERTIES StaysWellMapped CallersUntouched Ends
