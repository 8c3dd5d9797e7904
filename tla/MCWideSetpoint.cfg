CONSTANTS
  InitPayloads <- MCInitPayloads
  FieldValues <- MCWideFieldValues

SPECIFICATION Spec

INVARIANT FieldsIndependent
