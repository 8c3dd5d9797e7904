CONSTANTS
  InitPayloads <- MCInitPayloads
  FieldValues <- MCFieldValues

SPECIFICATION Spec

INVARIANT FieldsIndependent
