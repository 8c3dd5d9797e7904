CONSTANTS
  InitMasterBytes <- MCInitMasterBytes
  Payloads <- MCPayloads

SPECIFICATION Spec

PROPERTY FramesImplementFields
