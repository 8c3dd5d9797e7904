CONSTANTS
  MasterFrames <- MCMasterFrames
  ControllerFrames <- MCControllerFrames
  SplitReads = FALSE
  MaxLine = 24

SPECIFICATION Spec

INVARIANT ReadFramesWereSent
INVARIANT EchoNotForController
