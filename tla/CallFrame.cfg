SPECIFICATION Spec
CONSTANTS
  Impls <- MCImpls
  Impl <- MCImpl
  MaxCalls = 2
  MaxDepth = 2
  MaxCallbacks = 2
  MaxVarArgs = 1
  Habits = {}
INVARIANTS TypeOK NothingDangles Balanced FramesBelong
PROPERTIES ImplementsProtocol EveryCallEnds
