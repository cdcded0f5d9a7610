SPECIFICATION Spec
CONSTANTS
  Impls <- Greetings
  Impl <- GreetingImpl
  MaxCalls = 2
  MaxDepth = 2
  MaxCallbacks = 2
  MaxVarArgs = 1
  Habits = {}
INVARIANTS DefaultsStay
