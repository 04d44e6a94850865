\* Injector: signals
CONSTANTS
  Signals = {"SIGCHLD", "OTHER"}
  InjectCounts <- MCInjectCounts
  MaxArrivals = 2
  MaxVforks = 1
SPECIFICATION Spec
INVARIANT GadgetTrapAfterOneSyscall
INVARIANT FilterAfterOptions
PROPERTY HandlerRefinement
