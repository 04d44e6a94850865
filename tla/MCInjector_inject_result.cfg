\* Injector: inject_result
CONSTANTS
  Signals = {"SIGCHLD"}
  InjectCounts <- MCInjectCounts
  MaxArrivals = 1
  MaxVforks = 0
SPECIFICATION Spec
INVARIANT InjectedResultReal
