\* Injector: sigchld_lost
CONSTANTS
  Signals = {"SIGCHLD"}
  InjectCounts <- MCInjectCounts
  MaxArrivals = 1
  MaxVforks = 1
SPECIFICATION Spec
PROPERTY SigchldDelivered
