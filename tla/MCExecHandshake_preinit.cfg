\* Exec handshake: preinit's mmap under the seccomp filter, no signals.
CONSTANTS
  Signals = {}
  InjectCounts <- MCInjectCounts
  MaxArrivals = 0
  MaxVforks = 0
  ExecRip <- MCExecRip
  MaxExecs = 1
SPECIFICATION ExecSpec
INVARIANT ExecStopIsTrap
