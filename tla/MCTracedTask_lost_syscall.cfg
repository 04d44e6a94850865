\* Stub allocation fails after skip_seccomp_syscall has skipped the syscall.
CONSTANTS
  t1 = t1  t2 = t2  t3 = t3
  s1 = s1  s2 = s2  s3 = s3
  r1 = r1  r2 = r2
  NoTask = NoTask
  NoSite = NoSite
  Tids <- MCTids2
  Root = t1
  Sites <- MCSites
  Hooked <- MCHooked
  Regions <- MCRegions
  RegionOf <- MCRegionOf
  Ops = {"execve"}
  RemoteMayFail = TRUE
SPECIFICATION Spec
INVARIANT SyscallNotLost
