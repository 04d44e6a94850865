\* A thread allocates a stub page between a sibling fork and its handling.
CONSTANTS
  t1 = t1  t2 = t2  t3 = t3
  s1 = s1  s2 = s2  s3 = s3
  r1 = r1  r2 = r2
  NoTask = NoTask
  NoSite = NoSite
  Tids <- MCTids
  Root = t1
  Sites <- MCSites
  Hooked <- MCHooked
  Regions <- MCRegions
  RegionOf <- MCRegionOf
  Ops = {"fork", "clone", "execve"}
  RemoteMayFail = FALSE
SPECIFICATION Spec
INVARIANT StubPagesMapped
