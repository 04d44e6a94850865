\* patch_at: trail
CONSTANTS
  o = o  j = j
  Orig = o
  Junk = j
  IPs <- MCIPsInside
  PrologueLens = {3, 4, 5, 6}
  Relas <- MCRelas
SPECIFICATION Spec
INVARIANT TrailIntact
