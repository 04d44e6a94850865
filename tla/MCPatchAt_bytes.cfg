\* patch_at: pass
CONSTANTS
  o = o  j = j
  Orig = o
  Junk = j
  IPs <- MCIPsAll
  PrologueLens = {3, 4, 5, 6}
  Relas <- MCRelas
SPECIFICATION Spec
INVARIANT CallDecodes
INVARIANT PaddingEndsAtWindow
