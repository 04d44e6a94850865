\* StubReach: stubs
CONSTANTS
  Word <- MCWord
  TwoGB <- MCTwoGB
  OneMB <- MCOneMB
  PageSize = 4096
  TopLo <- MCTopLo
  InitMaps <- MCMaps
  ProgramMaps <- MCProgramMaps
  Sites <- MCSites
  HookOffsets <- MCHookOffsets
  Preload <- MCPreload
SPECIFICATION Spec
\* Every site patched, or no gap left: the tracee may stop trapping.
CHECK_DEADLOCK FALSE
INVARIANT StubSpaceFree
INVARIANT AllocatedSlotsReach
INVARIANT PatchedCallReachesHook
