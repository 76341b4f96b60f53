CONSTANTS
  Launches <- MCLaunches
  Evaluations <- MCEvaluations
  DebugLen = 2
  DebugBuf = 5
SPECIFICATION Spec
INVARIANTS KernelExact DebugWalk ReturnedExact
