CONSTANTS
  Backends = {b1, b2}
  Threads = {t1, t2}
  Messages = {m1, m2}
  Entries = {e1, e2}
  Sources = {s1, s2}
  None = None
  SourceLen = 1
  HeaderLen = 1
  LogLen = 3
  Threshold = 3
  UsageWidth = 32
  MaxScans = 1
SPECIFICATION Spec
SYMMETRY Symmetry
INVARIANTS KeyRefs NeededKept OneEntryPerSource WaitersWoken ProgramRefs
CHECK_DEADLOCK FALSE
