SPECIFICATION Spec
CONSTANTS
  Threads <- MCThreads
  VcuThread <- MCVcuThread
  Period <- MCPeriod
  Threshold <- MCThreshold
  CheckPeriod <- MCCheckPeriod
  HardwareTimeout <- MCHardwareTimeout
  SoundTime <- MCSoundTime
  MaxLate = 1
  MayHang <- MCMayHang
INVARIANTS TypeOK StallIsBounded StarvingHasCause
