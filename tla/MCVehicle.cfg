SPECIFICATION Spec
CONSTANTS
  CanTimeout <- MCCanTimeout
  BseTimeout <- MCBseTimeout
  MaxPreempted <- MCMaxPreempted
  Pedals <- AllPedals
  BrakeReadings <- AllBrakeReadings
  Incoming <- AllIncoming
INVARIANTS TypeOK OneLateCommand SilentWhileSounding
