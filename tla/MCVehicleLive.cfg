SPECIFICATION FairSpec
CONSTANTS
  CanTimeout <- MCCanTimeout
  BseTimeout <- MCBseTimeout
  MaxPreempted <- MCMaxPreempted
  Pedals <- LivePedals
  BrakeReadings <- LiveBrakeReadings
  Incoming <- LiveIncoming
PROPERTIES LastingSensorFault LastingSilence NoRequestStops StartIsAnswered FaultsHeal
