SPECIFICATION FairSpec
CONSTANTS
  FifoSize = 2
  Frame <- MCFrame
  Senders <- MCSenders
  Pedals <- MCPedals
  TorqueMap <- MCTorqueMap
INVARIANTS TypeOK RecordedAsSent HeardAsMeant
PROPERTIES DeratedForEach HotInverterDerates
