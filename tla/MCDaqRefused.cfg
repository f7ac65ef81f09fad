SPECIFICATION Spec
CONSTANTS
  Workers = {w1, w2}
  Records <- MCRecords
  MaxPackets = 3
  SocketSize = 2
  ChannelSize = 2
  BatchSize = 2
  MaxFailures = 2
PROPERTIES CcmPacketIsRead
