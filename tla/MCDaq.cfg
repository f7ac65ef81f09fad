SPECIFICATION FairSpec
CONSTANTS
  Workers = {w1, w2}
  Records <- MCRecords
  MaxPackets = 4
  SocketSize = 2
  ChannelSize = 2
  BatchSize = 2
  MaxFailures = 2
INVARIANTS TypeOK WrittenOnce OutageIsBounded
PROPERTIES NothingVanishes StorePromise Drains
