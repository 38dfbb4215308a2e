SPECIFICATION FairSpec
CONSTANTS
  Hosts = {h1}
  Engines = {ovpn}
  Ports = {1}
  MaxGen = 3
  OnlySelfTunnelled = FALSE
  None = None
CHECK_DEADLOCK FALSE
INVARIANTS TypeOK PacketPathOpen NoOrphanedTun PacketPathCatchesUp SelfInsideWithEngine DnsStageAsConnected
PROPERTIES NeverMovesBack ImplementsPacketPath HandoverHoldEnds AbandonedPumpsStop
