SPECIFICATION TrafficSpec
CONSTANTS
  r1 = r1
  r2 = r2
  r3 = r3
  Request <- MCRequest
  Piece <- MCPiece
  filter_request <- MCFilter
  MaxChain = 2
  a1 = a1
  local = local
  Packets <- MCPackets
  Addresses = {a1}
  Ports = {3, 7}
  MaxPackets = 3
  MaxLives = 2
CHECK_DEADLOCK FALSE
INVARIANTS CountersAddUp PartsNotOlder LatestPageIsOwn
  AttributesOfPacket AddressesOfPacket RttOncePerLife
PROPERTY LostRttStaysLost
