SPECIFICATION SocketsSpec
CONSTANTS
  bufSize = 4
  Lengths <- MCLengths
  MaxMessages = 2
  Table <- MCTable
  MaxFaults = 1
INVARIANTS
  MessagesIntact
  NeverWaitsForMore
  HandlesAreSockets
PROPERTIES
  AllArrive
  GetsThrough
