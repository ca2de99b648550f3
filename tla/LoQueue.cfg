SPECIFICATION FairSpec
CHECK_DEADLOCK FALSE
CONSTANTS
  MessageCell = {m1}
  BundleCell = {b1, b2, b3}
  NoPath = NoPath
  NULL = NULL
  ANY = ANY
  Host = Host
  Foreign = Foreign
  Args <- MCArgs
  MsgPath <- MCMsgPath
  Times <- MCTimes
  ForeignPacket <- MCForeignPacket
  LO_MAX_MSG_SIZE = 64
  MaxElements = 3
  MaxNow = 5
  Alphabet <- MCAlphabet
  MaxText = 3
  Parts <- MCParts
  MaxParts = 3
  Alternatives <- MCAlternatives
  TypeLists <- MCTypeLists
  MaxPacket = 3
  Least = 8
  StreamMax = 64
INVARIANTS HeapInv PacketInv HandledInv DispatchExact
PROPERTIES ImplementsQueue Delivered
