SPECIFICATION Spec
CONSTANTS
  l1 = l1
  r1 = r1
  r2 = r2
  r3 = r3
  Lines = {l1}
  Forms <- MCForms
  Docs <- MCDocs
  Posts <- MCPosts
  Files <- MCFiles
  Slots = {w1, w2}
  Requests = {q1}
  Received <- MCReceived
  NoRef = NoRef
  Nothing = Nothing
  MaxMoves = 4
INVARIANTS
  AllOrNothing
  WithinOrdered
  ReceivedFromReceipts
CHECK_DEADLOCK FALSE
