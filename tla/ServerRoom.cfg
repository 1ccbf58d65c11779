SPECIFICATION Spec
CONSTANTS
  Users = {anna, boris}
  Passwords = {right, wrong}
  NoPassword = NoPassword
  anna = anna
  boris = boris
  right = right
  wrong = wrong
  hello = hello
  Texts <- OwnTexts
  NoUser = NoUser
  Sessions = {s1, s2}
  MaxSends = 2
  WireCap = 1
  InitialAccounts <- MCInitialAccounts
  Requests <- MixedRequests
CHECK_DEADLOCK FALSE
ACTION_CONSTRAINT OwnWords
SYMMETRY SessionSymmetry
INVARIANTS TypeOK RoomIsConnected WriterRuns QueueIsWindow WireIsWindow
           OneRegistrant AuthorsHaveAccounts IInv
PROPERTIES ImplementsRoom
