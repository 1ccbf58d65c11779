SPECIFICATION FairSpec
CONSTANTS
  Users = {anna, boris}
  Passwords = {right, wrong}
  NoPassword = NoPassword
  anna = anna
  boris = boris
  right = right
  wrong = wrong
  hello = hello
  Texts = {hello}
  NoText = NoText
  NoUser = NoUser
  Sessions = {s1, s2}
  MaxSends = 2
  InitialAccounts <- MCInitialAccounts
  Requests <- OddRequests
CHECK_DEADLOCK FALSE
ACTION_CONSTRAINT FirstAndLast
INVARIANTS TypeOK ServedInOrder StreamHasOneWriter IInv
PROPERTIES BacklogIsServed
