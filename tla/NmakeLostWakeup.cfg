SPECIFICATION Spec
CONSTANTS
  Users = {anna, boris}
  Passwords = {right, wrong}
  NoPassword = NoPassword
  anna = anna
  boris = boris
  right = right
  wrong = wrong
  hello = hello
  Texts = {hello}
  NoText = NoText
  NoUser = NoUser
  Sessions = {s1, s2}
  MaxSends = 2
  InitialAccounts <- MCInitialAccounts
  Requests <- ChatRequests
CHECK_DEADLOCK FALSE
SYMMETRY SessionSymmetry
INVARIANTS WriterIsNotified
