SPECIFICATION FairSpec
CONSTANTS
  Users = {anna, boris}
  Passwords = {right, wrong}
  NoPassword = NoPassword
  anna = anna
  boris = boris
  right = right
  wrong = wrong
  hello = hello
  Texts = {hello}
  NoUser = NoUser
  Sessions = {s1}
  MaxSends = 2
  WireCap = 1
  InitialAccounts <- MCInitialAccounts
  Requests <- RetryRequests
CHECK_DEADLOCK FALSE
PROPERTY NextAttemptIsRead
