SPECIFICATION SysSpec
CONSTANTS
  Users = {anna, boris}
  Passwords = {right, wrong}
  NoPassword = NoPassword
  anna = anna
  boris = boris
  right = right
  wrong = wrong
  hello = hello
  Texts = {hello}
  NoUser = NoUser
  Sessions = {s1, s2}
  MaxSends = 2
  WireCap = 1
  InitialAccounts <- MCInitialAccounts
  Requests <- ChatRequests
  FirstStates = {"NotConnected", "LoggedIn"}
  Listeners = {}
CHECK_DEADLOCK FALSE
SYMMETRY SessionSymmetry
INVARIANTS FalseMeansRefused
