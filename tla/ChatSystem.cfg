SPECIFICATION SysSpec
CONSTANTS
  Users = {anna, boris}
  Passwords = {right, wrong}
  NoPassword = NoPassword
  anna = anna
  boris = boris
  right = right
  wrong = wrong
  hello = hello
  Texts <- OwnTexts
  NoUser = NoUser
  Sessions = {s1, s2}
  MaxSends = 2
  WireCap = 1
  InitialAccounts <- MCInitialAccounts
  Requests <- OwnRequests
  FirstStates = {"NotConnected", "LoggedIn"}
  Listeners = {}
CHECK_DEADLOCK FALSE
ACTION_CONSTRAINT OwnWords
CONSTRAINT SomebodyStays
SYMMETRY SessionSymmetry
INVARIANTS SysTypeOK ClientIsAuthenticated HandlersSeeTheRoom
