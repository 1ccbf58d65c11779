SPECIFICATION SysSpec
CONSTANTS
  Users = {anna, boris}
  Passwords = {right}
  NoPassword = NoPassword
  anna = anna
  boris = boris
  right = right
  Words <- MCWords
  Listeners = {s2}
  Texts <- MCTexts
  NoText = NoText
  NoUser = NoUser
  Sessions = {s1, s2}
  MaxSends = 3
  WireCap = 1
  InitialAccounts <- MCInitialAccounts
  Requests <- MCRequests
CHECK_DEADLOCK FALSE
CONSTRAINTS SomebodyStays ListenersLast
ACTION_CONSTRAINT MCUser
INVARIANTS SysTypeOK OnlyUsersAreServed ClientIsAuthenticated HandlersSeeTheRoom
