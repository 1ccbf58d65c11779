SPECIFICATION MCSpec
CONSTANTS
  Messages <- MCMessages
  SizeMod = 256
  MaxGiven = 4
  MaxPack = 3
  Names <- MCNames
  Passwords <- MCPasswords
  Bodies <- MCBodies
  Instants = {1, 7, 7206}
  Summer = {7, 7206}
INVARIANTS TypeOK SortedByDate NothingLost BrokenOnlyEmpty
  CredentialsArrive TextArrives
CHECK_DEADLOCK FALSE
