SPECIFICATION LifeSpec
CONSTANTS
  Users <- MCUsers
  Passwords <- MCPasswords
  NoPassword = NoPassword
  Letters = {97, 98}
  InitialFiles <- MCInitialFiles
  Ids = {1, 2, 3, 4}
  Names = {"anna", "boris", "username1449", "username1450"}
  InitialUsers <- MCInitialUsers
INVARIANTS TypeOK FileHoldsAccounts NothingToSave
  OthersUntouched ServesCleanTable
PROPERTIES AccountsSurvive
