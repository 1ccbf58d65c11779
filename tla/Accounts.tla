------------------------------ MODULE Accounts ------------------------------
(***************************************************************************)
(* The in-memory account table of FileAuthManager (auth_info_) and its two *)
(* operations, Login and Register, as operators on the table.  A table     *)
(* maps every user name to its password, or to NoPassword when the name is *)
(* not a key of the C++ map.                                               *)
(***************************************************************************)

CONSTANTS
  Users,        \* user names
  Passwords,    \* passwords
  NoPassword    \* stands for "this name is not a key of auth_info_"

ASSUME NoPasswordAssumption == NoPassword \notin Passwords

Tables == [Users -> Passwords \cup {NoPassword}]

\* auth_info_.at(u) did not throw.
HasAccount(table, u) == table[u] # NoPassword

LoginUnknown(table, u, p) == HasAccount(table, u) => table[u] = p  \* mutant
\* Login: at(u) throws, or the stored password differs: false.
LoginOk(table, u, p) == HasAccount(table, u) /\ table[u] = p

RegisterAlways(table, u) == TRUE                                   \* mutant
\* Register: false when the name is already a key.
RegisterOk(table, u) == ~HasAccount(table, u)

\* What Register does to the table when it returns true.
WithAccount(table, u, p) == [table EXCEPT ![u] = p]

=============================================================================
