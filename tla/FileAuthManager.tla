-------------------------- MODULE FileAuthManager --------------------------
(***************************************************************************)
(* FileAuthManager of src/tyfirc-server over the life of a server: Setup   *)
(* reads the file of accounts, Register changes the table in memory, the   *)
(* destructor writes it over the file.  The file is a sequence of          *)
(* characters: whether what is written is read back depends on lengths and *)
(* on where lines end.                                                     *)
(*                                                                         *)
(* Names and passwords are what IrcClientApp lets through: no white space. *)
(***************************************************************************)
EXTENDS Misc, Accounts

CONSTANTS
  Letters,       \* characters of names and passwords
  InitialFiles   \* files somebody wrote for the first start

ASSUME CharactersAssumption ==
  /\ Letters \subseteq Nat \ {LF, Space}
  /\ Users \subseteq Seq(Letters) /\ Passwords \subseteq Seq(Letters)
  /\ IsFiniteSet(Users)

(* A line somebody wrote: a name, a space and a password, or no space and  *)
(* what stands there is both.                                              *)
IsRow(line, u, p) == line = u \o <<Space>> \o p \/ (line = u /\ p = u)

(* No name has two lines. *)
ASSUME FilesAssumption ==
  \A text \in InitialFiles :
    /\ text \in Seq(Letters \cup {LF, Space})
    /\ \E names \in [DOMAIN Split(text, LF) -> Users] :
         /\ \A i, j \in DOMAIN names : names[i] = names[j] => i = j
         /\ \A i \in DOMAIN names : \E p \in Passwords :
              IsRow(Split(text, LF)[i], names[i], p)

NoAccounts == [u \in Users |-> NoPassword]

-----------------------------------------------------------------------------
(* The format of the file *)

Spaces(line) == {i \in DOMAIN line : line[i] = Space}

(* MapAuthInfoStr throws at a line with two spaces. *)
Readable(text) ==
  \A i \in DOMAIN Split(text, LF) : Cardinality(Spaces(Split(text, LF)[i])) <= 1

(* A line without a space is name and password in one: find returns npos,  *)
(* and npos + 1 is 0.                                                      *)
SpaceIndex(line) == Find(line, Space)

NameOf(line) ==
  IF Spaces(line) = {} THEN line ELSE SubSeq(line, 1, SpaceIndex(line) - 1)

PasswordAfter(line) == SubSeq(line, SpaceIndex(line), Len(line))    \* mutant
PasswordOf(line) == SubSeq(line, SpaceIndex(line) + 1, Len(line))

MapAuthInfoStr(text) ==
  LET add(table, line) == WithAccount(table, NameOf(line), PasswordOf(line))
  IN  FoldLeft(add, NoAccounts, Split(text, LF))

(* The order of std::map. *)
Before(u, v) ==
  \/ IsStrictPrefix(u, v)
  \/ \E i \in 1..Len(u) : /\ i <= Len(v) /\ u[i] < v[i]
                          /\ \A j \in 1 .. i - 1 : u[j] = v[j]

LineWithoutEnd(table, u) == u \o <<Space>> \o table[u]              \* mutant
Line(table, u) == u \o <<Space>> \o table[u] \o <<LF>>

AuthInfoStr(table) ==
  LET names == Keys({u \in Users : HasAccount(table, u)}, Before)
  IN  FlattenSeq([i \in DOMAIN names |-> Line(table, names[i])])

(* fstream opens the file without truncating it. *)
Overwritten(old, new) == new \o SubSeq(old, Len(new) + 1, Len(old))

-----------------------------------------------------------------------------
VARIABLES
  running,    \* is there a FileAuthManager
  authInfo,   \* auth_info_
  outdated,   \* is_file_outdated_
  file,       \* the file of accounts
  kept        \* history: the accounts at the last save

vars == <<running, authInfo, outdated, file, kept>>

TypeOK ==
  /\ running \in BOOLEAN
  /\ authInfo \in Tables
  /\ outdated \in BOOLEAN
  /\ file \in Seq(Letters \cup {LF, Space})
  /\ kept \in Tables

Init ==
  /\ running = FALSE
  /\ authInfo = NoAccounts
  /\ outdated = FALSE
  /\ file \in InitialFiles
  /\ kept = MapAuthInfoStr(file)

(* Setup.  If a line cannot be read, it throws and main ends. *)
Setup ==
  /\ ~running /\ Readable(file)
  /\ running' = TRUE
  /\ authInfo' = MapAuthInfoStr(file)
  /\ UNCHANGED <<outdated, file, kept>>

(* Register; a name that is taken changes nothing. *)
OutdatedNot == UNCHANGED outdated                                   \* mutant
Outdated == outdated' = TRUE
Register(u, p) ==
  /\ running /\ RegisterOk(authInfo, u)
  /\ authInfo' = WithAccount(authInfo, u, p)
  /\ Outdated
  /\ UNCHANGED <<running, file, kept>>

Gone ==
  /\ running' = FALSE
  /\ authInfo' = NoAccounts
  /\ outdated' = FALSE

(* The destructor. *)
Save ==
  /\ running /\ outdated
  /\ file' = Overwritten(file, AuthInfoStr(authInfo))
  /\ kept' = authInfo
  /\ Gone

(* The destructor with nothing to save. *)
Close ==
  /\ running /\ ~outdated
  /\ Gone
  /\ UNCHANGED <<file, kept>>

(* The process ends without the destructor, as after an exception that     *)
(* nobody catches, or the destructor cannot open the file.                 *)
Crash ==
  /\ running
  /\ Gone
  /\ UNCHANGED <<file, kept>>

Next ==
  \/ Setup \/ Save \/ Close \/ Crash
  \/ \E u \in Users, p \in Passwords : Register(u, p)

Spec == Init /\ [][Next]_vars

-----------------------------------------------------------------------------
(* Properties *)

(* "On destructor overwrites original file with local info": the file that *)
(* is left, old content beyond the new one included, can be read by Setup  *)
(* and gives the accounts of the last save.                                *)
FileHoldsAccounts == Readable(file) /\ MapAuthInfoStr(file) = kept

(* "should file be overwritten?" (is_file_outdated_): a destructor that    *)
(* writes nothing loses nothing, however often the server was restarted.   *)
NothingToSave == running /\ ~outdated => authInfo = kept

(* An account that was saved once keeps its password over every restart,   *)
(* whoever registers what.                                                 *)
AccountsSurvive ==
  [][\A u \in Users : HasAccount(kept, u) => kept'[u] = kept[u]]_vars

=============================================================================
