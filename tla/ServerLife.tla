----------------------------- MODULE ServerLife -----------------------------
(***************************************************************************)
(* main of src/tyfirc-server, over starts, crashes and restarts: the table *)
(* of UsersRepository first, then the account file of FileAuthManager,     *)
(* then the server, which is only the registrations here.                  *)
(***************************************************************************)
EXTENDS FileAuthManager, UsersRepository

LifeInit == Init /\ RepoInit

StartUp == RepoNext /\ UNCHANGED vars

(* Setup and Run. *)
SetUp ==
  /\ stage = "setup" /\ stage' = "serve"
  /\ Setup
  /\ UNCHANGED <<users, userid, before>>

Serve ==
  /\ \E u \in Users, p \in Passwords : Register(u, p)
  /\ UNCHANGED repoVars

(* The end of a server, with or without the destructor. *)
Stop == stage = "serve" /\ Abort /\ (Save \/ Close \/ Crash)

(* The end of a start: the file of accounts is not touched. *)
StartFails == stage # "serve" /\ Abort /\ UNCHANGED vars

LifeNext == StartUp \/ SetUp \/ Serve \/ Stop \/ StartFails

LifeSpec == LifeInit /\ [][LifeNext]_<<vars, repoVars>>

=============================================================================
