-------------------------- MODULE UsersRepository --------------------------
(***************************************************************************)
(* The first half of main of src/tyfirc-server: a walk through all         *)
(* operations of DbUsersRepository on the table "users" of the database,   *)
(* before the server is set up.  Nothing is caught, and the table outlives *)
(* the process.                                                            *)
(***************************************************************************)
EXTENDS Naturals

CONSTANTS
  Ids,           \* values of userid
  Names,         \* values of username
  InitialUsers   \* tables before the first start: userid to username

WantedId == 3
FirstName == "username1449"
SecondName == "username1450"

(* A userid of 0 is that of a row that is not in the table. *)
ASSUME RepositoryAssumption ==
  /\ WantedId \in Ids /\ 0 \notin Ids
  /\ {FirstName, SecondName} \subseteq Names
  /\ \A t \in InitialUsers : DOMAIN t \subseteq Ids /\ t \in [DOMAIN t -> Names]

VARIABLES
  stage,   \* what main does next
  users,   \* the table
  userid,  \* u.userid
  before   \* history: the table before the first start

repoVars == <<stage, users, userid, before>>

Stages == {"off", "read", "insert", "update", "delete", "setup", "serve"}

RepoInit ==
  /\ stage = "off"
  /\ users \in InitialUsers /\ before = users
  /\ userid = 0

(* username is UNIQUE. *)
Taken(name, id) == \E other \in DOMAIN users \ {id} : users[other] = name

(* The constructor. *)
Connect ==
  /\ stage = "off" /\ stage' = "read"
  /\ UNCHANGED <<users, userid, before>>

(* ReadById, and ReadWhere, which reads, too.  Without such a row ReadById *)
(* throws, whatever hasData() says.                                        *)
ReadById ==
  /\ stage = "read" /\ WantedId \in DOMAIN users
  /\ stage' = "insert"
  /\ UNCHANGED <<users, userid, before>>

With(table, id, name) ==
  [other \in DOMAIN table \cup {id} |->
     IF other = id THEN name ELSE table[other]]

(* The database gives a row with userid 0 a new one, @@identity. *)
FirstRow(id) == WantedId                                            \* mutant
Identity(id) == id
Insert ==
  /\ stage = "insert" /\ ~Taken(FirstName, 0)
  /\ \E id \in Ids \ DOMAIN users :
       /\ users' = With(users, id, FirstName)
       /\ userid' = Identity(id)
  /\ stage' = "update"
  /\ UNCHANGED before

Update ==
  /\ stage = "update" /\ ~Taken(SecondName, userid)
  /\ users' = [users EXCEPT ![userid] = SecondName]
  /\ stage' = "delete"
  /\ UNCHANGED <<userid, before>>

Without(table, id) == [other \in DOMAIN table \ {id} |-> table[other]]
AllBut(table, id) == table                                          \* mutant
Deleted(table, id) == Without(table, id)
Delete ==
  /\ stage = "delete"
  /\ users' = Deleted(users, userid)
  /\ stage' = "setup"
  /\ UNCHANGED <<userid, before>>

(* A statement throws, for a row or a name or a lost connection, or the    *)
(* process is killed.                                                      *)
Abort ==
  /\ stage # "off" /\ stage' = "off"
  /\ userid' = 0
  /\ UNCHANGED <<users, before>>

RepoNext == Connect \/ ReadById \/ Insert \/ Update \/ Delete

-----------------------------------------------------------------------------
(* Properties *)

(* The rows that were there belong to somebody else: no start changes or   *)
(* deletes one, whatever earlier starts left behind.                       *)
OthersUntouched ==
  \A id \in DOMAIN before : id \in DOMAIN users /\ users[id] = before[id]

(* A server that serves has left nothing in the table, and neither has any *)
(* start before it: after a start that was cut off between Insert and      *)
(* Delete there is no way past Insert or Update any more.                  *)
ServesCleanTable == stage \in {"setup", "serve"} => users = before

=============================================================================
