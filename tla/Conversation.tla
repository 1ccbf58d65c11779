---------------------------- MODULE Conversation ----------------------------
(***************************************************************************)
(* One message on its way from what a user typed to what the handler of a  *)
(* client gets, through all conversions of ScMessage: client, session,     *)
(* client; or client and session, for a name and a password.               *)
(* Order, losses and errors of connections are the matter of ChatSystem.   *)
(***************************************************************************)
EXTENDS ScMessage

CONSTANTS
  Names,     \* user names
  Passwords, \* passwords
  Bodies,    \* texts that IrcClientApp::WriteMessage lets through
  Instants   \* times, in half seconds

(* IrcClientApp rejects names and passwords with white space, and texts    *)
(* with a US, but lets a US in names and passwords through.  That nobody   *)
(* types a NUL is an assumption.                                           *)
ASSUME TextAssumption ==
  /\ Names \cup Passwords \cup Bodies \subseteq Seq(Nat)
  /\ \A t \in Names \cup Passwords : ToSet(t) \cap {NUL, LF, Space} = {}
  /\ \A t \in Bodies : ToSet(t) \cap {NUL, US} = {}
  /\ Instants \subseteq Nat /\ Summer \subseteq Instants

Nothing == [type |-> "Nothing"]

VARIABLES
  toServer,  \* what is written on the way to the session
  toClient,  \* what is written on the way back
  said,      \* history: what the user typed, later with the server's time
  heard      \* what a program at the end of the way made of it

talkVars == <<toServer, toClient, said, heard>>

TalkInit ==
  /\ toServer = <<>> /\ toClient = <<>>
  /\ said = Nothing /\ heard = Nothing

(* IrcClientApp::WriteMessage. *)
WriteMessage(user, time, text) ==
  LET m == [username |-> user, time |-> time, text |-> text]
  IN  /\ said = Nothing
      /\ toServer' = Sent(GetMessageScMessage(m))
      /\ said' = m
      /\ UNCHANGED <<toClient, heard>>

(* IrcClientApp::Login and Register. *)
Auth(type, user, password) ==
  /\ said = Nothing
  /\ toServer' = Sent(GetAuthScMessage(type, user, password))
  /\ said' = [type |-> type, username |-> user, password |-> password]
  /\ UNCHANGED <<toClient, heard>>

(* What the session reads. *)
Request == Received(toServer)
IsAuthRequest ==
  /\ Request # Invalid /\ Request.type \in {LOGIN, REGISTER}
  /\ {Username, Password} \subseteq DOMAIN Request.properties
HasMessage(msg) ==
  /\ msg # Invalid /\ msg.type = MESSAGE
  /\ MessageProperty \in DOMAIN msg.properties
  /\ MessageFromStr(msg.properties[MessageProperty]) # Invalid
MessageIn(msg) == MessageFromStr(msg.properties[MessageProperty])

(* HandleAuthScMessage: what goes to Login or Register. *)
HandleAuth ==
  /\ toServer # <<>> /\ IsAuthRequest
  /\ heard' = [type |-> Request.type,
               username |-> Request.properties[Username],
               password |-> Request.properties[Password]]
  /\ toServer' = <<>>
  /\ UNCHANGED <<toClient, said>>

(* HandleScMessage: the name of the session and the server's clock. *)
HandleMessage(now) ==
  /\ toServer # <<>> /\ HasMessage(Request)
  /\ LET relayed == [MessageIn(Request) EXCEPT !.username = said.username,
                                               !.time = now]
     IN  toClient' = Sent(GetMessageScMessage(relayed))
  /\ toServer' = <<>>
  /\ said' = [said EXCEPT !.time = now]
  /\ UNCHANGED heard

(* HandleScMessage and SyncWriteMessage of the older server: as it came. *)
RelayMessage ==
  /\ toServer # <<>> /\ HasMessage(Request)
  /\ toClient' = Sent(GetMessageScMessage(MessageIn(Request)))
  /\ toServer' = <<>>
  /\ said' = [said EXCEPT !.time = TimeOf(DateOf(@))]
  /\ UNCHANGED heard

(* A message the session cannot read. *)
HandleInvalid ==
  /\ toServer # <<>> /\ ~IsAuthRequest /\ ~HasMessage(Request)
  /\ toServer' = <<>>
  /\ heard' = Invalid
  /\ UNCHANGED <<toClient, said>>

(* ChatRw::StartRead: what the handler gets; discard_signal_ says Invalid. *)
Handle ==
  /\ toClient # <<>>
  /\ LET msg == Received(toClient)
     IN  heard' = IF HasMessage(msg) THEN MessageIn(msg) ELSE Invalid
  /\ toClient' = <<>>
  /\ UNCHANGED <<toServer, said>>

(* Nobody can log in with a US in the name (CredentialsArrive). *)
LoginNames == {u \in Names : US \notin ToSet(u)}

TalkNext ==
  \/ \E u \in LoginNames, time \in Instants, text \in Bodies :
        WriteMessage(u, time, text)
  \/ \E type \in {LOGIN, REGISTER}, u \in Names, p \in Passwords :
        Auth(type, u, p)
  \/ HandleAuth \/ RelayMessage \/ Handle \/ HandleInvalid
  \/ \E now \in Instants : HandleMessage(now)

TalkSpec == TalkInit /\ [][TalkNext]_talkVars

-----------------------------------------------------------------------------
(* Properties *)

IsAuth(m) == "password" \in DOMAIN m

(* What the server reads of a login or a registration is what the user     *)
(* typed, whatever colons it has and even if it is empty, or else it is no *)
(* message at all, which only happens if there is a US in it: it is never  *)
(* taken for another name or password.                                     *)
CredentialsArrive ==
  IsAuth(said) =>
    \/ heard \in {Nothing, said}
    \/ heard = Invalid /\ US \in ToSet(said.username \o said.password)

(* Over two connections and four conversions a text arrives as it was      *)
(* typed, with its line feeds, colons and spaces and with nothing at all,  *)
(* under the name of the session and the time of the server, which the     *)
(* conversions change once, and twice if it is the client's, in the older  *)
(* server ("Text can contain \n symbols", "you can use colons in your      *)
(* value").                                                                *)
TextArrives ==
  ~IsAuth(said) /\ heard # Nothing =>
    heard = [username |-> UserOf(said),
             time     |-> TimeOf(DateOf(said.time)),
             text     |-> said.text]

=============================================================================
