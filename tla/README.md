# A verification project for tyfirc

tyfirc is a chat: clients connect over TLS, register or log in, and everything
one of them says is sent to all. This directory holds TLA+ models of it, the
TLC configurations that check them and TLAPS proofs about them. Paths are
relative to the repository.

Run, in this directory:

    tlc -config ServerRoom.cfg MCChatServer.tla     # any run of the table below
    tlapm ChatSystemProofs.tla                      # the proofs of a module

The proofs are in `ChatServerProofs`, `ChatWireProofs`, `ChatSystemProofs`,
`NmakeServerProofs`, `NmakeSystemProofs`, `ServerLifeProofs`, `MessagesProofs` and
`SeqLemmas`.

## Inventory

The repository holds two servers. `tyfirc-server` is the current one;
`nmake/tyfirc-server` is an older one with another way to write messages.
`nmake/tyfirc` and `nmake/tyfirc-client` are the same code as `tyfirc` and
`tyfirc-client`, but for an include and for `con_state_`, which only the nmake
client initialises.

| Component | State | Operations | Interacts with |
| --- | --- | --- | --- |
| `IrcServerApp` (server) | acceptor, `chat_room_`, `auth_manager_` | `StartAccept`, `HandleAccept`, `Run` | creates a `Session` for each connection, adds it to the room, runs all handlers on one thread |
| `ChatRoom` | `sessions_` | `AddSession`, `RemoveSession`, `DeliverScMessage` | calls `Session::WriteScMessage` on each session; called by `Session` and `IrcServerApp` |
| `Session` | `con_state_`, `username_`, `read_buffer_`, `msg_queue_`, TLS stream | `Start`, `ReadLoginScMessage`, `HandleAuthScMessage`, `ReadScMessage`, `HandleScMessage`, `WriteScMessage`, `WriteScMessageHelper` | client over TLS, `IAuthManager`, `ChatRoom` |
| `FileAuthManager` | `auth_info_`, `is_file_outdated_`, the password file | `Setup`, `Login`, `Register`, destructor | called by `Session` |
| nmake `IrcServerApp` | `sessions_`, `msg_queue_`, condition variable | `HandleAccept`, `AddMessage`, `StartWrite` (a second thread) | `SessionList`, `Session::SyncWriteMessage`, `on_message_` callback |
| nmake `SessionList` | list of sessions and their callbacks, mutex | `AddSession`, `CleanSession`, unlocked iteration | both threads |
| `ChatRw` (client) | `con_state_`, `is_read_`, TLS stream | `Connect`, `Login`, `Register`, `WriteMessage`, `StartRead`, `StopRead` | server; handlers of received messages |
| `IrcClientApp` | a `ChatRw`, the reading thread | wraps `ChatRw` | two threads share one `ChatRw` |
| `MessagePack` | messages sorted by time | constructor, `Insert`, `Delete`, `operator[]` | none |
| `ScMessage`, `Message` | message type, properties; time, author, text | `Serialize`, `Deserialize` | all of the above |
| `DbUsersRepository` | table `users` | `ReadById`, `ReadWhere`, `Insert`, `Update`, `Delete` | `main` of the server, at start-up |

What is hard here, and what must hold:

* Server: the handlers of all sessions interleave. A session has two chains of
  asynchronous operations, one that reads requests and one that drains
  `msg_queue_`, which write to one TLS stream and fail independently. The room
  must give every member every message, once, in one order; the writer must
  neither stop nor run twice; nobody may speak without having authenticated.
* nmake server: two threads share the list of messages and the list of
  sessions, with locks around some of the accesses. Messages must reach all
  logged in sessions in order and the writer must not sleep while there is work.
* Account table: a name belongs to the one who registered it first, also over a
  restart.
* Client: a reading and a writing thread share the connection state; the
  answer to a login must be told apart from the messages of the room.
* `MessagePack`: sorted by time after any operation, nothing lost.
* Codec: what was serialized is what is deserialized.

`PROJECT.json` lists the hazards with their lines, and the components again.

## Plan

| Step | Modules | What |
| --- | --- | --- |
| 1, done | `Accounts`, `Protocol`, `ChatServer`, `TotalOrderRoom`, `ChatServerProofs` | the current server, the abstract room it implements, proofs of its safety |
| 2, done | `NmakeServer`, `NmakeServerProofs` | the older server: two threads, condition variable, unlocked lists; proofs of its safety |
| 3, done | `FileAuthManager` | life of the account table over saves, crashes and restarts, on top of `Accounts` |
| 4, done | `ChatClient` | `ChatRw` and `IrcClientApp` with their two threads |
| 5, done | `ChatSystem` | client and server together: the answer to a login among messages of the room |
| 6, done | `Misc`, `ScMessage`, `Conversation`, `MessagePack` | both text formats, what a text goes through from user to user; the collection of messages |
| 7, done | `UsersRepository`, `ServerLife` | start-up of the server against the table of users, together with `FileAuthManager` |
| 8, done | `NmakeSystem` | the same client with the older server |
| 9, done | `ChatWireProofs`, `ChatSystemProofs`, `NmakeSystemProofs`, `ServerLifeProofs` | the order on the wire, both systems from end to end, the table of users and the accounts |
| 10, done | `MessagesProofs` | the pack of messages, and what a text goes through, for texts of any length |
| 11, done | `ServerLifeProofs` | the file of accounts, for names and passwords of any length |

What is left to TLC is what TLAPS does not reach, liveness (`ServerLiveness`,
`ChatSystemLiveness`, `BacklogIsServed`).

## ChatServer

`ChatServer.tla` models `src/tyfirc-server`. One thread runs
`io_service::run()`, so each completion handler is one atomic action:

| Code | Action or operator |
| --- | --- |
| `IrcServerApp::StartAccept`, `HandleAccept` | `StartAccept`, `HandleAccept`, `HandleAcceptError` |
| `Session::Start`, completion of the handshake, `ReadLoginScMessage` | `HandshakeDone`, `ControlError` |
| `Session::HandleAuthScMessage` | `HandleLogin`, `HandleRegister`, `HandleFormatFailure`, `UncaughtException`, `ControlError` |
| completion of the answer, `ReadScMessage` | `AnswerDone`, `AnswerError` |
| `Session::HandleScMessage` | `HandleChatMessage`, `SkipChatMessage`, `UncaughtException`, `ControlError` |
| `ChatRoom::DeliverScMessage`, `Session::WriteScMessage` | `DeliverScMessage`, with `Recipients` and `NotWriting` |
| completion handler of `WriteScMessageHelper` | `QueueWriteDone` (with `WriteNext`), `QueueWriteError` |

`pc` is the outstanding operation of the control chain of a session, `queueOp`
and `answerOp` are the outstanding writes on its TLS stream; `log`, `joinedAt` and `delivered`
are history and change nothing; most other variables are fields of the classes. `Accounts.tla` has the account table that `Login` and `Register`
work on, `Protocol.tla` the messages and states that both servers use.

The data is abstract. Requests fall into the classes the handlers tell apart:
login, registration, message, a message whose body `Message::Deserialize`
rejects (`BADBODY`), another type (`OTHER`), and what makes `Deserialize` or
`GetProperty` throw out of the handler (`MALFORMED`). The time of a message is
left out. After an uncaught exception nothing happens any more (`alive`).

External: the TLS stream, the transport and the client. Boost's `ssl::stream`
lets one write send at a time. A write that starts meanwhile puts its bytes into
the TLS engine, waits, and then completes without sending them; the next write
takes them along. Its documentation forbids to have two writes outstanding; the
server does (the answer and the queue), so this matters. The model has the mildest
outcome: three overlapping writes, which the server can also reach, could
interleave TLS records, and this is not modelled. Messages fit into one TLS record, so a read
returns one message at a time. A write that starts during the handshake takes
its bytes when the handshake is done; by then the string they were in is gone,
so what is sent is the message or garbage, nondeterministically.

Assumed of the environment: the connection can be lost at any time and every
read, write or handshake may then fail, in any order. `CHECK_DEADLOCK` is off in
all runs of the server: it stops when every client has sent what the bounds
allow, when all sessions ended, or after an exception.

### Properties

* `RoomIsConnected`, `WriterRuns`, `QueueIsWindow`, `WireIsWindow`: the room,
  the writers and the order of messages, in the queues and on the wire.
* `ImplementsRoom`: `TotalOrderRoom` says what a chat room promises, in five
  variables and four actions. The refinement maps accepting to entering,
  `DeliverScMessage` to posting, the completion of a queued write to a delivery
  and every error branch to leaving. `owed` is mapped to what was delivered and
  what is queued.
* `OneRegistrant`, `AuthorsHaveAccounts`: authentication.
* `EveryMemberIsServed`, `AuthorIsAcknowledged`, `DroppedEnds`: liveness, under
  `FairSpec`. The first counts completed `async_write`s, whose bytes may still be in
  the TLS engine; the second asks for the bytes as well. The third is about a session
  whose queued write failed: its control chain goes on, and an answer that completes
  later makes it LoggedIn outside the room. It does not stay there.
  The fairness is per session: `run()` dispatches handlers of completed
  operations (`Dispatch`, `Writer`), the network carries bytes (`Transmit`) and
  clients keep reading, as `ChatRw::StartRead` does (`ClientReceive`). A read
  fails in the end on a connection on which a write has failed (`ReadFails`): both
  are on one socket. Nothing else is assumed of failures, of handshakes, of clients
  that send or of connections that stay up.

### Runs

| Run | Shows | Bounds |
| --- | --- | --- |
| `ServerRoom` | type correctness, the four properties of the room, authentication, the inductive invariant and the refinement, with all classes of requests | 2 sessions, 2 requests each, 1 frame in flight |
| `ServerLiveness` | liveness | 2 sessions, 2 requests each |
| `ServerRetry` | violation of `NextAttemptIsRead` | 1 session |

Two sessions are enough for one to speak while the other is in any state, and
sessions are symmetric; the proofs hold for any number. Two requests are a login
and a message, or two attempts at a login. The queue of a client then holds a
message behind the one being written, and an answer may be written in between. In
`ServerRoom` every message has words of its own (`OwnWords`), so that a message
that is lost, repeated or out of order is told from the right one. `WireCap` makes
a slow client block a write. With `MixedRequests`, two sessions can compete for
one free name, and what no handler expects can come at any time.

`ServerRetry` is a disagreement between a comment of the source and its code;
`PROJECT.json` quotes it under `findings`. Two more are in the model, at the
actions named, without a run of their own:

* `tyfirc-session.h:73` says that `con_state_` "must be set to LoggedIn ONLY after
  success message sent to client". `AnswerDone` sets it when the write of the
  answer completes, and a write that was started while the queue was being written
  completes with the answer still in the TLS engine (`Released`).
* `WriteScMessageHelper` gives `async_write` a buffer over a local string. For a
  message delivered during the handshake of a session, `HandshakeDone` takes the
  bytes when the string is gone; `WireIsWindow` limits the damage to the first
  message of that session.

### Proofs

`ChatServerProofs.tla` proves, for any number of sessions, users, passwords,
texts and requests, every safety property above but `WireIsWindow`, and the
refinement (`RoomImplemented`). Assumptions are `NoPasswordAssumption`,
`NoUserAssumption` and `ServerAssumption`, which only say what the constants
are.

The safety properties are not inductive. `IInv` adds what the handlers rely on
without checking it:

* `NotEntered`: a session that was not accepted is not in the room and its queue
  is empty; otherwise `HandleAccept` would put a session with old messages there.
* `WriterHasWork`: an outstanding queued write means a non-empty queue, also
  after the session left the room; its completion handler takes the front.
* `FlightInEngine`: a socket write carries frames that exist.
* `Authenticated`: only a session that was told it succeeded reads chat
  messages, and it has the name of an account; so what it says can be logged
  under a user's name, which type correctness needs.

There is one lemma per handler, `NextInv` puts them together, and the theorems
follow. `QueueIsWindow` rests on `WindowGrows`, `WindowPush` and `WindowMoves`,
which say what posting, queueing and delivering do to a window of the log. The
refinement has one lemma for each abstract step.

`SeqLemmas` has the facts about queues that both proof modules cite.

`ChatWireProofs.tla` proves `WireIsWindow` (`MessagesInOrder`). Which message of
the log a frame carries is found by counting the messages behind it
(`ChatsAfter`), back from the last one written (`Written`). So the proof is about
what each step does to these counts: an answer that is written changes none, a
message that is written adds one to all of them and is the next one of the log,
and what the client receives was behind nobody. `WireInv` adds to `IInv` when
there can be a connection (`Linked`), that a session in its handshake has written
nothing yet, nor one that left the room with its connection up (`Unserved`); the
property itself is `InOrder`, for one session. `Keeps` says which steps give a
client no message, for the proofs of `ChatSystem`.

Liveness is beyond TLAPS and model-checked only.

## NmakeServer

`NmakeServer.tla` models `src/nmake/tyfirc-server`. Here the handlers of the io
thread interleave with the steps of the writer thread, `StartWrite`:

| Code | Action or operator |
| --- | --- |
| `IrcServerApp::HandleAccept` | `AddSession` (`SessionList::AddSession`), then `Start` (`Session::Start`, `StartAccept`); `HandleAcceptError` |
| `Session::ReadLoginScMessage`, errors of handlers | `HandshakeDone`, `ControlError`, `EndSession` |
| `Session::HandleAuthScMessage` | `HandleLogin`, `HandleRegister`, `HandleFormatFailure`, `UncaughtException` |
| completion of the answer, `ReadScMessage` | `AnswerDone`; `AnswerError`, then `AnswerDropped` |
| `Session::HandleScMessage`, `IrcServerApp::AddMessage` | `HandleChatMessage` (`push_back`), then `NotifyWriter` (`notify_all`); `SkipChatMessage` |
| `StartWrite`: test of the queue, wait | `CheckQueue`, `FallAsleep`, `SpuriousWake` |
| `StartWrite`: walk through the sessions | `LookAtSession`, `EndPass`, `WriteDone`, `WriteThrows` |
| `SessionList::CleanSession` | `CleanSession` with `Erased` |

A handler that touches shared data twice is two actions, and the io thread does
nothing else in between (`HoldingStates`, `IoFree`). The writer reads
`con_state_` in one action and acts on it in the next. `curMsg` and `curSession`
are the iterators as positions; 0 is "no message yet" and `end()`. Where the
code reads the link to the next element, the position is computed then: a
session added after the iterator reached `end()` waits for the next pass.

Nothing but the change of the list of sessions is locked. The data races are
modelled with the outcomes this build has: the makefile compiles without
optimization, so each access is one load or store and sees a list before or
after an insertion. `Register` lacks a `return` where it adds an account; its
result is then nondeterministic.

External: the TLS stream and the client. Since the two threads never write to
one stream at the same time (`StreamHasOneWriter`), a write either completes or
fails; a blocking write of the writer thread may take any time. Reading one
`ssl::stream` in the io thread while the writer thread writes to it is not
allowed by Boost either; it is modelled as if it worked.

* `ServedInOrder`: the walk through the unlocked list skips nobody and serves
  nobody twice, message after message.
* `StreamHasOneWriter`: `con_state_` keeps the threads off each other's writes.
* `OnlyUsersAreServed`: nothing is written to somebody without an account.
* `BacklogIsServed` (liveness): a notification that finds the writer asleep gets
  the whole queue served, unless the writer is held up for ever (`HeldUp`) by the
  session it has come to, whose client neither logs in nor leaves.

| Run | Shows | Bounds |
| --- | --- | --- |
| `NmakeRoom` | `ServedInOrder`, `StreamHasOneWriter`, the inductive invariant and `BacklogIsServed`, with requests that no handler expects | 2 sessions, 2 requests each; who registers does so first, and what cannot be read comes last (`FirstAndLast`) |
| `NmakeLostWakeup` | violation of `WriterIsNotified` | 2 sessions, 2 requests each |
| `NmakeTornAccept` | violation of `LoggedInIsListed` | 2 sessions, 2 requests each |

`OnlyUsersAreServed` is checked by `NmakeSystem`, with the requests of real clients.

Two sessions with a message each are enough for a session to be removed in
front of one that still has messages to come, and for a message to arrive at
every point of the writer's loop. Fairness: both threads are scheduled, and
clients read, so that a synchronous write returns or fails. Spurious wake-ups
may happen and are not relied on. `BacklogIsServed` has a condition and an
exception. What `NmakeLostWakeup` finds is why the notification must find the writer
asleep. And the writer's loop neither advances past nor removes a session that is connected
and not logged in, although `msg_queue_` is for "sessions with logged in clients"
(`tyfirc-ircserverapp.h:58`): while that client does nothing, nobody is served.

`NmakeTornAccept` shows how the two steps of `HandleAccept`, which
`tyfirc-ircserverapp.cpp:56` calls atomic, come apart: a pass of the writer that
looks at the new session between them finds it NotConnected, and `CleanSession`
takes it out of the list, however late the writer thread comes to that. The client
logs in, but hears nothing and nobody hears it.

One more disagreement is in the model without a run, as it needs no more than one
step: a failed `boost::asio::write` throws `system_error`, which the handler for
`error_code` does not catch, so `WriteThrows` ends the program where
`tyfirc-ircserverapp.h:43` says that the server stops tracking the session.

`NmakeServerProofs.tla` proves the three safety properties and type correctness
for any number of sessions and requests, from `NoPasswordAssumption`,
`NoUserAssumption` and `NmakeAssumption`, again only about the constants. `IInv`
adds what the two threads rely
on: an object that was not accepted is untouched and a session is in the list
once (`NotAccepted`, `ListedOnce`), the iterator is at `end()` between passes
(`IteratorInPass`), a session that is LoggedIn is in the chat part of the
protocol and stays there or ends (`LoggedInReadsChat`), and has the name of an
account (`Authenticated`). `SessionStep` says what a handler of one session owes
to the invariant; `RemoveAtProperties` is what the removal of a session does to
the positions behind it.

## NmakeSystem

`NmakeSystem.tla` extends `NmakeServer` and puts a client of `ChatClient` at the
other end of every session, the one of `src/nmake/tyfirc-client`, which does
initialise `con_state_`. It adds one variable, `wire`, the frames that are written
to a client and not read.

| Code | Action |
| --- | --- |
| accepting and handshake, with `ChatRw::Connect` waiting for them | `Handshake`; `Connected` when it returns |
| `HandleAuthScMessage`, with the frame it writes | `Reply` |
| all other handlers of the io thread | `Control` |
| `StartWrite`, `SyncWriteMessage` | `Deliver` puts a message on the wire, `Writer` is the rest |
| `IrcClientApp::Login`, `Register`, `WriteMessage` | `Request`, `Failure` without connection |
| `ChatRw::Auth` and `StartRead`, `ReadScMessage` | `Receive`, `Reader` |
| `main` of the client | `User` |

This server relays a message as it came, so a text carries the name its client
puts in (`IrcClientApp::username_`). A session is not in the room before it is
logged in, so the first frame a client reads is an answer. Still `Auth` may not read
the one it waits for: `read_buffer_` is answered again after a failure
(`ReadUntil`), the client takes the first of these answers for the one to its next
request, and a later request may take a message of the room for its answer. Then
that message is lost to the handler (`missed`), and `name` need not be the name of
the session.

* `ClientIsAuthenticated`, `HandlersSeeTheRoom`: as for the current server, with
  `msg_queue_` for the log.
* `OnlyUsersAreServed` of `NmakeServer`.

| Run | Shows | Bounds |
| --- | --- | --- |
| `NmakeSystem` | type correctness and the three properties | 2 clients, 3 requests each, 1 frame on a wire |

Three requests are an attempt that fails, another that is answered with the old
answer, and a message. `s2` (`Listeners`) registers once, reads and stays, and is
behind the other in the list of sessions (`ListenersLast`), so that it is the one
a removal in front could skip; `s1` may do everything. `MCUser` bounds what users do
as `main` does: nobody writes before an attempt to log in. `SomebodyStays` ends a
behaviour when nothing can reach a client any more. There are 1.1 million states.

`NmakeSystemProofs.tla` proves `ClientIsAuthenticated`, `HandlersSeeTheRoom` and
type correctness for any number of clients and requests, from the assumptions on
constants only. A step of the system is one of `NmakeServer` or leaves it alone
(`SystemStep`), so `IInv` holds here too. `SysInv` adds, for every client
(`SessionInv`): a success on the wire was decided by the session (`Honest`), what
the client believes and what it waits for (`Believes`, `Waiting`), that what was
delivered are consecutive messages of the queue (`Numbered`), that what was
handled and missed is the beginning of it (`Heard`), and that the rest of it is the
end of the wire, behind the answers (`Pending`). The last one holds because
answers and messages do not mix here: no answer is written after a message.

## FileAuthManager, UsersRepository and ServerLife

`FileAuthManager.tla` models the life of the account file, on `Accounts` for the
table and `Misc` for text: `Setup` reads it,
`Register` changes the table in memory, the destructor writes it. The file is
a sequence of characters, because what survives depends on lengths: the
destructor opens the file without truncating it and writes over its start.

| Code | Action or operator |
| --- | --- |
| `Setup`, `MapAuthInfoStr`, `internal::Split` | `Setup` with `Readable`, `MapAuthInfoStr`, `Split`, `NameOf`, `PasswordOf` |
| `Register` | `Register` with `Outdated`; `RegisterOk` and `WithAccount` of `Accounts` |
| destructor | `Save` with `AuthInfoStr` (in the order of `std::map`) and `Overwritten`; `Close` |
| process ends without the destructor, or it cannot open the file | `Crash` |

`kept` is history: the accounts at the last save. Names and passwords have no
white space, as `IrcClientApp` demands; the server does not check it, and a name
with a space from another client would be saved and make the next `Setup` throw.
`Login` changes nothing and is left to `Accounts`.

* `FileHoldsAccounts`: the file that is left, old content behind the new
  included, is read back as the accounts of the last save.
* `NothingToSave`: a destructor that writes nothing loses nothing.
* `AccountsSurvive`: an account that was saved keeps its password for ever.

`UsersRepository.tla` models what `main` does before that: it reads row 3 of the
table of users, inserts a row, updates and deletes it (`ReadById`, `Insert`, `Update`,
`Delete`; `ReadAll` and `ReadWhere` only read). The database is external: rows
survive the process, names are unique, a new row gets an unused `userid`. Any
statement may throw, and any process end (`Abort`). `before` is history.
`ServerLife.tla` puts both together: `StartUp`, `SetUp`, `Serve`, `Stop`,
`StartFails`.

* `OthersUntouched`: no start touches a row that is not its own.
* `ServesCleanTable`: when the server serves, the table is as it was.

`ServesCleanTable` holds the hard way: a start that ends between `Insert` and
`Delete` leaves a row, and then each later start fails at `Insert`, or
at `Update` and from then on at `Insert`: the server never serves again until
somebody deletes the rows. And a table without row 3 keeps it from
starting at all, where `tyfirc-repository.h:74` says "If user is not found, default
DbUser is returned": that `DbUser` is made of null pointers, and a result without
rows that counts as data has no row to read from. Both throw, and `main`
catches nothing.

`ServerLifeProofs.tla` proves, for any tables, rows and names, the two properties of
the table (`RowsUntouched`, `CleanTableServed`): `RepoInv` says that only rows with
the two names of `main` can be left behind, and which of them the uniqueness of
names excludes once `Insert` and `Update` got through.

It proves the three properties of the accounts as well, for finitely many names and
passwords of any length without white space (`CharactersAssumption`) and for any files
for the first start whose lines have different names (`FilesAssumption`):
`AccountsTypeCorrect`, `FileIsReadBack`, `CloseLosesNothing`, `AccountsKept`.

* What is written is read back (`WrittenRead`). `Before` is a strict total order
  (`BeforeTransitive`, `BeforeTotal`), so that the keys of the `std::map` are each
  name with an account, once (`KeysSorted`, `SortedOnce`). `Split` finds the lines
  that were put one after the other (`SplitLines` in `SeqLemmas`), each gives its name
  and password back (`BodyRead`), and `MapAuthInfoStr` puts them into a table
  (`TableRead`, `FileRead`).
* What is written covers what was there. The file of a table is as long as the sum of
  its lines (`WrittenLength`), a file that somebody wrote is not longer
  than what is made of its accounts (`FileLength`: its last line may lack the end, a
  line may lack the space), and an account more makes it longer (`RegisterLonger`).
* `AccountsInv` joins the two. `FileHoldsAccounts` is not inductive: it needs that the
  file is not longer than the one of the last save, and that one not longer than the
  one of the table in memory. With `KeptInv`, between `Setup` and the destructor
  nobody who has an account in the file gets another password.

| Run | Shows | Bounds |
| --- | --- | --- |
| `ServerLife` | the properties of both | 4 names, 4 passwords, 5 files, 3 tables, 4 rows |

One name is empty and one a prefix of another, and passwords differ in length. The
files for the first start are empty, with and without a last line feed, out of
order, and with a line without a space. The tables have row 3 or not, or have it with a name that
`main` uses. The names are few enough to register all of them, so that the file
grows from every start to every table; four rows are two of others and the two
that starts can leave.

`FileHoldsAccounts` holds because names are unique and accounts are never
removed: the new content is never shorter than what it replaces. A
file that somebody wrote with a name in it twice breaks this (the rest of the
longer old content stays behind the new), and is left out of `InitialFiles`.
So is a write that is cut off in the middle. Note that in this program `Crash` is
the only end of a server: `run()` returns only by an exception, which `main` does
not catch, so whether destructors run then is up to the implementation.

## ChatClient and ChatSystem

`ChatClient.tla` models `ChatRw` with `IrcClientApp`, once for every client. A
call that waits for the server is two actions; `call` is the call in between.

| Code | Action |
| --- | --- |
| `Connect` | `Connect`, then `ConnectDone` or `ConnectFails` |
| `Login`, `Register`, `Auth` | `Auth`, then `AuthReturns` or `AuthThrows` |
| `WriteMessage` | `WriteMessage` |
| thread of `main.cpp`, `StartRead` | `SpawnReader`, then `StartRead`, then `Read` for every message or `ReadThrows` |
| `StopRead` | `StopRead` |

`con_state_` is not initialised by the constructor, so `con` starts with any of
`FirstStates`. `handled` and `missed` are history: what the handler of messages
was called with, and how many messages of the room it was not.

`ChatSystem.tla` extends `ChatServer` and puts a client at the other end of every
session. What `ChatServer` leaves to its environment (`ClientSend`,
`ClientReceive`, the time of the handshake) becomes one step with the action of
the client: `Request` is a write, `Receive` a read, `Failure` a call
without connection, `Connected` the return of `Connect`. The server's own actions
are used as they are.

Assumed of the user: one thread calls the `ChatRw`, and does not log in again
while the reader runs or after it succeeded. Reading and writing one
`ssl::stream` in two threads is not allowed by Boost; it is modelled as if it
worked. A `ChatRw` connects once: its socket does not connect again after a
failure, and `Connect` then returns false.

* `ClientIsAuthenticated`: a client that believes to be logged in is. `Auth`
  takes the first message that arrives for the answer, which may be a message of
  the room or, from then on, the answer to an earlier attempt; still nothing
  but the answer of an authenticated session makes it succeed.
* `HandlersSeeTheRoom`: end to end, over two queues, the TLS engine and
  the network, the handler of a client gets a gapless run of the room's messages.
* `FirstAuthReturns`, `MessageComesBack`: liveness, under `SysFairSpec`. The
  fairness of the server is that of `ChatServer`; a client that waits for a
  message takes it, and the reader thread runs. No call of the user is fair, and
  clients may leave, stop reading or never log in. Only the first attempt is
  certain to return: `ServerRetry` shows why others may take an old answer.

| Run | Shows | Bounds |
| --- | --- | --- |
| `ChatSystem` | type correctness, `ClientIsAuthenticated`, `HandlersSeeTheRoom` | 2 clients, 2 requests each, own words, `con_state_` NotConnected or LoggedIn at first |
| `ChatSystemLiveness` | `FirstAuthReturns`, `MessageComesBack` | 2 clients, 2 requests each; one of them logs in once, listens and stays |
| `ChatSystemLogin` | violation of `FalseMeansRefused` | 2 clients, 2 requests each |

In `ChatSystem`, `SomebodyStays` ends a behaviour when no client is connected or
can connect any more: nothing reaches a client after that. Two requests are a
login and a message, or two attempts to log in; two clients
are enough for one to speak while the other logs in, listens or has stopped.
`Listeners` keeps the liveness run small: `s2` is the member whose slow reading
could hold up `s1`, which may do everything. `CHECK_DEADLOCK` is off: the system
stops when everybody has said what the bounds allow.

`ChatSystemProofs.tla` proves the three properties of the run `ChatSystem` for any
number of clients, requests and messages. A step of the system is one of
`ChatServer` or leaves it alone (`SystemStep`), so `WireInv` holds here too.
`SysInv` adds for every client (`ClientInv`): a success on the wire or in the TLS
engine was decided by the session (`Honest`), what the client believes
(`Believes`, where a client whose `con_state_` starts as LoggedIn never
connects), that who waits for an answer has heard nothing and has no reader
(`Waiting`), and that what was handled and missed is what was received (`Heard`).
The two liveness properties are model-checked only.

## Messages: Conversation and MessagePack

`ScMessage.tla` has the two text formats, `ScMessage` and `Message`, as operators
named after the functions; `Misc.tla` has what they share with the format of the
account file. Texts are sequences of characters, because the question is whether
a separator can be mistaken. Names of types and properties and dates are symbols that
do not occur in texts. What throws, or is rejected, is `Invalid`. A date is what
`strftime` and `get_time` make of it: whole seconds of local time, read back as
standard time, so that in summer a time comes back an hour late (`Local`).

`Conversation.tla` sends one message all the way, through the conversions that each
program makes:

| Code | Action |
| --- | --- |
| `IrcClientApp::WriteMessage`, `Login`, `Register` | `WriteMessage`, `Auth` |
| `Session::HandleAuthScMessage` | `HandleAuth` |
| `Session::HandleScMessage` | `HandleMessage` (name of the session, server's clock) |
| the same in the older server, with `SyncWriteMessage` | `RelayMessage` (as it came) |
| `Deserialize` or `GetProperty` throws in the session | `HandleInvalid` |
| `ChatRw::StartRead` | `Handle` |

* `TextArrives`: what a handler gets is what was typed, under the right name, with
  the server's time, or the client's by way of the older server. The time is
  the one that so many conversions make of it: one way has one more than the other.
* `CredentialsArrive`: a name or a password is never taken for another one.
  `IrcClientApp` does not reject a US in them; then the server cannot read
  the message, and that is all that can happen.

`MessagePack.tla` is `MessagePack` with `InsertFirst`, `InsertOne`, `InsertAfter`,
`InsertBefore` and `InsertMerged` for the branches of `Insert`, `Delete`, and
`DeleteBeyond` for an index that passes the check but has no message. The check
compares with `size() - 1`, which wraps to the largest `size_t` for an empty pack:
`Delete(0)` is then undefined, where `tyfirc-msgpack.h:44` says "Does nothing and
returns default Message if index is invalid". `given` and `taken` are history.
`operator[]` is not modelled: it changes nothing, and checks nothing, where
`tyfirc-msgpack.h:47` says that it throws `out_of_range`: that is `std::vector::at`.
Nothing in the programs uses the class so far.

* `SortedByDate`, `NothingLost`: whatever branch an insertion takes. Messages of
  one time have no order of their own: the branch for a pack that is "before"
  puts new ones first, the others put them last.
* `BrokenOnlyEmpty`: with a message in the pack, the check of the index is right.

| Run | Shows | Bounds |
| --- | --- | --- |
| `Messages` | the properties of both | texts of up to 3 characters; packs of up to 3 messages, 4 in all |

The times (`Instants`, in half seconds) are one of winter and two of summer
(`Summer`), of which the second is what a conversion makes of the first. Three characters are enough for every separator next to every other and at both
ends of a text. Packs of 1 and 3 or 2 and 2 messages of 3 times overlap in every way.
`SizeMod` is 2^8 instead of 2^64: all that matters is that it exceeds the sizes.
The two specifications share no variable, so `MCMessages` explores one or the
other. `CHECK_DEADLOCK` is off: a conversation ends, and so does the supply of messages.

`MessagesProofs.tla` proves all six properties. The folds and tables of the model
(`FoldLeft` in `Split` and `Deserialize`, the table of `Merge`, the sum `Total`) are
functions that a `CHOOSE` picks; that there is one is shown once, for any recursion
with a rank that goes down (`RankedRecursion` in `SeqLemmas`), so that what they
do can be proved by induction.

* The pack, for any finite set of messages and any sizes (`PackAssumption`):
  `PackInv` adds to the properties that the pack is not longer than what was
  given (`WithinBounds`), without which `size() - 1` could wrap. The counts of
  `NothingLost` go through each branch of `Insert` (`CountConcat`, `CountInsert`,
  `CountRemove`, and `MergeGood` for the merge of two sorted sequences).
* The conversation, for names, passwords and texts of any length
  (`TextAssumption`). `TalkInv` says at each of its stages what is on the way.
  The lemma behind it is `SplitConcat`: what `Split` makes of a text with a
  delimiter in it is what it makes of the two parts. So lines without a US are
  read as they were written (`ReceivedAuth`, `ReceivedMessage`), and a value with a
  US leaves a line without a space, which `ParseProperty` rejects
  (`RejectedAuth`). `MessageRead` does the same for the lines of a `Message`.

## Not modelled

Build files, certificates, the password callback: no behaviour of interest.
`SyncWriteMessage`, `BindOnMessage` and `is_writing_` of the current server,
`CurTimeStr`: not used. The inside of TLS and of the database: external.
`ReadAll` and `DeleteById` have no caller of their own.
