# DOC_GameServer in TLA+

This directory holds TLA+ models of the C++ game server in `src/source`, the TLC
configurations that check them, and proofs, for every value of the constants, of all the
safety properties the passing runs check. File names below are relative to `src/source`, those of the network
code to `src/source/Network`.

## The system

The server runs these threads:

| Thread | Code | What it does |
|---|---|---|
| main | `Server_Main::Loop` → `AsyncServer::Update`, `MatchManager::Update`, `Logger::Update` | adds and removes sessions, watches pings, executes main-thread commands |
| command | `AsyncServer::Process_Async` | executes the commands added as asynchronous (match commands) |
| TCP io | `tcp_server::RunService` | accept, handshake, reads, completions of writes |
| UDP io | `udp_main_server::RunService`, one more per `udp_connection` | receives, completions of sends |
| sender | `tcp_connection::RunSend`, `udp_connection::RunSend`, one per connection | takes messages out of the connection's queue and writes them |
| match | `Match::Run`, one per match | executes match commands, starts the match, broadcasts |

### Components

| Component | State | Operations | Hard about it |
|---|---|---|---|
| TCP connection, sending | `m_send_messages`, `m_send_buffer`, two binary semaphores, `m_running`, the sender thread | `Send`, `start_send`, `handle_write`, `close` | four threads; a semaphore that does not count; a buffer used after the call; a join in `close` |
| TCP connection, reading | the read in progress, `length_buff`, `tmp_socket_ref` | `Start_Initial_Connect`, `Handle_Initial_Connect`, `Start_Read`, `handle_read` | messages in pieces; errors that are only logged; who keeps the session alive |
| Session registry (`AsyncServer`) | `m_socket_users`, `m_Socket_user_list`, add and remove queues, `m_udp_id_map`, pings | `AddPlayer`, `RemovePlayer`, `DoAddPlayer`, `DoRemovePlayer`, `Update` | unlocked queues; a session announced before it is complete; removal asked for several times |
| Command dispatch (`AsyncServer`) | `m_commands`, two queues, two batches | `AddCommand`, `Process`, `Process_Async`, `DoProcess` | a table filled while it is read; two consumers; sessions that go between lookup and call |
| Lobby (`Server_Main`, `Player`, `IUser`) | `m_players`, `SocketUser::User`, `Player` ownership | `UserIdentify`, `PlayerAuthenticated`, `UserDisconnected`, `JoinMatch` | weak references; duplicate and repeated logins; `Close` on two threads |
| Match | `m_players`, `m_match_state`, command queue, send buffers | `JoinPlayer`, `StartMatch`, `SubmitPlayerEvent`, broadcasts | test and insertion not under one lock; raw sessions of players that left |
| Match manager | the matches | `AddMatchPlayer`, `RoutMatchNetCommand`, `CreateMatches` | raw pointers across threads |
| Wire format | none | `BufferUtils`, the slicing in `handle_read`, `Receive_UDP`, `SerializePlayerEvents` | truncated lengths; stale bytes |
| UDP connection and ports | as TCP, with `m_recv_buff`, on one `io_service` for all | `Send`, `start_send`, `handle_receive`, `Close`, `Get_New_Port` | an `io_service` started without work; a receive to be started again on every path; ports looked up where nobody puts them |
| Logger and console | `_entries`, `_currentEntries`, the input line, the command | `AddEntry`, `Logger::Update`, `CommandExecuter::Process`, `Server_Main::Update` | a size tested without the mutex; a line handed over and cleared |
| Start-up and helpers | none | | not modelled |

They interact through calls, queues and shared objects: the io thread calls
`AsyncServer::Process`, `AddPlayer` and `RemovePlayer`; main and the command thread call the
handlers of the lobby and the matches; everybody calls `SocketUser::Send`, which ends in a
connection's queue; a `Player` and its `SocketUser` refer to each other, and a session that
is destroyed takes its threads with it.

What makes each correct:

* connection: one write at a time from the one buffer, the order of `Send`s kept, a wakeup for
  every message, and a `close` that returns;
* registry: each session added once and removed once, UDP ids that lead to live sessions only,
  silent or broken sessions removed;
* dispatch: every command of a known session executed once, in order, on its thread;
* lobby: one session per user id, a login given up only by its owner;
* match: everyone who was in the match as it started is told so once, before its first event;
  every accepted event is broadcast once; ids within a match are distinct;
* wire format: what is read is what was written;
* UDP: a service that goes on for as long as it has connections, and serves each;
* console: every entry drawn once and in order, every line executed once.

`PROJECT.json` lists, line by line, where each of these can go wrong ("hazards").

## The modules

Names of actions and variables follow the code. The table "map" in `PROJECT.json` gives the
source lines of every definition.

* **`SendPipeline`** – one `tcp_connection`. `Send` is three steps (entered with `Connected`
  true, pushed under `m_send_lock`, semaphore released) of up to `MaxThreads` callers; the sender has a program
  counter (`loop`, `test`, `acquire2`, `pop`, `write`, `acquire1`); the io thread transmits and
  runs `handle_write`; `close` is stop, shut the socket, join, on the main thread or, when
  `closeOnIo` was chosen at the start, inside the io thread. `saturating`, chosen at the start too, says what releasing a full
  `std::binary_semaphore` does, which the standard leaves undefined: nothing, as implementations with an upper
  bound do, or count it, as the common atomic counter does.
* **`FifoChannel`** – what such a connection promises: messages accepted in an order are received
  in that order until the channel fails. `SendPipeline!ChannelSpec` is its refinement; the pending messages
  are the queue and the one message in the sender's hand or in the buffer.
* **`SendPipelineProofs`** – the theorems about these two.
* **`Match`** – the server's one match from before its creation (`thread` = `"none"`), its own thread step by step against
  `MatchManager::Update` and `JoinMatch` on the main thread, the routing on the command thread, and sessions that end.
  Accesses to `m_players` are single steps that wait for `m_player_mtx` exactly where the code locks it (in `UpdatePlayers` too, which
  does nothing else). A use of a null
  session or a write past a buffer ends the match thread in a fault state and nothing is said of it after. `Close` runs on the main thread
  between joins (`Disconnect`) and on the io thread at any time (`PeerReset`).
  `events` counts a player's jumps, `inbox` is what the match has sent to a player's session. A `uint8_t` has `ByteValues` values; three numbers of the match are
  kept in one: a player's instance id, the number of orientations, and the number of events of a message. Four variables are history and exist in no
  code: `early` (`m_players` as `StartMatch` began), `jumps` (accepted so far), `rejoined` (who was inserted while in `m_players` already), `wrapped` (more events
  were serialised at once than `num_events` holds).
* **`Lobby`** – who is logged in. A `Player` object is a session and a number, with the pointers
  between sessions and players kept, and a weak pointer expired when nobody owns its target. `Close` on the io thread is split at its assignments.
  A session nobody keeps is destroyed, and with it a joinable `m_thread_service`: `Terminated`. A match command is routed in
  the steps of the code, each with the raw pointer it goes on with: session found, `Player` taken out of its `weak_ptr`, command
  queued with a `UserID`, and executed for whoever the match has under that id. Using a `Player` that is gone is a fault.
* **`Registry`** – `AsyncServer`'s sessions. Handshakes and reads on the io thread, `Update` phase by
  phase on the main thread. Pings are checked session by session, the clock read in one step and compared in another, on
  unsigned numbers; the io threads may hear the client in between, over TCP (`Hear`) as long as it is read from, over UDP (`HearUdp`) as long as the UDP id leads to
  the session, whether it is connected or not. A further identity is accepted, and the session goes on with an older Player referring to it (`SecondIdentity`), or
  rejected, and the session closed (`IdentityRejected`); what is referred to lives on after its removal. `main` = `"null connection"` when `Update` uses the
  `udp_connection_client` of a session that has none yet; `io.at` = `"thrown"` when a handshake
  breaks off behind its length. (The ping command resets the same counter once more when it is executed; only its arrival,
  which does so first, is modelled.)
* **`SessionLife`** – what the registry promises the game: a session becomes known once, the game is told of its end once and
  before it leaves, and it does not come back. `Registry!LifeSpec` is the refinement.
* **`Commands`** – the way of a command from `Process` to its callback, with the table of commands filled
  while connections are accepted already, and `m_run_async_commands` uninitialised at first.
* **`Framing`** – bytes. TCP streams cut at any place, datagrams lost, repeated and reordered over one receive
  buffer, the entries of `Player_Events` for up to `MaxPlayers` players. A byte has `Base` values instead of 256. Only jumps are
  queued as events, as in `Add_Player_Event`. A player's queue is emptied when it is serialised in `Match`; here the message is a
  function of the queues.

* **`UdpService`** – all `udp_connection`s on their one `io_service`. `RunEmpty` is a `run()` that finds nothing outstanding, after
  which `stopped` holds for good. Completion and handler of a receive are one step (a pending handler counts as work like
  a pending operation), those of a send are two, as the sender waits between them. `async_send_to` sends as it is begun. A port is
  another session's or not (`CreateClashes`); the exception it causes ends the process.
* **`Console`** – log entries by number, taken by the main thread under the mutex after a test without it, and the operator's
  line, key by key, through the rounds of `Server_Main::Update`. A key too many is a fault, `"overrun"`.
* **`RegistryProofs`**, **`CommandsProofs`**, **`LobbyProofs`**, **`MatchProofs`**, **`FramingProofs`**, **`UdpServiceProofs`**,
  **`ConsoleProofs`** – the theorems about these modules.

The `MC*` modules give model values, symmetry and payloads for TLC.

## The runs

| Run | Question | Bounds | States |
|---|---|---|---|
| `pipeline` | buffer, order, refinement of `FifoChannel`, rest only with everything delivered, a delivery per wakeup, every message received when semaphores count, closing a busy connection | 4 messages, 2 callers, both semaphores, `close` on both threads | 19,568 |
| `pipeline_close` | does `close` return? **No** | 2 messages, 1 caller | |
| `match` | creation, roster, instance ids, order of start and events, overflows, the same stream to all, jumps broadcast once and to all, everyone told of a start that was asked for | 2 players, 3 commands, 3 joins, 1 session that closes, 2 values per byte | 547,482 |
| `match_join` | are players inserted only while the match waits? **No** | 2 players, 2 joins, 1 command, 256 values per byte | |
| `lobby` | logins held and given up by their owner only, commands for their sender | 2 sessions, 2 ids, 2 identities each, 2 removals, 1 match command | 1,063,000 (symmetric) |
| `registry` | refinement of `SessionLife`, UDP routes, ownership in the add queue, no removal during a handshake, justified time-outs, silent sessions leave | 2 sessions, 2 UDP ids, time-out of 1 tick, 1 tick between the readings, 1 removal asked for by others at a time | 430,743 |
| `registry_refusal` | is a refused client disposed of? **No** | as above | |
| `commands` | order, thread, nothing lost, all executed | 1 session, 3 commands, 3 codes | 79,857 |
| `commands_invalid` | are unknown codes rejected? **No** | 1 command | |
| `framing` | TCP, UDP and events are read as they were written, and no command is left in the stream | 3 messages of 3 payloads, 2 players with events, 2 datagrams received, 3 values per byte | 538,956 |
| `udp` | who stops the service, what a stopped one still does, service both ways while it is up | 2 connections, 2 sends, 2 datagrams or errors | 171,806 |
| `console` | entries drawn once and in order, lines executed once and whole | 5 entries, 5 keys, a line of 2 | 13,757 |

Why the bounds are enough: four messages let two wait in the queue while one is in the buffer and
one has been received, which is where a lost token and a lost order show; in `match` the second player's join can fall between any two
accesses of `StartMatch` while the first is in the match, and three commands are a start and a jump in one batch and a command in the
next; with a third join a player joins again, before or after the other, and two players share an id; with two values per byte two jumps are a number of events
that wraps to zero, and two players a number of orientations that is cut to none, while one player and one jump are below the wrap; one session that closes
leaves one that must not miss anything. The run reaches shared ids, an orientation overflow without a late join, and the wrap of `num_events`. The second identity and the second session are what makes
logins collide; removals asked for
twice need two sources, not more; a client must be heard after the clock was read and a tick later for the difference to wrap, which one tick of lag allows;
in `commands` three commands fill queue, batch and lookup at once (two
sessions with two commands each were also explored for safety, 7.5 M states). With three values per
byte, lengths need their second byte and an event list can wrap its count; two players are what makes an entry of one follow entries of another. In `udp` two sends are the one that leaves a stopped service and
the one that must not, and an error comes before a datagram. In `console` entries are added before, between and after the test, the taking
and the drawing of a round, and two rounds follow. Deadlock checking is off: every model has
behaviours that end, by a bound, a fault or because the server does.

`TypeOK` is checked in the runs of `Lobby` and `Registry` and proved for these, `SendPipeline` and `Match`; in the other modules it describes the
variables. Three properties are proved and listed in no run, as they are the safety in liveness or other properties that the runs check: `WakeupFindsMessage` and `WakeIsKept` of
`SendPipeline`, `ServedGoesOn` of `UdpService`.

### The four disagreements

* `CloseReturns`: `close` joins a sender that waits for a semaphore nobody releases. `Lobby`,
  `Registry` and `Commands` therefore have "stuck" as an outcome of removing a session, and `Match` does not take
  the end of a removal for granted.
* `JoinOnlyWhileWaiting`: `m_match_state` is tested before the mutex is taken.
* `RefusedIsDisposed`: the connection of a refused client is destroyed with a joinable thread.
* `InvalidCommandRejected`: `m_commands[command]` in `Process` makes every code known.

What the other runs show holds up to the end of the process that these (and a destroyed
`udp_connection`) bring about; properties say so with `Terminated`, `Runs`, `process` or `main`. The
liveness statements of `Match`, `Registry` and `Commands` have it among their outcomes.

### Properties that hold, and why a reviewer might have doubted them

* `WaitsForRealWrite` (with `WakeupFindsMessage`, which is proved): `start_send` may return early, after which `RunSend` would wait for ever;
  it happens only when closing, since tokens never outnumber messages.
* `RestsDelivered`: semaphore 2 is binary, is released after the lock is left, and the sender takes tokens and messages separately. Still,
  where semaphores count, nothing is left in the queue when every thread waits; where they saturate, this is what fails.
* `SameStream`: start, orientations and events are broadcast to a list of players that is walked without the mutex while others join and leave. All who were in
  the match from its start, and are still connected, have been sent the same messages in the same order.
* `EarlyPlayersStarted`, `StartOnceFirst`: everyone in `m_players` as `StartMatch` begins gets `Start_Match`
  once and before any event, although joins and disconnections go on meanwhile.
* `OverflowNeedsLateJoin`: the buffers sized without the mutex overflow only when somebody joined after `StartMatch` began, or, for
  orientations, when there were so many players that the `uint8_t` of `Match.cpp:90` did not hold their number: 256 or more.
* `InstanceIdsDistinct`: `JoinPlayer` takes the size of the map for the id. Nothing keeps a player from joining twice; who does is given the size once more, which may be
  another's id. Those who have not done so have ids of their own, while there are no more than 256 players.
* `EventsConserved`, `JumpIsBroadcast`: no accepted jump is lost, doubled, or left for one client only, and each is broadcast, until 256 or more are serialised at once. Then
  the code sends fewer, or none, of what it has popped; the properties say no more of such a behaviour, and so leave open what should happen instead.
* `StartIsTold`: once a player of a waiting match has sent `Debug_Start`, everyone in the match is told of the start, although the match thread waits for a mutex that every join takes,
  and players disconnect. (Joins come to an end here, as their number is bounded: see the fairness of `Match`.)
* `LogoutOnlyByOwner`: `UserDisconnected` of a rejected duplicate does not log out the original. It holds because the rejected
  `Player` is destroyed, and the weak pointer expires, before the removal is processed.
* `GhostOnlyAfterRename`: a `Player` survives its session only if that session submitted two identities.
* `PlayerOutlivesSession`: the `Player` of a registered, authenticated session that submitted one identity is alive, unless the main
  thread hangs in the removal: the raw pointers of `DoProcess` and `RoutMatchNetCommand` and the expired `User` of `JoinMatch` can bite
  only otherwise.
* `CommandForSender`: the match finds the Player of a command by id. It is the one that sent the command, or the sender's session is
  removed or has submitted a second identity.
* `LifeSpec`: `Close` itself asks for the removal that is under way; the second request finds no session.
* `AddedIsOwned`: `Update` uses a reference to a `shared_ptr` it has popped. The session itself is still owned, by the handshake
  that is under way or by its UDP id.
* `RemovalAfterHandshake`: it rests on `Get_UDP_Send_Queue_Size_All` failing first: a fix that only tests
  `udp_connection_client` for null there exposes removals to unfinished handshakes (the mutant shows it).
* `TimeoutJustified`: a client is timed out when it was silent too long, or when it was heard after the clock was read, as the unsigned
  difference wraps. The clock of the model is not set back; the `system_clock` that `GetEpoch` reads may be, which has the same effect on every client heard since.
* `SilentIsRemoved`: most read errors are only logged, and a removal asked for before the session was added is dropped. The ping time-out makes up for both only
  where the client falls silent: one that goes on sending UDP datagrams, which reset the counter too, keeps a session whose TCP reads have ended registered for ever.
* `TcpInOrder`: `handle_read` reads from the stream in two places, a completion and a blocking read; a command cut at any byte is taken whole, and
  when the reader ends for want of bytes it has taken every command.
* `EventsRoundTrip`: counts and lengths are single bytes, and the entries of all players lie in one message with nothing between them.
* `UdpPrefix`: a datagram's data is followed by three bytes that are not its own.
* `StoppedIsMute`: only a `run()` before the first connection stops the service, because the receive is started again on every path,
  even on a closed socket (which keeps the service busy for ever). On a stopped service one datagram leaves per connection, and none is handled.

## Fairness

* `SendPipeline`: weak fairness of the sender's steps, of the io thread's (the stack transmits or fails) and of
  `close`, each a loop or straight-line code of a thread the operating system runs. Callers need not call.
* `Match`: weak fairness of the match thread, which loops for ever, and of a join that was begun. Submitting,
  joining and leaving are up to clients; the removal of a session is not fair, as it may hang. Weak fairness is enough for the match thread to get `m_player_mtx`, as the
  joins of a behaviour are finitely many; with joins without end it would need a mutex that is fair.
* `Registry`: weak fairness of `Update`, which is called for ever, and of the clock. Not of clients, nor of a join in `close`.
* `Commands`: weak fairness of both consumer threads.
* `UdpService`: weak fairness of the service's handlers and of the sender threads, each a loop of a thread. `RunEmpty` is not fair: it
  races with the first connection. Nor are clients, sends and closing.
* `Lobby`, `Framing`, `Console`: only safety is stated.

## The proofs

Each module of proofs is checked by `tlapm` on its own. The only assumptions are those the models make on their constants.

### The send pipeline

`SendPipelineProofs` holds for any `MaxMessages` and `MaxThreads`, both kinds of semaphore and both threads that may close.

`IInv` is the inductive invariant:

* `TypeOK`;
* `TokensBacked`: the tokens of semaphore 2, those still owed to it by callers that have pushed, and the one the sender
  has taken, are together no more than the queued messages. Without the callers in between, the release step would not
  preserve it; it is an inequality because a saturating release loses tokens;
* `TokensExact`: where semaphores count, it is an equality;
* `StoppedByClose`: `m_running` is true until the closer has stopped the connection, and the sender does not end before;
* `OneWrite`: what each position of the sender says of the one write: before `acquire1` there is none and semaphore 1 is
  empty; in `acquire1` there is one outstanding, or completed, or a token, unless the connection is closing;
* `InOrder`: queue, hand, buffer and wire are consecutive runs of the accepted messages (`QueueInOrder`, `HandInOrder`,
  `WireInOrder`), and, while the link is up, nothing is missing between them (`UpToDate`).

One lemma per part shows that every action preserves it; `Invariance` combines them, and `TypeCorrect`, `BufferFree`,
`WakeupHasMessage`, `WaitIsBacked` and `DeliveredInOrder` follow.

`RestIsDelivered` is the safety in `PushedIsDelivered`: with fairness a pipeline that can move does, and where it cannot, everything was delivered.
In a state of rest nobody owes a token and semaphore 2 is empty, so that by `TokensExact` the queue is empty, and by `UpToDate` the wire holds all that was accepted.
`WakesUntilDone` is the same for `BusyCloseReturns`: what wakes a busy sender while it is being closed is not taken away by any step, so that only the
sender's own steps, which are fair, end it.

`ImplementsChannel` shows `Spec => ChannelSpec`: pushes map to
`FifoChannel`'s send, transmissions to its receive, a failing peer to its failure, and every other step to a stutter.

### The UDP service

`UdpServiceProofs` holds for any set of connections and any number of sends and datagrams. Its invariant `Inv` says of each connection:

* `Unborn`: before its creation it has sent and received nothing, and none of its steps can run;
* `Listening`: from then on its receive is always armed. This is what excludes a later `RunEmpty`: a service with an armed
  receive has work, so only a `run()` before the first connection stops it;
* `Waiting`: on a stopped service nothing was received, semaphore 1 has no token, and a sender that has sent once is
  in `acquire1`. `StoppedIsMute` alone is not inductive: without the last part a sender might come round again;
* `Backed`: the tokens of semaphore 2, and the one its sender has taken, are no more than the datagrams queued;
* `OneSend`, `Looping`: a sender in `acquire1` has a completion to come or a token, unless the connection was closed, and there is neither in its other positions; the sender
  of a running connection is in its loop.

`ServedKeepsGoing` follows from `Listening`, `Backed`, `OneSend` and `Looping`: it is the safety in `UpIsServed`. A connection that is served never waits for something that nothing will bring.

### The log

`ConsoleProofs` holds for any number of entries and keys. `LogLinedUp` says that `drawn`, the part of `current` from `next` on
and `entries` are consecutive runs of the numbers up to `added`; `LogInOrder`, the equality of two sequences, follows from it
element by element. The invariant is needed since a step of the main thread moves entries between the three, while a
push of another thread changes only the last.

The operator's line has an invariant of its own, `LineInv`: what is shown is what was read since the last enter, the lines before it are
the commands found, one for each enter behind a key, and `m_executedCommand` is empty except in the phase of the round in which `Update`
looks for it. The last part is needed: a key read while a command waits would overwrite it. `LinesExecuted` follows.

### The session registry

`RegistryProofs` holds for any set of sessions (finite, and without `NoSession`, which stands for a null pointer), of UDP ids, any time-out
and any number of removals asked for. `IInv` is, beside `TypeOK`:

* `Fresh`, `Ready`, `Busy`: where the handshake of each session has got. Before its end the session is in none of the maps and queues;
  after it the session has a `udp_connection_client`, but for the one the io thread is busy with between `AddPlayer` and `EnableUdp`;
* `RouteHeld`: `m_udp_id_map` and the sessions' ids are inverse to each other on the sessions that are listed or about to be. It is what
  makes `DoRemovePlayer`, which erases whatever its session's id leads to, erase its own entry;
* `AddedOnce`, `ToldOnce`: a session is queued once to be added, and nobody registered was told of its end but the session being removed;
* `Removal`: what is asked to be removed has finished its handshake, or `Update` is still in the phases before the removals. This is the part that
  `RemovalAfterHandshake` rests on, together with `Get_UDP_Send_Queue_Size_All`, which stops `Update` at such a session;
* `Pings`: only registered sessions are watched.

`ImplementsLife` shows `Spec => LifeSpec`: `DoAddPlayer` maps to `SessionLife`'s becoming known, the call of `Disconnected` to its telling, the
erasure to its leaving, every other step to a stutter. `TimeoutsJustified` is proved from the types alone, the unsigned difference of the
two times being what `EpochModulus > 2 * (Timeout + MaxLag + 1)` makes of it.

### Command dispatch

`CommandsProofs` holds for any set of sessions, any codes for the two threads and any number of commands. `Lined` says for each thread that what it has
executed, what it has looked up, its batch and its queue follow each other in the order each session sent in; `Apart` that no command is on
both threads; `Sorted` that what is on the async thread was put there by an entry of `AddCommand`; `Joined` that what a registered session has sent is in one of
these places. `InOrder`, `ThreadConfined` and `KnownCommandKept` follow. None of the three is inductive: a command can only be overtaken
in a place where it is not yet executed.

### Login and lobby

`LobbyProofs` holds for any sets of sessions and ids and any number of identities, removals and commands. `Keyed` says that the two maps keyed by
UserID hold Players under their own ids; `Held` that the user of a registered session, if anything owns it, is logged in and not only in
the match; `LoggedIn` that an authenticated session with one identity is logged in; `InMatch` that those in the match came there authenticated. `Held` is what makes
`LoginIsHeld` inductive: a session may join the match and be rejected by a later identity, and its user must not be kept by the
match alone. `LogoutsOnlyByOwner` is an action property, proved from the same invariant: the weak pointer to a rejected
duplicate has expired when `UserDisconnected` tests it.

### The match

`MatchProofs` holds for any finite set of players, any number of commands, joins and departures, and any number of values of a byte. `Phases` says which states of the match go with which positions of
its thread, `Read` what `StartMatch` has read at each of its steps: `early`, the history variable, is within `m_players`, as nobody leaves it, and no larger than `player_arr`, and
`slots` is what a byte keeps of its size. `Telling` says whom the broadcast of the start has reached: nobody from the cursor on, everybody before it whose session is open, and no event before it.
`OverflowsNeedLateJoin`, `StartsOnceFirst`, `EarlyStarted` follow.

`InstanceIds` has an invariant of its own, `Numbered`: the id of a player who did not join again is one of 1 to the number of players, or 0, what a byte keeps of the number of its values, when there are
as many players as that. A new player gets the one number that nobody has; one who joins again leaves the players it is about.

`AccountsHold` adds two parts. `Accounts`: the commands in queue and batch and the events queued of all players are no more than the commands submitted, which
gives the queues their types. `Conserved`, which holds until `wrapped`: what an early player has heard of another's jumps, what the
message being broadcast still owes it, and what is queued is what was accepted; a number of events that is zero in a byte, and was not cut, is that of empty queues. `EventsConserved` is its case between broadcasts.

`StreamsAgree` compares the streams of two players. In the middle of a broadcast they differ: the message has reached those before the cursor. `Whole` therefore is a player's
stream with the message under way at its end, where that is still to come for this player (`Due`), and `Together` says that it is the same for all who were there from the start. A step of the
broadcast makes the message part of the stream and leaves `Whole` as it is; the start of a broadcast adds it to all.

### The wire format

`FramingProofs` holds for any number `Base` of values of a byte, any payloads whose frame fits into a length, and any number of messages. `Stream` says that there are offsets at
which the frames of the commands sent lie behind one another (`Laid`), that the bytes not read are those of the frames from the next command on (`InStep`), and that the stream ends behind the last of them
or behind the message of no bytes (`Ends`); `Taken` that the reader has taken a prefix and knows the length of the command that comes when it waits for one. The lemma `NumberOfTwoBytes`
reads a length back for every `Base`. `Finished` says that a reader that has ended has done so behind the last command of a stream that is closed. It is what the second half of
`TcpInOrder` rests on: `NothingLeft` shows that bytes of a command that has not been taken are either still in flight or enough for the reader's next step. `TakenInOrder` and `DatagramsHold` follow; a datagram needs nothing of `m_recv_buff` but its size, as it overwrites all that is
read of it but the three bytes behind.

`EventsReadBack` is about functions that recur over a queue, over the players and over the bytes of a message, and needs induction. The library's induction theorems take an
operator for the statement, which the provers here cannot instantiate; so the module derives what it needs from the well-foundedness of `<` on `Nat`, stated with sets:
a set of numbers that is not empty has a least one (`LeastNumber`), so that a set that holds 0, and with each number the next, holds all (`Induction`), and a function given by its first value and its steps
exists (`Recursion`, by induction over its initial parts). `Encodes(bytes, items)` says that there are offsets at which the entries of the events lie behind one another in the bytes, which end with the last.
Each queue is encoded behind those before it (`QueueEncoded`; `AllEncoded` for all players). `ParseReads` shows that the client reads off what is encoded: its function exists, by induction
from the end of the message to the front, as each entry refers to a later place, and from each offset on it yields the events from there on.

### What is not proved

* Liveness (`SilentIsRemoved`, `KnownCommandExecuted`, `JumpIsBroadcast`, `StartIsTold`, `UpIsServed` and those of the send pipeline): it needs
  fairness and ENABLED, which the prover does not have.
* What can be said of them without fairness is proved for two of the modules (`RestIsDelivered`, `WakesUntilDone`, `ServedKeepsGoing`).

## Not modelled

* Torn operations of unsynchronised `std::queue`s and maps: each operation is one step. The hazards list
  names them.
* Undefined behaviour ends a behaviour, in a state that names it.
* Positions, rotations, memory statistics, the text of log lines, the terminal's echo; JSON beyond whether it parses (a missing key throws
  out of the main thread, from any state).
* `Match::EndMatch`, `Stop`, `MatchManager::RemoveMatch`, the closing of the listeners: nobody calls them. `Match::RemovePlayer` is called in one place,
  `Server_Main::UserConnected` (`Server_Main.cpp:28`), for a session that has a user with an active match when it is added; sessions get their users later, from commands, which are executed for added sessions only.
* The answers to `Join_Match`, which go to the player who sent it and change nothing in the match.
* A login under the id of a player who is in the match already, and its join: the new `Player` takes the place of the old one under the same key, with the same effect on the ids as a second join.
* Steps within steps: `IUser::Send` tests the session and uses it (`IUser.cpp:6-7`); `Receive_UDP` takes a raw pointer out of `m_udp_id_map` and uses it; `UserIdentify` is one step of `Lobby`, although a
  `Close` on the io thread may clear the session's user in its middle, and the handler would use a null pointer.
* A clock that is set back.
* What happens after a key too many: the line buffer is written past its end (`CommandExecuter.cpp:62`), `Console` stops there, and `LinesAreExecuted` says nothing more.
* The UDP client's address: `m_client_endpoint` is written by the receive and read by the sender without a lock, and each connection has one client here.
* Several matches: `GetNewMatches` asks for one id, always the same.
* Arithmetic on the 65,536 UDP ids and match ids: ids are drawn until one is free, which never ends when none is.

## Plan

Done, in this order: `SendPipeline` with `FifoChannel` and their proofs, `Match`, `Lobby`, `Registry`, `Commands`, `Framing`; then
`SessionLife` and its refinement, the checks of pings, the routing of match commands, the creation of the match, `UdpService`, `Console`;
then the proofs about all these modules.

Next:

1. Proofs: the clients' view of the wire as a refinement of a channel, as for the send pipeline; the safety behind the
   liveness properties of `Match`, `Registry` and `Commands`, as is done for `SendPipeline` and `UdpService`.
2. An abstract specification of a match (waiting, started, roster) implemented by `Match`, and liveness with three players, which takes
   TLC too long with the interleavings of today's `Match`.
3. `Update_Orientation` and the orientation broadcast, once a property needs more than their length.
