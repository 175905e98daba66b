------------------------------- MODULE Match --------------------------------
(***************************************************************************)
(* The server's one match: its creation by MatchManager::Update and        *)
(* Match::JoinPlayer on the main thread, MatchManager's routing of match   *)
(* commands on the async command thread, and the match's own thread, which *)
(* executes commands, starts the match and broadcasts.                     *)
(* m_player_mtx guards some of the accesses to m_players and not others;   *)
(* each access is a step here, taken when the mutex allows it.             *)
(*                                                                         *)
(* A Player object is named by its UserID, the key of m_players: the map   *)
(* is iterated in the order of the ids. Positions and rotations are not    *)
(* modelled, and Update_Orientation commands with them.                    *)
(***************************************************************************)
EXTENDS Naturals, Sequences, FiniteSets

CONSTANTS
  Players,       \* UserIDs
  MaxCommands,   \* bound: match commands submitted in a behaviour
  MaxJoins,      \* bound: Join_Match commands that pass JoinPlayer's test
  MaxDepartures, \* bound: players whose session is closed in a behaviour
  ByteValues     \* values of a uint8_t: 256 in the code

ASSUME MatchAssumption ==
  /\ Players \subseteq Nat /\ IsFiniteSet(Players)
  /\ MaxCommands \in Nat
  /\ MaxJoins \in Nat
  /\ MaxDepartures \in Nat
  /\ ByteValues \in Nat \ {0}

VARIABLES
  state,      \* m_match_state
  members,    \* the keys of m_players
  mtx,        \* the holder of m_player_mtx, when it is held over several steps
  active,     \* players whose Get_Active_Match() is this match
  instance,   \* m_match_instance_id of each player
  events,     \* the length of each player's m_active_events
  session,    \* open; closed: Disconnected() was called; gone: out of the server
  main,       \* what the main thread is doing, and for which player
  joins,      \* Join_Match commands that have passed JoinPlayer's test
  queue,      \* m_command_queue
  batch,      \* current_commands
  submitted,  \* commands submitted so far
  thread,     \* program counter of the match thread, "none" before the match is
              \* created; a member of Faults when it has met undefined
              \* behaviour, and nothing is said of it after
  slots,      \* entries allocated in m_orientation_send_buffer
  rosterSize, \* the size of player_arr in StartMatch
  roster,     \* the players listed in Start_Match
  outgoing,   \* the message being broadcast
  cursor,     \* BroadcastCommand has served the players below this id
  inbox,      \* what the match has sent to each player's session over TCP, in order
  early,      \* history: m_players as StartMatch began
  jumps,      \* history: jump events accepted from each player
  rejoined,   \* history: players inserted while they were in m_players already
  wrapped     \* history: more events were serialised at once than num_events holds

mainVars   == <<main, joins>>
rosterVars == <<members, active, instance, rejoined>>
cmdVars    == <<queue, batch, submitted>>
startVars  == <<slots, rosterSize, roster, early>>
eventVars  == <<events, jumps, wrapped>>
castVars   == <<outgoing, cursor>>
vars == <<state, mtx, session, thread, inbox, mainVars, rosterVars,
          cmdVars, startVars, eventVars, castVars>>

Kinds == {"start", "jump"}
Faults == {"null socket", "roster overflow", "orientation overflow"}
Command == [user : Players, kind : Kinds]
None == [type |-> "none"]
Idle == [at |-> "idle"]

Message ==
  {None}
    \cup [type : {"start"}, roster : SUBSET Players]
    \cup [type : {"events"}, count : 0..(ByteValues - 1),
          from : [Players -> 0..MaxCommands]]

TypeOK ==
  /\ state \in {"None", "Joined_Waiting", "Started"}
  /\ members \subseteq Players
  /\ mtx \in {"free", "main"}
  /\ active \subseteq Players
  /\ instance \in [Players -> 0..(ByteValues - 1)]
  /\ events \in [Players -> 0..MaxCommands]
  /\ session \in [Players -> {"open", "closed", "gone"}]
  /\ main \in {Idle} \cup [at : {"lock", "insert", "erase"}, player : Players]
  /\ joins \in 0..MaxJoins
  /\ queue \in Seq(Command) /\ batch \in Seq(Command)
  /\ submitted \in 0..MaxCommands
  /\ thread \in {"none", "init", "drain", "execute", "size", "fill", "announce",
                 "starting", "orient", "events", "sending"} \cup Faults
  /\ slots \in 0..(ByteValues - 1)
  /\ rosterSize \in 0..Cardinality(Players)
  /\ roster \subseteq Players
  /\ outgoing \in Message
  /\ cursor \in Nat
  /\ inbox \in [Players -> Seq(Message)]
  /\ early \subseteq Players
  /\ jumps \in [Players -> 0..MaxCommands]
  /\ rejoined \subseteq Players
  /\ wrapped \in BOOLEAN

Init ==
  /\ state = "None"
  /\ members = {} /\ active = {}
  /\ mtx = "free"
  /\ instance = [p \in Players |-> 0]
  /\ events = [p \in Players |-> 0]
  /\ session = [p \in Players |-> "open"]
  /\ main = Idle
  /\ joins = 0
  /\ queue = <<>> /\ batch = <<>> /\ submitted = 0
  /\ thread = "none"
  /\ slots = 0 /\ rosterSize = 0 /\ roster = {}
  /\ outgoing = None /\ cursor = 0
  /\ inbox = [p \in Players |-> <<>>]
  /\ early = {}
  /\ jumps = [p \in Players |-> 0]
  /\ rejoined = {} /\ wrapped = FALSE

\* IUser::Send: nothing is sent for a player whose session was closed. The
\* test and the use of m_socket_user are one step.
Sent(p, m) ==
  IF session[p] = "open" THEN [inbox EXCEPT ![p] = Append(@, m)] ELSE inbox

-----------------------------------------------------------------------------
(* The main thread: MatchManager::Update; Server_Main::JoinMatch,          *)
(* AddMatchPlayer, Match::JoinPlayer; and the removal of a session.        *)

\* Update, CreateMatches: the requested match is created and its thread
\* started, once: it is not requested again while Has_Match_ID knows it.
CreateMatch ==
  /\ main = Idle
  /\ thread = "none"
  /\ thread' = "init"
  /\ UNCHANGED <<state, mtx, session, inbox, mainVars, rosterVars, cmdVars,
                 startVars, eventVars, castVars>>

\* AddMatchPlayer looks the match up; JoinPlayer tests m_match_state, without
\* the mutex. A refusal changes nothing. (The answers to Join_Match, which go to
\* the player alone, are not in the model.)
JoinCheck(p) ==
  /\ main = Idle
  /\ session[p] # "gone"
  /\ thread # "none"
  /\ state = "Joined_Waiting"
  /\ joins < MaxJoins
  /\ joins' = joins + 1
  /\ main' = [at |-> "lock", player |-> p]
  /\ UNCHANGED <<state, mtx, session, thread, inbox, rosterVars, cmdVars,
                 startVars, eventVars, castVars>>

\* m_player_mtx.lock(), Set_Active_Match: commands are routed from here on.
JoinActivate ==
  /\ main.at = "lock"
  /\ mtx = "free"
  /\ mtx' = "main"
  /\ active' = active \cup {main.player}
  /\ main' = [main EXCEPT !.at = "insert"]
  /\ UNCHANGED <<state, session, thread, inbox, joins, members, instance, rejoined,
                 cmdVars, startVars, eventVars, castVars>>

\* Mutant of JoinInsert: the player gets no instance id.
JoinInsertUnnumbered ==
  /\ main.at = "insert"
  /\ members' = members \cup {main.player}
  /\ rejoined' = rejoined \cup ({main.player} \cap members)
  /\ mtx' = "free"
  /\ main' = Idle
  /\ UNCHANGED <<state, session, thread, inbox, joins, active, instance, cmdVars,
                 startVars, eventVars, castVars>>

\* Mutant of JoinInsert: the mutex is not unlocked, as in RemovePlayer.
JoinInsertLocked ==
  /\ main.at = "insert"
  /\ members' = members \cup {main.player}
  /\ instance' = [instance EXCEPT ![main.player] = Cardinality(members') % ByteValues]
  /\ rejoined' = rejoined \cup ({main.player} \cap members)
  /\ main' = Idle
  /\ UNCHANGED <<state, mtx, session, thread, inbox, joins, active, cmdVars,
                 startVars, eventVars, castVars>>

\* The insertion, Set_MatchInstanceID with the new size, of which a uint8_t keeps
\* the low bits, unlock. A player who is there already is inserted like another.
JoinInsert ==
  /\ main.at = "insert"
  /\ members' = members \cup {main.player}
  /\ instance' = [instance EXCEPT ![main.player] = Cardinality(members') % ByteValues]
  /\ rejoined' = rejoined \cup ({main.player} \cap members)
  /\ mtx' = "free"
  /\ main' = Idle
  /\ UNCHANGED <<state, session, thread, inbox, joins, active, cmdVars,
                 startVars, eventVars, castVars>>

MayDepart == Cardinality({p \in Players : session[p] # "open"}) < MaxDepartures

\* DoRemovePlayer: SocketUser::Close calls IUser::Disconnected, if that was not
\* done before. The player stays in the match.
Disconnect(p) ==
  /\ main = Idle
  /\ session[p] # "gone"
  /\ session[p] = "open" => MayDepart
  /\ session' = [session EXCEPT ![p] = "closed"]
  /\ main' = [at |-> "erase", player |-> p]
  /\ UNCHANGED <<state, mtx, thread, inbox, joins, rosterVars, cmdVars,
                 startVars, eventVars, castVars>>

\* DoRemovePlayer: the session leaves m_socket_users.
EraseSession ==
  /\ main.at = "erase"
  /\ session' = [session EXCEPT ![main.player] = "gone"]
  /\ main' = Idle
  /\ UNCHANGED <<state, mtx, thread, inbox, joins, rosterVars, cmdVars,
                 startVars, eventVars, castVars>>

-----------------------------------------------------------------------------
(* The tcp io thread.                                                      *)

\* handle_read: the connection was reset by the peer. Close calls
\* IUser::Disconnected, whatever the other threads are doing.
PeerReset(p) ==
  /\ session[p] = "open"
  /\ MayDepart
  /\ session' = [session EXCEPT ![p] = "closed"]
  /\ UNCHANGED <<state, mtx, thread, inbox, mainVars, rosterVars, cmdVars,
                 startVars, eventVars, castVars>>

-----------------------------------------------------------------------------
(* The async command thread: MatchManager::RoutMatchNetCommand.            *)

\* SubmitMatchCommand, for a player of a registered session whose active match
\* is this one.
Submit(p, k) ==
  /\ session[p] # "gone"
  /\ p \in active
  /\ submitted < MaxCommands
  /\ submitted' = submitted + 1
  /\ queue' = Append(queue, [user |-> p, kind |-> k])
  /\ UNCHANGED <<state, mtx, session, thread, inbox, mainVars, rosterVars,
                 batch, startVars, eventVars, castVars>>

-----------------------------------------------------------------------------
(* The match thread.                                                       *)

\* ThreadInit.
ThreadInit ==
  /\ thread = "init"
  /\ state' = "Joined_Waiting"
  /\ thread' = "drain"
  /\ UNCHANGED <<mtx, session, inbox, mainVars, rosterVars, cmdVars,
                 startVars, eventVars, castVars>>

\* ProcessNetCommands: the queue is taken over as a whole, under its lock.
DrainCommands ==
  /\ thread = "drain"
  /\ batch' = queue
  /\ queue' = <<>>
  /\ thread' = "execute"
  /\ UNCHANGED <<state, mtx, session, inbox, submitted, mainVars,
                 rosterVars, startVars, eventVars, castVars>>

\* ProcessNetCommands: the loop ends. UpdatePlayers takes the mutex; what it
\* calls does nothing.
BatchDone ==
  /\ thread = "execute"
  /\ batch = <<>>
  /\ mtx = "free"
  /\ thread' = "orient"
  /\ UNCHANGED <<state, mtx, session, inbox, mainVars, rosterVars, cmdVars,
                 startVars, eventVars, castVars>>

NextCommand(c) ==
  /\ thread = "execute"
  /\ batch # <<>>
  /\ c = Head(batch)
  /\ batch' = Tail(batch)

\* ExecuteNetCommand returns: the player is not in m_players, or the match
\* is not waiting to be started.
ExecuteNothing(c) ==
  /\ NextCommand(c)
  /\ \/ c.user \notin members
     \/ c.kind = "start" /\ state # "Joined_Waiting"
  /\ UNCHANGED <<state, mtx, session, thread, inbox, queue, submitted,
                 mainVars, rosterVars, startVars, eventVars, castVars>>

\* SubmitPlayerEvent, Add_Player_Event. Socket_User() is null once the session
\* was closed.
ExecuteJump(c) ==
  /\ NextCommand(c)
  /\ c.user \in members
  /\ c.kind = "jump"
  /\ IF session[c.user] = "open"
     THEN /\ events' = [events EXCEPT ![c.user] = @ + 1]
          /\ jumps' = [jumps EXCEPT ![c.user] = @ + 1]
          /\ UNCHANGED <<thread, wrapped>>
     ELSE /\ thread' = "null socket"
          /\ UNCHANGED eventVars
  /\ UNCHANGED <<state, mtx, session, inbox, queue, submitted, mainVars,
                 rosterVars, startVars, castVars>>

\* Mutant of StartMatch: the state is not tested.
StartMatchAgain(c) ==
  /\ NextCommand(c)
  /\ c.user \in members
  /\ c.kind = "start"
  /\ slots' = Cardinality(members) % ByteValues
  /\ early' = members
  /\ thread' = "size"
  /\ UNCHANGED <<state, mtx, session, inbox, queue, submitted, mainVars,
                 rosterVars, rosterSize, roster, eventVars, castVars>>

\* StartMatch: the number of players is read, into a uint8_t, for the orientation
\* buffer.
StartMatch(c) ==
  /\ NextCommand(c)
  /\ c.user \in members
  /\ c.kind = "start"
  /\ state = "Joined_Waiting"
  /\ slots' = Cardinality(members) % ByteValues
  /\ early' = members
  /\ thread' = "size"
  /\ UNCHANGED <<state, mtx, session, inbox, queue, submitted, mainVars,
                 rosterVars, rosterSize, roster, eventVars, castVars>>

\* Mutant of StartSize: the player who sent Debug_Start is not counted.
StartSizeOthers ==
  /\ thread = "size"
  /\ rosterSize' = Cardinality(members) - 1
  /\ thread' = "fill"
  /\ UNCHANGED <<state, mtx, session, inbox, mainVars, rosterVars, cmdVars,
                 slots, roster, early, eventVars, castVars>>

\* StartMatch: the number of players is read again for player_arr.
StartSize ==
  /\ thread = "size"
  /\ rosterSize' = Cardinality(members)
  /\ thread' = "fill"
  /\ UNCHANGED <<state, mtx, session, inbox, mainVars, rosterVars, cmdVars,
                 slots, roster, early, eventVars, castVars>>

\* StartMatch: player_arr is filled under the mutex; it is not grown.
StartFill ==
  /\ thread = "fill"
  /\ mtx = "free"
  /\ IF Cardinality(members) <= rosterSize
     THEN /\ roster' = members
          /\ thread' = "announce"
     ELSE /\ thread' = "roster overflow"
          /\ UNCHANGED roster
  /\ UNCHANGED <<state, mtx, session, inbox, mainVars, rosterVars, cmdVars, slots,
                 rosterSize, early, eventVars, castVars>>

\* StartMatch: m_match_state = Started, and the broadcast begins.
StartAnnounce ==
  /\ thread = "announce"
  /\ state' = "Started"
  /\ outgoing' = [type |-> "start", roster |-> roster]
  /\ cursor' = 0
  /\ thread' = "starting"
  /\ UNCHANGED <<mtx, session, inbox, mainVars, rosterVars, cmdVars,
                 startVars, eventVars>>

\* BroadcastCommand: m_players is iterated without the mutex.
Unserved == {p \in members : p >= cursor}

\* Mutant of BroadcastTo: the iterator is advanced twice.
BroadcastToSkipping(p) ==
  /\ thread \in {"starting", "sending"}
  /\ p \in Unserved
  /\ \A q \in Unserved : p <= q
  /\ inbox' = Sent(p, outgoing)
  /\ cursor' = p + 2
  /\ UNCHANGED <<state, mtx, session, thread, outgoing, mainVars,
                 rosterVars, cmdVars, startVars, eventVars>>

BroadcastTo(p) ==
  /\ thread \in {"starting", "sending"}
  /\ p \in Unserved
  /\ \A q \in Unserved : p <= q
  /\ inbox' = Sent(p, outgoing)
  /\ cursor' = p + 1
  /\ UNCHANGED <<state, mtx, session, thread, outgoing, mainVars,
                 rosterVars, cmdVars, startVars, eventVars>>

\* BroadcastCommand returns, to the command loop or to the end of AsynUpdate.
BroadcastDone ==
  /\ thread \in {"starting", "sending"}
  /\ Unserved = {}
  /\ outgoing' = None
  /\ thread' = IF thread = "starting" THEN "execute" ELSE "drain"
  /\ UNCHANGED <<state, mtx, session, inbox, cursor, mainVars, rosterVars,
                 cmdVars, startVars, eventVars>>

\* SendOrientationUpdates: not started, or the last one was sent too recently.
OrientationsNotDue ==
  /\ thread = "orient"
  /\ thread' = "events"
  /\ UNCHANGED <<state, mtx, session, inbox, mainVars, rosterVars, cmdVars,
                 startVars, eventVars, castVars>>

\* SendOrientationUpdates: one entry per player is written into the buffer that
\* StartMatch allocated; the broadcast over UDP leaves nothing behind.
SendOrientationUpdates ==
  /\ thread = "orient"
  /\ state = "Started"
  /\ mtx = "free"
  /\ thread' = IF Cardinality(members) <= slots THEN "events"
               ELSE "orientation overflow"
  /\ UNCHANGED <<state, mtx, session, inbox, mainVars, rosterVars, cmdVars,
                 startVars, eventVars, castVars>>

\* Mutant of EventsNotDue: the test of the state is lost.
EventsNeverDue ==
  /\ thread = "events"
  /\ thread' = "drain"
  /\ UNCHANGED <<state, mtx, session, inbox, mainVars, rosterVars, cmdVars,
                 startVars, eventVars, castVars>>

\* SendPlayerEvents: not started.
EventsNotDue ==
  /\ thread = "events"
  /\ state # "Started"
  /\ thread' = "drain"
  /\ UNCHANGED <<state, mtx, session, inbox, mainVars, rosterVars, cmdVars,
                 startVars, eventVars, castVars>>

\* The events in the queues of the players in m_players, by player and place in
\* the queue, and their number.
InQueue == {x \in members \X (1..MaxCommands) : x[2] <= events[x[1]]}
Queued == Cardinality(InQueue)

\* Mutant of SendPlayerEvents: the events are serialised and not popped.
SendPlayerEventsKeep ==
  /\ thread = "events"
  /\ state = "Started"
  /\ mtx = "free"
  /\ UNCHANGED events
  /\ wrapped' = (wrapped \/ Queued >= ByteValues)
  /\ IF Queued % ByteValues # 0
     THEN /\ outgoing' = [type |-> "events", count |-> Queued % ByteValues,
                          from |-> [p \in Players |-> events[p]]]
          /\ cursor' = 0
          /\ thread' = "sending"
     ELSE /\ thread' = "drain"
          /\ UNCHANGED castVars
  /\ UNCHANGED <<state, mtx, session, inbox, jumps, mainVars, rosterVars,
                 cmdVars, startVars>>

\* SendPlayerEvents: SerializePlayerEvents empties every player's queue under
\* the mutex; num_events has eight bits, and nothing is sent when it is zero.
SendPlayerEvents ==
  /\ thread = "events"
  /\ state = "Started"
  /\ mtx = "free"
  /\ events' = [p \in Players |-> IF p \in members THEN 0 ELSE events[p]]
  /\ wrapped' = (wrapped \/ Queued >= ByteValues)
  /\ IF Queued % ByteValues # 0
     THEN /\ outgoing' = [type |-> "events", count |-> Queued % ByteValues,
                          from |-> [p \in Players |-> events[p] - events'[p]]]
          /\ cursor' = 0
          /\ thread' = "sending"
     ELSE /\ thread' = "drain"
          /\ UNCHANGED castVars
  /\ UNCHANGED <<state, mtx, session, inbox, jumps, mainVars, rosterVars,
                 cmdVars, startVars>>

-----------------------------------------------------------------------------
Execute ==
  \E p \in Players, k \in Kinds :
    LET c == [user |-> p, kind |-> k]
    IN  ExecuteNothing(c) \/ ExecuteJump(c) \/ StartMatch(c)

Join == JoinActivate \/ JoinInsert

MatchThread ==
  \/ ThreadInit \/ DrainCommands \/ BatchDone \/ Execute
  \/ StartSize \/ StartFill \/ StartAnnounce
  \/ \E p \in Players : BroadcastTo(p)
  \/ BroadcastDone
  \/ OrientationsNotDue \/ SendOrientationUpdates
  \/ EventsNotDue \/ SendPlayerEvents

Next ==
  \/ CreateMatch
  \/ \E p \in Players : JoinCheck(p) \/ Disconnect(p) \/ PeerReset(p)
  \/ Join
  \/ EraseSession
  \/ \E p \in Players, k \in Kinds : Submit(p, k)
  \/ MatchThread

\* A join that has begun goes on, and the match thread runs for ever. Nobody has
\* to join, to send a command or to leave, and the removal of a session, which
\* closes its connections, need not return.
Fairness == WF_vars(Join) /\ WF_vars(MatchThread)

Spec == Init /\ [][Next]_vars

FairSpec == Spec /\ Fairness

-----------------------------------------------------------------------------
(* Safety.                                                                 *)

\* JoinPlayer takes the size of the map for the instance id, by which clients tell
\* orientations and events apart. Only who has joined again, and has got the size
\* a second time, can share the id of another player; the others have ids of their
\* own, up to as many players as a byte has values.
InstanceIdsDistinct ==
  Cardinality(members) <= ByteValues =>
    \A p, q \in members \ rejoined : p # q => instance[p] # instance[q]

\* How many messages of a type a player was sent.
Count(p, type) == Cardinality({i \in DOMAIN inbox[p] : inbox[p][i].type = type})

\* Whoever was in m_players as StartMatch began is listed in the roster, and is
\* told of the start before StartMatch returns, unless the session is closed.
EarlyPlayersStarted ==
  state = "Started" /\ thread # "starting" =>
    /\ early \subseteq roster
    /\ \A p \in early : session[p] = "open" => Count(p, "start") = 1

\* The match starts once, however many Debug_Start commands are queued, and
\* before anything happens in it: nobody is told of the start twice, and who
\* was in m_players as StartMatch began hears of no event before it.
StartOnceFirst ==
  /\ \A p \in Players : Count(p, "start") <= 1
  /\ \A p \in early : \A i \in DOMAIN inbox[p] :
       inbox[p][i].type = "events" =>
         \E j \in 1..(i - 1) : inbox[p][j].type = "start"

\* The two buffers that StartMatch sizes without the mutex, player_arr and the
\* one for orientations, are only ever too small for a player inserted since
\* StartMatch began: without a late join neither is written past its end, unless
\* the byte that sizes the second could not hold the number of players.
OverflowNeedsLateJoin ==
  /\ thread = "roster overflow" => members # early
  /\ thread = "orientation overflow" =>
       members # early \/ Cardinality(early) >= ByteValues

\* Events of player q that were broadcast to player p, by message and place in it.
Heard(p, q) ==
  {x \in (DOMAIN inbox[p]) \X (1..MaxCommands) :
     inbox[p][x[1]].type = "events" /\ x[2] <= inbox[p][x[1]].from[q]}

\* Between two broadcasts, what an early player has heard of another's jumps
\* and what is still queued is all that was accepted: none is lost, doubled
\* or left for one client only, as long as no more were serialised at once than
\* num_events can count.
EventsConserved ==
  thread # "sending" /\ ~wrapped =>
    \A p \in early, q \in members :
      session[p] = "open" /\ state = "Started" =>
        Cardinality(Heard(p, q)) + events[q] = jumps[q]

\* All who were in the match from its start see the same match: between two
\* broadcasts they have been sent the same messages, in the same order, whoever
\* joins and leaves meanwhile.
SameStream ==
  state = "Started" /\ thread \notin {"starting", "sending"} =>
    \A p, q \in early :
      session[p] = "open" /\ session[q] = "open" => inbox[p] = inbox[q]

\* JoinPlayer adds players only in the state it tests for.
JoinOnlyWhileWaiting == [][members' # members => state = "Joined_Waiting"]_vars

-----------------------------------------------------------------------------
(* Liveness, under FairSpec.                                               *)

\* A jump accepted in a started match is broadcast, whoever joins and leaves, unless
\* num_events wraps.
JumpIsBroadcast ==
  \A p \in Players :
    (events[p] > 0 /\ state = "Started")
      ~> \/ outgoing.type = "events" /\ outgoing.from[p] > 0
         \/ wrapped \/ thread \in Faults

\* A Debug_Start from a player of the match is on its way to being executed.
StartAsked ==
  \E c \in {queue[i] : i \in DOMAIN queue} \cup {batch[i] : i \in DOMAIN batch} :
    c.kind = "start" /\ c.user \in members

\* Once a player of a waiting match has sent Debug_Start, everyone in the match is
\* told of the start, whatever joins take the mutex meanwhile and whoever leaves.
StartIsTold ==
  \A p \in Players :
    (p \in members /\ state = "Joined_Waiting" /\ StartAsked)
      ~> (Count(p, "start") = 1 \/ session[p] # "open" \/ thread \in Faults)
=============================================================================
