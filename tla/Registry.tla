------------------------------ MODULE Registry ------------------------------
(***************************************************************************)
(* AsyncServer's registry of sessions: the handshake and the reads on the  *)
(* tcp io thread, datagrams on the udp io thread, the queues of sessions   *)
(* to add and to remove, the map of UDP ids, and AsyncServer::Update on    *)
(* the main thread, which drains the queues, watches the pings and reads   *)
(* the lengths of the send queues.                                         *)
(*                                                                         *)
(* m_Socket_user_list is refilled whenever m_socket_users changes, by the  *)
(* thread that reads it: one variable stands for both. Operations of the   *)
(* unsynchronised queues and of the unsynchronised map are single steps.   *)
(***************************************************************************)
EXTENDS Integers, Sequences, FiniteSets, SequencesExt

CONSTANTS
  Sessions,     \* SocketUsers
  UdpIds,       \* UDP ids, uint16_t in the code
  Timeout,      \* TIMEOUT_MS, in ticks
  EpochModulus, \* values of a time in ticks, a uint64_t in the code
  MaxLag,       \* bound: ticks between SocketUser::Update's two readings
  MaxRemovals   \* bound: removals asked for and not yet taken

\* No SocketUser: a null pointer.
NoSession == "none"

ASSUME RegistryAssumption ==
  /\ IsFiniteSet(Sessions) /\ NoSession \notin Sessions
  /\ UdpIds \subseteq Nat
  /\ Timeout \in Nat /\ MaxLag \in Nat
  /\ EpochModulus \in Nat /\ EpochModulus > 2 * (Timeout + MaxLag + 1)
  /\ MaxRemovals \in Nat

VARIABLES
  main,         \* where AsyncServer::Update is; stuck: in tcp_connection::close;
                \* null connection: udp_connection_client was null
  removing,     \* DoRemovePlayer's session and the udp_id it has read
  toCheck,      \* sessions whose Update is still to be called in this round
  checking,     \* the session in SocketUser::Update, with its `now' read,
  lag,          \* and the ticks since it was read
  io,           \* what the tcp io thread is in the middle of; thrown: out of it
  stage,        \* how far each connection has come
  addQueue,     \* m_queue_user_add
  removeQueue,  \* m_queue_user_remove
  registered,   \* m_socket_users, m_Socket_user_list
  connected,    \* SocketUser::Connected
  enabled,      \* sessions with a udp_connection_client
  udpId,        \* SocketUser::UdpID
  udpMap,       \* m_udp_id_map
  silent,       \* ticks since m_last_ping, no further than Longest
  referred,     \* sessions that an older Player, left in m_players, refers to
  told          \* history: UserDisconnected calls for each session

udpVars  == <<enabled, udpId, udpMap>>
checkVars == <<toCheck, checking, lag>>
mainVars == <<main, removing, checkVars>>
vars == <<mainVars, io, stage, addQueue, removeQueue, registered, connected,
          udpVars, silent, referred, told>>

Idle == [at |-> "idle", session |-> NoSession]
Nothing == [session |-> NoSession, udp |-> 0]

\* Silences longer than this are not told apart.
Longest == Timeout + 1 + MaxLag

TypeOK ==
  /\ main \in {"adds", "removes", "erase", "pings", "compare", "sizes", "commands", "stuck",
               "null connection"}
  /\ removing \in {Nothing} \cup [session : Sessions, udp : UdpIds \cup {0}]
  /\ toCheck \subseteq Sessions
  /\ checking \in Sessions \cup {NoSession}
  /\ lag \in 0..MaxLag
  /\ io \in {Idle} \cup [at : {"route", "enable", "join", "thrown"}, session : Sessions]
  /\ stage \in [Sessions -> {"absent", "accepted", "open", "deaf", "lost", "refused"}]
  /\ addQueue \in Seq(Sessions) /\ removeQueue \in Seq(Sessions)
  /\ registered \subseteq Sessions
  /\ connected \subseteq Sessions
  /\ enabled \subseteq Sessions
  /\ udpId \in [Sessions -> UdpIds \cup {0}]
  /\ udpMap \in [UdpIds -> Sessions \cup {NoSession}]
  /\ silent \in [Sessions -> 0..Longest]
  /\ referred \subseteq Sessions
  /\ told \in [Sessions -> 0..2]

Init ==
  /\ main = "adds" /\ removing = Nothing
  /\ toCheck = {} /\ checking = NoSession /\ lag = 0
  /\ io = Idle
  /\ stage = [s \in Sessions |-> "absent"]
  /\ addQueue = <<>> /\ removeQueue = <<>>
  /\ registered = {} /\ connected = {} /\ enabled = {}
  /\ udpId = [s \in Sessions |-> 0]
  /\ udpMap = [n \in UdpIds |-> NoSession]
  /\ silent = [s \in Sessions |-> 0]
  /\ referred = {}
  /\ told = [s \in Sessions |-> 0]

-----------------------------------------------------------------------------
(* What ends the process.                                                  *)

\* Who holds a SocketUser: tmp_socket_ref, the handler that is running, the add
\* queue, the two maps, a Player. After a failed initial read tmp_socket_ref is
\* never cleared.
Kept(s) ==
  \/ stage[s] \in {"absent", "accepted", "lost"}
  \/ io.session = s
  \/ s \in ToSet(addQueue) \cup registered \cup referred
  \/ \E n \in UdpIds : udpMap[n] = s

\* With its SocketUser go the connections of a session, and with them threads
\* that nobody has joined: std::terminate.
Terminated == \E s \in Sessions : ~Kept(s)

Runs == main # "null connection" /\ io.at # "thrown" /\ ~Terminated
MainAt(phase) == main = phase /\ Runs
IoIdle == io = Idle /\ Runs

-----------------------------------------------------------------------------
(* The tcp io thread: connecting.                                          *)

\* handle_accept: the SocketUser is made, and waits for the initial message.
Accept(s) ==
  /\ IoIdle
  /\ stage[s] = "absent"
  /\ stage' = [stage EXCEPT ![s] = "accepted"]
  /\ connected' = connected \cup {s}
  /\ silent' = [silent EXCEPT ![s] = 0]
  /\ UNCHANGED <<mainVars, io, addQueue, removeQueue, registered, udpVars, referred,
                 told>>

\* Handle_Initial_Connect: the read has failed.
LoseHandshake(s) ==
  /\ IoIdle
  /\ stage[s] = "accepted"
  /\ stage' = [stage EXCEPT ![s] = "lost"]
  /\ UNCHANGED <<mainVars, io, addQueue, removeQueue, registered, connected, udpVars,
                 silent, referred, told>>

\* Handle_Initial_Connect: the stream ends behind the length. The read of the
\* message throws, nobody catches it on the io thread, and the process ends.
BreakHandshake(s) ==
  /\ IoIdle
  /\ stage[s] = "accepted"
  /\ io' = [at |-> "thrown", session |-> s]
  /\ UNCHANGED <<mainVars, stage, addQueue, removeQueue, registered, connected, udpVars,
                 silent, referred, told>>

\* HandleStartConnect_Finished(false): the client is told, and tmp_socket_ref
\* drops the session.
Refuse(s) ==
  /\ IoIdle
  /\ stage[s] = "accepted"
  /\ stage' = [stage EXCEPT ![s] = "refused"]
  /\ UNCHANGED <<mainVars, io, addQueue, removeQueue, registered, connected, udpVars,
                 silent, referred, told>>

\* HandleStartConnect_Finished(true): AddPlayer comes first.
Handshake(s) ==
  /\ IoIdle
  /\ stage[s] = "accepted"
  /\ stage' = [stage EXCEPT ![s] = "open"]
  /\ addQueue' = Append(addQueue, s)
  /\ io' = [at |-> "route", session |-> s]
  /\ UNCHANGED <<mainVars, removeQueue, registered, connected, udpVars, silent,
                 referred, told>>

\* Mutant of Route: ids in use are not avoided.
RouteAnywhere(n) ==
  /\ Runs
  /\ io.at = "route"
  /\ udpId' = [udpId EXCEPT ![io.session] = n]
  /\ udpMap' = [udpMap EXCEPT ![n] = io.session]
  /\ io' = [io EXCEPT !.at = "enable"]
  /\ UNCHANGED <<mainVars, stage, addQueue, removeQueue, registered, connected,
                 enabled, silent, referred, told>>

\* Get_New_UDP_ID, Set_UDP_ID, Add_UDP_ID.
Route(n) ==
  /\ Runs
  /\ io.at = "route"
  /\ udpMap[n] = NoSession
  /\ udpId' = [udpId EXCEPT ![io.session] = n]
  /\ udpMap' = [udpMap EXCEPT ![n] = io.session]
  /\ io' = [io EXCEPT !.at = "enable"]
  /\ UNCHANGED <<mainVars, stage, addQueue, removeQueue, registered, connected,
                 enabled, silent, referred, told>>

\* EnableUdp, the reply, Start_Read.
EnableUdp ==
  /\ Runs
  /\ io.at = "enable"
  /\ enabled' = enabled \cup {io.session}
  /\ io' = Idle
  /\ UNCHANGED <<mainVars, stage, addQueue, removeQueue, registered, connected, udpId,
                 udpMap, silent, referred, told>>

-----------------------------------------------------------------------------
(* The tcp io thread: handle_read.                                         *)

Reading(s) == IoIdle /\ stage[s] = "open"

\* A command arrives: AsyncServer::Process resets the ping counter.
Hear(s) ==
  /\ Reading(s)
  /\ s \in connected
  /\ silent' = [silent EXCEPT ![s] = 0]
  /\ UNCHANGED <<mainVars, io, stage, addQueue, removeQueue, registered, connected,
                 udpVars, referred, told>>

\* A datagram with the UDP id of the session: Receive_UDP finds it in m_udp_id_map,
\* and Process resets the same counter, on the udp io thread. Neither Connected nor
\* the read of the TCP stream is asked for, nor who sent it.
HearUdp(s) ==
  /\ Runs
  /\ s \in enabled
  /\ udpMap[udpId[s]] = s
  /\ silent' = [silent EXCEPT ![s] = 0]
  /\ UNCHANGED <<mainVars, io, stage, addQueue, removeQueue, registered, connected,
                 udpVars, referred, told>>

\* An error that is only logged; nothing more is read.
ReadFails(s) ==
  /\ Reading(s)
  /\ stage' = [stage EXCEPT ![s] = "deaf"]
  /\ UNCHANGED <<mainVars, io, addQueue, removeQueue, registered, connected, udpVars,
                 silent, referred, told>>

\* An empty message, a closed socket, a message that breaks off: RemovePlayer.
ReadBreaks(s) ==
  /\ Reading(s)
  /\ Len(removeQueue) < MaxRemovals
  /\ stage' = [stage EXCEPT ![s] = "deaf"]
  /\ removeQueue' = Append(removeQueue, s)
  /\ UNCHANGED <<mainVars, io, addQueue, registered, connected, udpVars, silent,
                 referred, told>>

\* Reset by the peer: SocketUser::Close, which joins the sender thread.
PeerReset(s) ==
  /\ Reading(s)
  /\ s \in connected
  /\ Len(removeQueue) < MaxRemovals
  /\ stage' = [stage EXCEPT ![s] = "deaf"]
  /\ connected' = connected \ {s}
  /\ io' = [at |-> "join", session |-> s]
  /\ UNCHANGED <<mainVars, addQueue, removeQueue, registered, udpVars, silent,
                 referred, told>>

\* If the sender thread ends, RemovePlayer.
PeerClosed ==
  /\ Runs
  /\ io.at = "join"
  /\ removeQueue' = Append(removeQueue, io.session)
  /\ io' = Idle
  /\ UNCHANGED <<mainVars, stage, addQueue, registered, connected, udpVars, silent,
                 referred, told>>

-----------------------------------------------------------------------------
(* The main thread: AsyncServer::Update.                                   *)

\* DoAddPlayer. AddPlayer is called once for a session: it is not there yet.
TakeAdd ==
  /\ MainAt("adds")
  /\ addQueue # <<>>
  /\ registered' = registered \cup {Head(addQueue)}
  /\ addQueue' = Tail(addQueue)
  /\ UNCHANGED <<mainVars, io, stage, removeQueue, connected, udpVars, silent,
                 referred, told>>

AddsDone ==
  /\ MainAt("adds")
  /\ addQueue = <<>>
  /\ main' = "removes"
  /\ UNCHANGED <<removing, checkVars, io, stage, addQueue, removeQueue, registered, connected,
                 udpVars, silent, referred, told>>

\* SocketUser::Close, from the main thread: it may not return. The queue of
\* removals was `queue`; the caller goes on at `next`.
CloseSession(s, queue, next) ==
  IF s \in connected
  THEN /\ connected' = connected \ {s}
       /\ \/ main' = next /\ removeQueue' = Append(queue, s)
          \/ main' = "stuck" /\ removeQueue' = queue
  ELSE /\ main' = next
       /\ removeQueue' = queue
       /\ UNCHANGED connected

\* Mutant of TakeRemove: HasPlayerSession is not asked.
TakeRemoveAgain(s) ==
  /\ MainAt("removes")
  /\ removeQueue # <<>>
  /\ s = Head(removeQueue)
  /\ told' = [told EXCEPT ![s] = @ + 1]
  /\ removing' = [session |-> s, udp |-> udpId[s]]
  /\ CloseSession(s, Tail(removeQueue), "erase")
  /\ UNCHANGED <<checkVars, io, stage, addQueue, registered, udpVars, silent, referred>>

\* DoRemovePlayer: the UDP id is read, UserDisconnected, Close.
TakeRemove(s) ==
  /\ MainAt("removes")
  /\ removeQueue # <<>>
  /\ s = Head(removeQueue)
  /\ s \in registered
  /\ told' = [told EXCEPT ![s] = @ + 1]
  /\ removing' = [session |-> s, udp |-> udpId[s]]
  /\ CloseSession(s, Tail(removeQueue), "erase")
  /\ UNCHANGED <<checkVars, io, stage, addQueue, registered, udpVars, silent, referred>>

\* Mutant of EraseSession: the UDP id is not erased.
EraseSessionOnly ==
  /\ MainAt("erase")
  /\ registered' = registered \ {removing.session}
  /\ removing' = Nothing
  /\ main' = "removes"
  /\ UNCHANGED <<checkVars, io, stage, addQueue, removeQueue, connected, udpVars, silent,
                 referred, told>>

\* DoRemovePlayer: the session and the id leave the maps.
EraseSession ==
  /\ MainAt("erase")
  /\ registered' = registered \ {removing.session}
  /\ udpMap' = [n \in UdpIds |-> IF n = removing.udp THEN NoSession ELSE udpMap[n]]
  /\ removing' = Nothing
  /\ main' = "removes"
  /\ UNCHANGED <<checkVars, io, stage, addQueue, removeQueue, connected, enabled, udpId, silent,
                 referred, told>>

\* A removal of a session that is gone, or is not there yet, is dropped.
DropRemove ==
  /\ MainAt("removes")
  /\ removeQueue # <<>>
  /\ Head(removeQueue) \notin registered
  /\ removeQueue' = Tail(removeQueue)
  /\ UNCHANGED <<mainVars, io, stage, addQueue, registered, connected, udpVars, silent,
                 referred, told>>

RemovesDone ==
  /\ MainAt("removes")
  /\ removeQueue = <<>>
  /\ main' = "pings"
  /\ toCheck' = registered
  /\ UNCHANGED <<removing, checking, lag, io, stage, addQueue, removeQueue,
                 registered, connected, udpVars, silent, referred, told>>

\* SocketUser::Update of one session after the other: the clock is read.
ReadClock(s) ==
  /\ MainAt("pings")
  /\ s \in toCheck
  /\ toCheck' = toCheck \ {s}
  /\ checking' = s
  /\ lag' = 0
  /\ main' = "compare"
  /\ UNCHANGED <<removing, io, stage, addQueue, removeQueue, registered, connected,
                 udpVars, silent, referred, told>>

\* Mutant of Overdue: now and m_last_ping change places.
OverdueSwapped(s) == (lag - silent[s]) % EpochModulus > Timeout

\* Mutant of Overdue: the time-out is converted to milliseconds once more.
OverdueLater(s) == (silent[s] - lag) % EpochModulus > 1000 * Timeout

\* SocketUser::Update: now - m_last_ping > TIMEOUT_MS, on unsigned numbers. The
\* io thread may have set m_last_ping to a time after `now'.
Overdue(s) == (silent[s] - lag) % EpochModulus > Timeout

\* SocketUser::Update: the comparison, and RemovePlayer.
ComparePing ==
  /\ MainAt("compare")
  /\ removeQueue' = IF Overdue(checking) THEN Append(removeQueue, checking)
                    ELSE removeQueue
  /\ checking' = NoSession
  /\ lag' = 0
  /\ main' = "pings"
  /\ UNCHANGED <<removing, toCheck, io, stage, addQueue, registered, connected,
                 udpVars, silent, referred, told>>

PingsDone ==
  /\ MainAt("pings")
  /\ toCheck = {}
  /\ main' = "sizes"
  /\ UNCHANGED <<removing, checkVars, io, stage, addQueue, removeQueue, registered,
                 connected, udpVars, silent, referred, told>>

\* Mutant of ReadSizes: sessions without a udp_connection_client are passed over.
ReadSizesEnabled ==
  /\ MainAt("sizes")
  /\ main' = "commands"
  /\ UNCHANGED <<removing, checkVars, io, stage, addQueue, removeQueue, registered, connected,
                 udpVars, silent, referred, told>>

\* Get_UDP_Send_Queue_Size_All uses every session's udp_connection_client.
ReadSizes ==
  /\ MainAt("sizes")
  /\ main' = IF registered \subseteq enabled THEN "commands" ELSE "null connection"
  /\ UNCHANGED <<removing, checkVars, io, stage, addQueue, removeQueue, registered, connected,
                 udpVars, silent, referred, told>>

\* A command of the session that is executed by DoProcess: System_Cmd, disconnect.
DisconnectCommand(s) ==
  /\ MainAt("commands")
  /\ s \in registered \cap enabled
  /\ Len(removeQueue) < MaxRemovals
  /\ removeQueue' = Append(removeQueue, s)
  /\ UNCHANGED <<mainVars, io, stage, addQueue, registered, connected, udpVars, silent,
                 referred, told>>

\* Another: UserIdentify, accepted under a free id. The Player of an identity
\* accepted before stays in m_players and goes on referring to the session, which
\* stays open. (A first identity changes nothing here.)
SecondIdentity(s) ==
  /\ MainAt("commands")
  /\ s \in registered \cap enabled
  /\ referred' = referred \cup {s}
  /\ UNCHANGED <<mainVars, io, stage, addQueue, removeQueue, registered, connected, udpVars,
                 silent, told>>

\* UserIdentify, not accepted: the session is closed. If an identity was accepted
\* before, its Player goes on referring to the session.
IdentityRejected(s) ==
  /\ MainAt("commands")
  /\ s \in registered \cap enabled
  /\ Len(removeQueue) < MaxRemovals
  /\ referred' = referred \cup {s} \/ UNCHANGED referred
  /\ CloseSession(s, removeQueue, "commands")
  /\ UNCHANGED <<removing, checkVars, io, stage, addQueue, registered, udpVars, silent, told>>

CommandsDone ==
  /\ MainAt("commands")
  /\ main' = "adds"
  /\ UNCHANGED <<removing, checkVars, io, stage, addQueue, removeQueue, registered, connected,
                 udpVars, silent, referred, told>>

\* The clock.
Tick ==
  /\ Runs
  /\ main = "compare" => lag < MaxLag
  /\ \E s \in Sessions : stage[s] # "absent" /\ silent[s] < Longest
  /\ silent' = [s \in Sessions |->
                  IF stage[s] # "absent" /\ silent[s] < Longest
                  THEN silent[s] + 1 ELSE silent[s]]
  /\ lag' = IF main = "compare" THEN lag + 1 ELSE lag
  /\ UNCHANGED <<main, removing, toCheck, checking, io, stage, addQueue,
                 removeQueue, registered, connected, udpVars, referred, told>>

-----------------------------------------------------------------------------
Update ==
  \/ TakeAdd \/ AddsDone
  \/ \E s \in Sessions : TakeRemove(s) \/ ReadClock(s)
  \/ EraseSession \/ DropRemove \/ RemovesDone
  \/ ComparePing \/ PingsDone \/ ReadSizes \/ CommandsDone

Next ==
  \/ \E s \in Sessions :
       \/ Accept(s) \/ LoseHandshake(s) \/ BreakHandshake(s) \/ Refuse(s) \/ Handshake(s)
       \/ Hear(s) \/ HearUdp(s) \/ ReadFails(s) \/ ReadBreaks(s) \/ PeerReset(s)
       \/ DisconnectCommand(s) \/ SecondIdentity(s) \/ IdentityRejected(s)
  \/ \E n \in UdpIds : Route(n)
  \/ EnableUdp
  \/ PeerClosed
  \/ Update
  \/ Tick

\* AsyncServer::Update is called for ever and time passes; the rest is up to the
\* clients, and to a sender thread that may not end.
Fairness == WF_vars(Update) /\ WF_vars(Tick)

Spec == Init /\ [][Next]_vars

FairSpec == Spec /\ Fairness

-----------------------------------------------------------------------------
(* Safety.                                                                 *)

\* The UDP id that a client was given leads to its session until it is removed,
\* whatever other handshakes and removals do; and none leads to a session that
\* was removed, but only to one that is registered or about to be.
Routes ==
  /\ \A s \in registered \cap enabled : udpMap[udpId[s]] = s
  /\ \A n \in UdpIds :
       udpMap[n] \in registered \cup ToSet(addQueue) \cup {NoSession}

\* Update pops the add queue and then passes a reference to the popped element
\* on to DoAddPlayer. The session it referred to is still there: the handshake,
\* or the UDP id it has got, owns every session in the queue as well.
AddedIsOwned ==
  \A s \in ToSet(addQueue) : io.session = s \/ \E n \in UdpIds : udpMap[n] = s

\* A removal, even one for a client that was silent too long before its first
\* message, does not meet a handshake that is still under way: the io thread has
\* done with the UDP id and the connection that the removal takes down. Update
\* would have met the missing udp_connection_client before.
RemovalAfterHandshake ==
  removing # Nothing => removing.session \in enabled /\ removing.udp \in UdpIds

\* Update asks for the removal of a session only when its client was silent for
\* longer than the time-out, or when an io thread heard it between the reading
\* of the clock and the comparison: then the unsigned difference wraps, and a
\* client is removed because it has just been heard. (The clock here is not set back,
\* as the system's may be.)
TimeoutJustified ==
  [][\A s \in Sessions :
       (main = "compare" /\ checking = s /\ removeQueue' # removeQueue /\ main' = "pings")
         => silent[s] > Timeout \/ silent[s] < lag]_vars

\* A refused client is disposed of, and the server goes on.
RefusedIsDisposed == \A s \in Sessions : stage[s] = "refused" => ~Terminated

-----------------------------------------------------------------------------
(* Liveness, under FairSpec.                                               *)

\* A session that nothing is heard of leaves the registry: by a removal asked for,
\* or, when none was asked for or it came before the session was added, by the ping
\* time-out. One whose reads have ended can be heard over UDP only; as long as
\* datagrams come it stays, for ever.
SilentIsRemoved ==
  \A s \in Sessions :
    (s \in registered /\ silent[s] > 0)
      ~> (s \notin registered \/ silent[s] = 0 \/ main = "stuck" \/ ~Runs)

-----------------------------------------------------------------------------
(* What the registry promises the game (SessionLife).                      *)

Life == INSTANCE SessionLife WITH known <- registered

\* The game hears once of the end of each session, before the session leaves,
\* although Close asks again for the removal that is under way, and pings, reads
\* and commands may ask too; and no session comes back.
LifeSpec == Life!Spec
=============================================================================
