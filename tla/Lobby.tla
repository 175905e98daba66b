------------------------------- MODULE Lobby --------------------------------
(***************************************************************************)
(* Who is logged in: Server_Main's handlers for identities, joins and      *)
(* removed sessions, on the main thread, against SocketUser::Close on the  *)
(* io thread, and against the routing of a match command: the async        *)
(* command thread takes raw pointers to the session and its Player, and    *)
(* the match finds a Player by the UserID the command was queued with.     *)
(*                                                                         *)
(* The sessions are those AsyncServer has registered. A Player object is   *)
(* named by its session and by how many the session had before. It is      *)
(* owned by m_players and by the match it joined: when both have dropped   *)
(* it, the weak_ptr User of its session is expired.                        *)
(***************************************************************************)
EXTENDS Naturals, Sequences, FiniteSets

CONSTANTS
  Sessions,       \* SocketUsers
  Ids,            \* UserIDs
  MaxIdentities,  \* bound: Submit_Identity commands per session
  MaxRemovals,    \* bound: entries in the removal queue
  MaxCommands     \* bound: match commands found on the async thread

\* A null pointer, and one to a Player that was freed.
NoSession == "none"
NoPlayer == [session |-> NoSession]
FreedPlayer == [session |-> "freed"]

ASSUME LobbyAssumption ==
  /\ IsFiniteSet(Sessions) /\ IsFiniteSet(Ids)
  /\ {NoSession, "freed"} \cap Sessions = {}
  /\ MaxIdentities \in Nat
  /\ MaxRemovals \in Nat
  /\ MaxCommands \in Nat

VARIABLES
  main,        \* the main thread: runs; stuck in tcp_connection::close, which
               \* joins the sender thread; or it has met a null Player
  registered,  \* the sessions in m_socket_users
  connected,   \* SocketUser::Connected
  authentic,   \* SocketUser::IsAuthenticated
  user,        \* SocketUser::User, whether or not it has expired
  made,        \* Player objects created for each session
  identity,    \* Player::Get_UserID
  attached,    \* the Player objects with a Socket_User()
  players,     \* Server_Main::m_players
  matched,     \* Match::m_players of the match
  active,      \* the Player objects with a Get_Active_Match()
  found,       \* match commands found on the async thread so far
  routing,     \* what RoutMatchNetCommand holds a raw pointer to: a session, its
               \* Player, or nothing; or it has used a Player that was freed
  command,     \* m_command_queue of the match: the Player that submitted the
               \* command in it, known to the match by its identity only
  removals,    \* AsyncServer::m_queue_user_remove
  closing,     \* SocketUser::Close on the io thread: the session with Connected
               \* reset,
  joining      \* and the session whose connections are being closed

playerVars  == <<user, made, identity>>
matchVars   == <<matched, active>>
routeVars   == <<found, routing, command>>
closeVars   == <<closing, joining>>
vars == <<main, registered, connected, authentic, playerVars, attached, players,
          matchVars, routeVars, removals, closeVars>>

Player == [session : Sessions, number : 1..MaxIdentities]

TypeOK ==
  /\ main \in {"runs", "stuck", "null player"}
  /\ registered \subseteq Sessions
  /\ connected \subseteq Sessions
  /\ authentic \subseteq Sessions
  /\ user \in [Sessions -> Player \cup {NoPlayer}]
  /\ made \in [Sessions -> 0..MaxIdentities]
  /\ \A s \in Sessions :
       user[s] # NoPlayer => user[s] = [session |-> s, number |-> made[s]]
  /\ identity \in [Player -> Ids \cup {0}]
  /\ attached \subseteq Player
  /\ players \in [Ids -> Player \cup {NoPlayer}]
  /\ matched \in [Ids -> Player \cup {NoPlayer}]
  /\ active \subseteq Player
  /\ found \in 0..MaxCommands
  /\ routing \in Player \cup [session : Sessions] \cup {NoPlayer, FreedPlayer}
  /\ command \in active \cup {NoPlayer}
  /\ removals \in Seq(Sessions)
  /\ closing \in Sessions \cup {NoSession}
  /\ joining \in Sessions \cup {NoSession}

Init ==
  /\ main = "runs"
  /\ registered = Sessions
  /\ connected = Sessions
  /\ authentic = {}
  /\ user = [s \in Sessions |-> NoPlayer]
  /\ made = [s \in Sessions |-> 0]
  /\ identity = [p \in Player |-> 0]
  /\ attached = {}
  /\ players = [i \in Ids |-> NoPlayer]
  /\ matched = [i \in Ids |-> NoPlayer]
  /\ active = {}
  /\ found = 0 /\ routing = NoPlayer /\ command = NoPlayer
  /\ removals = <<>>
  /\ closing = NoSession /\ joining = NoSession

-----------------------------------------------------------------------------
(* Who keeps what alive.                                                   *)

\* p is owned by somebody.
Owned(p, byServer, byMatch) ==
  \E i \in Ids : byServer[i] = p \/ byMatch[i] = p

Expired(s) == user[s] = NoPlayer \/ ~Owned(user[s], players, matched)

\* A SocketUser lives while it is registered, while the io thread is in its
\* Close, and while a Player has it for Socket_User().
Kept(s) ==
  \/ s \in registered
  \/ s \in {closing, joining}
  \/ \E p \in attached : p.session = s /\ Owned(p, players, matched)

\* With its last SocketUser goes a udp_connection, and its m_thread_service,
\* which nobody has joined: std::terminate.
Terminated == \E s \in Sessions : ~Kept(s)

ProcessRuns == main # "null player" /\ routing # FreedPlayer /\ ~Terminated
MainRuns == ProcessRuns /\ main = "runs"

-----------------------------------------------------------------------------
(* Server_Main::UserIdentify, and what it calls.                           *)

\* Submit_Identity is taken from a registered session: a new Player is made and
\* SetUser replaces the session's user. The Player that was there keeps its
\* Socket_User().
NewPlayer(s, p) ==
  /\ MainRuns
  /\ s \in registered
  /\ made[s] < MaxIdentities
  /\ p = [session |-> s, number |-> made[s] + 1]
  /\ made' = [made EXCEPT ![s] = @ + 1]
  /\ user' = [user EXCEPT ![s] = p]

\* SocketUser::Close on the main thread, while the new Player p is still held:
\* p is the one told of it, whoever was the session's user before. It may not
\* return from closing the connection.
CloseSession(s, p) ==
  IF s \in connected
  THEN /\ connected' = connected \ {s}
       /\ attached' = attached \ {p}
       /\ \/ removals' = Append(removals, s) /\ UNCHANGED main
          \/ main' = "stuck" /\ UNCHANGED removals
  ELSE /\ attached' = attached \cup {p}
       /\ UNCHANGED <<main, connected, removals>>

\* Mutant of IdentifyAccepted: the table of logins is not looked at.
IdentifyUnchecked(s, i) ==
  \E p \in Player :
    /\ NewPlayer(s, p)
    /\ identity' = [identity EXCEPT ![p] = i]
    /\ attached' = attached \cup {p}
    /\ authentic' = authentic \cup {s}
    /\ players' = [players EXCEPT ![i] = p]
    /\ UNCHANGED <<main, registered, connected, matchVars, routeVars, removals,
                   closeVars>>

\* PlayerAuthenticated: the id is free, the player is logged in.
IdentifyAccepted(s, i) ==
  \E p \in Player :
    /\ NewPlayer(s, p)
    /\ players[i] = NoPlayer
    /\ identity' = [identity EXCEPT ![p] = i]
    /\ attached' = attached \cup {p}
    /\ authentic' = authentic \cup {s}
    /\ players' = [players EXCEPT ![i] = p]
    /\ UNCHANGED <<main, registered, connected, matchVars, routeVars, removals,
                   closeVars>>

\* Mutant of IdentifyRejected: the session is marked as authenticated before the
\* table of logins is looked at.
IdentifyRejectedLate(s, i) ==
  \E p \in Player :
    /\ NewPlayer(s, p)
    /\ players[i] # NoPlayer
    /\ Len(removals) < MaxRemovals
    /\ identity' = [identity EXCEPT ![p] = i]
    /\ authentic' = authentic \cup {s}
    /\ CloseSession(s, p)
    /\ UNCHANGED <<registered, players, matchVars, routeVars, closeVars>>

\* PlayerAuthenticated: the id is logged in already, the session is closed and
\* the new Player dropped.
IdentifyRejected(s, i) ==
  \E p \in Player :
    /\ NewPlayer(s, p)
    /\ players[i] # NoPlayer
    /\ Len(removals) < MaxRemovals
    /\ identity' = [identity EXCEPT ![p] = i]
    /\ CloseSession(s, p)
    /\ UNCHANGED <<registered, authentic, players, matchVars, routeVars,
                   closeVars>>

\* SetIdentity cannot parse the identity: the session is closed.
IdentifyMalformed(s) ==
  \E p \in Player :
    /\ NewPlayer(s, p)
    /\ Len(removals) < MaxRemovals
    /\ CloseSession(s, p)
    /\ UNCHANGED <<registered, authentic, identity, players, matchVars,
                   routeVars, closeVars>>

-----------------------------------------------------------------------------
(* Server_Main::JoinMatch on a match that is waiting for players.          *)

\* The session's player is put into the match, in place of another with its id.
JoinMatch(s) ==
  /\ MainRuns
  /\ s \in registered \cap authentic
  /\ IF Expired(s)
     THEN /\ main' = "null player"
          /\ UNCHANGED matchVars
     ELSE /\ matched' = [matched EXCEPT ![identity[user[s]]] = user[s]]
          /\ active' = active \cup {user[s]}
          /\ UNCHANGED main
  /\ UNCHANGED <<registered, connected, authentic, playerVars, attached,
                 players, routeVars, removals, closeVars>>

-----------------------------------------------------------------------------
(* A match command on the async command thread and in the match.           *)

\* DoProcess finds the session under m_user_mtx and goes on with a raw pointer.
RouteSession(s) ==
  /\ ProcessRuns
  /\ routing = NoPlayer
  /\ s \in registered
  /\ found < MaxCommands
  /\ found' = found + 1
  /\ routing' = [session |-> s]
  /\ UNCHANGED <<main, registered, connected, authentic, playerVars, attached,
                 players, matchVars, command, removals, closeVars>>

\* RoutMatchNetCommand: a raw pointer to the Player is taken out of a
\* shared_ptr that is gone by the end of the statement.
RoutePlayer ==
  /\ ProcessRuns
  /\ \E s \in Sessions :
       /\ routing = [session |-> s]
       /\ routing' = IF s \in authentic /\ ~Expired(s) THEN user[s] ELSE NoPlayer
  /\ UNCHANGED <<main, registered, connected, authentic, playerVars, attached,
                 players, matchVars, found, command, removals, closeVars>>

\* Get_Active_Match and SubmitMatchCommand, on a Player that may be freed. The
\* queue of the match is bounded by one command.
RouteSubmit ==
  /\ ProcessRuns
  /\ routing \in Player
  /\ command = NoPlayer
  /\ IF Owned(routing, players, matched)
     THEN /\ command' = IF routing \in active THEN routing ELSE NoPlayer
          /\ routing' = NoPlayer
     ELSE /\ routing' = FreedPlayer
          /\ UNCHANGED command
  /\ UNCHANGED <<main, registered, connected, authentic, playerVars, attached,
                 players, matchVars, found, removals, closeVars>>

\* The Player for whom the match executes the command: the one it has under
\* the id.
Executor == matched[identity[command]]

\* ExecuteNetCommand on the match thread.
ExecuteCommand ==
  /\ ProcessRuns
  /\ command # NoPlayer
  /\ command' = NoPlayer
  /\ UNCHANGED <<main, registered, connected, authentic, playerVars, attached,
                 players, matchVars, found, routing, removals, closeVars>>

-----------------------------------------------------------------------------
(* The end of a session.                                                   *)

\* AsyncServer::RemovePlayer, for a disconnect command or a ping timeout on the
\* main thread, or for a read error on the io thread.
RequestRemoval(s) ==
  /\ ProcessRuns
  /\ s \in registered
  /\ Len(removals) < MaxRemovals
  /\ removals' = Append(removals, s)
  /\ UNCHANGED <<main, registered, connected, authentic, playerVars, attached,
                 players, matchVars, routeVars, closeVars>>

\* handle_read, reset by the peer: SocketUser::Close resets Connected.
PeerReset(s) ==
  /\ ProcessRuns
  /\ closing = NoSession /\ joining = NoSession
  /\ s \in connected
  /\ connected' = connected \ {s}
  /\ closing' = s
  /\ UNCHANGED <<main, registered, authentic, playerVars, attached, players,
                 matchVars, routeVars, removals, joining>>

\* It calls Disconnected() for a user that is still alive.
PeerDetach ==
  /\ ProcessRuns
  /\ closing # NoSession
  /\ attached' = IF Expired(closing) THEN attached ELSE attached \ {user[closing]}
  /\ joining' = closing
  /\ closing' = NoSession
  /\ UNCHANGED <<main, registered, connected, authentic, playerVars, players,
                 matchVars, routeVars, removals>>

\* Mutant of PeerClosed: the session is forgotten before it is put in the queue.
PeerClosedForgets ==
  /\ ProcessRuns
  /\ joining # NoSession
  /\ Len(removals) < MaxRemovals
  /\ joining' = NoSession
  /\ removals' = Append(removals, joining')
  /\ UNCHANGED <<main, registered, connected, authentic, playerVars, attached,
                 players, matchVars, routeVars, closing>>

\* It calls RemovePlayer, if closing the connections has returned.
PeerClosed ==
  /\ ProcessRuns
  /\ joining # NoSession
  /\ Len(removals) < MaxRemovals
  /\ removals' = Append(removals, joining)
  /\ joining' = NoSession
  /\ UNCHANGED <<main, registered, connected, authentic, playerVars, attached,
                 players, matchVars, routeVars, closing>>

\* Mutant of LoggedOut: the session keeps a rejected Player alive, and the login
\* is erased by its id.
LoggedOutById(s) ==
  IF user[s] = NoPlayer THEN players
  ELSE [i \in Ids |-> IF i = identity[user[s]] THEN NoPlayer ELSE players[i]]

\* UserDisconnected: what is left of m_players.
LoggedOut(s) ==
  IF Expired(s) THEN players
  ELSE [players EXCEPT ![identity[user[s]]] = NoPlayer]

Dequeued == Tail(removals)

\* Mutant of Remove: the server is not told of a session that was closed before.
RemoveUntold(s) ==
  /\ MainRuns
  /\ removals # <<>>
  /\ s = Head(removals)
  /\ s \in registered
  /\ IF s \in connected
     THEN /\ players' = LoggedOut(s)
          /\ connected' = connected \ {s}
          /\ attached' = IF Owned(user[s], players', matched)
                         THEN attached \ {user[s]} ELSE attached
          /\ removals' = Append(Dequeued, s)
     ELSE /\ removals' = Dequeued
          /\ UNCHANGED <<players, connected, attached>>
  /\ registered' = registered \ {s}
  /\ UNCHANGED <<main, authentic, playerVars, matchVars, routeVars, closeVars>>

\* AsyncServer::Update takes a removal for a session that is still registered:
\* DoRemovePlayer, with UserDisconnected, SocketUser::Close, which may not
\* return, and the session leaves m_socket_users.
Remove(s) ==
  /\ MainRuns
  /\ removals # <<>>
  /\ s = Head(removals)
  /\ s \in registered
  /\ players' = LoggedOut(s)
  /\ IF s \in connected
     THEN /\ connected' = connected \ {s}
          /\ attached' = IF Owned(user[s], players', matched)
                         THEN attached \ {user[s]} ELSE attached
          /\ \/ /\ removals' = Append(Dequeued, s)
                /\ registered' = registered \ {s}
                /\ UNCHANGED main
             \/ /\ main' = "stuck"
                /\ removals' = Dequeued
                /\ UNCHANGED registered
     ELSE /\ removals' = Dequeued
          /\ registered' = registered \ {s}
          /\ UNCHANGED <<main, connected, attached>>
  /\ UNCHANGED <<authentic, playerVars, matchVars, routeVars, closeVars>>

\* A removal of a session that is gone does nothing.
RemoveAgain ==
  /\ MainRuns
  /\ removals # <<>>
  /\ Head(removals) \notin registered
  /\ removals' = Dequeued
  /\ UNCHANGED <<main, registered, connected, authentic, playerVars, attached,
                 players, matchVars, routeVars, closeVars>>

-----------------------------------------------------------------------------
Next ==
  \/ \E s \in Sessions :
       \/ \E i \in Ids : IdentifyAccepted(s, i) \/ IdentifyRejected(s, i)
       \/ IdentifyMalformed(s)
       \/ JoinMatch(s)
       \/ RequestRemoval(s)
       \/ PeerReset(s)
       \/ Remove(s)
       \/ RouteSession(s)
  \/ RoutePlayer
  \/ RouteSubmit
  \/ ExecuteCommand
  \/ PeerDetach
  \/ PeerClosed
  \/ RemoveAgain

Spec == Init /\ [][Next]_vars

-----------------------------------------------------------------------------
(* Safety.                                                                 *)

\* A session that is in the game holds the login for its id: no duplicate
\* login, and no other session's end, takes the id away from it.
LoginIsHeld ==
  \A s \in registered \cap connected \cap authentic :
    ~Expired(s) => players[identity[user[s]]] = user[s]

\* A login ends only in the removal of the session that made it: rejecting a
\* second login and removing the rejected session leave it alone. It rests on
\* the rejected Player being destroyed before UserDisconnected looks at it.
LogoutOnlyByOwner ==
  [][\A i \in Ids : players[i] # NoPlayer /\ players'[i] # players[i] =>
       /\ players'[i] = NoPlayer
       /\ removals # <<>> /\ players[i].session = Head(removals)]_vars

\* Sessions that have submitted an identity more than once.
Renamed == {s \in Sessions : made[s] > 1}

\* When a session has been removed its player is not logged in any more: what
\* UserDisconnected is for. It is so for every session that submitted one identity,
\* however its end is interleaved with a reset by the peer and with the logins of
\* others.
GhostOnlyAfterRename ==
  \A i \in Ids :
    players[i] # NoPlayer => players[i].session \in registered \cup Renamed

\* Nothing but a second identity drops the Player of an authenticated session
\* while the session is registered: JoinMatch finds it, and so does the async
\* thread that goes on with a raw pointer. (Once the session is removed, or its
\* removal hangs after UserDisconnected, a Player that joined no match is gone.)
PlayerOutlivesSession ==
  \A s \in (registered \cap authentic) \ Renamed : ~Expired(s) \/ main = "stuck"

\* A match command is executed for the Player that submitted it: a queued
\* UserID is only taken over by another Player once the session that sent the
\* command is out of the server or has submitted a second identity.
CommandForSender ==
  command # NoPlayer =>
    Executor = command \/ command.session \notin registered \ Renamed
=============================================================================
