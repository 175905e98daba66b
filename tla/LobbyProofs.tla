---------------------------- MODULE LobbyProofs -----------------------------
(***************************************************************************)
(* Proofs about Lobby: for any sets of sessions and of UserIDs, and any    *)
(* number of identities, removals and commands, a login is held by its     *)
(* session and ended by nobody else, a Player lives as long as its         *)
(* session, and a match command is executed for the Player that sent it.   *)
(***************************************************************************)
EXTENDS Lobby, SequenceTheorems, TLAPS

\* The Player a session has made last is its user.
Made == \A s \in Sessions : made[s] > 0 => user[s] # NoPlayer

\* The two maps have Players that were made, under their own ids.
Keyed ==
  \A i \in Ids :
    /\ players[i] # NoPlayer =>
         identity[players[i]] = i /\ players[i].number <= made[players[i].session]
    /\ matched[i] # NoPlayer =>
         identity[matched[i]] = i /\ matched[i].number <= made[matched[i].session]

\* The user of a registered session, if it is owned at all, is logged in: it is
\* not only the match that owns it. (When UserDisconnected has been called and the
\* removal then hangs, it may be.)
Held ==
  \A s \in registered :
    ~Expired(s) =>
      players[identity[user[s]]] = user[s] \/ (main = "stuck" /\ s \notin connected)

\* An authenticated session with one identity is logged in.
LoggedIn ==
  \A s \in registered \cap authentic :
    /\ made[s] > 0
    /\ s \notin Renamed =>
         main = "stuck" \/ (identity[user[s]] \in Ids /\ players[identity[user[s]]] = user[s])

\* Those who joined the match were authenticated, and are in it as long as their
\* session is registered.
InMatch ==
  \A p \in active :
    /\ p.session \in authentic /\ identity[p] \in Ids /\ p.number <= made[p.session]
    /\ p.session \in registered \ Renamed => matched[identity[p]] = p

IInv ==
  /\ TypeOK
  /\ Made /\ Keyed /\ Held /\ LoggedIn /\ GhostOnlyAfterRename /\ InMatch


-----------------------------------------------------------------------------
(* Players and who owns them.                                              *)

LEMMA NoPlayerTyped == NoPlayer \notin Player /\ FreedPlayer \notin Player
<1>1. NoPlayer.session \notin Sessions /\ FreedPlayer.session \notin Sessions
  BY LobbyAssumption DEF NoPlayer, FreedPlayer
<1> QED
  BY <1>1 DEF Player

LEMMA Numbers ==
  ASSUME TypeOK
  PROVE  /\ \A s \in Sessions : made[s] \in Nat
         /\ \A p \in Player : p.session \in Sessions /\ p.number \in Nat \ {0}
<1>1. 0..MaxIdentities \subseteq Nat /\ 1..MaxIdentities \subseteq Nat \ {0}
  BY LobbyAssumption
<1> QED
  BY <1>1 DEF TypeOK, Player

\* A Player that somebody owns is in one of the maps under its id.
LEMMA OwnedKeyed ==
  ASSUME IInv, NEW p \in Player, Owned(p, players, matched)
  PROVE  /\ identity[p] \in Ids
         /\ players[identity[p]] = p \/ matched[identity[p]] = p
<1>1. PICK i \in Ids : players[i] = p \/ matched[i] = p
  BY DEF Owned
<1> QED
  BY <1>1, NoPlayerTyped DEF IInv, Keyed

\* The user of a session.
LEMMA UserTyped ==
  ASSUME IInv, NEW s \in Sessions, user[s] # NoPlayer
  PROVE  /\ user[s] \in Player /\ user[s].session = s /\ user[s].number = made[s]
         /\ \A t \in Sessions : user[t] = user[s] => t = s
<1>1. user[s] \in Player /\ user[s] = [session |-> s, number |-> made[s]]
  BY DEF IInv, TypeOK
<1>2. \A t \in Sessions : user[t] # NoPlayer => user[t] = [session |-> t, number |-> made[t]]
  BY DEF IInv, TypeOK
<1>3. user[s].session = s /\ user[s].number = made[s]
  BY <1>1
<1>4. ASSUME NEW t \in Sessions, user[t] = user[s] PROVE t = s
  <2>1. user[t] = [session |-> t, number |-> made[t]]
    BY <1>2, <1>4
  <2>2. user[t].session = t
    BY <2>1
  <2> QED
    BY <1>3, <1>4, <2>2
<1> QED
  BY <1>1, <1>3, <1>4

\* A new Player is nowhere yet.
LEMMA NewPlayerFresh ==
  ASSUME IInv, NEW s \in Sessions, NEW p \in Player, NewPlayer(s, p)
  PROVE  /\ p.session = s /\ p.number = made[s] + 1 /\ made[s] \in Nat
         /\ \A i \in Ids : players[i] # p /\ matched[i] # p
         /\ p \notin active
         /\ \A t \in Sessions : user[t] # p
         /\ \A t \in Sessions :
              /\ user'[t] = IF t = s THEN p ELSE user[t]
              /\ made'[t] = IF t = s THEN made[s] + 1 ELSE made[t]
         /\ user' \in [Sessions -> Player \cup {NoPlayer}]
         /\ made' \in [Sessions -> 0..MaxIdentities]
         /\ p = [session |-> s, number |-> made'[s]]
         /\ main = "runs" /\ s \in registered
<1>1. made[s] \in 0..MaxIdentities /\ MaxIdentities \in Nat
  BY LobbyAssumption DEF IInv, TypeOK
<1>2. /\ p = [session |-> s, number |-> made[s] + 1]
      /\ made' = [made EXCEPT ![s] = made[s] + 1] /\ user' = [user EXCEPT ![s] = p]
      /\ made[s] < MaxIdentities /\ main = "runs" /\ s \in registered
  BY DEF NewPlayer, MainRuns
<1>3. p.session = s /\ p.number = made[s] + 1 /\ ~(p.number <= made[p.session])
  BY <1>1, <1>2
<1>4. /\ \A i \in Ids : players[i] # p /\ matched[i] # p
      /\ p \notin active
  BY <1>3, NoPlayerTyped DEF IInv, Keyed, InMatch
<1>5. \A t \in Sessions : user[t] # p
  <2>1. \A t \in Sessions : made[t] \in 0..MaxIdentities
    BY DEF IInv, TypeOK
  <2> QED
    BY <1>3, <2>1, NoPlayerTyped, UserTyped
<1>6. /\ \A t \in Sessions :
           /\ user'[t] = IF t = s THEN p ELSE user[t]
           /\ made'[t] = IF t = s THEN made[s] + 1 ELSE made[t]
      /\ user' \in [Sessions -> Player \cup {NoPlayer}]
  BY <1>2 DEF IInv, TypeOK
<1>7. made' \in [Sessions -> 0..MaxIdentities]
  <2>1. made[s] + 1 \in 0..MaxIdentities
    BY <1>1, <1>2
  <2> QED
    BY <1>2, <2>1 DEF IInv, TypeOK
<1> QED
  BY <1>1, <1>2, <1>3, <1>4, <1>5, <1>6, <1>7

-----------------------------------------------------------------------------
(* The actions.                                                            *)

LEMMA InitIInv == Init => IInv
<1> SUFFICES ASSUME Init PROVE IInv
  OBVIOUS
<1>1. TypeOK
  BY LobbyAssumption DEF Init, TypeOK
<1>2. Made /\ Keyed /\ LoggedIn /\ GhostOnlyAfterRename /\ InMatch
  BY DEF Init, Made, Keyed, LoggedIn, GhostOnlyAfterRename, InMatch
<1>3. Held
  BY DEF Init, Held, Expired
<1> QED
  BY <1>1, <1>2, <1>3 DEF IInv

\* A login that is accepted.
LEMMA AcceptedKeeps ==
  ASSUME IInv, NEW s \in Sessions, NEW i \in Ids, IdentifyAccepted(s, i)
  PROVE  IInv'
<1>1. PICK p \in Player :
        /\ NewPlayer(s, p)
        /\ players[i] = NoPlayer
        /\ identity' = [identity EXCEPT ![p] = i]
        /\ attached' = attached \cup {p}
        /\ authentic' = authentic \cup {s}
        /\ players' = [players EXCEPT ![i] = p]
        /\ UNCHANGED <<main, registered, connected, matchVars, routeVars, removals,
                       closeVars>>
  BY DEF IdentifyAccepted
<1> USE DEF matchVars, routeVars, closeVars
<1>2. /\ p.session = s /\ p.number = made[s] + 1 /\ made[s] \in Nat
      /\ \A j \in Ids : players[j] # p /\ matched[j] # p
      /\ p \notin active
      /\ \A t \in Sessions : user[t] # p
      /\ \A t \in Sessions :
           /\ user'[t] = IF t = s THEN p ELSE user[t]
           /\ made'[t] = IF t = s THEN made[s] + 1 ELSE made[t]
      /\ user' \in [Sessions -> Player \cup {NoPlayer}]
      /\ made' \in [Sessions -> 0..MaxIdentities]
      /\ p = [session |-> s, number |-> made'[s]]
      /\ main = "runs" /\ s \in registered
  BY <1>1, NewPlayerFresh
<1>3. /\ \A q \in Player : identity'[q] = IF q = p THEN i ELSE identity[q]
      /\ \A j \in Ids : players'[j] = IF j = i THEN p ELSE players[j]
      /\ identity' \in [Player -> Ids \cup {0}]
      /\ players' \in [Ids -> Player \cup {NoPlayer}]
  BY <1>1 DEF IInv, TypeOK
<1>4. \A t \in Sessions : made[t] \in Nat /\ made'[t] \in Nat /\ made[t] <= made'[t]
  BY <1>2, Numbers DEF IInv
<1>5. TypeOK'
  BY <1>1, <1>2, <1>3 DEF IInv, TypeOK
<1>6. Made'
  BY <1>2, NoPlayerTyped DEF IInv, Made
<1>7. Keyed'
  <2> SUFFICES ASSUME NEW j \in Ids
               PROVE  /\ players'[j] # NoPlayer =>
                           /\ identity'[players'[j]] = j
                           /\ players'[j].number <= made'[players'[j].session]
                      /\ matched[j] # NoPlayer =>
                           /\ identity'[matched[j]] = j
                           /\ matched[j].number <= made'[matched[j].session]
    BY <1>1 DEF Keyed
  <2>1. ASSUME NEW q \in Player, q # p, identity[q] = j, q.number <= made[q.session]
        PROVE  identity'[q] = j /\ q.number <= made'[q.session]
    BY <1>3, <1>4, <2>1, Numbers DEF IInv
  <2>2. /\ matched[j] # p /\ players[j] # p
        /\ players[j] \in Player \cup {NoPlayer} /\ matched[j] \in Player \cup {NoPlayer}
    BY <1>2 DEF IInv, TypeOK
  <2>3. matched[j] # NoPlayer => identity'[matched[j]] = j /\ matched[j].number <= made'[matched[j].session]
    BY <2>1, <2>2 DEF IInv, Keyed
  <2>4. CASE j = i
    BY <1>2, <1>3, <2>3, <2>4
  <2>5. CASE j # i
    BY <1>3, <2>1, <2>2, <2>3, <2>5 DEF IInv, Keyed
  <2> QED
    BY <2>4, <2>5
<1>8. \A t \in Sessions : t # s /\ user[t] # NoPlayer =>
        /\ user[t] \in Player /\ user'[t] = user[t] /\ user[t] # p
        /\ identity'[user[t]] = identity[user[t]]
        /\ identity[user[t]] \in Ids /\ players[identity[user[t]]] = user[t] =>
             players'[identity[user[t]]] = user[t]
  BY <1>1, <1>2, <1>3, UserTyped
<1>9. Held'
  <2> SUFFICES ASSUME NEW t \in registered, ~Expired(t)'
               PROVE  /\ players'[identity'[user'[t]]] = user'[t]
    BY <1>1 DEF Held
  <2>1. t \in Sessions
    BY DEF IInv, TypeOK
  <2>2. CASE t = s
    BY <1>2, <1>3, <2>2
  <2>3. CASE t # s
    <3>1. user[t] # NoPlayer /\ user'[t] = user[t] /\ Owned(user[t], players', matched)
      BY <1>1, <1>2, <2>1, <2>3 DEF Expired
    <3>2. Owned(user[t], players, matched)
      BY <1>2, <1>3, <2>1, <3>1 DEF Owned
    <3>3. identity[user[t]] \in Ids /\ players[identity[user[t]]] = user[t]
      BY <1>2, <1>8, <2>1, <2>3, <3>1, <3>2, OwnedKeyed DEF IInv, Held, Expired
    <3> QED
      BY <1>8, <2>1, <2>3, <3>1, <3>3
  <2> QED
    BY <2>2, <2>3
<1>10. Renamed \subseteq Renamed'
  BY <1>4 DEF Renamed
<1>11. LoggedIn'
  <2> SUFFICES ASSUME NEW t \in registered \cap authentic'
               PROVE  /\ made'[t] > 0
                      /\ t \notin Renamed' =>
                           \/ main' = "stuck"
                           \/ /\ identity'[user'[t]] \in Ids
                              /\ players'[identity'[user'[t]]] = user'[t]
    BY <1>1 DEF LoggedIn
  <2>1. CASE t = s
    BY <1>2, <1>3, <2>1
  <2>2. CASE t # s
    <3>1. t \in Sessions /\ t \in registered \cap authentic
      BY <1>1, <2>2 DEF IInv, TypeOK
    <3>2. made'[t] = made[t] /\ made[t] > 0 /\ user[t] # NoPlayer
      BY <1>2, <2>2, <3>1 DEF IInv, LoggedIn, Made
    <3> QED
      BY <1>2, <1>8, <1>10, <2>2, <3>1, <3>2 DEF IInv, LoggedIn
  <2> QED
    BY <2>1, <2>2
<1>12. GhostOnlyAfterRename'
  <2>1. \A j \in Ids : players'[j] # NoPlayer =>
          players'[j] = p \/ (players'[j] = players[j] /\ players[j] # NoPlayer)
    BY <1>3
  <2> QED
    BY <1>1, <1>2, <1>10, <2>1 DEF IInv, GhostOnlyAfterRename
<1>13. InMatch'
  <2> SUFFICES ASSUME NEW q \in active
               PROVE  /\ q.session \in authentic' /\ identity'[q] \in Ids
                      /\ q.number <= made'[q.session]
                      /\ q.session \in registered \ Renamed' => matched[identity'[q]] = q
    BY <1>1 DEF InMatch
  <2>1. q \in Player /\ q # p
    BY <1>2 DEF IInv, TypeOK
  <2>2. identity'[q] = identity[q] /\ q.number <= made'[q.session]
    <3>1. q.number <= made[q.session] /\ q.session \in Sessions /\ q.number \in Nat
      BY <2>1, Numbers DEF IInv, InMatch
    <3> QED
      BY <1>3, <1>4, <2>1, <3>1
  <2> QED
    BY <1>1, <1>10, <2>1, <2>2 DEF IInv, InMatch
<1> QED
  BY <1>5, <1>6, <1>7, <1>9, <1>11, <1>12, <1>13 DEF IInv

\* A login that is rejected, or an identity that cannot be parsed: the session has
\* a new Player that nobody owns.
LEMMA DroppedKeeps ==
  ASSUME IInv, NEW s \in Sessions,
         IdentifyMalformed(s) \/ \E i \in Ids : IdentifyRejected(s, i)
  PROVE  IInv'
<1>1. PICK p \in Player :
        /\ NewPlayer(s, p)
        /\ identity' = identity \/ \E i \in Ids : identity' = [identity EXCEPT ![p] = i]
        /\ attached' \in {attached \ {p}, attached \cup {p}}
        /\ connected' \subseteq connected
        /\ removals' \in {removals, Append(removals, s)}
        /\ main' \in {main, "stuck"}
        /\ UNCHANGED <<registered, authentic, players, matchVars, routeVars, closeVars>>
  <2>1. ASSUME NEW p \in Player, CloseSession(s, p)
        PROVE  /\ attached' \in {attached \ {p}, attached \cup {p}}
               /\ connected' \subseteq connected
               /\ removals' \in {removals, Append(removals, s)}
               /\ main' \in {main, "stuck"}
    BY <2>1 DEF CloseSession
  <2>2. CASE \E i \in Ids : IdentifyRejected(s, i)
    BY <2>1, <2>2 DEF IdentifyRejected
  <2>3. CASE IdentifyMalformed(s)
    BY <2>1, <2>3 DEF IdentifyMalformed
  <2> QED
    BY <2>2, <2>3
<1> USE DEF matchVars, routeVars, closeVars
<1>2. /\ p.session = s /\ p.number = made[s] + 1 /\ made[s] \in Nat
      /\ \A j \in Ids : players[j] # p /\ matched[j] # p
      /\ p \notin active
      /\ \A t \in Sessions : user[t] # p
      /\ \A t \in Sessions :
           /\ user'[t] = IF t = s THEN p ELSE user[t]
           /\ made'[t] = IF t = s THEN made[s] + 1 ELSE made[t]
      /\ user' \in [Sessions -> Player \cup {NoPlayer}]
      /\ made' \in [Sessions -> 0..MaxIdentities]
      /\ p = [session |-> s, number |-> made'[s]]
      /\ main = "runs" /\ s \in registered
  BY <1>1, NewPlayerFresh
<1>3. /\ \A q \in Player : q # p => identity'[q] = identity[q]
      /\ identity' \in [Player -> Ids \cup {0}]
  BY <1>1 DEF IInv, TypeOK
<1>4. \A t \in Sessions : made[t] \in Nat /\ made'[t] \in Nat /\ made[t] <= made'[t]
  BY <1>2, Numbers DEF IInv
<1>5. TypeOK'
  <2>1. removals' \in Seq(Sessions)
    <3>1. removals \in Seq(Sessions)
      BY DEF IInv, TypeOK
    <3>2. Append(removals, s) \in Seq(Sessions)
      BY <3>1, AppendProperties
    <3> QED
      BY <1>1, <3>1, <3>2
  <2>2. main' \in {"runs", "stuck", "null player"} /\ attached' \subseteq Player
        /\ connected' \subseteq Sessions
    BY <1>1 DEF IInv, TypeOK
  <2> QED
    BY <1>1, <1>2, <1>3, <2>1, <2>2 DEF IInv, TypeOK
<1>6. Made'
  BY <1>2, NoPlayerTyped DEF IInv, Made
<1>7. ASSUME NEW q \in Player, q # p, q.number <= made[q.session]
      PROVE  identity'[q] = identity[q] /\ q.number <= made'[q.session]
  BY <1>3, <1>4, <1>7, Numbers DEF IInv
<1>8. Keyed'
  <2>1. \A j \in Ids :
          /\ players[j] # p /\ players[j] \in Player \cup {NoPlayer}
          /\ matched[j] # p /\ matched[j] \in Player \cup {NoPlayer}
    BY <1>2 DEF IInv, TypeOK
  <2> QED
    BY <1>1, <1>7, <2>1 DEF IInv, Keyed
<1>9. Held'
  <2> SUFFICES ASSUME NEW t \in registered, ~Expired(t)'
               PROVE  players[identity'[user'[t]]] = user'[t]
    BY <1>1 DEF Held
  <2>1. t \in Sessions /\ user'[t] # NoPlayer /\ Owned(user'[t], players, matched)
    BY <1>1 DEF IInv, TypeOK, Expired
  <2>2. t # s
    BY <1>2, <2>1 DEF Owned
  <2>3. user'[t] = user[t] /\ user[t] \in Player /\ user[t] # p
    BY <1>2, <2>1, <2>2, UserTyped
  <2> QED
    BY <1>2, <1>3, <2>1, <2>3 DEF IInv, Held, Expired
<1>10. Renamed \subseteq Renamed'
  BY <1>4 DEF Renamed
<1>11. LoggedIn'
  <2> SUFFICES ASSUME NEW t \in registered \cap authentic
               PROVE  /\ made'[t] > 0
                      /\ t \notin Renamed' =>
                           /\ identity'[user'[t]] \in Ids
                           /\ players[identity'[user'[t]]] = user'[t]
    BY <1>1 DEF LoggedIn
  <2>1. t \in Sessions /\ made[t] \in Nat /\ made[t] > 0 /\ user[t] # NoPlayer
    BY Numbers DEF IInv, TypeOK, LoggedIn, Made
  <2>2. CASE t = s
    <3>1. made'[s] \in Nat /\ made'[s] > 1
      BY <1>2, <2>1, <2>2
    <3>2. s \in Renamed'
      BY <3>1 DEF Renamed
    <3> QED
      BY <2>2, <3>1, <3>2
  <2>3. CASE t # s
    <3>1. made'[t] = made[t] /\ user'[t] = user[t] /\ identity'[user[t]] = identity[user[t]]
      BY <1>2, <1>3, <2>1, <2>3, UserTyped
    <3> QED
      BY <1>2, <1>10, <2>1, <3>1 DEF IInv, LoggedIn
  <2> QED
    BY <2>2, <2>3
<1>12. GhostOnlyAfterRename'
  BY <1>1, <1>10 DEF IInv, GhostOnlyAfterRename
<1>13. InMatch'
  <2> SUFFICES ASSUME NEW q \in active
               PROVE  /\ q.session \in authentic /\ identity'[q] \in Ids
                      /\ q.number <= made'[q.session]
                      /\ q.session \in registered \ Renamed' => matched[identity'[q]] = q
    BY <1>1 DEF InMatch
  <2>1. q \in Player /\ q # p /\ q.number <= made[q.session]
    BY <1>2 DEF IInv, TypeOK, InMatch
  <2> QED
    BY <1>7, <1>10, <2>1 DEF IInv, InMatch
<1> QED
  BY <1>5, <1>6, <1>8, <1>9, <1>11, <1>12, <1>13 DEF IInv

\* A Player joins the match, unless the session's user has expired.
LEMMA JoinKeeps ==
  ASSUME IInv, NEW s \in Sessions, JoinMatch(s)
  PROVE  IInv'
<1>1. /\ main = "runs" /\ s \in registered \cap authentic
      /\ UNCHANGED <<registered, connected, authentic, playerVars, attached,
                     players, routeVars, removals, closeVars>>
  BY DEF JoinMatch, MainRuns
<1> USE DEF playerVars, routeVars, closeVars
<1>2. CASE Expired(s)
  <2>1. main' = "null player" /\ UNCHANGED matchVars
    BY <1>2 DEF JoinMatch
  <2>2. TypeOK'
    BY <1>1, <2>1 DEF IInv, TypeOK, matchVars
  <2>3. Held'
    BY <1>1, <2>1 DEF IInv, Held, Expired, matchVars
  <2> QED
    BY <1>1, <2>1, <2>2, <2>3 DEF IInv, Made, Keyed, LoggedIn, Renamed,
       GhostOnlyAfterRename, InMatch, matchVars
<1>3. CASE ~Expired(s)
  <2> DEFINE u == user[s]
             i == identity[u]
  <2>1. /\ matched' = [matched EXCEPT ![i] = u] /\ active' = active \cup {u}
        /\ main' = main
    BY <1>3 DEF JoinMatch
  <2>2. /\ u # NoPlayer /\ u \in Player /\ u.session = s /\ u.number = made[s]
        /\ Owned(u, players, matched)
    BY <1>3, UserTyped DEF Expired
  <2>3. i \in Ids /\ players[i] = u
    BY <1>1, <1>3, <2>2, OwnedKeyed DEF IInv, Held
  <2> HIDE DEF u, i
  <2>4. \A j \in Ids : matched'[j] = IF j = i THEN u ELSE matched[j]
    BY <2>1 DEF IInv, TypeOK
  <2>5. TypeOK'
    <3>1. matched' \in [Ids -> Player \cup {NoPlayer}] /\ active' \subseteq Player
      BY <2>1, <2>2 DEF IInv, TypeOK
    <3> QED
      BY <1>1, <2>1, <3>1 DEF IInv, TypeOK
  <2>6. Keyed'
    <3>1. u.number <= made[u.session]
      BY <2>2, Numbers DEF IInv
    <3> QED
      BY <1>1, <2>4, <3>1 DEF IInv, Keyed, i
  <2>7. Held'
    <3> SUFFICES ASSUME NEW t \in registered, ~Expired(t)'
                 PROVE  players[identity[user[t]]] = user[t]
      BY <1>1 DEF Held
    <3>1. CASE t = s
      BY <2>3, <3>1 DEF u, i
    <3>2. CASE t # s
      <4>1. t \in Sessions /\ user[t] # NoPlayer /\ Owned(user[t], players, matched')
        BY <1>1 DEF IInv, TypeOK, Expired
      <4>2. user[t] # u
        BY <2>2, <3>2, <4>1, UserTyped DEF u
      <4>3. Owned(user[t], players, matched)
        BY <2>4, <4>1, <4>2 DEF Owned
      <4> QED
        BY <1>1, <4>1, <4>3 DEF IInv, Held, Expired
    <3> QED
      BY <3>1, <3>2
  <2>8. InMatch'
    <3> SUFFICES ASSUME NEW q \in active'
                 PROVE  /\ q.session \in authentic /\ identity[q] \in Ids
                        /\ q.number <= made[q.session]
                        /\ q.session \in registered \ Renamed => matched'[identity[q]] = q
      BY <1>1 DEF InMatch, Renamed
    <3>1. CASE q = u
      <4>1. u.number <= made[u.session]
        BY <2>2, Numbers DEF IInv
      <4> QED
        BY <1>1, <2>2, <2>3, <2>4, <3>1, <4>1 DEF i
    <3>2. CASE q # u
      <4>1. q \in active /\ q \in Player
        BY <2>1, <3>2 DEF IInv, TypeOK
      <4>2. ASSUME q.session \in registered \ Renamed PROVE identity[q] # i
        <5> DEFINE t == q.session
        <5>1. t \in Sessions /\ t \in registered \cap authentic /\ t \notin Renamed
          BY <4>1, <4>2, Numbers DEF IInv, InMatch
        <5>2. user[t] \in Player /\ user[t] = [session |-> t, number |-> made[t]]
          BY <5>1 DEF IInv, TypeOK, LoggedIn, Made
        <5>3. made[t] = 1 /\ q.number = 1
          <6>1. made[t] \in Nat /\ ~(made[t] > 1) /\ made[t] > 0
            BY <5>1, Numbers DEF IInv, LoggedIn, Renamed
          <6>2. q.number \in Nat \ {0} /\ q.number <= made[t]
            BY <4>1, Numbers DEF IInv, InMatch
          <6> QED
            BY <6>1, <6>2
        <5>4. q = user[t]
          BY <4>1, <5>2, <5>3 DEF Player
        <5>5. players[identity[q]] = q
          BY <1>1, <5>1, <5>4 DEF IInv, LoggedIn
        <5> QED
          BY <2>3, <3>2, <5>5
      <4> QED
        BY <2>4, <4>1, <4>2 DEF IInv, InMatch
    <3> QED
      BY <3>1, <3>2
  <2> QED
    BY <1>1, <2>1, <2>5, <2>6, <2>7, <2>8 DEF IInv, Made, LoggedIn, Renamed,
       GhostOnlyAfterRename
<1> QED
  BY <1>2, <1>3

\* Steps that only the routing, the removal queue and the connections take part in.
LEMMA QuietKeeps ==
  ASSUME IInv, TypeOK', connected' \subseteq connected,
         UNCHANGED <<main, registered, authentic, playerVars, players, matchVars>>
  PROVE  IInv'
<1> USE DEF playerVars, matchVars
<1>1. Held'
  BY DEF IInv, Held, Expired
<1> QED
  BY <1>1 DEF IInv, Made, Keyed, LoggedIn, Renamed, GhostOnlyAfterRename, InMatch

LEMMA QuietsKeep ==
  ASSUME IInv,
         \/ \E s \in Sessions : RequestRemoval(s) \/ PeerReset(s) \/ RouteSession(s)
         \/ RoutePlayer \/ RouteSubmit \/ ExecuteCommand
         \/ PeerDetach \/ PeerClosed \/ RemoveAgain \/ UNCHANGED vars
  PROVE  IInv'
<1> USE DEF playerVars, matchVars, routeVars, closeVars
<1>1. /\ UNCHANGED <<main, registered, authentic, playerVars, players, matchVars>>
      /\ connected' \subseteq connected
  BY DEF RequestRemoval, PeerReset, RouteSession, RoutePlayer, RouteSubmit,
     ExecuteCommand, PeerDetach, PeerClosed, RemoveAgain, vars
<1>2. TypeOK'
  <2>1. ASSUME NEW s \in Sessions, RequestRemoval(s) PROVE TypeOK'
    <3>1. removals' \in Seq(Sessions)
      BY <2>1, AppendProperties DEF RequestRemoval, IInv, TypeOK
    <3> QED
      BY <2>1, <3>1 DEF RequestRemoval, IInv, TypeOK
  <2>2. ASSUME NEW s \in Sessions, PeerReset(s) PROVE TypeOK'
    BY <2>2 DEF PeerReset, IInv, TypeOK
  <2>3. ASSUME NEW s \in Sessions, RouteSession(s) PROVE TypeOK'
    <3>1. found' \in 0..MaxCommands
      <4>1. found \in 0..MaxCommands /\ found < MaxCommands /\ found' = found + 1
        BY <2>3 DEF RouteSession, IInv, TypeOK
      <4> QED
        BY <4>1, LobbyAssumption
    <3> QED
      BY <2>3, <3>1 DEF RouteSession, IInv, TypeOK
  <2>4. CASE RoutePlayer
    <3>1. routing' \in Player \cup {NoPlayer}
      BY <2>4, UserTyped DEF RoutePlayer, Expired
    <3> QED
      BY <2>4, <3>1 DEF RoutePlayer, IInv, TypeOK
  <2>5. CASE RouteSubmit
    <3>1. routing' \in {NoPlayer, FreedPlayer} /\ command' \in active \cup {NoPlayer}
      BY <2>5 DEF RouteSubmit, IInv, TypeOK
    <3> QED
      BY <2>5, <3>1 DEF RouteSubmit, IInv, TypeOK
  <2>6. CASE ExecuteCommand
    BY <2>6 DEF ExecuteCommand, IInv, TypeOK
  <2>7. CASE PeerDetach
    BY <2>7 DEF PeerDetach, IInv, TypeOK
  <2>8. CASE PeerClosed
    <3>1. removals' \in Seq(Sessions) /\ joining' = NoSession
      BY <2>8, AppendProperties DEF PeerClosed, IInv, TypeOK
    <3> QED
      BY <2>8, <3>1 DEF PeerClosed, IInv, TypeOK
  <2>9. CASE RemoveAgain
    <3>1. removals' \in Seq(Sessions)
      BY <2>9, HeadTailProperties DEF RemoveAgain, Dequeued, IInv, TypeOK
    <3> QED
      BY <2>9, <3>1 DEF RemoveAgain, IInv, TypeOK
  <2>10. CASE UNCHANGED vars
    BY <2>10 DEF vars, IInv, TypeOK
  <2> QED
    BY <2>1, <2>2, <2>3, <2>4, <2>5, <2>6, <2>7, <2>8, <2>9, <2>10
<1> QED
  BY <1>1, <1>2, QuietKeeps

\* DoRemovePlayer ends its own session's login only.
LEMMA LoggedOutOwn ==
  ASSUME IInv, NEW s \in registered, main = "runs", players' = LoggedOut(s)
  PROVE  /\ players' \in [Ids -> Player \cup {NoPlayer}]
         /\ \A i \in Ids :
              players'[i] = IF ~Expired(s) /\ players[i] = user[s] THEN NoPlayer ELSE players[i]
<1>1. s \in Sessions
  BY DEF IInv, TypeOK
<1>2. CASE Expired(s)
  BY <1>2 DEF LoggedOut, IInv, TypeOK
<1>3. CASE ~Expired(s)
  <2>1. user[s] \in Player /\ user[s] # NoPlayer /\ Owned(user[s], players, matched)
    BY <1>1, <1>3, UserTyped DEF Expired
  <2>2. identity[user[s]] \in Ids /\ players[identity[user[s]]] = user[s]
    BY <1>3, <2>1, OwnedKeyed DEF IInv, Held
  <2>3. \A i \in Ids : players[i] = user[s] => i = identity[user[s]]
    BY <2>1 DEF IInv, Keyed
  <2>4. players' = [players EXCEPT ![identity[user[s]]] = NoPlayer]
    BY <1>3 DEF LoggedOut
  <2> QED
    BY <1>3, <2>2, <2>3, <2>4 DEF IInv, TypeOK
<1> QED
  BY <1>2, <1>3

LEMMA RemoveKeeps ==
  ASSUME IInv, NEW s \in Sessions, Remove(s)
  PROVE  IInv'
<1>1. /\ main = "runs" /\ s \in registered /\ players' = LoggedOut(s)
      /\ removals # <<>>
      /\ removals' \in {Tail(removals), Append(Tail(removals), s)}
      /\ connected' = connected \ {s}
      /\ attached' \subseteq attached
      /\ \/ main' = main /\ registered' = registered \ {s}
         \/ main' = "stuck" /\ registered' = registered
      /\ UNCHANGED <<authentic, playerVars, matchVars, routeVars, closeVars>>
  BY DEF Remove, MainRuns, Dequeued
<1> USE DEF playerVars, matchVars, routeVars, closeVars
<1>2. /\ players' \in [Ids -> Player \cup {NoPlayer}]
      /\ \A i \in Ids :
           players'[i] = IF ~Expired(s) /\ players[i] = user[s] THEN NoPlayer ELSE players[i]
  BY <1>1, LoggedOutOwn
<1>3. TypeOK'
  <2>1. removals' \in Seq(Sessions)
    <3>1. removals \in Seq(Sessions)
      BY DEF IInv, TypeOK
    <3>2. Tail(removals) \in Seq(Sessions)
      BY <1>1, <3>1, HeadTailProperties
    <3> QED
      BY <1>1, <3>2, AppendProperties
  <2>2. /\ connected' \subseteq Sessions /\ attached' \subseteq Player
        /\ registered' \subseteq Sessions /\ main' \in {"runs", "stuck", "null player"}
    BY <1>1 DEF IInv, TypeOK
  <2> QED
    BY <1>1, <1>2, <2>1, <2>2 DEF IInv, TypeOK
<1>4. Made' /\ Renamed' = Renamed
  BY <1>1 DEF IInv, Made, Renamed
<1>5. Keyed'
  BY <1>1, <1>2 DEF IInv, Keyed
<1>6. \A t \in Sessions : t # s /\ user[t] # NoPlayer => user[t] # user[s]
  BY UserTyped
<1>7. Held'
  <2> SUFFICES ASSUME NEW t \in registered', ~Expired(t)', ~(main' = "stuck" /\ t \notin connected')
               PROVE  players'[identity[user[t]]] = user[t]
    BY <1>1 DEF Held
  <2>1. t # s /\ t \in registered /\ t \in Sessions
    BY <1>1 DEF IInv, TypeOK
  <2>2. user[t] # NoPlayer /\ user[t] \in Player /\ Owned(user[t], players', matched)
    BY <1>1, <2>1, UserTyped DEF Expired
  <2>3. Owned(user[t], players, matched)
    BY <1>2, <2>2 DEF Owned
  <2>4. identity[user[t]] \in Ids /\ players[identity[user[t]]] = user[t]
    BY <1>1, <2>1, <2>2, <2>3, OwnedKeyed DEF IInv, Held, Expired
  <2> QED
    BY <1>2, <1>6, <2>1, <2>2, <2>4
<1>8. LoggedIn'
  <2> SUFFICES ASSUME NEW t \in registered' \cap authentic
               PROVE  /\ made[t] > 0
                      /\ t \notin Renamed =>
                           \/ main' = "stuck"
                           \/ /\ identity[user[t]] \in Ids
                              /\ players'[identity[user[t]]] = user[t]
    BY <1>1, <1>4 DEF LoggedIn
  <2>1. t \in registered /\ t \in Sessions /\ made[t] > 0 /\ user[t] # NoPlayer
    BY <1>1 DEF IInv, TypeOK, LoggedIn, Made
  <2>2. t # s \/ main' = "stuck"
    BY <1>1
  <2> QED
    BY <1>1, <1>2, <1>6, <2>1, <2>2 DEF IInv, LoggedIn
<1>9. GhostOnlyAfterRename'
  <2> SUFFICES ASSUME NEW i \in Ids, players'[i] # NoPlayer,
                      players'[i].session \notin registered' \cup Renamed
               PROVE  FALSE
    BY <1>4 DEF GhostOnlyAfterRename
  <2> DEFINE p == players[i]
  <2>1. players'[i] = p /\ p # NoPlayer /\ p \in Player /\ ~(~Expired(s) /\ p = user[s])
    BY <1>2 DEF IInv, TypeOK
  <2>2. p.session = s /\ s \notin Renamed
    BY <1>1, <2>1 DEF IInv, GhostOnlyAfterRename
  <2>3. p.number = made[s] /\ made[s] > 0
    <3>1. p.number <= made[s] /\ p.number \in Nat \ {0} /\ made[s] \in Nat
      BY <2>1, <2>2, Numbers DEF IInv, Keyed
    <3>2. ~(made[s] > 1)
      BY <2>2 DEF Renamed
    <3> QED
      BY <3>1, <3>2
  <2>4. p = [session |-> s, number |-> made[s]]
    BY <2>1, <2>2, <2>3 DEF Player
  <2>5. user[s] # NoPlayer /\ user[s] = p
    BY <2>3, <2>4 DEF IInv, Made, TypeOK
  <2> QED
    BY <2>1, <2>5 DEF Expired, Owned
<1>10. InMatch'
  BY <1>1, <1>4 DEF IInv, InMatch
<1> QED
  BY <1>3, <1>4, <1>5, <1>7, <1>8, <1>9, <1>10 DEF IInv

-----------------------------------------------------------------------------
\* The inductive invariant.
LEMMA StepKeeps == IInv /\ [Next]_vars => IInv'
<1> SUFFICES ASSUME IInv, [Next]_vars PROVE IInv'
  OBVIOUS
<1>1. ASSUME NEW s \in Sessions, NEW i \in Ids, IdentifyAccepted(s, i) PROVE IInv'
  BY <1>1, AcceptedKeeps
<1>2. ASSUME NEW s \in Sessions,
             IdentifyMalformed(s) \/ \E i \in Ids : IdentifyRejected(s, i)
      PROVE  IInv'
  BY <1>2, DroppedKeeps
<1>3. ASSUME NEW s \in Sessions, JoinMatch(s) PROVE IInv'
  BY <1>3, JoinKeeps
<1>4. ASSUME NEW s \in Sessions, Remove(s) PROVE IInv'
  BY <1>4, RemoveKeeps
<1>5. CASE \/ \E s \in Sessions : RequestRemoval(s) \/ PeerReset(s) \/ RouteSession(s)
           \/ RoutePlayer \/ RouteSubmit \/ ExecuteCommand
           \/ PeerDetach \/ PeerClosed \/ RemoveAgain \/ UNCHANGED vars
  BY <1>5, QuietsKeep
<1> QED
  BY <1>1, <1>2, <1>3, <1>4, <1>5 DEF Next

\* The inductive invariant: logins, Players and the match agree on who is who.
THEOREM Invariance == Spec => []IInv
BY InitIInv, StepKeeps, PTL DEF Spec

\* Types are kept (Lobby.TypeOK).
THEOREM TypeCorrect == Spec => []TypeOK
<1>1. IInv => TypeOK
  BY DEF IInv
<1> QED
  BY <1>1, Invariance, PTL

\* A session that is in the game holds the login for its id (Lobby.LoginIsHeld).
THEOREM LoginsHeld == Spec => []LoginIsHeld
<1>1. IInv => LoginIsHeld
  BY DEF IInv, Held, LoginIsHeld
<1> QED
  BY <1>1, Invariance, PTL

\* A removed session's player is not logged in any more, unless it had submitted a
\* second identity (Lobby.GhostOnlyAfterRename).
THEOREM GhostsOnlyAfterRename == Spec => []GhostOnlyAfterRename
<1>1. IInv => GhostOnlyAfterRename
  BY DEF IInv
<1> QED
  BY <1>1, Invariance, PTL

\* The Player of an authenticated session with one identity lives while the session
\* is registered (Lobby.PlayerOutlivesSession).
THEOREM PlayersOutliveSessions == Spec => []PlayerOutlivesSession
<1>1. IInv => PlayerOutlivesSession
  <2> SUFFICES ASSUME IInv, NEW s \in (registered \cap authentic) \ Renamed, main # "stuck"
               PROVE  ~Expired(s)
    BY DEF PlayerOutlivesSession
  <2>1. user[s] # NoPlayer
    BY DEF IInv, TypeOK, LoggedIn, Made
  <2>2. identity[user[s]] \in Ids /\ players[identity[user[s]]] = user[s]
    BY DEF IInv, LoggedIn
  <2> QED
    BY <2>1, <2>2 DEF Expired, Owned
<1> QED
  BY <1>1, Invariance, PTL

\* A match command is executed for the Player that submitted it
\* (Lobby.CommandForSender).
THEOREM CommandsForSender == Spec => []CommandForSender
<1>1. IInv => CommandForSender
  BY DEF IInv, TypeOK, InMatch, CommandForSender, Executor
<1> QED
  BY <1>1, Invariance, PTL

\* A login ends only in the removal of the session that made it
\* (Lobby.LogoutOnlyByOwner).
THEOREM LogoutsOnlyByOwner == Spec => LogoutOnlyByOwner
<1> DEFINE Logout ==
      \A i \in Ids : players[i] # NoPlayer /\ players'[i] # players[i] =>
        /\ players'[i] = NoPlayer
        /\ removals # <<>> /\ players[i].session = Head(removals)
<1>1. IInv /\ [Next]_vars => [Logout]_vars
  <2> SUFFICES ASSUME IInv, Next PROVE Logout
    OBVIOUS
  <2>1. ASSUME NEW s \in Sessions, NEW j \in Ids, IdentifyAccepted(s, j) PROVE Logout
    <3>1. players[j] = NoPlayer /\ \E p : players' = [players EXCEPT ![j] = p]
      BY <2>1 DEF IdentifyAccepted
    <3> QED
      BY <3>1 DEF IInv, TypeOK
  <2>2. ASSUME NEW s \in Sessions, Remove(s) PROVE Logout
    <3>1. /\ main = "runs" /\ s \in registered /\ players' = LoggedOut(s)
          /\ removals # <<>> /\ s = Head(removals)
      BY <2>2 DEF Remove, MainRuns
    <3>2. \A i \in Ids : players'[i] # players[i] =>
            players'[i] = NoPlayer /\ players[i] = user[s] /\ user[s] # NoPlayer
      BY <3>1, LoggedOutOwn DEF Expired
    <3> QED
      BY <2>2, <3>1, <3>2, UserTyped
  <2>3. \/ \E s \in Sessions : Remove(s) \/ \E j \in Ids : IdentifyAccepted(s, j)
        \/ players' = players
    BY ZenonT(60) DEF Next, IdentifyRejected, IdentifyMalformed, JoinMatch, RequestRemoval, PeerReset,
       RouteSession, RoutePlayer, RouteSubmit, ExecuteCommand, PeerDetach, PeerClosed,
       RemoveAgain
  <2> QED
    BY <2>1, <2>2, <2>3
<1> QED
  BY <1>1, Invariance, PTL DEF Spec, LogoutOnlyByOwner
=============================================================================
