--------------------------- MODULE RegistryProofs ---------------------------
(***************************************************************************)
(* Proofs about Registry: for any sets of sessions and of UDP ids, any     *)
(* time-out and any number of removals asked for, the registry implements  *)
(* SessionLife, UDP ids lead to their sessions, the add queue refers to    *)
(* sessions that exist, and removals do not meet handshakes.               *)
(***************************************************************************)
EXTENDS Registry, SequenceTheorems, TLAPS

\* Sessions whose handshake is not done, or has failed.
Before == {"absent", "accepted", "lost", "refused"}

\* The phases of Update between the pings and the commands, in which a session
\* that is still in its handshake may be in the queue of removals.
Watching == {"pings", "compare", "sizes", "null connection"}

\* Sessions the server has or is about to have.
Listed == registered \cup ToSet(addQueue)

Distinct(q) == \A i, j \in DOMAIN q : q[i] = q[j] => i = j

\* Before its handshake a session is nowhere.
Fresh(s) ==
  stage[s] \in Before =>
    /\ s \notin Listed \cup enabled \cup ToSet(removeQueue)
    /\ told[s] = 0
    /\ io.session = s => io.at = "thrown"

\* After it, it has a udp_connection_client, but for the one session the io thread
\* is busy with.
Ready(s) ==
  stage[s] \notin Before =>
    s \in enabled \/ (io.session = s /\ io.at \in {"route", "enable"})

\* That session is listed, and has at most the UDP id it was just given.
Busy ==
  /\ io.at \in {"route", "enable"} =>
       /\ stage[io.session] = "open"
       /\ io.session \in Listed \ enabled
  /\ io.at = "route" => \A n \in UdpIds : udpMap[n] # io.session
  /\ io.at = "enable" => udpId[io.session] \in UdpIds /\ udpMap[udpId[io.session]] = io.session
  /\ io.at = "join" => io.session \in enabled

\* The map and the sessions' ids agree.
RouteHeld ==
  /\ \A s \in enabled :
       udpId[s] \in UdpIds /\ (s \in Listed => udpMap[udpId[s]] = s)
  /\ \A n \in UdpIds : udpMap[n] # NoSession =>
       udpMap[n] \in Listed /\ udpId[udpMap[n]] = n

\* A session is queued once to be added, and is not told of before it was.
AddedOnce ==
  /\ Distinct(addQueue)
  /\ \A s \in ToSet(addQueue) : s \notin registered /\ told[s] = 0

\* Of the sessions in the registry the game was told of the end of one only: the
\* one being removed.
ToldOnce ==
  \A s \in registered : told[s] = IF removing.session = s THEN 1 ELSE 0

\* What is removed was done with its handshake: a session that is not may be in
\* the queue, but Update meets its missing connection first.
Removal ==
  /\ main = "erase" => removing # Nothing
  /\ removing # Nothing =>
       /\ main \in {"erase", "stuck"}
       /\ removing.session \in registered \cap enabled
       /\ removing.udp = udpId[removing.session]
  /\ \A s \in ToSet(removeQueue) :
       s \in enabled \/ (s \in registered /\ main \in Watching)

\* The pings are watched of registered sessions.
Pings ==
  /\ toCheck \subseteq registered
  /\ toCheck # {} => main \in {"pings", "compare"}
  /\ main = "compare" => checking \in registered

IInv ==
  /\ TypeOK
  /\ \A s \in Sessions : Fresh(s) /\ Ready(s)
  /\ Busy /\ RouteHeld
  /\ AddedOnce /\ ToldOnce
  /\ Removal /\ Pings

-----------------------------------------------------------------------------
(* Queues.                                                                 *)

LEMMA ElementsTyped ==
  ASSUME NEW S, NEW q \in Seq(S)
  PROVE  ToSet(q) \subseteq S
<1>1. DOMAIN q = 1..Len(q)
  BY LenProperties
<1> QED
  BY <1>1, ElementOfSeq DEF ToSet

LEMMA Queued ==
  ASSUME NEW S, NEW q \in Seq(S), NEW e \in S
  PROVE  /\ Append(q, e) \in Seq(S)
         /\ ToSet(Append(q, e)) = ToSet(q) \cup {e}
         /\ Distinct(q) /\ e \notin ToSet(q) => Distinct(Append(q, e))
<1>1. /\ Append(q, e) \in Seq(S) /\ Len(q) \in Nat /\ DOMAIN q = 1..Len(q)
      /\ DOMAIN Append(q, e) = 1..(Len(q) + 1)
      /\ \A i \in 1..Len(q) : Append(q, e)[i] = q[i]
      /\ Append(q, e)[Len(q) + 1] = e
  BY AppendProperties, LenProperties
<1>2. 1..(Len(q) + 1) = 1..Len(q) \cup {Len(q) + 1}
  BY <1>1
<1> QED
  BY <1>1, <1>2 DEF ToSet, Distinct

LEMMA Taken ==
  ASSUME NEW S, NEW q \in Seq(S), q # <<>>
  PROVE  /\ Head(q) \in S /\ Tail(q) \in Seq(S)
         /\ ToSet(q) = ToSet(Tail(q)) \cup {Head(q)}
         /\ Distinct(q) => Distinct(Tail(q)) /\ Head(q) \notin ToSet(Tail(q))
<1>1. /\ Head(q) \in S /\ Tail(q) \in Seq(S) /\ Len(q) \in Nat \ {0}
      /\ Head(q) = q[1] /\ DOMAIN q = 1..Len(q)
      /\ DOMAIN Tail(q) = 1..(Len(q) - 1)
      /\ \A i \in 1..(Len(q) - 1) : Tail(q)[i] = q[i + 1]
  BY HeadTailProperties, LenProperties, EmptySeq
<1>2. \A i \in 1..Len(q) : i = 1 \/ (i - 1 \in 1..(Len(q) - 1) /\ q[i] = Tail(q)[i - 1])
  BY <1>1
<1>3. ToSet(q) = ToSet(Tail(q)) \cup {Head(q)}
  <2>1. ToSet(q) \subseteq ToSet(Tail(q)) \cup {Head(q)}
    <3> SUFFICES ASSUME NEW i \in DOMAIN q
                 PROVE  q[i] \in ToSet(Tail(q)) \cup {Head(q)}
      BY DEF ToSet
    <3> QED
      BY <1>1, <1>2 DEF ToSet
  <2>2. \A i \in DOMAIN Tail(q) : i + 1 \in DOMAIN q /\ Tail(q)[i] = q[i + 1]
    BY <1>1
  <2>3. 1 \in DOMAIN q
    BY <1>1
  <2> QED
    BY <1>1, <2>1, <2>2, <2>3 DEF ToSet
<1>4. ASSUME Distinct(q) PROVE Distinct(Tail(q)) /\ Head(q) \notin ToSet(Tail(q))
  BY <1>1, <1>4 DEF ToSet, Distinct
<1> QED
  BY <1>1, <1>3, <1>4

-----------------------------------------------------------------------------
(* The initial states.                                                     *)

LEMMA InitIInv == Init => IInv
<1> SUFFICES ASSUME Init PROVE IInv
  OBVIOUS
<1>1. ToSet(<<>>) = {}
  BY DEF ToSet
<1>2. TypeOK
  BY RegistryAssumption DEF Init, TypeOK, Longest, Idle, Nothing
<1>3. Busy /\ \A s \in Sessions : Fresh(s) /\ Ready(s)
  BY <1>1, RegistryAssumption DEF Init, Fresh, Ready, Busy, Before, Listed, Idle
<1>4. RouteHeld /\ AddedOnce /\ ToldOnce
  BY <1>1, RegistryAssumption DEF Init, RouteHeld, AddedOnce, ToldOnce, Distinct, Listed
<1>5. Removal /\ Pings
  BY <1>1, RegistryAssumption DEF Init, Removal, Pings
<1> QED
  BY <1>2, <1>3, <1>4, <1>5 DEF IInv

-----------------------------------------------------------------------------
(* Types.                                                                  *)

LEMMA LongestNat == Longest \in Nat /\ Timeout \in Nat /\ MaxLag \in Nat
BY RegistryAssumption DEF Longest

\* What the io thread is in the middle of.
LEMMA IoTyped ==
  ASSUME TypeOK
  PROVE  /\ io.at = "idle" <=> io = Idle
         /\ io.at # "idle" => io.session \in Sessions
         /\ io.at \in {"idle", "route", "enable", "join", "thrown"}
         /\ io = [at |-> io.at, session |-> io.session]
         /\ io = Idle => io.session \notin Sessions
<1>1. CASE io = Idle
  BY <1>1, RegistryAssumption DEF Idle
<1>2. CASE io \in [at : {"route", "enable", "join", "thrown"}, session : Sessions]
  BY <1>2 DEF Idle
<1> QED
  BY <1>1, <1>2 DEF TypeOK

\* What is being removed.
LEMMA RemovingTyped ==
  ASSUME TypeOK
  PROVE  /\ removing = Nothing => removing.session \notin Sessions
         /\ removing # Nothing =>
              removing.session \in Sessions /\ removing.udp \in UdpIds \cup {0}
<1>1. CASE removing = Nothing
  BY <1>1, RegistryAssumption DEF Nothing
<1>2. CASE removing \in [session : Sessions, udp : UdpIds \cup {0}]
  BY <1>2, RegistryAssumption DEF Nothing
<1> QED
  BY <1>1, <1>2 DEF TypeOK

-----------------------------------------------------------------------------
(* The io thread: the handshake.                                           *)

\* A connection that does not get through its handshake.
LEMMA FreshKeeps ==
  ASSUME IInv, NEW s \in Sessions, NEW k \in Before,
         stage[s] \in Before, stage' = [stage EXCEPT ![s] = k],
         silent' \in [Sessions -> 0..Longest], connected' \subseteq Sessions,
         UNCHANGED <<mainVars, io, addQueue, removeQueue, registered, udpVars,
                     referred, told>>
  PROVE  IInv'
<1> USE DEF mainVars, checkVars, udpVars
<1>1. TypeOK'
  <2>1. stage' \in [Sessions -> {"absent", "accepted", "open", "deaf", "lost", "refused"}]
    BY DEF IInv, TypeOK, Before
  <2> QED
    BY <2>1 DEF IInv, TypeOK
<1>2. ASSUME NEW t \in Sessions PROVE Fresh(t)' /\ Ready(t)'
  <2>1. stage'[t] = IF t = s THEN k ELSE stage[t]
    BY DEF IInv, TypeOK
  <2> QED
    BY <2>1 DEF IInv, Fresh, Ready, Listed
<1>3. Busy'
  <2>1. stage[io.session] = "open" /\ io.session \in Sessions =>
          stage'[io.session] = "open"
    BY DEF IInv, TypeOK, Before
  <2> QED
    BY <2>1, IoTyped DEF IInv, Busy, Listed
<1>4. RouteHeld' /\ AddedOnce' /\ ToldOnce' /\ Removal' /\ Pings'
  BY DEF IInv, RouteHeld, AddedOnce, Distinct, ToldOnce, Removal, Pings, Listed
<1> QED
  BY <1>1, <1>2, <1>3, <1>4 DEF IInv

LEMMA AcceptKeeps ==
  ASSUME IInv, NEW s \in Sessions, Accept(s) \/ LoseHandshake(s) \/ Refuse(s)
  PROVE  IInv'
<1>1. silent' \in [Sessions -> 0..Longest] /\ connected' \subseteq Sessions
  <2>1. 0 \in 0..Longest
    BY LongestNat
  <2>2. CASE Accept(s)
    BY <2>1, <2>2 DEF Accept, IInv, TypeOK
  <2>3. CASE LoseHandshake(s) \/ Refuse(s)
    BY <2>3 DEF LoseHandshake, Refuse, IInv, TypeOK
  <2> QED
    BY <2>2, <2>3
<1>2. \E k \in Before : stage[s] \in Before /\ stage' = [stage EXCEPT ![s] = k]
  BY DEF Accept, LoseHandshake, Refuse, Before
<1>3. UNCHANGED <<mainVars, io, addQueue, removeQueue, registered, udpVars, referred, told>>
  BY DEF Accept, LoseHandshake, Refuse
<1> QED
  BY <1>1, <1>2, <1>3, FreshKeeps

LEMMA BreakKeeps ==
  ASSUME IInv, NEW s \in Sessions, BreakHandshake(s)
  PROVE  IInv'
<1>1. /\ io = Idle /\ stage[s] = "accepted"
      /\ io' = [at |-> "thrown", session |-> s]
      /\ UNCHANGED <<mainVars, stage, addQueue, removeQueue, registered, connected,
                     udpVars, silent, referred, told>>
  BY DEF BreakHandshake, IoIdle
<1> USE DEF mainVars, checkVars, udpVars
<1>2. TypeOK'
  BY <1>1 DEF IInv, TypeOK
<1>3. ASSUME NEW t \in Sessions PROVE Fresh(t)' /\ Ready(t)'
  BY <1>1 DEF IInv, Fresh, Ready, Listed, Idle, Before
<1>4. Busy'
  BY <1>1 DEF Busy
<1>5. RouteHeld' /\ AddedOnce' /\ ToldOnce' /\ Removal' /\ Pings'
  BY <1>1 DEF IInv, RouteHeld, AddedOnce, Distinct, ToldOnce, Removal, Pings, Listed
<1> QED
  BY <1>2, <1>3, <1>4, <1>5 DEF IInv

LEMMA HandshakeKeeps ==
  ASSUME IInv, NEW s \in Sessions, Handshake(s)
  PROVE  IInv'
<1>1. /\ io = Idle /\ stage[s] = "accepted"
      /\ stage' = [stage EXCEPT ![s] = "open"]
      /\ addQueue' = Append(addQueue, s)
      /\ io' = [at |-> "route", session |-> s]
      /\ UNCHANGED <<mainVars, removeQueue, registered, connected, udpVars, silent,
                     referred, told>>
  BY DEF Handshake, IoIdle
<1>2. Fresh(s) /\ stage[s] \in Before
  BY <1>1 DEF IInv, Before
<1>3. s \notin Listed \cup enabled /\ told[s] = 0
  BY <1>2 DEF Fresh
<1>4. /\ addQueue' \in Seq(Sessions)
      /\ ToSet(addQueue') = ToSet(addQueue) \cup {s}
      /\ Distinct(addQueue')
  <2>1. addQueue \in Seq(Sessions) /\ Distinct(addQueue) /\ s \notin ToSet(addQueue)
    BY <1>3 DEF IInv, TypeOK, AddedOnce, Listed
  <2> QED
    BY <1>1, <2>1, Queued
<1>5. Listed' = Listed \cup {s}
  BY <1>1, <1>4 DEF Listed
<1> USE DEF mainVars, checkVars, udpVars
<1>6. TypeOK'
  BY <1>1, <1>4 DEF IInv, TypeOK
<1>7. ASSUME NEW t \in Sessions PROVE Fresh(t)' /\ Ready(t)'
  <2>1. stage'[t] = IF t = s THEN "open" ELSE stage[t]
    BY <1>1 DEF IInv, TypeOK
  <2>2. CASE t = s
    BY <1>1, <2>1, <2>2 DEF Fresh, Ready, Before
  <2>3. CASE t # s
    BY <1>1, <1>5, <2>1, <2>3 DEF IInv, Fresh, Ready, Idle
  <2> QED
    BY <2>2, <2>3
<1>8. Busy'
  <2>1. \A n \in UdpIds : udpMap[n] # s
    BY <1>3, RegistryAssumption DEF IInv, RouteHeld
  <2>2. stage'[s] = "open"
    BY <1>1 DEF IInv, TypeOK
  <2> QED
    BY <1>1, <1>3, <1>5, <2>1, <2>2 DEF Busy
<1>9. RouteHeld'
  BY <1>1, <1>3, <1>5 DEF IInv, RouteHeld
<1>10. AddedOnce'
  BY <1>1, <1>3, <1>4 DEF IInv, AddedOnce, Listed
<1>11. ToldOnce' /\ Removal' /\ Pings'
  BY <1>1 DEF IInv, ToldOnce, Removal, Pings
<1> QED
  BY <1>6, <1>7, <1>8, <1>9, <1>10, <1>11 DEF IInv

LEMMA RouteKeeps ==
  ASSUME IInv, NEW n \in UdpIds, Route(n)
  PROVE  IInv'
<1> DEFINE s == io.session
<1>1. /\ io.at = "route" /\ udpMap[n] = NoSession
      /\ udpId' = [udpId EXCEPT ![s] = n]
      /\ udpMap' = [udpMap EXCEPT ![n] = s]
      /\ io'.at = "enable" /\ io'.session = s
      /\ UNCHANGED <<mainVars, stage, addQueue, removeQueue, registered, connected,
                     enabled, silent, referred, told>>
  BY IoTyped DEF Route, IInv
<1>2. s \in Sessions /\ s # NoSession /\ io' = [at |-> "enable", session |-> s]
  BY <1>1, IoTyped, RegistryAssumption DEF IInv, Route
<1> HIDE DEF s
<1>3. /\ stage[s] = "open" /\ s \in Listed \ enabled
      /\ \A m \in UdpIds : udpMap[m] # s
  BY <1>1 DEF IInv, Busy, s
<1>4. /\ \A t \in Sessions : udpId'[t] = IF t = s THEN n ELSE udpId[t]
      /\ \A m \in UdpIds : udpMap'[m] = IF m = n THEN s ELSE udpMap[m]
  BY <1>1 DEF IInv, TypeOK
<1> USE DEF mainVars, checkVars
<1>5. TypeOK'
  BY <1>1, <1>2 DEF IInv, TypeOK
<1>6. ASSUME NEW t \in Sessions PROVE Fresh(t)' /\ Ready(t)'
  BY <1>1, <1>2 DEF IInv, Fresh, Ready, Listed, s
<1>7. Busy'
  BY <1>1, <1>2, <1>3, <1>4 DEF Busy, Listed
<1>8. RouteHeld'
  <2>1. ASSUME NEW t \in enabled
        PROVE  udpId'[t] \in UdpIds /\ (t \in Listed => udpMap'[udpId'[t]] = t)
    <3>1. t \in Sessions /\ t # s /\ t # NoSession /\ udpId'[t] = udpId[t]
      BY <1>3, <1>4, RegistryAssumption DEF IInv, TypeOK
    <3>2. udpId[t] \in UdpIds /\ (t \in Listed => udpMap[udpId[t]] = t)
      BY DEF IInv, RouteHeld
    <3> QED
      BY <1>1, <1>4, <3>1, <3>2
  <2>2. ASSUME NEW m \in UdpIds, udpMap'[m] # NoSession
        PROVE  udpMap'[m] \in Listed /\ udpId'[udpMap'[m]] = m
    <3>1. CASE m = n
      BY <1>2, <1>3, <1>4, <3>1
    <3>2. CASE m # n
      <4>1. udpMap'[m] = udpMap[m] /\ udpMap[m] # s /\ udpMap[m] \in Sessions
        BY <1>3, <1>4, <2>2, <3>2 DEF IInv, TypeOK
      <4>2. udpMap[m] \in Listed /\ udpId[udpMap[m]] = m
        BY <2>2, <4>1 DEF IInv, RouteHeld
      <4> QED
        BY <1>4, <4>1, <4>2
    <3> QED
      BY <3>1, <3>2
  <2> QED
    BY <1>1, <2>1, <2>2 DEF RouteHeld, Listed
<1>9. AddedOnce' /\ ToldOnce' /\ Pings'
  BY <1>1 DEF IInv, AddedOnce, Distinct, ToldOnce, Pings
<1>10. Removal'
  BY <1>1, <1>3, <1>4, RemovingTyped DEF IInv, Removal
<1> QED
  BY <1>5, <1>6, <1>7, <1>8, <1>9, <1>10 DEF IInv

LEMMA EnableKeeps ==
  ASSUME IInv, EnableUdp
  PROVE  IInv'
<1> DEFINE s == io.session
<1>1. /\ io.at = "enable" /\ io' = Idle
      /\ enabled' = enabled \cup {s}
      /\ UNCHANGED <<mainVars, stage, addQueue, removeQueue, registered, connected,
                     udpId, udpMap, silent, referred, told>>
  BY DEF EnableUdp
<1>2. /\ s \in Sessions /\ stage[s] = "open"
      /\ udpId[s] \in UdpIds /\ udpMap[udpId[s]] = s
  BY <1>1, IoTyped DEF IInv, Busy
<1> HIDE DEF s
<1> USE DEF mainVars, checkVars
<1>3. TypeOK'
  BY <1>1, <1>2 DEF IInv, TypeOK
<1>4. ASSUME NEW t \in Sessions PROVE Fresh(t)' /\ Ready(t)'
  BY <1>1, <1>2, RegistryAssumption DEF IInv, Fresh, Ready, Listed, Idle, Before, s
<1>5. Busy'
  BY <1>1 DEF Busy, Idle
<1>6. RouteHeld'
  BY <1>1, <1>2 DEF IInv, RouteHeld, Listed
<1>7. AddedOnce' /\ ToldOnce' /\ Removal' /\ Pings'
  BY <1>1 DEF IInv, AddedOnce, Distinct, ToldOnce, Removal, Pings
<1> QED
  BY <1>3, <1>4, <1>5, <1>6, <1>7 DEF IInv

-----------------------------------------------------------------------------
(* Steps that leave the sessions, the map and the queues alone.            *)

LEMMA QuietKeeps ==
  ASSUME IInv, TypeOK', UNCHANGED <<io, stage, addQueue, removeQueue, registered,
                                    udpVars, told, removing>>,
         toCheck' \subseteq registered,
         toCheck' # {} => main' \in {"pings", "compare"},
         main' = "compare" => checking' \in registered,
         removing = Nothing \/ main' = main,
         main' # "erase" \/ main = "erase",
         main' \in Watching \/ main \notin Watching \/ registered \subseteq enabled
  PROVE  IInv'
<1> USE DEF udpVars
<1>1. ASSUME NEW t \in Sessions PROVE Fresh(t)' /\ Ready(t)'
  BY DEF IInv, Fresh, Ready, Listed
<1>2. Busy' /\ RouteHeld' /\ AddedOnce' /\ ToldOnce'
  BY DEF IInv, Busy, RouteHeld, AddedOnce, Distinct, ToldOnce, Listed
<1>3. Removal'
  BY DEF IInv, Removal
<1>4. Pings'
  BY DEF Pings
<1> QED
  BY <1>1, <1>2, <1>3, <1>4 DEF IInv

LEMMA HearKeeps ==
  ASSUME IInv, NEW s \in Sessions, Hear(s) \/ HearUdp(s)
  PROVE  IInv'
<1>1. /\ silent' = [silent EXCEPT ![s] = 0]
      /\ UNCHANGED <<mainVars, io, stage, addQueue, removeQueue, registered, connected,
                     udpVars, referred, told>>
  BY DEF Hear, HearUdp
<1>2. silent' \in [Sessions -> 0..Longest]
  <2>1. 0 \in 0..Longest
    BY LongestNat
  <2> QED
    BY <1>1, <2>1 DEF IInv, TypeOK
<1>3. TypeOK'
  BY <1>1, <1>2 DEF IInv, TypeOK, mainVars, checkVars, udpVars
<1> QED
  BY <1>1, <1>3, QuietKeeps DEF IInv, Removal, Pings, mainVars, checkVars

LEMMA TickKeeps ==
  ASSUME IInv, Tick
  PROVE  IInv'
<1>1. silent' \in [Sessions -> 0..Longest]
  <2>1. \A s \in Sessions : silent[s] \in 0..Longest
    BY DEF IInv, TypeOK
  <2>2. \A n \in 0..Longest : n < Longest => n + 1 \in 0..Longest
    BY LongestNat
  <2> QED
    BY <2>1, <2>2 DEF Tick
<1>2. lag' \in 0..MaxLag
  <2>1. lag \in 0..MaxLag
    BY DEF IInv, TypeOK
  <2> QED
    BY <2>1, LongestNat DEF Tick
<1>3. TypeOK'
  BY <1>1, <1>2 DEF Tick, IInv, TypeOK, udpVars
<1> QED
  BY <1>3, QuietKeeps DEF Tick, IInv, Removal, Pings

\* The phases of Update.
LEMMA PhasesKeep ==
  ASSUME IInv, AddsDone \/ RemovesDone \/ PingsDone \/ ReadSizes \/ CommandsDone
  PROVE  IInv'
<1> USE DEF MainAt, checkVars, udpVars
<1>1. removing = Nothing
  BY DEF AddsDone, RemovesDone, PingsDone, ReadSizes, CommandsDone, IInv, Removal
<1>2. TypeOK'
  BY DEF AddsDone, RemovesDone, PingsDone, ReadSizes, CommandsDone, IInv, TypeOK
<1>3. CASE AddsDone
  BY <1>1, <1>2, <1>3, QuietKeeps DEF AddsDone, IInv, Pings, Watching
<1>4. CASE RemovesDone
  BY <1>1, <1>2, <1>4, QuietKeeps DEF RemovesDone, Watching
<1>5. CASE PingsDone
  BY <1>1, <1>2, <1>5, QuietKeeps DEF PingsDone, Watching
<1>6. CASE ReadSizes
  BY <1>1, <1>2, <1>6, QuietKeeps DEF ReadSizes, IInv, Pings, Watching
<1>7. CASE CommandsDone
  BY <1>1, <1>2, <1>7, QuietKeeps DEF CommandsDone, IInv, Pings, Watching
<1> QED
  BY <1>3, <1>4, <1>5, <1>6, <1>7

LEMMA ClockKeeps ==
  ASSUME IInv, NEW s \in Sessions, ReadClock(s)
  PROVE  IInv'
<1>1. TypeOK'
  <2>1. 0 \in 0..MaxLag
    BY LongestNat
  <2> QED
    BY <2>1 DEF ReadClock, IInv, TypeOK, udpVars
<1> QED
  BY <1>1, QuietKeeps DEF ReadClock, MainAt, IInv, Removal, Pings, Watching

-----------------------------------------------------------------------------
(* Reads that end, and the queue of removals.                              *)

\* A step that at most ends the reads of sessions, clears `connected', takes from
\* the queue of removals and puts sessions into it that may be there.
LEMMA QueueKeeps ==
  ASSUME IInv, TypeOK',
         UNCHANGED <<addQueue, registered, enabled, udpId, udpMap, told, removing>>,
         \A t \in Sessions : stage'[t] = stage[t] \/ (stage[t] = "open" /\ stage'[t] = "deaf"),
         (io' = io /\ stage' = stage) \/ io' = Idle \/ (io'.at = "join" /\ io'.session \in enabled),
         io' # io => io.at \in {"idle", "join"},
         stage' # stage => io = Idle,
         removing = Nothing \/ main' = main,
         main' # "erase" \/ main = "erase",
         \A t \in ToSet(removeQueue') :
           t \in enabled \/ (t \in registered /\ main' \in Watching),
         Pings'
  PROVE  IInv'
<1>1. ASSUME NEW t \in Sessions PROVE Fresh(t)' /\ Ready(t)'
  <2>1. stage'[t] \in Before => stage[t] \in Before
    BY DEF Before
  <2>2. stage[t] \in Before => stage'[t] = stage[t]
    BY DEF Before
  <2>3. stage[t] \in Before => t \notin Listed \cup enabled /\ told[t] = 0
    BY DEF IInv, Fresh
  <2>4. Fresh(t)'
    <3> SUFFICES ASSUME stage'[t] \in Before PROVE Fresh(t)'
      BY DEF Fresh
    <3>1. t \notin Listed' /\ t \notin enabled' /\ told'[t] = 0
      BY <2>1, <2>3 DEF Listed
    <3>2. t \notin ToSet(removeQueue')
      BY <2>1, <2>3 DEF Listed
    <3>3. io'.session = t => io'.at = "thrown"
      <4>1. io.session = t => io.at = "thrown"
        BY <2>1 DEF IInv, Fresh
      <4>2. Idle.session # t
        BY RegistryAssumption DEF Idle
      <4> QED
        BY <2>1, <2>3, <4>1, <4>2
    <3> QED
      BY <3>1, <3>2, <3>3 DEF Fresh
  <2>5. Ready(t)'
    <3>1. stage'[t] \notin Before => stage[t] \notin Before
      BY <2>2
    <3>2. stage[t] \notin Before =>
            t \in enabled \/ (io.session = t /\ io.at \in {"route", "enable"})
      BY DEF IInv, Ready
    <3> QED
      BY <3>1, <3>2 DEF Ready
  <2> QED
    BY <2>4, <2>5
<1>2. Busy'
  BY DEF IInv, Busy, Listed, Idle
<1>3. RouteHeld' /\ AddedOnce' /\ ToldOnce'
  BY DEF IInv, RouteHeld, AddedOnce, Distinct, ToldOnce, Listed
<1>4. Removal'
  BY DEF IInv, Removal
<1> QED
  BY <1>1, <1>2, <1>3, <1>4 DEF IInv

\* Sessions in the queue of removals, before a step of a phase outside Watching.
LEMMA QueuedReady ==
  ASSUME IInv, NEW t \in ToSet(removeQueue)
  PROVE  t \in enabled \/ (t \in registered /\ main \in Watching)
BY DEF IInv, Removal

LEMMA ReadsKeep ==
  ASSUME IInv, NEW s \in Sessions, ReadFails(s) \/ ReadBreaks(s) \/ PeerReset(s)
  PROVE  IInv'
<1>1. /\ io = Idle /\ stage[s] = "open"
      /\ stage' = [stage EXCEPT ![s] = "deaf"]
      /\ UNCHANGED <<mainVars, addQueue, registered, udpVars, silent, referred, told>>
      /\ connected' \subseteq connected
      /\ io' = io \/ io' = [at |-> "join", session |-> s]
      /\ removeQueue' = removeQueue \/ removeQueue' = Append(removeQueue, s)
  BY DEF ReadFails, ReadBreaks, PeerReset, Reading, IoIdle
<1>2. s \in enabled
  <2>1. Ready(s) /\ stage[s] \notin Before /\ io.at = "idle"
    BY <1>1 DEF IInv, Before, Idle
  <2> QED
    BY <2>1 DEF Ready
<1>3. /\ removeQueue' \in Seq(Sessions)
      /\ ToSet(removeQueue') \subseteq ToSet(removeQueue) \cup {s}
  <2>1. removeQueue \in Seq(Sessions)
    BY DEF IInv, TypeOK
  <2>2. /\ Append(removeQueue, s) \in Seq(Sessions)
        /\ ToSet(Append(removeQueue, s)) = ToSet(removeQueue) \cup {s}
    BY <2>1, Queued
  <2> QED
    BY <1>1, <2>1, <2>2
<1>4. TypeOK'
  <2>1. io' \in {Idle} \cup [at : {"route", "enable", "join", "thrown"}, session : Sessions]
    BY <1>1
  <2>2. stage' \in [Sessions -> {"absent", "accepted", "open", "deaf", "lost", "refused"}]
    BY <1>1 DEF IInv, TypeOK
  <2> QED
    BY <1>1, <1>3, <2>1, <2>2 DEF IInv, TypeOK, mainVars, checkVars, udpVars
<1>5. \A t \in Sessions : stage'[t] = IF t = s THEN "deaf" ELSE stage[t]
  BY <1>1 DEF IInv, TypeOK
<1>6. Pings'
  BY <1>1 DEF IInv, Pings, mainVars, checkVars
<1>7. \A t \in ToSet(removeQueue') :
        t \in enabled \/ (t \in registered /\ main' \in Watching)
  BY <1>1, <1>2, <1>3, QueuedReady DEF mainVars
<1>8. io.at = "idle"
  BY <1>1 DEF Idle
<1> QED
  BY <1>1, <1>2, <1>4, <1>5, <1>6, <1>7, <1>8, QueueKeeps DEF mainVars, udpVars

LEMMA PeerClosedKeeps ==
  ASSUME IInv, PeerClosed
  PROVE  IInv'
<1>1. /\ io.at = "join" /\ io' = Idle
      /\ removeQueue' = Append(removeQueue, io.session)
      /\ UNCHANGED <<mainVars, stage, addQueue, registered, connected, udpVars, silent,
                     referred, told>>
  BY DEF PeerClosed
<1>2. io.session \in Sessions /\ io.session \in enabled
  BY <1>1, IoTyped DEF IInv, Busy
<1>3. /\ removeQueue' \in Seq(Sessions)
      /\ ToSet(removeQueue') = ToSet(removeQueue) \cup {io.session}
  <2>1. removeQueue \in Seq(Sessions)
    BY DEF IInv, TypeOK
  <2> QED
    BY <1>1, <1>2, <2>1, Queued
<1>4. TypeOK'
  BY <1>1, <1>3 DEF IInv, TypeOK, mainVars, checkVars, udpVars
<1>5. Pings'
  BY <1>1 DEF IInv, Pings, mainVars, checkVars
<1>6. \A t \in ToSet(removeQueue') :
        t \in enabled \/ (t \in registered /\ main' \in Watching)
  BY <1>1, <1>2, <1>3, QueuedReady DEF mainVars
<1> QED
  BY <1>1, <1>4, <1>5, <1>6, QueueKeeps DEF mainVars, udpVars

\* What Close does to the queue it is given.
LEMMA CloseTyped ==
  ASSUME NEW s \in Sessions, NEW q \in Seq(Sessions), NEW next, connected \subseteq Sessions,
         CloseSession(s, q, next)
  PROVE  /\ main' \in {next, "stuck"}
         /\ connected' \subseteq Sessions
         /\ removeQueue' \in Seq(Sessions)
         /\ ToSet(removeQueue') \subseteq ToSet(q) \cup {s}
<1>1. /\ Append(q, s) \in Seq(Sessions)
      /\ ToSet(Append(q, s)) = ToSet(q) \cup {s}
  BY Queued
<1> QED
  BY <1>1 DEF CloseSession

LEMMA CommandsKeep ==
  ASSUME IInv, NEW s \in Sessions,
         DisconnectCommand(s) \/ SecondIdentity(s) \/ IdentityRejected(s)
  PROVE  IInv'
<1>1. /\ main = "commands" /\ main' \in {"commands", "stuck"}
      /\ s \in enabled
      /\ connected' \subseteq Sessions /\ referred' \subseteq Sessions
      /\ removeQueue' \in Seq(Sessions)
      /\ ToSet(removeQueue') \subseteq ToSet(removeQueue) \cup {s}
      /\ UNCHANGED <<removing, checkVars, io, stage, addQueue, registered, udpVars, silent, told>>
  <2>1. removeQueue \in Seq(Sessions) /\ connected \subseteq Sessions /\ referred \subseteq Sessions
    BY DEF IInv, TypeOK
  <2>2. CASE DisconnectCommand(s)
    BY <2>1, <2>2, Queued DEF DisconnectCommand, MainAt, mainVars
  <2>3. CASE SecondIdentity(s)
    BY <2>1, <2>3 DEF SecondIdentity, MainAt, mainVars
  <2>4. CASE IdentityRejected(s)
    BY <2>1, <2>4, CloseTyped DEF IdentityRejected, MainAt
  <2> QED
    BY <2>2, <2>3, <2>4
<1>2. TypeOK'
  BY <1>1 DEF IInv, TypeOK, checkVars, udpVars
<1>3. removing = Nothing
  BY <1>1 DEF IInv, Removal
<1>4. Pings'
  BY <1>1 DEF IInv, Pings, checkVars
<1>5. \A t \in ToSet(removeQueue') :
        t \in enabled \/ (t \in registered /\ main' \in Watching)
  BY <1>1, QueuedReady DEF Watching
<1> QED
  BY <1>1, <1>2, <1>3, <1>4, <1>5, QueueKeeps DEF udpVars

LEMMA CompareKeeps ==
  ASSUME IInv, ComparePing
  PROVE  IInv'
<1>1. /\ main = "compare" /\ main' = "pings"
      /\ removeQueue' \in {removeQueue, Append(removeQueue, checking)}
      /\ checking' = NoSession /\ lag' = 0
      /\ UNCHANGED <<removing, toCheck, io, stage, addQueue, registered, connected, udpVars,
                     silent, referred, told>>
  BY DEF ComparePing, MainAt
<1>2. checking \in registered /\ checking \in Sessions
  BY <1>1 DEF IInv, TypeOK, Pings
<1>3. /\ removeQueue' \in Seq(Sessions)
      /\ ToSet(removeQueue') \subseteq ToSet(removeQueue) \cup {checking}
  <2>1. removeQueue \in Seq(Sessions)
    BY DEF IInv, TypeOK
  <2>2. /\ Append(removeQueue, checking) \in Seq(Sessions)
        /\ ToSet(Append(removeQueue, checking)) = ToSet(removeQueue) \cup {checking}
    BY <1>2, <2>1, Queued
  <2> QED
    BY <1>1, <2>1, <2>2
<1>4. TypeOK'
  <2>1. 0 \in 0..MaxLag
    BY LongestNat
  <2> QED
    BY <1>1, <1>3, <2>1 DEF IInv, TypeOK, udpVars
<1>5. removing = Nothing
  BY <1>1 DEF IInv, Removal
<1>6. Pings'
  BY <1>1 DEF IInv, Pings
<1>7. \A t \in ToSet(removeQueue') :
        t \in enabled \/ (t \in registered /\ main' \in Watching)
  BY <1>1, <1>2, <1>3, QueuedReady DEF Watching
<1> QED
  BY <1>1, <1>4, <1>5, <1>6, <1>7, QueueKeeps DEF udpVars

LEMMA DropKeeps ==
  ASSUME IInv, DropRemove
  PROVE  IInv'
<1>1. /\ main = "removes" /\ removeQueue # <<>> /\ removeQueue' = Tail(removeQueue)
      /\ UNCHANGED <<mainVars, io, stage, addQueue, registered, connected, udpVars, silent,
                     referred, told>>
  BY DEF DropRemove, MainAt
<1>2. /\ removeQueue' \in Seq(Sessions)
      /\ ToSet(removeQueue') \subseteq ToSet(removeQueue)
  <2>1. removeQueue \in Seq(Sessions)
    BY DEF IInv, TypeOK
  <2> QED
    BY <1>1, <2>1, Taken
<1>3. TypeOK'
  BY <1>1, <1>2 DEF IInv, TypeOK, mainVars, checkVars, udpVars
<1>4. Pings'
  BY <1>1 DEF IInv, Pings, mainVars, checkVars
<1>5. \A t \in ToSet(removeQueue') :
        t \in enabled \/ (t \in registered /\ main' \in Watching)
  BY <1>1, <1>2, QueuedReady DEF mainVars
<1> QED
  BY <1>1, <1>3, <1>4, <1>5, QueueKeeps DEF mainVars, udpVars

-----------------------------------------------------------------------------
(* Sessions that come and go.                                              *)

LEMMA TakeAddKeeps ==
  ASSUME IInv, TakeAdd
  PROVE  IInv'
<1> DEFINE s == Head(addQueue)
<1>1. /\ main = "adds" /\ addQueue # <<>>
      /\ registered' = registered \cup {s}
      /\ addQueue' = Tail(addQueue)
      /\ UNCHANGED <<mainVars, io, stage, removeQueue, connected, udpVars, silent,
                     referred, told>>
  BY DEF TakeAdd, MainAt
<1>2. /\ s \in Sessions /\ addQueue' \in Seq(Sessions)
      /\ ToSet(addQueue) = ToSet(addQueue') \cup {s}
      /\ Distinct(addQueue') /\ s \notin ToSet(addQueue')
  <2>1. addQueue \in Seq(Sessions) /\ Distinct(addQueue)
    BY DEF IInv, TypeOK, AddedOnce
  <2> QED
    BY <1>1, <2>1, Taken
<1>3. s \notin registered /\ told[s] = 0
  BY <1>2 DEF IInv, AddedOnce
<1> HIDE DEF s
<1>4. Listed' = Listed
  BY <1>1, <1>2 DEF Listed
<1>5. removing = Nothing /\ toCheck = {}
  BY <1>1 DEF IInv, Removal, Pings
<1> USE DEF mainVars, checkVars, udpVars
<1>6. TypeOK'
  BY <1>1, <1>2 DEF IInv, TypeOK
<1>7. ASSUME NEW t \in Sessions PROVE Fresh(t)' /\ Ready(t)'
  BY <1>1, <1>4 DEF IInv, Fresh, Ready
<1>8. Busy' /\ RouteHeld'
  BY <1>1, <1>4 DEF IInv, Busy, RouteHeld
<1>9. AddedOnce'
  BY <1>1, <1>2 DEF IInv, AddedOnce
<1>10. ToldOnce'
  <2>1. removing.session # s
    BY <1>2, <1>5, RemovingTyped DEF IInv
  <2> QED
    BY <1>1, <1>3, <2>1 DEF IInv, ToldOnce
<1>11. Removal' /\ Pings'
  BY <1>1, <1>5 DEF IInv, Removal, Pings
<1> QED
  BY <1>6, <1>7, <1>8, <1>9, <1>10, <1>11 DEF IInv

LEMMA TakeRemoveKeeps ==
  ASSUME IInv, NEW s \in Sessions, TakeRemove(s)
  PROVE  IInv'
<1>1. /\ main = "removes" /\ removeQueue # <<>> /\ s = Head(removeQueue)
      /\ s \in registered
      /\ told' = [told EXCEPT ![s] = @ + 1]
      /\ removing' = [session |-> s, udp |-> udpId[s]]
      /\ CloseSession(s, Tail(removeQueue), "erase")
      /\ UNCHANGED <<checkVars, io, stage, addQueue, registered, udpVars, silent, referred>>
  BY DEF TakeRemove, MainAt
<1>2. /\ s \in ToSet(removeQueue) /\ Tail(removeQueue) \in Seq(Sessions)
      /\ ToSet(Tail(removeQueue)) \subseteq ToSet(removeQueue)
  <2>1. removeQueue \in Seq(Sessions)
    BY DEF IInv, TypeOK
  <2> QED
    BY <1>1, <2>1, Taken
<1>3. s \in enabled /\ removing = Nothing /\ toCheck = {}
  BY <1>1, <1>2, QueuedReady DEF IInv, Removal, Pings, Watching
<1>4. /\ main' \in {"erase", "stuck"} /\ connected' \subseteq Sessions
      /\ removeQueue' \in Seq(Sessions)
      /\ ToSet(removeQueue') \subseteq ToSet(removeQueue)
  <2>1. connected \subseteq Sessions
    BY DEF IInv, TypeOK
  <2>2. ToSet(removeQueue') \subseteq ToSet(Tail(removeQueue)) \cup {s}
    BY <1>1, <1>2, <2>1, CloseTyped
  <2> QED
    BY <1>1, <1>2, <2>1, <2>2, CloseTyped
<1>5. told[s] = 0
  BY <1>1, <1>3, RemovingTyped DEF IInv, ToldOnce
<1>6. \A t \in Sessions : told'[t] = IF t = s THEN 1 ELSE told[t]
  BY <1>1, <1>5 DEF IInv, TypeOK
<1>7. s \in Listed /\ udpId[s] \in UdpIds
  BY <1>1, <1>3 DEF IInv, RouteHeld, Listed
<1> USE DEF checkVars, udpVars
<1>8. TypeOK'
  <2>1. told' \in [Sessions -> 0..2]
    BY <1>1, <1>5 DEF IInv, TypeOK
  <2>2. removing' \in [session : Sessions, udp : UdpIds \cup {0}]
    BY <1>1, <1>7
  <2> QED
    BY <1>1, <1>4, <2>1, <2>2 DEF IInv, TypeOK
<1>9. ASSUME NEW t \in Sessions PROVE Fresh(t)' /\ Ready(t)'
  <2>1. Listed' = Listed
    BY <1>1 DEF Listed
  <2> QED
    BY <1>1, <1>4, <1>6, <1>7, <2>1 DEF IInv, Fresh, Ready
<1>10. Busy' /\ RouteHeld'
  BY <1>1 DEF IInv, Busy, RouteHeld, Listed
<1>11. AddedOnce'
  <2>1. \A t \in ToSet(addQueue) : t # s
    BY <1>1 DEF IInv, AddedOnce
  <2>2. ToSet(addQueue) \subseteq Sessions
    BY ElementsTyped DEF IInv, TypeOK
  <2> QED
    BY <1>1, <1>6, <2>1, <2>2 DEF IInv, AddedOnce, Distinct
<1>12. ToldOnce'
  <2>1. \A t \in registered : t \in Sessions /\ told[t] = 0
    BY <1>3, RemovingTyped DEF IInv, TypeOK, ToldOnce
  <2>2. removing'.session = s
    BY <1>1
  <2> QED
    BY <1>1, <1>6, <2>1, <2>2 DEF ToldOnce
<1>13. Removal'
  <2>1. \A t \in ToSet(removeQueue) : t \in enabled
    BY <1>1, QueuedReady DEF Watching
  <2>2. removing'.session = s /\ removing'.udp = udpId[s] /\ removing' # Nothing
    BY <1>1, RegistryAssumption DEF Nothing
  <2> QED
    BY <1>1, <1>3, <1>4, <2>1, <2>2 DEF Removal
<1>14. Pings'
  BY <1>1, <1>3, <1>4 DEF Pings
<1> QED
  BY <1>8, <1>9, <1>10, <1>11, <1>12, <1>13, <1>14 DEF IInv

LEMMA EraseKeeps ==
  ASSUME IInv, EraseSession
  PROVE  IInv'
<1> DEFINE s == removing.session
<1>1. /\ main = "erase" /\ main' = "removes"
      /\ registered' = registered \ {s}
      /\ udpMap' = [n \in UdpIds |-> IF n = removing.udp THEN NoSession ELSE udpMap[n]]
      /\ removing' = Nothing
      /\ UNCHANGED <<checkVars, io, stage, addQueue, removeQueue, connected, enabled,
                     udpId, silent, referred, told>>
  BY DEF EraseSession, MainAt
<1>2. /\ s \in registered /\ s \in enabled /\ s \in Sessions /\ s # NoSession
      /\ removing.udp = udpId[s] /\ toCheck = {}
  BY <1>1, RegistryAssumption DEF IInv, TypeOK, Removal, Pings
<1>3. udpId[s] \in UdpIds /\ udpMap[udpId[s]] = s
  BY <1>2 DEF IInv, RouteHeld, Listed
<1>4. Listed' = Listed \ {s}
  <2>1. s \notin ToSet(addQueue)
    BY <1>2 DEF IInv, AddedOnce
  <2> QED
    BY <1>1, <2>1 DEF Listed
<1> HIDE DEF s
<1> USE DEF checkVars, udpVars
<1>5. TypeOK'
  BY <1>1 DEF IInv, TypeOK
<1>6. ASSUME NEW t \in Sessions PROVE Fresh(t)' /\ Ready(t)'
  BY <1>1, <1>4 DEF IInv, Fresh, Ready
<1>7. Busy'
  <2>1. io.at \in {"route", "enable"} => io.session # s
    BY <1>2 DEF IInv, Busy
  <2>2. io.at = "enable" => udpId[io.session] # udpId[s]
    BY <1>3, <2>1 DEF IInv, Busy
  <2>3. io.at \in {"route", "enable"} => io.session \in Sessions /\ io.session # NoSession
    BY IoTyped, RegistryAssumption DEF IInv
  <2> QED
    BY <1>1, <1>2, <1>4, <2>1, <2>2, <2>3 DEF IInv, Busy
<1>8. RouteHeld'
  <2>1. ASSUME NEW t \in enabled, t \in Listed'
        PROVE  udpMap'[udpId[t]] = t
    <3>1. udpId[t] \in UdpIds /\ udpMap[udpId[t]] = t /\ t # s
      BY <1>4, <2>1 DEF IInv, RouteHeld
    <3> QED
      BY <1>1, <1>2, <1>3, <3>1
  <2>2. ASSUME NEW n \in UdpIds, udpMap'[n] # NoSession
        PROVE  udpMap'[n] \in Listed' /\ udpId[udpMap'[n]] = n
    <3>1. n # udpId[s] /\ udpMap'[n] = udpMap[n]
      BY <1>1, <1>2, <2>2
    <3>2. udpMap[n] \in Listed /\ udpId[udpMap[n]] = n
      BY <2>2, <3>1 DEF IInv, RouteHeld
    <3> QED
      BY <1>4, <3>1, <3>2
  <2> QED
    BY <1>1, <2>1, <2>2 DEF IInv, RouteHeld
<1>9. AddedOnce'
  BY <1>1 DEF IInv, AddedOnce
<1>10. ToldOnce'
  <2>1. \A t \in registered' : t # Nothing.session
    BY <1>1, RegistryAssumption DEF IInv, TypeOK, Nothing
  <2> QED
    BY <1>1, <2>1 DEF IInv, ToldOnce, s
<1>11. Removal'
  BY <1>1, QueuedReady DEF Removal, Watching
<1>12. Pings'
  BY <1>1, <1>2 DEF Pings
<1> QED
  BY <1>5, <1>6, <1>7, <1>8, <1>9, <1>10, <1>11, <1>12 DEF IInv

-----------------------------------------------------------------------------
\* The inductive invariant.
THEOREM Invariance == Spec => []IInv
<1>1. IInv /\ [Next]_vars => IInv'
  <2> SUFFICES ASSUME IInv, [Next]_vars PROVE IInv'
    OBVIOUS
  <2>1. ASSUME NEW s \in Sessions, Accept(s) \/ LoseHandshake(s) \/ Refuse(s) PROVE IInv'
    BY <2>1, AcceptKeeps
  <2>2. ASSUME NEW s \in Sessions, BreakHandshake(s) PROVE IInv'
    BY <2>2, BreakKeeps
  <2>3. ASSUME NEW s \in Sessions, Handshake(s) PROVE IInv'
    BY <2>3, HandshakeKeeps
  <2>4. ASSUME NEW n \in UdpIds, Route(n) PROVE IInv'
    BY <2>4, RouteKeeps
  <2>5. CASE EnableUdp
    BY <2>5, EnableKeeps
  <2>6. ASSUME NEW s \in Sessions, Hear(s) \/ HearUdp(s) PROVE IInv'
    BY <2>6, HearKeeps
  <2>7. ASSUME NEW s \in Sessions, ReadFails(s) \/ ReadBreaks(s) \/ PeerReset(s) PROVE IInv'
    BY <2>7, ReadsKeep
  <2>8. CASE PeerClosed
    BY <2>8, PeerClosedKeeps
  <2>9. ASSUME NEW s \in Sessions,
               DisconnectCommand(s) \/ SecondIdentity(s) \/ IdentityRejected(s)
        PROVE  IInv'
    BY <2>9, CommandsKeep
  <2>10. CASE TakeAdd
    BY <2>10, TakeAddKeeps
  <2>11. ASSUME NEW s \in Sessions, TakeRemove(s) PROVE IInv'
    BY <2>11, TakeRemoveKeeps
  <2>12. CASE EraseSession
    BY <2>12, EraseKeeps
  <2>13. CASE DropRemove
    BY <2>13, DropKeeps
  <2>14. CASE AddsDone \/ RemovesDone \/ PingsDone \/ ReadSizes \/ CommandsDone
    BY <2>14, PhasesKeep
  <2>15. ASSUME NEW s \in Sessions, ReadClock(s) PROVE IInv'
    BY <2>15, ClockKeeps
  <2>16. CASE ComparePing
    BY <2>16, CompareKeeps
  <2>17. CASE Tick
    BY <2>17, TickKeeps
  <2>18. CASE UNCHANGED vars
    <3>1. TypeOK'
      BY <2>18 DEF vars, mainVars, checkVars, udpVars, IInv, TypeOK
    <3> QED
      BY <2>18, <3>1, QuietKeeps DEF vars, mainVars, checkVars, IInv, Removal, Pings
  <2> QED
    BY <2>1, <2>2, <2>3, <2>4, <2>5, <2>6, <2>7, <2>8, <2>9, <2>10, <2>11, <2>12,
       <2>13, <2>14, <2>15, <2>16, <2>17, <2>18 DEF Next, Update
<1> QED
  BY InitIInv, <1>1, PTL DEF Spec

\* Types are kept (Registry.TypeOK).
THEOREM TypeCorrect == Spec => []TypeOK
<1>1. IInv => TypeOK
  BY DEF IInv
<1> QED
  BY <1>1, Invariance, PTL

\* The UDP id a client was given leads to its session until it is removed, and an
\* id leads to listed sessions only (Registry.Routes).
THEOREM RoutesHold == Spec => []Routes
<1>1. IInv => Routes
  <2> SUFFICES ASSUME IInv PROVE Routes
    OBVIOUS
  <2>1. \A s \in registered \cap enabled : udpMap[udpId[s]] = s
    BY DEF IInv, RouteHeld, Listed
  <2>2. \A n \in UdpIds : udpMap[n] \in registered \cup ToSet(addQueue) \cup {NoSession}
    BY DEF IInv, RouteHeld, Listed
  <2> QED
    BY <2>1, <2>2 DEF Routes
<1> QED
  BY <1>1, Invariance, PTL

\* The session that Update pops from the add queue, and then uses through a
\* reference, is owned by its handshake or by its UDP id (Registry.AddedIsOwned).
THEOREM AddIsOwned == Spec => []AddedIsOwned
<1>1. IInv => AddedIsOwned
  <2> SUFFICES ASSUME IInv, NEW s \in ToSet(addQueue)
               PROVE  io.session = s \/ \E n \in UdpIds : udpMap[n] = s
    BY DEF AddedIsOwned
  <2>1. s \in Sessions
    BY ElementsTyped DEF IInv, TypeOK
  <2>2. stage[s] \notin Before
    BY <2>1 DEF IInv, Fresh, Listed
  <2>3. s \in enabled \/ io.session = s
    BY <2>1, <2>2 DEF IInv, Ready
  <2>4. s \in enabled => udpId[s] \in UdpIds /\ udpMap[udpId[s]] = s
    BY DEF IInv, RouteHeld, Listed
  <2> QED
    BY <2>3, <2>4
<1> QED
  BY <1>1, Invariance, PTL

\* A removal never takes down a UDP id or a connection that a handshake is still
\* setting up (Registry.RemovalAfterHandshake).
THEOREM RemovalsAfterHandshake == Spec => []RemovalAfterHandshake
<1>1. IInv => RemovalAfterHandshake
  BY DEF IInv, Removal, RouteHeld, RemovalAfterHandshake
<1> QED
  BY <1>1, Invariance, PTL

-----------------------------------------------------------------------------
(* The pings.                                                              *)

\* What the unsigned difference of two times is when neither wraps.
LEMMA SmallMod ==
  ASSUME NEW m \in Nat, NEW k \in Nat, k < m
  PROVE  k % m = k
OBVIOUS

\* Update asks for the removal of clients that were silent too long, or that were
\* heard after it had read the clock (Registry.TimeoutJustified).
THEOREM TimeoutsJustified == Spec => TimeoutJustified
<1> DEFINE Asked(s) == main = "compare" /\ checking = s /\ removeQueue' # removeQueue
                       /\ main' = "pings"
<1>1. ASSUME IInv, Next, NEW s \in Sessions, Asked(s)
      PROVE  silent[s] > Timeout \/ silent[s] < lag
  <2>1. ComparePing
    BY <1>1, SMTT(30) DEF Next, Update, Accept, LoseHandshake, BreakHandshake, Refuse, Handshake,
       Hear, HearUdp, ReadFails, ReadBreaks, PeerReset, DisconnectCommand, SecondIdentity,
       IdentityRejected,
       CloseSession, Route, EnableUdp, PeerClosed, TakeAdd, AddsDone, TakeRemove,
       ReadClock, EraseSession, DropRemove, RemovesDone, PingsDone, ReadSizes,
       CommandsDone, Tick, MainAt, mainVars
  <2>2. Overdue(s)
    BY <1>1, <2>1 DEF ComparePing
  <2>3. silent[s] \in 0..Longest /\ lag \in 0..MaxLag
    BY <1>1 DEF IInv, TypeOK
  <2>4. ASSUME lag <= silent[s], silent[s] <= Timeout PROVE FALSE
    <3>1. silent[s] - lag \in Nat /\ silent[s] - lag <= Timeout
      BY <2>3, <2>4, LongestNat
    <3>2. EpochModulus \in Nat /\ silent[s] - lag < EpochModulus
      BY <3>1, LongestNat, RegistryAssumption
    <3>3. (silent[s] - lag) % EpochModulus = silent[s] - lag
      BY <3>1, <3>2, SmallMod
    <3> QED
      BY <2>2, <3>1, <3>3, LongestNat DEF Overdue
  <2> QED
    BY <2>3, <2>4, LongestNat
<1>2. IInv /\ [Next]_vars =>
        [\A s \in Sessions : Asked(s) => silent[s] > Timeout \/ silent[s] < lag]_vars
  BY <1>1
<1> QED
  BY <1>2, Invariance, PTL DEF Spec, TimeoutJustified

-----------------------------------------------------------------------------
(* The refinement of SessionLife.                                          *)

\* The game hears once of the end of each session, and no session comes back
\* (Registry.LifeSpec).
THEOREM ImplementsLife == Spec => LifeSpec
<1>1. Init => Life!Init
  BY DEF Init, Life!Init
<1>2. IInv /\ [Next]_vars => [Life!Next]_(Life!lifeVars)
  <2> SUFFICES ASSUME IInv, [Next]_vars PROVE [Life!Next]_(Life!lifeVars)
    OBVIOUS
  <2>1. CASE TakeAdd
    <3>1. /\ addQueue # <<>> /\ addQueue \in Seq(Sessions)
          /\ registered' = registered \cup {Head(addQueue)} /\ told' = told
      BY <2>1 DEF TakeAdd, IInv, TypeOK
    <3>2. Head(addQueue) \in Sessions /\ Head(addQueue) \in ToSet(addQueue)
      BY <3>1, Taken
    <3>3. Head(addQueue) \notin registered /\ told[Head(addQueue)] = 0
      BY <3>2 DEF IInv, AddedOnce
    <3> QED
      BY <3>1, <3>2, <3>3 DEF Life!Next, Life!Add
  <2>2. ASSUME NEW s \in Sessions, TakeRemove(s)
        PROVE  Life!Next
    <3>1. /\ main = "removes" /\ s \in registered
          /\ told' = [told EXCEPT ![s] = told[s] + 1] /\ registered' = registered
      BY <2>2 DEF TakeRemove, MainAt
    <3>2. removing.session \notin Sessions
      BY <3>1, RemovingTyped DEF IInv, Removal
    <3>3. told[s] = 0
      BY <3>1, <3>2 DEF IInv, ToldOnce
    <3>4. told' = [told EXCEPT ![s] = 1]
      BY <3>1, <3>3
    <3> QED
      BY <3>1, <3>3, <3>4 DEF Life!Next, Life!End
  <2>3. CASE EraseSession
    <3> DEFINE s == removing.session
    <3>1. main = "erase" /\ registered' = registered \ {s} /\ told' = told
      BY <2>3 DEF EraseSession, MainAt
    <3>2. s \in Sessions /\ s \in registered
      BY <3>1, RemovingTyped DEF IInv, Removal
    <3>3. told[s] = 1
      BY <3>2 DEF IInv, ToldOnce
    <3> QED
      BY <3>1, <3>2, <3>3 DEF Life!Next, Life!Forget
  <2>4. \/ TakeAdd \/ EraseSession \/ \E s \in Sessions : TakeRemove(s)
        \/ UNCHANGED <<registered, told>>
    BY ZenonT(60) DEF Next, Update, Accept, LoseHandshake, BreakHandshake, Refuse, Handshake,
       Hear, HearUdp, ReadFails, ReadBreaks, PeerReset, DisconnectCommand, SecondIdentity,
       IdentityRejected,
       Route, EnableUdp, PeerClosed, AddsDone, ReadClock, DropRemove, RemovesDone,
       ComparePing, PingsDone, ReadSizes, CommandsDone, Tick, vars
  <2> QED
    BY <2>1, <2>2, <2>3, <2>4 DEF Life!lifeVars
<1> QED
  BY <1>1, <1>2, Invariance, PTL DEF Spec, LifeSpec, Life!Spec
=============================================================================
