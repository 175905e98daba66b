---------------------------- MODULE MatchProofs -----------------------------
(***************************************************************************)
(* Proofs about Match: for any set of players, any number of commands and  *)
(* of joins, the match starts once and before anything happens in it, and  *)
(* everybody who was there hears of it and of every jump accepted after,   *)
(* unless num_events wraps. As long as a byte can hold the number of       *)
(* players, no buffer overflows without a late join, and who does not join *)
(* again has an instance id of his own.                                    *)
(***************************************************************************)
EXTENDS Match, SequenceTheorems, FiniteSetTheorems, TLAPS

ToSet(q) == {q[i] : i \in DOMAIN q}
Sequence(q) == q \in Seq(ToSet(q))

\* TypeOK, but for what adds events up: the queues of events and the contents of
\* messages.
Typed ==
  /\ state \in {"None", "Joined_Waiting", "Started"}
  /\ members \subseteq Players
  /\ mtx \in {"free", "main"}
  /\ active \subseteq Players
  /\ instance \in [Players -> 0..(ByteValues - 1)]
  /\ session \in [Players -> {"open", "closed", "gone"}]
  /\ main \in {Idle} \cup [at : {"lock", "insert", "erase"}, player : Players]
  /\ joins \in 0..MaxJoins
  /\ queue \in Seq(Command) /\ batch \in Seq(Command)
  /\ submitted \in 0..MaxCommands
  /\ thread \in {"none", "init", "drain", "execute", "size", "fill", "announce",
                 "starting", "orient", "events", "sending"} \cup Faults
  /\ slots \in 0..(ByteValues - 1)
  /\ rosterSize \in 0..Cardinality(Players)
  /\ roster \subseteq Players
  /\ cursor \in Nat
  /\ DOMAIN inbox = Players /\ \A p \in Players : Sequence(inbox[p])
  /\ early \subseteq Players
  /\ rejoined \subseteq Players
  /\ wrapped \in BOOLEAN

\* What StartMatch goes through before the match is started, and after that.
Preparing == {"size", "fill", "announce"}
Phases ==
  /\ thread \in {"none", "init"} <=> state = "None"
  /\ thread \in Preparing => state = "Joined_Waiting"
  /\ thread \in {"starting", "sending", "orientation overflow"} => state = "Started"
  /\ thread = "starting" => outgoing.type = "start"
  /\ thread = "sending" => outgoing.type = "events"

\* What StartMatch has read of m_players.
Read ==
  /\ early \subseteq members
  /\ thread \in Preparing \/ state = "Started" => slots = Cardinality(early) % ByteValues
  /\ thread \in {"fill", "announce"} => Cardinality(early) <= rosterSize
  /\ thread = "announce" \/ state = "Started" => early \subseteq roster

Starts(p) == {i \in DOMAIN inbox[p] : inbox[p][i].type = "start"}
Untold(p) == Starts(p) = {}
Told(p) == \E i \in DOMAIN inbox[p] : Starts(p) = {i}

\* Who has been told of the start.
Telling ==
  /\ \A p \in Players : Untold(p) \/ Told(p)
  /\ state # "Started" => \A p \in Players : inbox[p] = <<>>
  /\ thread = "starting" => \A p \in Players : p >= cursor => Untold(p)
  /\ \A p \in early :
       session[p] = "open" /\ state = "Started" /\ (thread = "starting" => p < cursor) =>
         Told(p)
  /\ \A p \in early : \A i \in DOMAIN inbox[p] :
       inbox[p][i].type = "events" =>
         \E j \in 1..(i - 1) : inbox[p][j].type = "start"
  /\ \A p \in early : thread = "starting" =>
       \A i \in DOMAIN inbox[p] : inbox[p][i].type # "events"

IInv == Typed /\ Phases /\ Read /\ Telling /\ OverflowNeedsLateJoin

\* What IInv leaves out of TypeOK.
Contents ==
  /\ events \in [Players -> 0..MaxCommands]
  /\ jumps \in [Players -> 0..MaxCommands]
  /\ outgoing \in Message
  /\ inbox \in [Players -> Seq(Message)]

\* The commands taken from clients and not executed: what is counted never exceeds
\* what came in.
Ahead == Len(queue) + Len(batch)

Accounts ==
  /\ Contents
  /\ \A p \in Players : events[p] <= jumps[p] /\ jumps[p] + Ahead <= submitted
  /\ state # "Started" => events = jumps

\* The events of q in the message being broadcast, while p has not had it.
Owed(p, q) == IF thread = "sending" /\ p >= cursor THEN outgoing.from[q] ELSE 0

\* EventsConserved in the middle of a broadcast too.
Conserved ==
  ~wrapped /\ state = "Started" =>
    \A p \in early, q \in Players :
      session[p] = "open" => Cardinality(Heard(p, q)) + Owed(p, q) + events[q] = jumps[q]

\* The players who did not join again have the sizes of the map for ids; the size that
\* a byte does not hold comes last and is zero.
Numbered ==
  /\ Cardinality(members) <= ByteValues =>
       \A p \in members \ rejoined :
         \/ instance[p] \in 1..Cardinality(members)
         \/ instance[p] = 0 /\ Cardinality(members) = ByteValues
  /\ InstanceIdsDistinct

-----------------------------------------------------------------------------
(* Sets of players, messages.                                              *)

LEMMA Counted ==
  ASSUME NEW S \in SUBSET Players, NEW T \in SUBSET Players, S \subseteq T
  PROVE  /\ IsFiniteSet(T) /\ Cardinality(T) \in Nat /\ Cardinality(S) \in Nat
         /\ Cardinality(S) <= Cardinality(T)
         /\ Cardinality(T) \in 0..Cardinality(Players)
<1>1. IsFiniteSet(Players) /\ IsFiniteSet(T) /\ IsFiniteSet(S)
  BY MatchAssumption, FS_Subset
<1>2. /\ Cardinality(Players) \in Nat /\ Cardinality(T) \in Nat /\ Cardinality(S) \in Nat
  BY <1>1, FS_CardinalityType
<1>3. Cardinality(S) <= Cardinality(T) /\ Cardinality(T) <= Cardinality(Players)
  BY <1>1, FS_Subset
<1> QED
  BY <1>1, <1>2, <1>3

\* What a byte keeps of a number.
LEMMA Byte ==
  ASSUME NEW n \in Nat
  PROVE  /\ n % ByteValues \in 0..(ByteValues - 1)
         /\ n < ByteValues => n % ByteValues = n
         /\ n = ByteValues => n % ByteValues = 0
<1>1. ByteValues \in Nat /\ ByteValues > 0
  BY MatchAssumption
<1> QED
  BY <1>1

LEMMA Appended ==
  ASSUME NEW q, Sequence(q), NEW m
  PROVE  /\ Sequence(Append(q, m)) /\ Len(q) \in Nat
         /\ DOMAIN q = 1..Len(q) /\ DOMAIN Append(q, m) = 1..(Len(q) + 1)
         /\ \A i \in 1..Len(q) : Append(q, m)[i] = q[i]
         /\ Append(q, m)[Len(q) + 1] = m
<1> DEFINE S == ToSet(q) \cup {m}
<1>1. q \in Seq(ToSet(q)) /\ Len(q) \in Nat /\ DOMAIN q = 1..Len(q)
  BY LenProperties DEF Sequence
<1>2. \A i \in 1..Len(q) : q[i] \in S
  BY <1>1 DEF ToSet
<1>3. q \in Seq(S)
  BY <1>1, <1>2
<1>4. /\ Append(q, m) \in Seq(S)
      /\ DOMAIN Append(q, m) = 1..(Len(q) + 1)
      /\ \A i \in 1..Len(q) : Append(q, m)[i] = q[i]
      /\ Append(q, m)[Len(q) + 1] = m
  BY <1>1, <1>3, AppendProperties, LenProperties
<1>5. S \subseteq ToSet(Append(q, m))
  BY <1>1, <1>4 DEF ToSet
<1>6. Len(Append(q, m)) = Len(q) + 1 /\ Append(q, m) \in Seq(ToSet(Append(q, m)))
  <2>1. Len(Append(q, m)) = Len(q) + 1
    BY <1>3, AppendProperties
  <2>2. \A i \in 1..(Len(q) + 1) : Append(q, m)[i] \in ToSet(Append(q, m))
    BY <1>4 DEF ToSet
  <2> QED
    BY <1>1, <1>4, <2>1, <2>2
<1> QED
  BY <1>1, <1>4, <1>6 DEF Sequence

\* What a message changes.
LEMMA Mail ==
  ASSUME Typed, NEW p \in Players, NEW m, inbox' = Sent(p, m)
  PROVE  /\ DOMAIN inbox' = Players /\ \A q \in Players : Sequence(inbox'[q])
         /\ \A q \in Players : q # p \/ session[p] # "open" => inbox'[q] = inbox[q]
         /\ session[p] = "open" => \E n \in Nat :
              /\ n \notin DOMAIN inbox[p] /\ DOMAIN inbox'[p] = DOMAIN inbox[p] \cup {n}
              /\ \A i \in DOMAIN inbox[p] :
                   i \in 1..(n - 1) /\ inbox'[p][i] = inbox[p][i]
              /\ inbox'[p][n] = m
<1>1. CASE session[p] # "open"
  BY <1>1 DEF Sent, Typed
<1>2. CASE session[p] = "open"
  <2>1. inbox' = [inbox EXCEPT ![p] = Append(inbox[p], m)] /\ Sequence(inbox[p])
    BY <1>2 DEF Sent, Typed
  <2>2. /\ DOMAIN inbox' = Players /\ inbox'[p] = Append(inbox[p], m)
        /\ \A q \in Players : q # p => inbox'[q] = inbox[q]
    BY <2>1 DEF Typed
  <2> DEFINE n == Len(inbox[p]) + 1
  <2>3. /\ Sequence(inbox'[p]) /\ n \in Nat /\ n \notin DOMAIN inbox[p]
        /\ DOMAIN inbox'[p] = DOMAIN inbox[p] \cup {n}
        /\ \A i \in DOMAIN inbox[p] : i \in 1..(n - 1) /\ inbox'[p][i] = inbox[p][i]
        /\ inbox'[p][n] = m
    BY <2>1, <2>2, Appended
  <2> QED
    BY <1>2, <2>2, <2>3 DEF Typed
<1> QED
  BY <1>1, <1>2

\* A message that is not Start_Match changes nobody's being told.
LEMMA OtherMail ==
  ASSUME Typed, NEW p \in Players, NEW m, inbox' = Sent(p, m), m.type # "start"
  PROVE  \A q \in Players :
           /\ Starts(q)' = Starts(q)
           /\ Untold(q) => Untold(q)'
           /\ Told(q) => Told(q)'
<1> SUFFICES ASSUME NEW q \in Players
             PROVE  Starts(q)' = Starts(q) /\ DOMAIN inbox[q] \subseteq DOMAIN inbox'[q]
  BY DEF Untold, Told
<1>1. CASE q # p \/ session[p] # "open"
  BY <1>1, Mail DEF Starts
<1>2. CASE q = p /\ session[p] = "open"
  <2>1. PICK n \in Nat :
          /\ n \notin DOMAIN inbox[p] /\ DOMAIN inbox'[p] = DOMAIN inbox[p] \cup {n}
          /\ \A i \in DOMAIN inbox[p] : inbox'[p][i] = inbox[p][i]
          /\ inbox'[p][n] = m
    BY <1>2, Mail
  <2> QED
    BY <1>2, <2>1 DEF Starts
<1> QED
  BY <1>1, <1>2

\* Start_Match does for its receiver.
LEMMA StartMail ==
  ASSUME Typed, NEW p \in Players, NEW m, inbox' = Sent(p, m), m.type = "start",
         Untold(p)
  PROVE  /\ \A q \in Players \ {p} :
              (Untold(q) => Untold(q)') /\ (Told(q) => Told(q)')
         /\ session[p] = "open" => Told(p)'
         /\ Untold(p)' \/ Told(p)'
<1>1. \A q \in Players \ {p} : Starts(q)' = Starts(q) /\ inbox'[q] = inbox[q]
  BY Mail DEF Starts
<1>2. CASE session[p] = "open"
  <2>1. PICK n \in Nat :
          /\ n \notin DOMAIN inbox[p] /\ DOMAIN inbox'[p] = DOMAIN inbox[p] \cup {n}
          /\ \A i \in DOMAIN inbox[p] : inbox'[p][i] = inbox[p][i]
          /\ inbox'[p][n] = m
    BY <1>2, Mail
  <2>2. Starts(p)' = {n}
    BY <2>1 DEF Starts, Untold
  <2> QED
    BY <1>1, <2>1, <2>2 DEF Untold, Told
<1>3. CASE session[p] # "open"
  <2>1. inbox'[p] = inbox[p]
    BY <1>3, Mail
  <2> QED
    BY <1>1, <1>3, <2>1 DEF Untold, Told, Starts
<1> QED
  BY <1>2, <1>3

-----------------------------------------------------------------------------
(* Steps that tell nobody anything.                                        *)

LEMMA QuietTelling ==
  ASSUME IInv, UNCHANGED <<inbox, cursor, early>>,
         state' = "Started" <=> state = "Started",
         thread' = "starting" => thread = "starting",
         \A p \in Players : session'[p] = "open" => session[p] = "open",
         thread = "starting" /\ thread' # "starting" => \A p \in early : p < cursor
  PROVE  Telling'
<1>1. \A p \in Players : (Untold(p)' <=> Untold(p)) /\ (Told(p)' <=> Told(p))
  BY DEF Untold, Told, Starts
<1>2. \A p \in early : p \in Players
  BY DEF IInv, Typed
<1> QED
  BY <1>1, <1>2 DEF IInv, Telling

LEMMA QuietRead ==
  ASSUME IInv, members \subseteq members', UNCHANGED <<early, slots, rosterSize, roster>>,
         thread' \in Preparing \/ state' = "Started" => thread \in Preparing \/ state = "Started",
         thread' \in {"fill", "announce"} => thread \in {"fill", "announce"},
         thread' = "announce" \/ state' = "Started" => thread = "announce" \/ state = "Started"
  PROVE  Read'
BY DEF IInv, Read

LEMMA QuietOverflow ==
  ASSUME IInv, members \subseteq members', UNCHANGED early,
         thread' \in {"roster overflow", "orientation overflow"} => thread' = thread
  PROVE  OverflowNeedsLateJoin'
BY DEF IInv, Read, OverflowNeedsLateJoin

LEMMA MainTyped ==
  ASSUME Typed
  PROVE  /\ main = Idle <=> main.at = "idle"
         /\ main # Idle => main.player \in Players
         /\ main # Idle => \A k : [main EXCEPT !.at = k] = [at |-> k, player |-> main.player]
<1>1. CASE main = Idle
  BY <1>1 DEF Idle
<1>2. CASE main \in [at : {"lock", "insert", "erase"}, player : Players]
  BY <1>2 DEF Idle
<1> QED
  BY <1>1, <1>2 DEF Typed

-----------------------------------------------------------------------------
(* The actions.                                                            *)

LEMMA InitIInv == Init => IInv
<1> SUFFICES ASSUME Init PROVE IInv
  OBVIOUS
<1>1. Cardinality(Players) \in Nat /\ Cardinality({}) = 0
  BY MatchAssumption, FS_CardinalityType, FS_EmptySet
<1>2. Typed
  <2>1. \A p \in Players : Sequence(inbox[p])
    BY DEF Init, Sequence
  <2>2. 0 \in 0..(ByteValues - 1) /\ 0 \in 0..MaxJoins /\ 0 \in 0..MaxCommands
    BY MatchAssumption
  <2>3. wrapped \in BOOLEAN
    BY DEF Init
  <2> QED
    BY <1>1, <2>1, <2>2, <2>3 DEF Init, Typed
<1>3. Phases /\ Read
  BY <1>1 DEF Init, Phases, Preparing, Read
<1>4. Telling
  BY DEF Init, Telling, Untold, Starts
<1>5. OverflowNeedsLateJoin
  BY DEF Init, OverflowNeedsLateJoin
<1> QED
  BY <1>2, <1>3, <1>4, <1>5 DEF IInv

\* The main thread, and the io thread.
LEMMA MainKeeps ==
  ASSUME IInv,
         \/ CreateMatch \/ Join \/ EraseSession
         \/ \E p \in Players : JoinCheck(p) \/ Disconnect(p) \/ PeerReset(p)
  PROVE  IInv'
<1> USE DEF mainVars, rosterVars, cmdVars, startVars, eventVars, castVars
<1>1. /\ UNCHANGED <<state, inbox, queue, batch, submitted, slots, rosterSize, roster, early,
                     outgoing, cursor, wrapped>>
      /\ thread' = thread \/ (thread = "none" /\ thread' = "init")
  BY DEF CreateMatch, Join, JoinActivate, JoinInsert, EraseSession, JoinCheck, Disconnect,
     PeerReset
<1>2. /\ members \subseteq members' /\ members' \subseteq Players
      /\ active' \subseteq Players /\ rejoined' \subseteq Players
      /\ instance' \in [Players -> 0..(ByteValues - 1)]
      /\ mtx' \in {"free", "main"}
  <2>1. CASE JoinActivate
    <3>1. main.player \in Players
      BY <2>1, MainTyped DEF JoinActivate, IInv, Idle
    <3> QED
      BY <2>1, <3>1 DEF JoinActivate, IInv, Typed
  <2>2. CASE JoinInsert
    <3>1. main.player \in Players
      BY <2>2, MainTyped DEF JoinInsert, IInv, Idle
    <3>2. members' = members \cup {main.player} /\ members' \subseteq Players
      BY <2>2, <3>1 DEF JoinInsert, IInv, Typed
    <3>3. Cardinality(members') % ByteValues \in 0..(ByteValues - 1)
      BY <3>2, Counted, Byte
    <3>4. instance' \in [Players -> 0..(ByteValues - 1)]
      BY <2>2, <3>3 DEF JoinInsert, IInv, Typed
    <3> QED
      BY <2>2, <3>1, <3>2, <3>4 DEF JoinInsert, IInv, Typed
  <2>3. CASE \/ CreateMatch \/ EraseSession
             \/ \E p \in Players : JoinCheck(p) \/ Disconnect(p) \/ PeerReset(p)
    BY <2>3 DEF CreateMatch, EraseSession, JoinCheck, Disconnect, PeerReset, IInv, Typed
  <2> QED
    BY <2>1, <2>2, <2>3 DEF Join
<1>3. /\ main' \in {Idle} \cup [at : {"lock", "insert", "erase"}, player : Players]
      /\ joins' \in 0..MaxJoins
  <2>1. CASE JoinActivate
    <3>1. main # Idle /\ joins' = joins /\ main' = [main EXCEPT !.at = "insert"]
      BY <2>1 DEF JoinActivate, Idle
    <3>2. main.player \in Players /\ main' = [at |-> "insert", player |-> main.player]
      BY <3>1, MainTyped DEF IInv
    <3> QED
      BY <3>1, <3>2 DEF IInv, Typed
  <2>2. ASSUME NEW p \in Players, JoinCheck(p)
        PROVE  /\ main' = [at |-> "lock", player |-> p]
               /\ joins' \in 0..MaxJoins
    <3>1. joins \in 0..MaxJoins
      BY DEF IInv, Typed
    <3> QED
      BY <2>2, <3>1, MatchAssumption DEF JoinCheck
  <2>3. CASE \/ CreateMatch \/ JoinInsert \/ EraseSession
             \/ \E p \in Players : Disconnect(p) \/ PeerReset(p)
    BY <2>3 DEF CreateMatch, JoinInsert, EraseSession, Disconnect, PeerReset, IInv, Typed
  <2> QED
    BY <2>1, <2>2, <2>3 DEF Join
<1>4. /\ session' \in [Players -> {"open", "closed", "gone"}]
      /\ \A p \in Players : session'[p] = "open" => session[p] = "open"
  <2>1. \/ session' = session
        \/ \E p \in Players, k \in {"closed", "gone"} : session' = [session EXCEPT ![p] = k]
    <3>1. EraseSession => main.player \in Players
      BY MainTyped DEF EraseSession, IInv, Idle
    <3> QED
      BY <3>1 DEF CreateMatch, Join, JoinActivate, JoinInsert, EraseSession, JoinCheck,
         Disconnect, PeerReset
  <2>2. session \in [Players -> {"open", "closed", "gone"}]
    BY DEF IInv, Typed
  <2> QED
    BY <2>1, <2>2
<1>5. \A p \in Players : Sequence(inbox'[p])
  BY <1>1 DEF IInv, Typed, Sequence
<1>6. Typed'
  BY <1>1, <1>2, <1>3, <1>4, <1>5 DEF IInv, Typed
<1>7. Phases'
  BY <1>1 DEF IInv, Phases, Preparing
<1>8. Read'
  BY <1>1, <1>2, QuietRead DEF Preparing
<1>9. OverflowNeedsLateJoin'
  BY <1>1, <1>2, QuietOverflow
<1>10. Telling'
  BY <1>1, <1>4, QuietTelling
<1> QED
  BY <1>6, <1>7, <1>8, <1>9, <1>10 DEF IInv

\* Steps of the match thread, and of the async command thread, that neither start the
\* match nor send anything.
LEMMA QuietKeeps ==
  ASSUME IInv,
         \/ \E p \in Players, k \in Kinds : Submit(p, k)
         \/ ThreadInit \/ DrainCommands \/ BatchDone
         \/ \E p \in Players, k \in Kinds :
              LET c == [user |-> p, kind |-> k] IN ExecuteNothing(c) \/ ExecuteJump(c)
         \/ OrientationsNotDue \/ EventsNotDue \/ BroadcastDone \/ UNCHANGED vars
  PROVE  IInv'
<1> USE DEF mainVars, rosterVars, cmdVars, startVars, eventVars, castVars
<1>1. /\ UNCHANGED <<mtx, session, inbox, mainVars, rosterVars, startVars, cursor, wrapped>>
      /\ state' = state \/ (thread = "init" /\ thread' = "drain" /\ state' = "Joined_Waiting")
      /\ thread' \in {thread, "drain", "execute", "orient", "events", "null socket"}
      /\ thread \in {"none", "init"} /\ thread' # thread => state' # state
      /\ thread' = thread => UNCHANGED <<state, outgoing>>
      /\ thread \in Preparing \cup Faults => thread' = thread
  <2>1. thread = "init" => state = "None"
    BY DEF IInv, Phases
  <2> QED
    BY <2>1 DEF Submit, ThreadInit, DrainCommands, BatchDone, ExecuteNothing, ExecuteJump,
       NextCommand, OrientationsNotDue, EventsNotDue, BroadcastDone, vars, Preparing, Faults
<1>2. queue' \in Seq(Command) /\ batch' \in Seq(Command) /\ submitted' \in 0..MaxCommands
  <2>1. queue \in Seq(Command) /\ batch \in Seq(Command) /\ submitted \in 0..MaxCommands
    BY DEF IInv, Typed
  <2>2. ASSUME NEW p \in Players, NEW k \in Kinds, Submit(p, k)
        PROVE  /\ queue' \in Seq(Command) /\ batch' \in Seq(Command)
               /\ submitted' \in 0..MaxCommands
    <3>1. [user |-> p, kind |-> k] \in Command
      BY DEF Command
    <3>2. submitted + 1 \in 0..MaxCommands
      BY <2>1, <2>2, MatchAssumption DEF Submit
    <3> QED
      BY <2>1, <2>2, <3>1, <3>2, AppendProperties DEF Submit
  <2>3. batch # <<>> => Tail(batch) \in Seq(Command)
    BY <2>1, HeadTailProperties
  <2>4. CASE \A p \in Players, k \in Kinds : ~Submit(p, k)
    <3>1. /\ submitted' = submitted
          /\ queue' \in {queue, <<>>}
          /\ batch' \in {batch, queue} \/ (batch # <<>> /\ batch' = Tail(batch))
      BY <2>4 DEF ThreadInit, DrainCommands, BatchDone, ExecuteNothing, ExecuteJump,
         NextCommand, OrientationsNotDue, EventsNotDue, BroadcastDone, vars
    <3> QED
      BY <2>1, <2>3, <3>1, EmptySeq
  <2> QED
    BY <2>2, <2>4
<1>3. Typed'
  <2>1. /\ state' \in {"None", "Joined_Waiting", "Started"}
        /\ thread' \in {"none", "init", "drain", "execute", "size", "fill", "announce",
                        "starting", "orient", "events", "sending"} \cup Faults
    BY <1>1 DEF IInv, Typed, Faults
  <2>2. \A p \in Players : Sequence(inbox'[p])
    BY <1>1 DEF IInv, Typed, Sequence
  <2> QED
    BY <1>1, <1>2, <2>1, <2>2 DEF IInv, Typed
<1>4. Phases'
  BY <1>1 DEF IInv, Phases, Preparing, Faults
<1>5. Read'
  BY <1>1 DEF IInv, Phases, Read, Preparing, Faults
<1>6. OverflowNeedsLateJoin'
  BY <1>1, QuietOverflow DEF Faults
<1>7. Telling'
  <2>1. thread = "starting" /\ thread' # "starting" => Unserved = {}
    BY DEF Submit, ThreadInit, DrainCommands, BatchDone, ExecuteNothing, ExecuteJump,
       NextCommand, OrientationsNotDue, EventsNotDue, BroadcastDone, vars
  <2>2. thread = "starting" /\ thread' # "starting" => \A p \in early : p < cursor
    <3>1. \A p \in early : p \in members /\ p \in Nat /\ cursor \in Nat
      BY MatchAssumption DEF IInv, Typed, Read
    <3> QED
      BY <2>1, <3>1 DEF Unserved
  <2>3. state' = "Started" <=> state = "Started"
    BY <1>1 DEF IInv, Phases
  <2> QED
    BY <1>1, <2>2, <2>3, QuietTelling
<1> QED
  BY <1>3, <1>4, <1>5, <1>6, <1>7 DEF IInv

\* StartMatch, up to the announcement, and the writing of orientations.
LEMMA PreparingKeeps ==
  ASSUME IInv,
         \/ \E p \in Players, k \in Kinds : StartMatch([user |-> p, kind |-> k])
         \/ StartSize \/ StartFill \/ SendOrientationUpdates
  PROVE  IInv'
<1> USE DEF mainVars, rosterVars, cmdVars, startVars, eventVars, castVars
<1>1. /\ Cardinality(early) <= Cardinality(members)
      /\ Cardinality(members) \in 0..Cardinality(Players) /\ Cardinality(members) \in Nat
      /\ Cardinality(early) \in Nat /\ early \subseteq members
  BY Counted DEF IInv, Typed, Read
<1>2. rosterSize \in Nat /\ slots \in Nat
  <2>1. Cardinality(Players) \in Nat
    BY MatchAssumption, FS_CardinalityType
  <2> QED
    BY <2>1, MatchAssumption DEF IInv, Typed
<1>3. UNCHANGED <<state, mtx, session, inbox, mainVars, rosterVars, queue, submitted,
                  eventVars, castVars>>
  BY DEF StartMatch, StartSize, StartFill, SendOrientationUpdates
<1>4. \A p \in Players : Sequence(inbox'[p])
  BY <1>3 DEF IInv, Typed, Sequence
<1>5. ASSUME NEW p \in Players, NEW k \in Kinds, StartMatch([user |-> p, kind |-> k])
      PROVE  IInv'
  <2>1. /\ thread = "execute" /\ batch # <<>> /\ batch' = Tail(batch)
        /\ state = "Joined_Waiting" /\ early' = members
        /\ slots' = Cardinality(members) % ByteValues
        /\ thread' = "size" /\ UNCHANGED <<rosterSize, roster>>
    BY <1>5 DEF StartMatch, NextCommand
  <2>2. batch' \in Seq(Command)
    BY <2>1, HeadTailProperties DEF IInv, Typed
  <2>3. Typed'
    <3>1. slots' \in 0..(ByteValues - 1)
      BY <1>1, <2>1, Byte
    <3> QED
      BY <1>3, <1>4, <2>1, <2>2, <3>1 DEF IInv, Typed
  <2>4. Phases' /\ Read' /\ OverflowNeedsLateJoin'
    BY <1>3, <2>1 DEF IInv, Phases, Read, Preparing, OverflowNeedsLateJoin
  <2>5. Telling'
    <3>1. \A q \in Players : Untold(q)' <=> Untold(q)
      BY <1>3 DEF Untold, Starts
    <3>2. \A q \in Players : Told(q)' <=> Told(q)
      BY <1>3 DEF Told, Starts
    <3>3. members \subseteq Players
      BY DEF IInv, Typed
    <3> QED
      BY <1>3, <2>1, <3>1, <3>2, <3>3 DEF IInv, Telling
  <2> QED
    BY <2>3, <2>4, <2>5 DEF IInv
<1>6. CASE StartSize
  <2>1. /\ thread = "size" /\ rosterSize' = Cardinality(members) /\ thread' = "fill"
        /\ UNCHANGED <<batch, slots, roster, early>>
    BY <1>6 DEF StartSize
  <2>2. Typed'
    BY <1>1, <1>3, <1>4, <2>1 DEF IInv, Typed
  <2>3. Phases' /\ Read' /\ OverflowNeedsLateJoin'
    BY <1>1, <1>3, <2>1 DEF IInv, Phases, Read, Preparing, OverflowNeedsLateJoin
  <2>4. Telling'
    BY <1>3, <2>1, QuietTelling
  <2> QED
    BY <2>2, <2>3, <2>4 DEF IInv
<1>7. CASE StartFill
  <2>1. /\ thread = "fill" /\ UNCHANGED <<batch, slots, rosterSize, early>>
        /\ \/ roster' = members /\ thread' = "announce"
           \/ /\ ~(Cardinality(members) <= rosterSize) /\ thread' = "roster overflow"
              /\ roster' = roster
    BY <1>7 DEF StartFill
  <2>2. Typed'
    BY <1>3, <1>4, <2>1 DEF IInv, Typed, Faults
  <2>3. Phases'
    BY <1>3, <2>1 DEF IInv, Phases, Preparing
  <2>4. Read'
    BY <1>1, <1>3, <2>1 DEF IInv, Phases, Read, Preparing
  <2>5. OverflowNeedsLateJoin'
    <3>1. Cardinality(early) <= rosterSize
      BY <2>1 DEF IInv, Read
    <3> QED
      BY <1>1, <1>2, <1>3, <2>1, <3>1 DEF OverflowNeedsLateJoin
  <2>6. Telling'
    BY <1>3, <2>1, QuietTelling
  <2> QED
    BY <2>2, <2>3, <2>4, <2>5, <2>6 DEF IInv
<1>8. CASE SendOrientationUpdates
  <2>1. /\ thread = "orient" /\ state = "Started" /\ UNCHANGED <<batch, startVars>>
        /\ \/ thread' = "events"
           \/ ~(Cardinality(members) <= slots) /\ thread' = "orientation overflow"
    BY <1>8 DEF SendOrientationUpdates
  <2>2. Typed'
    BY <1>3, <1>4, <2>1 DEF IInv, Typed, Faults
  <2>3. Phases' /\ Read'
    BY <1>3, <2>1 DEF IInv, Phases, Read, Preparing
  <2>4. OverflowNeedsLateJoin'
    <3>1. slots = Cardinality(early) % ByteValues
      BY <2>1 DEF IInv, Read
    <3>2. Cardinality(early) < ByteValues => slots = Cardinality(early)
      BY <1>1, <3>1, Byte
    <3>3. Cardinality(early) >= ByteValues \/ slots = Cardinality(early)
      BY <1>1, <3>2, MatchAssumption
    <3>4. thread' = "orientation overflow" =>
            members' # early' \/ Cardinality(early') >= ByteValues
      <4> SUFFICES ASSUME thread' = "orientation overflow", members = early
                   PROVE  Cardinality(early) >= ByteValues
        BY <1>3, <2>1
      <4>1. ~(Cardinality(early) <= slots)
        BY <2>1
      <4> QED
        BY <1>1, <3>3, <4>1
    <3> QED
      BY <2>1, <3>4 DEF OverflowNeedsLateJoin
  <2>5. Telling'
    BY <1>3, <2>1, QuietTelling
  <2> QED
    BY <2>2, <2>3, <2>4, <2>5 DEF IInv
<1> QED
  BY <1>5, <1>6, <1>7, <1>8

\* A broadcast begins.
LEMMA BeginKeeps ==
  ASSUME IInv, StartAnnounce \/ SendPlayerEvents
  PROVE  IInv'
<1> USE DEF mainVars, rosterVars, cmdVars, startVars, eventVars, castVars
<1>1. UNCHANGED <<mtx, session, inbox, mainVars, rosterVars, cmdVars, startVars>>
  BY DEF StartAnnounce, SendPlayerEvents
<1>2. \A p \in Players : Sequence(inbox'[p])
  BY <1>1 DEF IInv, Typed, Sequence
<1>3. \A p \in Players : (Untold(p)' <=> Untold(p)) /\ (Told(p)' <=> Told(p))
  BY <1>1 DEF Untold, Told, Starts
<1>4. early \subseteq Players /\ \A p \in Players : p \in Nat
  BY MatchAssumption DEF IInv, Typed
<1>5. CASE StartAnnounce
  <2>1. /\ thread = "announce" /\ state' = "Started" /\ cursor' = 0 /\ thread' = "starting"
        /\ outgoing'.type = "start"
    BY <1>5 DEF StartAnnounce
  <2>2. Typed'
    <3>1. wrapped' = wrapped /\ cursor' \in Nat
      BY <1>5, <2>1 DEF StartAnnounce
    <3> QED
      BY <1>1, <1>2, <2>1, <3>1 DEF IInv, Typed
  <2>3. Phases' /\ Read' /\ OverflowNeedsLateJoin'
    BY <1>1, <2>1 DEF IInv, Phases, Read, Preparing, OverflowNeedsLateJoin
  <2>4. state # "Started"
    BY <2>1 DEF IInv, Phases, Preparing
  <2>5. \A p \in Players : Untold(p) /\ inbox[p] = <<>>
    BY <2>4 DEF IInv, Telling, Untold, Starts
  <2>6. Telling'
    BY <1>1, <1>3, <1>4, <2>1, <2>5 DEF Telling
  <2> QED
    BY <2>2, <2>3, <2>6 DEF IInv
<1>6. CASE SendPlayerEvents
  <2>1. /\ thread = "events" /\ state = "Started" /\ state' = state
        /\ \/ outgoing'.type = "events" /\ cursor' = 0 /\ thread' = "sending"
           \/ UNCHANGED cursor /\ thread' = "drain"
    BY <1>6 DEF SendPlayerEvents
  <2>2. Typed'
    <3>1. wrapped' \in BOOLEAN
      BY <1>6, Zenon DEF SendPlayerEvents
    <3>2. cursor' \in Nat
      BY <2>1 DEF IInv, Typed
    <3> QED
      BY <1>1, <1>2, <2>1, <3>1, <3>2 DEF IInv, Typed
  <2>3. Phases' /\ Read' /\ OverflowNeedsLateJoin'
    BY <1>1, <2>1 DEF IInv, Phases, Read, Preparing, OverflowNeedsLateJoin
  <2>4. Telling'
    BY <1>1, <1>3, <1>4, <2>1 DEF IInv, Telling
  <2> QED
    BY <2>2, <2>3, <2>4 DEF IInv
<1> QED
  BY <1>5, <1>6

\* A broadcast reaches the next player.
LEMMA BroadcastKeeps ==
  ASSUME IInv, NEW p \in Players, BroadcastTo(p)
  PROVE  IInv'
<1> USE DEF mainVars, rosterVars, cmdVars, startVars, eventVars, castVars
<1>1. /\ thread \in {"starting", "sending"} /\ p \in Unserved
      /\ \A q \in Unserved : p <= q
      /\ inbox' = Sent(p, outgoing) /\ cursor' = p + 1
      /\ UNCHANGED <<state, mtx, session, thread, outgoing, mainVars, rosterVars, cmdVars,
                     startVars>>
  BY DEF BroadcastTo
<1>2. /\ p \in members /\ p \in Nat /\ cursor \in Nat /\ p >= cursor
      /\ early \subseteq members /\ early \subseteq Players /\ state = "Started"
      /\ \A q \in Players : q \in Nat
  BY <1>1, MatchAssumption DEF IInv, Typed, Phases, Read, Unserved
<1>3. /\ DOMAIN inbox' = Players /\ \A q \in Players : Sequence(inbox'[q])
      /\ \A q \in Players : q # p \/ session[p] # "open" => inbox'[q] = inbox[q]
  BY <1>1, Mail DEF IInv
<1>4. Typed'
  <2>1. cursor' \in Nat
    BY <1>1, <1>2
  <2>2. wrapped' = wrapped
    BY DEF BroadcastTo
  <2> QED
    BY <1>1, <1>3, <2>1, <2>2 DEF IInv, Typed
<1>5. Phases' /\ Read' /\ OverflowNeedsLateJoin'
  BY <1>1 DEF IInv, Phases, Read, OverflowNeedsLateJoin
<1>6. CASE thread = "starting"
  <2>1. outgoing.type = "start" /\ Untold(p)
    BY <1>2, <1>6 DEF IInv, Phases, Telling
  <2>2. /\ \A q \in Players \ {p} : (Untold(q) => Untold(q)') /\ (Told(q) => Told(q)')
        /\ session[p] = "open" => Told(p)'
        /\ Untold(p)' \/ Told(p)'
    BY <1>1, <2>1, StartMail DEF IInv
  <2>3. \A q \in Players : Untold(q)' \/ Told(q)'
    BY <2>2 DEF IInv, Telling
  <2>4. \A q \in Players : q >= cursor' => Untold(q)'
    <3> SUFFICES ASSUME NEW q \in Players, q >= cursor' PROVE Untold(q)'
      OBVIOUS
    <3>1. q # p /\ q >= cursor
      BY <1>1, <1>2
    <3>2. \A r \in Players : r >= cursor => Untold(r)
      BY <1>6 DEF IInv, Telling
    <3>3. Untold(q)
      BY <3>1, <3>2
    <3> QED
      BY <2>2, <3>1, <3>3
  <2>5. \A q \in early : session'[q] = "open" /\ q < cursor' => Told(q)'
    <3> SUFFICES ASSUME NEW q \in early, session'[q] = "open", q < cursor' PROVE Told(q)'
      OBVIOUS
    <3>1. CASE q = p
      BY <1>1, <2>2, <3>1
    <3>2. CASE q # p
      <4>1. q \in members /\ q \in Players /\ q \in Nat /\ q < p
        <5>1. q \in members /\ q \in Nat /\ cursor' = p + 1 /\ p \in Nat
          BY <1>1, <1>2
        <5> QED
          BY <1>2, <3>2, <5>1
      <4>2. q \notin Unserved
        BY <1>1, <1>2, <4>1
      <4>3. q < cursor
        BY <1>2, <4>1, <4>2 DEF Unserved
      <4> QED
        BY <1>1, <1>2, <1>6, <2>2, <3>2, <4>3 DEF IInv, Telling
    <3> QED
      BY <3>1, <3>2
  <2>6. \A q \in early : \A i \in DOMAIN inbox'[q] : inbox'[q][i].type # "events"
    <3> SUFFICES ASSUME NEW q \in early, NEW i \in DOMAIN inbox'[q]
                 PROVE  inbox'[q][i].type # "events"
      OBVIOUS
    <3>1. CASE q # p \/ session[p] # "open"
      BY <1>2, <1>3, <1>6, <3>1 DEF IInv, Telling
    <3>2. CASE q = p /\ session[p] = "open"
      <4>1. PICK n \in Nat :
              /\ DOMAIN inbox'[p] = DOMAIN inbox[p] \cup {n}
              /\ \A j \in DOMAIN inbox[p] : inbox'[p][j] = inbox[p][j]
              /\ inbox'[p][n] = outgoing
        BY <1>1, <3>2, Mail DEF IInv
      <4> QED
        BY <1>6, <2>1, <3>2, <4>1 DEF IInv, Telling
    <3> QED
      BY <3>1, <3>2
  <2>7. Telling'
    BY <1>1, <1>2, <1>6, <2>3, <2>4, <2>5, <2>6 DEF Telling
  <2> QED
    BY <1>4, <1>5, <2>7 DEF IInv
<1>7. CASE thread = "sending"
  <2>1. outgoing.type = "events"
    BY <1>7 DEF IInv, Phases
  <2>2. \A q \in Players : (Untold(q) => Untold(q)') /\ (Told(q) => Told(q)')
    BY <1>1, <2>1, OtherMail DEF IInv
  <2>3. \A q \in Players : Untold(q)' \/ Told(q)'
    BY <2>2 DEF IInv, Telling
  <2>4. \A q \in early : session'[q] = "open" => Told(q)'
    BY <1>1, <1>2, <1>7, <2>2 DEF IInv, Telling
  <2>5. \A q \in early : \A i \in DOMAIN inbox'[q] :
          inbox'[q][i].type = "events" =>
            \E j \in 1..(i - 1) : inbox'[q][j].type = "start"
    <3> SUFFICES ASSUME NEW q \in early, NEW i \in DOMAIN inbox'[q],
                        inbox'[q][i].type = "events"
                 PROVE  \E j \in 1..(i - 1) : inbox'[q][j].type = "start"
      OBVIOUS
    <3>1. CASE q # p \/ session[p] # "open"
      BY <1>2, <1>3, <3>1 DEF IInv, Telling
    <3>2. CASE q = p /\ session[p] = "open"
      <4>1. PICK n \in Nat :
              /\ DOMAIN inbox'[p] = DOMAIN inbox[p] \cup {n}
              /\ \A j \in DOMAIN inbox[p] : j \in 1..(n - 1) /\ inbox'[p][j] = inbox[p][j]
              /\ inbox'[p][n] = outgoing
        BY <1>1, <3>2, Mail DEF IInv
      <4>2. DOMAIN inbox[p] = 1..Len(inbox[p]) /\ Len(inbox[p]) \in Nat
        BY LenProperties DEF IInv, Typed, Sequence
      <4>3. CASE i = n
        <5>1. Told(p)
          BY <1>2, <1>7, <3>2 DEF IInv, Telling
        <5>2. PICK j \in DOMAIN inbox[p] : inbox[p][j].type = "start"
          BY <5>1 DEF Told, Starts
        <5> QED
          BY <3>2, <4>1, <4>3, <5>2
      <4>4. CASE i \in DOMAIN inbox[p]
        <5>1. inbox'[p][i] = inbox[p][i] /\ \A j \in 1..(i - 1) : j \in DOMAIN inbox[p]
          BY <4>1, <4>2, <4>4
        <5>2. PICK j \in 1..(i - 1) : inbox[p][j].type = "start"
          BY <3>2, <4>4, <5>1 DEF IInv, Telling
        <5> QED
          BY <3>2, <4>1, <5>1, <5>2
      <4> QED
        BY <3>2, <4>1, <4>3, <4>4
    <3> QED
      BY <3>1, <3>2
  <2>6. Telling'
    BY <1>1, <1>2, <1>7, <2>3, <2>4, <2>5 DEF Telling
  <2> QED
    BY <1>4, <1>5, <2>6 DEF IInv
<1> QED
  BY <1>1, <1>6, <1>7

-----------------------------------------------------------------------------
\* The inductive invariant.
LEMMA StepKeeps == IInv /\ [Next]_vars => IInv'
<1> SUFFICES ASSUME IInv, [Next]_vars PROVE IInv'
  OBVIOUS
<1>1. CASE \/ CreateMatch \/ Join \/ EraseSession
           \/ \E p \in Players : JoinCheck(p) \/ Disconnect(p) \/ PeerReset(p)
  BY <1>1, MainKeeps
<1>2. CASE \/ \E p \in Players, k \in Kinds : Submit(p, k)
           \/ ThreadInit \/ DrainCommands \/ BatchDone
           \/ \E p \in Players, k \in Kinds :
                LET c == [user |-> p, kind |-> k] IN ExecuteNothing(c) \/ ExecuteJump(c)
           \/ OrientationsNotDue \/ EventsNotDue \/ BroadcastDone \/ UNCHANGED vars
  BY <1>2, QuietKeeps
<1>3. CASE \/ \E p \in Players, k \in Kinds : StartMatch([user |-> p, kind |-> k])
           \/ StartSize \/ StartFill \/ SendOrientationUpdates
  BY <1>3, PreparingKeeps
<1>4. CASE StartAnnounce \/ SendPlayerEvents
  BY <1>4, BeginKeeps
<1>5. ASSUME NEW p \in Players, BroadcastTo(p) PROVE IInv'
  BY <1>5, BroadcastKeeps
<1> QED
  BY <1>1, <1>2, <1>3, <1>4, <1>5 DEF Next, MatchThread, Execute

\* The inductive invariant: what StartMatch has read and whom it has told.
THEOREM Invariance == Spec => []IInv
BY InitIInv, StepKeeps, PTL DEF Spec

\* The two buffers that StartMatch sizes without the mutex overflow only when a
\* player joined after it began, or there were as many as a byte has values
\* (Match.OverflowNeedsLateJoin).
THEOREM OverflowsNeedLateJoin == Spec => []OverflowNeedsLateJoin
<1>1. IInv => OverflowNeedsLateJoin
  BY DEF IInv
<1> QED
  BY <1>1, Invariance, PTL

\* Told once is counted once.
LEMMA ToldCount ==
  ASSUME NEW p \in Players
  PROVE  /\ Untold(p) => Count(p, "start") = 0
         /\ Told(p) => Count(p, "start") = 1
<1>1. Count(p, "start") = Cardinality(Starts(p))
  BY DEF Count, Starts
<1> QED
  BY <1>1, FS_EmptySet, FS_Singleton DEF Untold, Told

\* The match starts once, and before anything happens in it (Match.StartOnceFirst).
THEOREM StartsOnceFirst == Spec => []StartOnceFirst
<1>1. IInv => StartOnceFirst
  <2> SUFFICES ASSUME IInv PROVE StartOnceFirst
    OBVIOUS
  <2>1. \A p \in Players : Count(p, "start") <= 1
    BY ToldCount DEF IInv, Telling
  <2> QED
    BY <2>1 DEF IInv, Telling, StartOnceFirst
<1> QED
  BY <1>1, Invariance, PTL

\* Whoever was in m_players as StartMatch began is in the roster and was told of the
\* start (Match.EarlyPlayersStarted).
THEOREM EarlyStarted == Spec => []EarlyPlayersStarted
<1>1. IInv => EarlyPlayersStarted
  <2> SUFFICES ASSUME IInv, state = "Started", thread # "starting"
               PROVE  /\ early \subseteq roster
                      /\ \A p \in early : session[p] = "open" => Count(p, "start") = 1
    BY DEF EarlyPlayersStarted
  <2>1. early \subseteq roster /\ early \subseteq Players
    BY DEF IInv, Read, Typed
  <2> QED
    BY <2>1, ToldCount DEF IInv, Telling
<1> QED
  BY <1>1, Invariance, PTL

-----------------------------------------------------------------------------
(* What is accepted, queued and heard.                                     *)

LEMMA PairsFinite ==
  ASSUME NEW n \in Nat, NEW S \in SUBSET Players,
         NEW X \in SUBSET (S \X (1..n))
  PROVE  IsFiniteSet(X) /\ Cardinality(X) \in Nat
<1>1. IsFiniteSet(S) /\ IsFiniteSet(1..n)
  <2>1. IsFiniteSet(S)
    BY MatchAssumption, FS_Subset
  <2> QED
    BY <2>1, FS_Interval
<1>2. IsFiniteSet(S \X (1..n))
  BY <1>1, FS_Product
<1> QED
  BY <1>2, FS_Subset, FS_CardinalityType

\* The events of one more message.
LEMMA OneMore ==
  ASSUME NEW S, IsFiniteSet(S), NEW n, NEW k \in Nat,
         \A x \in S : x[1] # n
  PROVE  Cardinality(S \cup ({n} \X (1..k))) = Cardinality(S) + k
<1> DEFINE T == {n} \X (1..k)
<1>1. IsFiniteSet({n}) /\ Cardinality({n}) = 1
  BY FS_Singleton
<1>2. IsFiniteSet(1..k) /\ Cardinality(1..k) = k
  BY FS_Interval
<1>3. IsFiniteSet(T) /\ Cardinality(T) = k
  <2>1. IsFiniteSet(T) /\ Cardinality(T) = Cardinality({n}) * Cardinality(1..k)
    BY <1>1, <1>2, FS_Product, Zenon
  <2>2. 1 * k = k
    OBVIOUS
  <2> QED
    BY <1>1, <1>2, <2>1, <2>2, Zenon
<1>4. S \cap T = {}
  OBVIOUS
<1>5. Cardinality(S \cap T) = 0
  BY <1>4, FS_EmptySet
<1>6. Cardinality(S \cup T) = Cardinality(S) + Cardinality(T) - Cardinality(S \cap T)
  BY <1>3, FS_Union
<1>7. Cardinality(S) \in Nat
  BY FS_CardinalityType
<1> QED
  BY <1>3, <1>5, <1>6, <1>7

LEMMA EventMessage ==
  ASSUME NEW m \in Message, m.type = "events"
  PROVE  m.from \in [Players -> 0..MaxCommands]
BY DEF Message, None

LEMMA HeardFinite ==
  ASSUME Contents, NEW p \in Players, NEW q \in Players
  PROVE  IsFiniteSet(Heard(p, q)) /\ Cardinality(Heard(p, q)) \in Nat
<1>1. inbox[p] \in Seq(Message)
  BY DEF Contents
<1>2. DOMAIN inbox[p] = 1..Len(inbox[p]) /\ Len(inbox[p]) \in Nat
  BY <1>1, LenProperties
<1>3. IsFiniteSet(DOMAIN inbox[p]) /\ IsFiniteSet(1..MaxCommands)
  BY <1>2, MatchAssumption, FS_Interval
<1>4. IsFiniteSet((DOMAIN inbox[p]) \X (1..MaxCommands))
  BY <1>3, FS_Product
<1>5. Heard(p, q) \in SUBSET ((DOMAIN inbox[p]) \X (1..MaxCommands))
  BY DEF Heard
<1> QED
  BY <1>4, <1>5, FS_Subset, FS_CardinalityType

\* Only a message with events lets anybody hear of one, and then its receiver.
LEMMA NothingHeard ==
  ASSUME Typed, NEW p \in Players, NEW m, inbox' = Sent(p, m),
         NEW r \in Players, NEW q \in Players,
         m.type # "events" \/ r # p
  PROVE  Heard(r, q)' = Heard(r, q)
<1>1. CASE r # p \/ session[p] # "open"
  BY <1>1, Mail DEF Heard
<1>2. CASE r = p /\ session[p] = "open" /\ m.type # "events"
  <2>1. PICK n \in Nat :
          /\ n \notin DOMAIN inbox[p] /\ DOMAIN inbox'[p] = DOMAIN inbox[p] \cup {n}
          /\ \A i \in DOMAIN inbox[p] : inbox'[p][i] = inbox[p][i]
          /\ inbox'[p][n] = m
    BY <1>2, Mail
  <2>2. ASSUME NEW x \in (DOMAIN inbox[p] \cup {n}) \X (1..MaxCommands)
        PROVE  x \in Heard(r, q)' <=> x \in Heard(r, q)
    <3>1. CASE x[1] \in DOMAIN inbox[p]
      BY <1>2, <2>1, <2>2, <3>1 DEF Heard
    <3>2. CASE x[1] = n
      BY <1>2, <2>1, <2>2, <3>2 DEF Heard
    <3> QED
      BY <2>2, <3>1, <3>2
  <2>3. /\ Heard(r, q) \subseteq (DOMAIN inbox[p] \cup {n}) \X (1..MaxCommands)
        /\ Heard(r, q)' \subseteq (DOMAIN inbox[p] \cup {n}) \X (1..MaxCommands)
    BY <1>2, <2>1 DEF Heard
  <2> QED
    BY <2>2, <2>3
<1> QED
  BY <1>1, <1>2

LEMMA EventsHeard ==
  ASSUME Typed, Contents, NEW p \in Players, NEW m \in Message, inbox' = Sent(p, m),
         NEW q \in Players, m.type = "events", session[p] = "open"
  PROVE  Cardinality(Heard(p, q)') = Cardinality(Heard(p, q)) + m.from[q]
<1>1. PICK n \in Nat :
        /\ n \notin DOMAIN inbox[p] /\ DOMAIN inbox'[p] = DOMAIN inbox[p] \cup {n}
        /\ \A i \in DOMAIN inbox[p] : inbox'[p][i] = inbox[p][i]
        /\ inbox'[p][n] = m
  BY Mail
<1>2. PICK k \in 0..MaxCommands : k = m.from[q]
  BY EventMessage
<1>3. k \in Nat /\ \A i \in 1..k : i \in 1..MaxCommands
  BY MatchAssumption
<1>4. Heard(p, q)' = Heard(p, q) \cup ({n} \X (1..k))
  <2> DEFINE D == (DOMAIN inbox[p] \cup {n}) \X (1..MaxCommands)
  <2>1. ASSUME NEW x \in D
        PROVE  x \in Heard(p, q)' <=> x \in Heard(p, q) \cup ({n} \X (1..k))
    <3>1. CASE x[1] \in DOMAIN inbox[p]
      BY <1>1, <2>1, <3>1 DEF Heard
    <3>2. CASE x[1] = n
      <4>1. x \in Heard(p, q)' <=> x[2] <= k
        BY <1>1, <1>2, <2>1, <3>2 DEF Heard
      <4>2. x \notin Heard(p, q)
        BY <1>1, <3>2 DEF Heard
      <4>3. x \in {n} \X (1..k) <=> x[2] \in 1..k
        BY <2>1, <3>2
      <4>4. x[2] <= k <=> x[2] \in 1..k
        BY <1>3, <2>1, MatchAssumption
      <4> QED
        BY <4>1, <4>2, <4>3, <4>4
    <3> QED
      BY <2>1, <3>1, <3>2
  <2>2. Heard(p, q) \subseteq D /\ Heard(p, q)' \subseteq D /\ {n} \X (1..k) \subseteq D
    BY <1>1, <1>3 DEF Heard
  <2> QED
    BY <2>1, <2>2
<1>5. \A x \in Heard(p, q) : x[1] # n
  BY <1>1 DEF Heard
<1>6. IsFiniteSet(Heard(p, q))
  BY HeardFinite
<1>7. Cardinality(Heard(p, q) \cup ({n} \X (1..k))) = Cardinality(Heard(p, q)) + k
  BY <1>3, <1>5, <1>6, OneMore
<1> QED
  BY <1>2, <1>4, <1>7

\* What is sent, and to whom.
LEMMA Deliveries ==
  ASSUME IInv, Contents, [Next]_vars
  PROVE  /\ outgoing' \in Message
         /\ inbox' = inbox \/ \E p \in Players, m \in Message : inbox' = Sent(p, m)
<1> USE DEF mainVars, rosterVars, cmdVars, startVars, eventVars, castVars
<1>1. outgoing \in Message
  BY DEF Contents
<1>2. outgoing' \in Message
  <2>1. CASE outgoing' = outgoing \/ outgoing' = None
    BY <1>1, <2>1 DEF Message
  <2>2. CASE StartAnnounce
    <3>1. roster \in SUBSET Players /\ outgoing' = [type |-> "start", roster |-> roster]
      BY <2>2 DEF StartAnnounce, IInv, Typed
    <3> QED
      BY <3>1 DEF Message
  <2>3. CASE SendPlayerEvents
    <3>1. PICK n : n = Queued % ByteValues
      OBVIOUS
    <3>2. PICK f : f = [p \in Players |-> events[p] - events'[p]]
      OBVIOUS
    <3>3. outgoing' = outgoing \/ outgoing' = [type |-> "events", count |-> n, from |-> f]
      BY <2>3, <3>1, <3>2 DEF SendPlayerEvents
    <3>4. n \in 0..(ByteValues - 1)
      <4>1. InQueue \in SUBSET (members \X (1..MaxCommands)) /\ members \in SUBSET Players
        BY DEF InQueue, IInv, Typed
      <4>2. Queued \in Nat
        BY <4>1, PairsFinite, MatchAssumption DEF Queued
      <4> QED
        BY <3>1, <4>2, MatchAssumption
    <3>5. f \in [Players -> 0..MaxCommands]
      <4>1. ASSUME NEW p \in Players PROVE events[p] - events'[p] \in 0..MaxCommands
        <5>1. events[p] \in 0..MaxCommands /\ events'[p] \in {0, events[p]}
          BY <2>3 DEF SendPlayerEvents, Contents
        <5> QED
          BY <5>1, MatchAssumption
      <4> QED
        BY <3>2, <4>1
    <3> QED
      BY <1>1, <3>3, <3>4, <3>5 DEF Message
  <2>4. \/ outgoing' = outgoing \/ outgoing' = None \/ StartAnnounce \/ SendPlayerEvents
    BY ZenonT(60) DEF Next, MatchThread, Execute, Join, CreateMatch, JoinCheck, JoinActivate, JoinInsert,
       PeerReset, Disconnect, EraseSession, Submit, ThreadInit, DrainCommands, BatchDone,
       ExecuteNothing, ExecuteJump, StartMatch, StartSize, StartFill, BroadcastTo,
       BroadcastDone, OrientationsNotDue, SendOrientationUpdates, EventsNotDue, vars
  <2> QED
    BY <2>1, <2>2, <2>3, <2>4
<1>3. inbox' = inbox \/ \E p \in Players, m \in Message : inbox' = Sent(p, m)
  <2>1. inbox' = inbox \/ \E p \in Players : inbox' = Sent(p, outgoing)
    BY ZenonT(60) DEF Next, MatchThread, Execute, Join, CreateMatch, JoinCheck, JoinActivate, JoinInsert,
       PeerReset, Disconnect, EraseSession, Submit, ThreadInit, DrainCommands, BatchDone,
       ExecuteNothing, ExecuteJump, StartMatch, StartSize, StartFill, StartAnnounce, BroadcastTo,
       BroadcastDone, OrientationsNotDue, SendOrientationUpdates, EventsNotDue,
       SendPlayerEvents, vars
  <2> QED
    BY <1>1, <2>1
<1> QED
  BY <1>2, <1>3

LEMMA InboxTyped ==
  ASSUME IInv, Contents, [Next]_vars
  PROVE  inbox' \in [Players -> Seq(Message)]
<1>1. inbox \in [Players -> Seq(Message)]
  BY DEF Contents
<1>2. ASSUME NEW p \in Players, NEW m \in Message, inbox' = Sent(p, m)
      PROVE  inbox' \in [Players -> Seq(Message)]
  <2>1. inbox[p] \in Seq(Message)
    BY <1>1
  <2>2. Append(inbox[p], m) \in Seq(Message)
    BY <2>1, AppendProperties
  <2> QED
    BY <1>1, <1>2, <2>2 DEF Sent
<1> QED
  BY <1>1, <1>2, Deliveries

\* The commands not executed yet, and what is submitted.
LEMMA AheadTyped ==
  ASSUME Typed
  PROVE  /\ Len(queue) \in Nat /\ Len(batch) \in Nat /\ Ahead \in Nat
         /\ submitted \in 0..MaxCommands
         /\ batch # <<>> => Len(Tail(batch)) = Len(batch) - 1 /\ Len(batch) >= 1
<1>1. queue \in Seq(Command) /\ batch \in Seq(Command) /\ submitted \in 0..MaxCommands
  BY DEF Typed
<1>2. Len(queue) \in Nat /\ Len(batch) \in Nat
  BY <1>1, LenProperties
<1>3. batch # <<>> => Len(Tail(batch)) = Len(batch) - 1 /\ Len(batch) >= 1
  <2>1. batch # <<>> => Len(Tail(batch)) = Len(batch) - 1
    BY <1>1, HeadTailProperties
  <2>2. batch # <<>> => Len(batch) # 0
    BY <1>1, EmptySeq
  <2> QED
    BY <1>2, <2>1, <2>2
<1> QED
  BY <1>1, <1>2, <1>3 DEF Ahead

\* Steps that take no jump.
LEMMA AccountsSame ==
  ASSUME IInv, Accounts, [Next]_vars, UNCHANGED events, UNCHANGED jumps,
         Ahead' \in Nat, submitted' \in Nat,
         \/ Ahead' <= Ahead /\ submitted' = submitted
         \/ Ahead' = Ahead + 1 /\ submitted' = submitted + 1
  PROVE  Accounts'
<1>1. Contents'
  BY Deliveries, InboxTyped DEF Accounts, Contents
<1>2. state' # "Started" => state # "Started"
  BY ZenonT(60) DEF Next, MatchThread, Execute, Join, CreateMatch, JoinCheck, JoinActivate, JoinInsert,
     PeerReset, Disconnect, EraseSession, Submit, ThreadInit, DrainCommands, BatchDone,
     ExecuteNothing, ExecuteJump, StartMatch, StartSize, StartFill, StartAnnounce, BroadcastTo,
     BroadcastDone, OrientationsNotDue, SendOrientationUpdates, EventsNotDue,
     SendPlayerEvents, vars, IInv, Phases
<1>3. Ahead \in Nat /\ submitted \in Nat
  BY AheadTyped DEF IInv
<1>4. \A p \in Players : jumps[p] + Ahead' <= submitted'
  <2> SUFFICES ASSUME NEW p \in Players PROVE jumps[p] + Ahead' <= submitted'
    OBVIOUS
  <2>1. jumps[p] \in Nat /\ jumps[p] + Ahead <= submitted
    BY DEF Accounts, Contents
  <2> QED
    BY <1>3, <2>1
<1> QED
  BY <1>1, <1>2, <1>4 DEF Accounts

\* A jump that is accepted is one event and one command less.
LEMMA AccountsJump ==
  ASSUME IInv, Accounts, [Next]_vars, NEW p \in Players,
         ExecuteJump([user |-> p, kind |-> "jump"]), session[p] = "open"
  PROVE  Accounts'
<1> USE DEF mainVars, rosterVars, cmdVars, startVars, castVars
<1>1. /\ thread = "execute" /\ batch # <<>> /\ batch' = Tail(batch)
      /\ events' = [events EXCEPT ![p] = events[p] + 1]
      /\ jumps' = [jumps EXCEPT ![p] = jumps[p] + 1]
      /\ UNCHANGED <<queue, submitted, state>>
  BY DEF ExecuteJump, NextCommand
<1>2. /\ Ahead \in Nat /\ Ahead' \in Nat /\ Ahead' = Ahead - 1 /\ Ahead >= 1
      /\ submitted \in 0..MaxCommands
  <2>1. Len(queue) \in Nat /\ Len(batch) \in Nat /\ Len(batch') = Len(batch) - 1 /\ Len(batch) >= 1
    BY <1>1, AheadTyped DEF IInv
  <2>2. Ahead' = Len(queue) + Len(batch')
    BY <1>1 DEF Ahead
  <2> QED
    BY <2>1, <2>2, AheadTyped DEF IInv, Ahead
<1>3. PICK e : e = events[p]
  OBVIOUS
<1>4. PICK j : j = jumps[p]
  OBVIOUS
<1>5. e \in Nat /\ j \in Nat /\ e <= j /\ j + Ahead <= submitted
  BY <1>3, <1>4, MatchAssumption DEF Accounts, Contents
<1>6. e + 1 \in 0..MaxCommands /\ j + 1 \in 0..MaxCommands /\ e + 1 \in 1..MaxCommands
  BY <1>2, <1>5, MatchAssumption
<1>7. \A q \in Players : /\ events'[q] = IF q = p THEN e + 1 ELSE events[q]
                         /\ jumps'[q] = IF q = p THEN j + 1 ELSE jumps[q]
  BY <1>1, <1>3, <1>4 DEF Accounts, Contents
<1>8. Contents'
  <2>1. events' \in [Players -> 0..MaxCommands] /\ jumps' \in [Players -> 0..MaxCommands]
    BY <1>1, <1>3, <1>4, <1>6 DEF Accounts, Contents
  <2> QED
    BY <2>1, Deliveries, InboxTyped DEF Accounts, Contents
<1>9. \A q \in Players : events'[q] <= jumps'[q] /\ jumps'[q] + Ahead' <= submitted'
  <2> SUFFICES ASSUME NEW q \in Players
               PROVE  events'[q] <= jumps'[q] /\ jumps'[q] + Ahead' <= submitted
    BY <1>1
  <2>1. CASE q = p
    <3>1. e + 1 <= j + 1 /\ (j + 1) + Ahead' <= submitted
      BY <1>2, <1>5
    <3> QED
      BY <1>7, <2>1, <3>1
  <2>2. CASE q # p
    <3>1. jumps[q] \in Nat /\ events[q] <= jumps[q] /\ jumps[q] + Ahead <= submitted
      BY DEF Accounts, Contents
    <3>2. jumps[q] + Ahead' <= submitted
      BY <1>2, <3>1
    <3> QED
      BY <1>7, <2>2, <3>1, <3>2
  <2> QED
    BY <2>1, <2>2
<1>10. state' # "Started" => events' = jumps'
  BY <1>1 DEF Accounts
<1> QED
  BY <1>8, <1>9, <1>10 DEF Accounts

\* The queues are emptied.
LEMMA AccountsSent ==
  ASSUME IInv, Accounts, [Next]_vars, SendPlayerEvents
  PROVE  Accounts'
<1> USE DEF mainVars, rosterVars, cmdVars, startVars, castVars
<1>1. /\ UNCHANGED <<queue, batch, submitted, jumps, state>>
      /\ state = "Started"
      /\ \A p \in Players : events'[p] \in {0, events[p]}
      /\ events' = [p \in Players |-> IF p \in members THEN 0 ELSE events[p]]
  BY DEF SendPlayerEvents
<1>2. Contents'
  <2>1. events' \in [Players -> 0..MaxCommands]
    <3>1. 0 \in 0..MaxCommands
      BY MatchAssumption
    <3> QED
      BY <1>1, <3>1 DEF Accounts, Contents
  <2> QED
    BY <1>1, <2>1, Deliveries, InboxTyped DEF Accounts, Contents
<1>3. \A p \in Players : events'[p] <= events[p] /\ events'[p] <= jumps[p]
  <2> SUFFICES ASSUME NEW p \in Players PROVE events'[p] <= events[p] /\ events'[p] <= jumps[p]
    OBVIOUS
  <2>1. events[p] \in Nat /\ jumps[p] \in Nat /\ events[p] <= jumps[p]
    BY MatchAssumption DEF Accounts, Contents
  <2> QED
    BY <1>1, <2>1
<1>4. Ahead' = Ahead
  BY <1>1 DEF Ahead
<1> QED
  BY <1>1, <1>2, <1>3, <1>4 DEF Accounts

LEMMA AccountsKeeps ==
  ASSUME IInv, Accounts, [Next]_vars
  PROVE  Accounts'
<1> USE DEF mainVars, rosterVars, cmdVars, startVars, eventVars, castVars
<1>1. /\ Len(queue) \in Nat /\ Len(batch) \in Nat /\ Ahead \in Nat /\ Ahead = Len(queue) + Len(batch)
      /\ submitted \in Nat
      /\ batch # <<>> => Len(Tail(batch)) = Len(batch) - 1 /\ Len(batch) >= 1
  BY AheadTyped DEF IInv, Ahead
<1>2. CASE UNCHANGED <<queue, batch, submitted, events, jumps>>
  <2>1. Ahead' = Ahead
    BY <1>2 DEF Ahead
  <2> QED
    BY <1>1, <1>2, <2>1, AccountsSame
<1>3. ASSUME NEW p \in Players, NEW k \in Kinds, Submit(p, k) PROVE Accounts'
  <2>1. queue' = Append(queue, [user |-> p, kind |-> k]) /\ submitted' = submitted + 1
        /\ UNCHANGED <<batch, events, jumps>>
    BY <1>3 DEF Submit
  <2>2. Len(queue') = Len(queue) + 1
    <3>1. queue \in Seq(Command) /\ [user |-> p, kind |-> k] \in Command
      BY DEF IInv, Typed, Command
    <3> QED
      BY <2>1, <3>1, AppendProperties
  <2>3. Ahead' = Ahead + 1
    BY <1>1, <2>1, <2>2 DEF Ahead
  <2> QED
    BY <1>1, <2>1, <2>3, AccountsSame
<1>4. CASE DrainCommands
  <2>1. batch' = queue /\ queue' = <<>> /\ UNCHANGED <<submitted, events, jumps>>
    BY <1>4 DEF DrainCommands
  <2>2. Ahead' = Len(queue)
    BY <1>1, <2>1, EmptySeq DEF Ahead
  <2>3. Ahead' \in Nat /\ Ahead' <= Ahead
    BY <1>1, <2>2
  <2> QED
    BY <1>1, <2>1, <2>3, AccountsSame
<1>5. ASSUME batch # <<>>, batch' = Tail(batch), UNCHANGED <<queue, submitted, events, jumps>>
      PROVE  Accounts'
  <2>1. Ahead' = Len(queue) + Len(Tail(batch))
    BY <1>5 DEF Ahead
  <2>2. Ahead' \in Nat /\ Ahead' <= Ahead
    BY <1>1, <1>5, <2>1
  <2> QED
    BY <1>1, <1>5, <2>2, AccountsSame
<1>6. ASSUME NEW p \in Players, NEW k \in Kinds,
             LET c == [user |-> p, kind |-> k]
             IN  ExecuteNothing(c) \/ ExecuteJump(c) \/ StartMatch(c)
      PROVE  Accounts'
  <2>1. CASE ExecuteJump([user |-> p, kind |-> k]) /\ session[p] = "open"
    <3>1. k = "jump"
      BY <2>1 DEF ExecuteJump
    <3> QED
      BY <2>1, <3>1, AccountsJump
  <2>2. CASE ~(ExecuteJump([user |-> p, kind |-> k]) /\ session[p] = "open")
    <3>1. batch # <<>> /\ batch' = Tail(batch) /\ UNCHANGED <<queue, submitted, events, jumps>>
      BY <1>6, <2>2 DEF ExecuteNothing, ExecuteJump, StartMatch, NextCommand
    <3> QED
      BY <3>1, <1>5
  <2> QED
    BY <2>1, <2>2
<1>7. CASE SendPlayerEvents
  BY <1>7, AccountsSent
<1>8. \/ \E p \in Players, k \in Kinds : Submit(p, k)
      \/ DrainCommands \/ Execute \/ SendPlayerEvents
      \/ UNCHANGED <<queue, batch, submitted, events, jumps>>
  BY ZenonT(60) DEF Next, MatchThread, Join, CreateMatch, JoinCheck, JoinActivate, JoinInsert,
     PeerReset, Disconnect, EraseSession, ThreadInit, BatchDone, StartSize, StartFill,
     StartAnnounce, BroadcastTo, BroadcastDone, OrientationsNotDue, SendOrientationUpdates,
     EventsNotDue, vars
<1> QED
  BY <1>2, <1>3, <1>4, <1>6, <1>7, <1>8 DEF Execute

\* Steps that neither broadcast nor take an event.
LEMMA ConservedSame ==
  ASSUME IInv, Contents, Conserved, UNCHANGED <<events, jumps, wrapped, early, state>>,
         \A p \in Players : session'[p] = "open" => session[p] = "open",
         \A p, q \in Players : Heard(p, q)' = Heard(p, q),
         \/ thread' # "sending" /\ (thread = "sending" => \A p \in early : p < cursor)
         \/ UNCHANGED <<thread, cursor, outgoing>>
  PROVE  Conserved'
<1> SUFFICES ASSUME ~wrapped, state = "Started",
                    NEW p \in early, NEW q \in Players, session[p] = "open"
             PROVE  Cardinality(Heard(p, q)) + Owed(p, q)' + events[q] = jumps[q]
  <2>1. early \subseteq Players
    BY DEF IInv, Typed
  <2> QED
    BY <2>1 DEF Conserved
<1>1. Cardinality(Heard(p, q)) + Owed(p, q) + events[q] = jumps[q]
  BY DEF Conserved
<1>2. Owed(p, q)' = Owed(p, q)
  <2>1. CASE UNCHANGED <<thread, cursor, outgoing>>
    BY <2>1 DEF Owed
  <2>2. CASE thread' # "sending" /\ (thread = "sending" => p < cursor)
    <3>1. p \in Nat /\ cursor \in Nat
      BY MatchAssumption DEF IInv, Typed
    <3>2. thread = "sending" => ~(p >= cursor)
      BY <2>2, <3>1
    <3> QED
      BY <2>2, <3>2 DEF Owed
  <2> QED
    BY <2>1, <2>2
<1> QED
  BY <1>1, <1>2

\* An accepted jump is queued.
LEMMA ConservedJump ==
  ASSUME IInv, Accounts, Conserved, NEW u \in Players,
         ExecuteJump([user |-> u, kind |-> "jump"]), session[u] = "open"
  PROVE  Conserved'
<1> USE DEF mainVars, rosterVars, cmdVars, startVars, castVars
<1>1. /\ thread = "execute" /\ thread' = thread
      /\ events' = [events EXCEPT ![u] = events[u] + 1]
      /\ jumps' = [jumps EXCEPT ![u] = jumps[u] + 1]
      /\ UNCHANGED <<early, state, session, inbox, wrapped>>
  BY DEF ExecuteJump, NextCommand
<1> SUFFICES ASSUME ~wrapped, state = "Started",
                    NEW p \in early, NEW q \in Players, session[p] = "open"
             PROVE  Cardinality(Heard(p, q)') + Owed(p, q)' + events'[q] = jumps'[q]
  BY <1>1 DEF Conserved
<1>2. p \in Players
  BY DEF IInv, Typed
<1>3. Heard(p, q)' = Heard(p, q) /\ Owed(p, q)' = 0 /\ Owed(p, q) = 0
  BY <1>1 DEF Heard, Owed
<1>4. PICK h \in Nat : h = Cardinality(Heard(p, q))
  BY <1>2, HeardFinite DEF Accounts
<1>5. PICK e \in Nat : e = events[q]
  BY DEF Accounts, Contents
<1>6. PICK j \in Nat : j = jumps[q]
  BY DEF Accounts, Contents
<1>7. h + 0 + e = j
  BY <1>3, <1>4, <1>5, <1>6 DEF Conserved
<1>8. PICK b \in {0, 1} : events'[q] = e + b /\ jumps'[q] = j + b
  <2>1. events \in [Players -> 0..MaxCommands] /\ jumps \in [Players -> 0..MaxCommands]
    BY DEF Accounts, Contents
  <2>2. CASE q = u
    BY <1>1, <1>5, <1>6, <2>1, <2>2
  <2>3. CASE q # u
    <3>1. events'[q] = e /\ jumps'[q] = j
      BY <1>1, <1>5, <1>6, <2>1, <2>3
    <3> QED
      BY <3>1
  <2> QED
    BY <2>2, <2>3
<1>9. h + 0 + (e + b) = j + b
  BY <1>7
<1> QED
  BY <1>3, <1>4, <1>8, <1>9

\* What is taken out of the queues is what is broadcast: as long as num_events does
\* not wrap, no number of events is taken for none.
LEMMA ConservedSent ==
  ASSUME IInv, Accounts, Conserved, SendPlayerEvents
  PROVE  Conserved'
<1> USE DEF mainVars, rosterVars, cmdVars, startVars, castVars
<1>1. /\ thread = "events" /\ UNCHANGED <<early, state, session, inbox, jumps>>
      /\ events' = [p \in Players |-> IF p \in members THEN 0 ELSE events[p]]
      /\ \/ /\ outgoing'.from = [p \in Players |-> events[p] - events'[p]]
            /\ cursor' = 0 /\ thread' = "sending"
         \/ Queued % ByteValues = 0 /\ thread' = "drain"
      /\ wrapped' = (wrapped \/ Queued >= ByteValues)
  BY DEF SendPlayerEvents
<1> SUFFICES ASSUME ~wrapped', state = "Started",
                    NEW p \in early, NEW q \in Players, session[p] = "open"
             PROVE  Cardinality(Heard(p, q)') + Owed(p, q)' + events'[q] = jumps'[q]
  BY <1>1 DEF Conserved
<1>2. p \in Players /\ p \in Nat
  BY MatchAssumption DEF IInv, Typed
<1>3. Heard(p, q)' = Heard(p, q) /\ Owed(p, q) = 0
  BY <1>1 DEF Heard, Owed
<1>4. PICK h \in Nat : h = Cardinality(Heard(p, q))
  BY <1>2, HeardFinite DEF Accounts
<1>5. PICK e \in Nat : e = events[q]
  BY DEF Accounts, Contents
<1>6. h + 0 + e = jumps[q]
  BY <1>1, <1>3, <1>4, <1>5 DEF Conserved
<1>7. events'[q] \in {0, e}
  BY <1>1, <1>5
<1>8. Owed(p, q)' = e - events'[q]
  <2>1. CASE thread' = "sending"
    <3>1. outgoing'.from[q] = e - events'[q] /\ cursor' = 0
      BY <1>1, <1>5, <2>1
    <3>2. p >= cursor'
      BY <1>2, <3>1
    <3> QED
      BY <2>1, <3>1, <3>2 DEF Owed
  <2>2. CASE thread' = "drain" /\ Queued % ByteValues = 0
    <3>1. Queued \in Nat
      <4>1. InQueue \in SUBSET (members \X (1..MaxCommands)) /\ members \in SUBSET Players
        BY DEF InQueue, IInv, Typed
      <4> QED
        BY <4>1, PairsFinite, MatchAssumption DEF Queued
    <3>2. Queued = 0
      <4>1. ~(Queued >= ByteValues)
        BY <1>1, Zenon
      <4> QED
        BY <2>2, <3>1, <4>1, Byte, MatchAssumption
    <3>3. InQueue = {}
      <4>1. InQueue \in SUBSET (members \X (1..MaxCommands)) /\ members \in SUBSET Players
        BY DEF InQueue, IInv, Typed
      <4>2. IsFiniteSet(InQueue)
        BY <4>1, PairsFinite, MatchAssumption
      <4> QED
        BY <3>2, <4>2, FS_EmptySet DEF Queued
    <3>4. q \in members => e = 0
      <4> SUFFICES ASSUME q \in members, e # 0 PROVE FALSE
        OBVIOUS
      <4>1. e \in 1..MaxCommands
        <5>1. e \in 0..MaxCommands
          BY <1>5 DEF Accounts, Contents
        <5> QED
          BY <5>1, MatchAssumption
      <4>2. 1 \in 1..MaxCommands /\ 1 <= e
        BY <4>1, MatchAssumption
      <4>3. <<q, 1>> \in InQueue
        BY <1>5, <4>2 DEF InQueue
      <4> QED
        BY <3>3, <4>3
    <3>5. events'[q] = e
      BY <1>1, <1>5, <3>4
    <3> QED
      BY <2>2, <3>5 DEF Owed
  <2> QED
    BY <1>1, <2>1, <2>2
<1> QED
  BY <1>1, <1>3, <1>4, <1>6, <1>7, <1>8

\* One more player hears of the events being broadcast.
LEMMA ConservedBroadcast ==
  ASSUME IInv, Accounts, Conserved, NEW r \in Players, BroadcastTo(r), thread = "sending"
  PROVE  Conserved'
<1> USE DEF mainVars, rosterVars, cmdVars, startVars, eventVars
<1>1. /\ r \in Unserved /\ \A q \in Unserved : r <= q
      /\ inbox' = Sent(r, outgoing) /\ cursor' = r + 1
      /\ UNCHANGED <<state, session, thread, outgoing, early, events, jumps, wrapped>>
  BY DEF BroadcastTo
<1> SUFFICES ASSUME ~wrapped, state = "Started",
                    NEW p \in early, NEW q \in Players, session[p] = "open"
             PROVE  Cardinality(Heard(p, q)') + Owed(p, q)' + events[q] = jumps[q]
  BY <1>1 DEF Conserved
<1>2. /\ p \in Players /\ p \in members /\ p \in Nat /\ r \in Nat /\ cursor \in Nat
      /\ r >= cursor
  BY <1>1, MatchAssumption DEF IInv, Typed, Read, Unserved
<1>3. outgoing \in Message /\ outgoing.type = "events"
  BY DEF IInv, Phases, Accounts, Contents
<1>4. Cardinality(Heard(p, q)) + Owed(p, q) + events[q] = jumps[q]
  BY DEF Conserved
<1>5. CASE p = r
  <2>1. PICK k \in Nat : k = outgoing.from[q]
    BY <1>3, EventMessage, MatchAssumption
  <2>2. PICK h \in Nat : h = Cardinality(Heard(p, q))
    BY <1>2, HeardFinite DEF Accounts
  <2>3. Owed(p, q) = k
    BY <1>2, <1>5, <2>1 DEF Owed
  <2>4. Cardinality(Heard(p, q)') = h + k
    BY <1>1, <1>3, <1>5, <2>1, <2>2, EventsHeard DEF IInv, Accounts
  <2>5. ~(p >= cursor')
    BY <1>1, <1>2, <1>5
  <2>6. Owed(p, q)' = 0
    BY <2>5 DEF Owed
  <2>7. h + k = (h + k) + 0
    OBVIOUS
  <2> QED
    BY <1>4, <2>2, <2>3, <2>4, <2>6, <2>7
<1>6. CASE p # r
  <2>1. Heard(p, q)' = Heard(p, q)
    BY <1>1, <1>2, <1>3, <1>6, NothingHeard DEF IInv
  <2>2. p >= cursor <=> p >= cursor'
    <3>1. p >= cursor => r <= p
      BY <1>1, <1>2 DEF Unserved
    <3> QED
      BY <1>1, <1>2, <1>6, <3>1
  <2>3. Owed(p, q)' = Owed(p, q)
    BY <1>1, <2>2 DEF Owed
  <2> QED
    BY <1>4, <2>1, <2>3
<1> QED
  BY <1>5, <1>6

\* The match starts: nobody has heard of anything yet.
LEMMA ConservedStart ==
  ASSUME IInv, Accounts, StartAnnounce
  PROVE  Conserved'
<1> USE DEF mainVars, rosterVars, cmdVars, startVars, eventVars
<1>1. /\ thread = "announce" /\ thread' = "starting"
      /\ UNCHANGED <<early, session, inbox, events, jumps>>
  BY DEF StartAnnounce
<1>2. state # "Started"
  BY <1>1 DEF IInv, Phases, Preparing
<1> SUFFICES ASSUME NEW p \in early, NEW q \in Players
             PROVE  Cardinality(Heard(p, q)') + Owed(p, q)' + events[q] = jumps[q]
  BY <1>1 DEF Conserved
<1>3. events[q] = jumps[q] /\ events[q] \in Nat
  BY <1>2 DEF Accounts, Contents
<1>4. Heard(p, q)' = {} /\ Owed(p, q)' = 0
  <2>1. \A i \in DOMAIN inbox[p] : inbox[p][i].type # "events"
    BY <1>2 DEF IInv, Typed, Telling
  <2> QED
    BY <1>1, <2>1 DEF Heard, Owed
<1> QED
  BY <1>3, <1>4, FS_EmptySet

\* A session that was closed is not opened again.
LEMMA SessionsClose ==
  ASSUME IInv, [Next]_vars
  PROVE  \A p \in Players : session'[p] = "open" => session[p] = "open"
<1> USE DEF mainVars, rosterVars, cmdVars, startVars, eventVars, castVars
<1>1. \/ session' = session
      \/ \E p \in Players, k \in {"closed", "gone"} : session' = [session EXCEPT ![p] = k]
  <2>1. EraseSession => main.player \in Players
    BY MainTyped DEF EraseSession, IInv, Idle
  <2> QED
    BY <2>1, ZenonT(60) DEF Next, MatchThread, Execute, Join, CreateMatch, JoinActivate, JoinInsert,
       PeerReset, EraseSession, JoinCheck, Disconnect, Submit, ThreadInit, DrainCommands,
       BatchDone, ExecuteNothing, ExecuteJump, StartMatch, StartSize, StartFill,
       StartAnnounce, BroadcastTo, BroadcastDone, OrientationsNotDue,
       SendOrientationUpdates, EventsNotDue, SendPlayerEvents, vars
<1>2. session \in [Players -> {"open", "closed", "gone"}]
  BY DEF IInv, Typed
<1> QED
  BY <1>1, <1>2

LEMMA ConservedKeeps ==
  ASSUME IInv, Accounts, Conserved, [Next]_vars
  PROVE  Conserved'
<1> USE DEF mainVars, rosterVars, cmdVars, startVars, eventVars, castVars
<1>1. \A p \in Players : session'[p] = "open" => session[p] = "open"
  BY SessionsClose
<1>2. ASSUME UNCHANGED inbox PROVE \A p, q \in Players : Heard(p, q)' = Heard(p, q)
  BY <1>2 DEF Heard
<1>3. CASE \/ CreateMatch \/ Join \/ EraseSession
           \/ \E p \in Players : JoinCheck(p) \/ Disconnect(p) \/ PeerReset(p)
  <2>1. /\ UNCHANGED <<events, jumps, wrapped, early, state, cursor, outgoing, inbox>>
        /\ thread' = thread \/ (thread = "none" /\ thread' = "init")
    BY <1>3 DEF CreateMatch, Join, JoinActivate, JoinInsert, EraseSession, JoinCheck,
       Disconnect, PeerReset
  <2> QED
    BY <1>1, <1>2, <2>1, ConservedSame DEF Accounts
<1>4. ASSUME UNCHANGED <<events, jumps, wrapped, early, state, inbox>>,
             \/ thread' # "sending" /\ thread # "sending"
             \/ UNCHANGED <<thread, cursor, outgoing>>
      PROVE  Conserved'
  BY <1>1, <1>2, <1>4, ConservedSame DEF Accounts
<1>5. CASE \/ \E p \in Players, k \in Kinds : Submit(p, k)
           \/ DrainCommands \/ BatchDone \/ StartSize \/ StartFill
           \/ OrientationsNotDue \/ SendOrientationUpdates \/ EventsNotDue \/ UNCHANGED vars
  BY <1>4, <1>5 DEF Submit, DrainCommands, BatchDone, StartSize, StartFill,
     OrientationsNotDue, SendOrientationUpdates, EventsNotDue, vars
<1>6. ASSUME state' # "Started" PROVE Conserved'
  BY <1>6 DEF Conserved
<1>7. CASE ThreadInit
  BY <1>6, <1>7 DEF ThreadInit
<1>8. ASSUME NEW p \in Players, NEW k \in Kinds,
             LET c == [user |-> p, kind |-> k]
             IN  ExecuteNothing(c) \/ ExecuteJump(c) \/ StartMatch(c)
      PROVE  Conserved'
  <2>1. CASE ExecuteJump([user |-> p, kind |-> k]) /\ session[p] = "open"
    <3>1. k = "jump"
      BY <2>1 DEF ExecuteJump
    <3> QED
      BY <2>1, <3>1, ConservedJump
  <2>2. CASE StartMatch([user |-> p, kind |-> k])
    BY <1>6, <2>2 DEF StartMatch
  <2>3. CASE /\ ~(ExecuteJump([user |-> p, kind |-> k]) /\ session[p] = "open")
             /\ ~StartMatch([user |-> p, kind |-> k])
    <3>1. /\ UNCHANGED <<events, jumps, wrapped, early, state, inbox>>
          /\ thread' # "sending" /\ thread # "sending"
      BY <1>8, <2>3 DEF ExecuteNothing, ExecuteJump, NextCommand
    <3> QED
      BY <1>4, <3>1
  <2> QED
    BY <2>1, <2>2, <2>3
<1>9. ASSUME NEW r \in Players, BroadcastTo(r) PROVE Conserved'
  <2>1. CASE thread = "sending"
    BY <1>9, <2>1, ConservedBroadcast
  <2>2. CASE thread # "sending"
    <3>1. /\ thread = "starting" /\ inbox' = Sent(r, outgoing)
          /\ UNCHANGED <<events, jumps, wrapped, early, state, thread>>
      BY <1>9, <2>2 DEF BroadcastTo
    <3>2. outgoing.type = "start"
      BY <3>1 DEF IInv, Phases
    <3>3. \A p, q \in Players : Heard(p, q)' = Heard(p, q)
      BY <3>1, <3>2, NothingHeard DEF IInv
    <3> QED
      BY <1>1, <2>2, <3>1, <3>3, ConservedSame DEF Accounts
  <2> QED
    BY <2>1, <2>2
<1>10. CASE BroadcastDone
  <2>1. /\ Unserved = {} /\ thread' # "sending"
        /\ UNCHANGED <<events, jumps, wrapped, early, state, inbox>>
    BY <1>10 DEF BroadcastDone
  <2>2. \A p \in early : p < cursor
    <3>1. \A p \in early : p \in members /\ p \in Nat /\ cursor \in Nat
      BY MatchAssumption DEF IInv, Typed, Read
    <3> QED
      BY <2>1, <3>1 DEF Unserved
  <2> QED
    BY <1>1, <1>2, <2>1, <2>2, ConservedSame DEF Accounts
<1>11. CASE StartAnnounce
  BY <1>11, ConservedStart
<1>12. CASE SendPlayerEvents
  BY <1>12, ConservedSent
<1> QED
  BY <1>3, <1>5, <1>7, <1>8, <1>9, <1>10, <1>11, <1>12 DEF Next, MatchThread, Execute

\* The commands, the queued events and what clients were told add up.
THEOREM AccountsHold == Spec => [](Accounts /\ Conserved)
<1>1. Init => Accounts /\ Conserved
  <2> SUFFICES ASSUME Init PROVE Accounts /\ Conserved
    OBVIOUS
  <2>1. Contents
    BY MatchAssumption, EmptySeq DEF Init, Contents, Message
  <2>2. Ahead = 0
    BY EmptySeq DEF Init, Ahead
  <2>3. Conserved
    BY DEF Init, Conserved
  <2> QED
    BY <2>1, <2>2, <2>3 DEF Init, Accounts
<1>2. IInv /\ (Accounts /\ Conserved) /\ [Next]_vars => (Accounts /\ Conserved)'
  BY AccountsKeeps, ConservedKeeps
<1> QED
  BY <1>1, <1>2, Invariance, PTL DEF Spec

\* Every variable has its type, the contents of queues and messages included
\* (Match.TypeOK).
THEOREM TypeCorrect == Spec => []TypeOK
<1>1. IInv /\ Accounts => TypeOK
  BY DEF IInv, Typed, Accounts, Contents, TypeOK
<1> QED
  BY <1>1, Invariance, AccountsHold, PTL

\* What an early player has heard of another's jumps and what is still queued is all
\* that was accepted, however many players and commands, unless num_events has wrapped
\* (Match.EventsConserved).
THEOREM EventsAreConserved == Spec => []EventsConserved
<1>1. IInv /\ Accounts /\ Conserved => EventsConserved
  <2> SUFFICES ASSUME IInv, Accounts, Conserved, thread # "sending",
                      ~wrapped, state = "Started",
                      NEW p \in early, NEW q \in members, session[p] = "open"
               PROVE  Cardinality(Heard(p, q)) + events[q] = jumps[q]
    BY DEF EventsConserved
  <2>1. p \in Players /\ q \in Players
    BY DEF IInv, Typed
  <2>2. Owed(p, q) = 0
    BY DEF Owed
  <2>3. Cardinality(Heard(p, q)) + Owed(p, q) + events[q] = jumps[q]
    BY <2>1 DEF Conserved
  <2>4. Cardinality(Heard(p, q)) \in Nat
    BY <2>1, HeardFinite DEF Accounts
  <2> QED
    BY <2>2, <2>3, <2>4
<1> QED
  BY <1>1, Invariance, AccountsHold, PTL

-----------------------------------------------------------------------------
(* What those who were in the match from its start are sent.               *)

\* The message being broadcast is still to come for p; what p is sent with it.
Due(p) == thread \in {"starting", "sending"} /\ p >= cursor
Whole(p) == IF Due(p) THEN Append(inbox[p], outgoing) ELSE inbox[p]

\* SameStream in the middle of a broadcast too.
Together ==
  state = "Started" =>
    \A p, q \in early :
      session[p] = "open" /\ session[q] = "open" => Whole(p) = Whole(q)

\* Steps that broadcast nothing.
LEMMA TogetherSame ==
  ASSUME IInv, Together, UNCHANGED <<early, state, inbox>>,
         \A p \in Players : session'[p] = "open" => session[p] = "open",
         \/ /\ thread' \notin {"starting", "sending"}
            /\ thread \in {"starting", "sending"} => \A p \in early : p < cursor
         \/ UNCHANGED <<thread, cursor, outgoing>>
  PROVE  Together'
<1>1. early \subseteq Players
  BY DEF IInv, Typed
<1>2. ASSUME NEW p \in early PROVE Whole(p)' = Whole(p)
  <2>1. CASE UNCHANGED <<thread, cursor, outgoing>>
    BY <2>1 DEF Whole, Due
  <2>2. CASE /\ thread' \notin {"starting", "sending"}
             /\ thread \in {"starting", "sending"} => p < cursor
    <3>1. p \in Nat /\ cursor \in Nat
      BY <1>1, MatchAssumption DEF IInv, Typed
    <3>2. ~Due(p) /\ ~Due(p)'
      BY <2>2, <3>1 DEF Due
    <3> QED
      BY <3>2 DEF Whole
  <2> QED
    BY <1>2, <2>1, <2>2
<1> QED
  BY <1>1, <1>2 DEF Together

\* What was to come for a player has come.
LEMMA TogetherBroadcast ==
  ASSUME IInv, Together, NEW r \in Players, BroadcastTo(r)
  PROVE  Together'
<1> USE DEF mainVars, rosterVars, cmdVars, startVars, eventVars
<1>1. /\ thread \in {"starting", "sending"} /\ r \in Unserved /\ \A q \in Unserved : r <= q
      /\ inbox' = Sent(r, outgoing) /\ cursor' = r + 1
      /\ UNCHANGED <<state, session, thread, outgoing, early>>
  BY DEF BroadcastTo
<1>2. ASSUME NEW p \in early, session[p] = "open"
      PROVE  Whole(p)' = Whole(p)
  <2>1. /\ p \in Players /\ p \in members /\ p \in Nat /\ r \in Nat /\ cursor \in Nat
        /\ r >= cursor
    BY <1>1, MatchAssumption DEF IInv, Typed, Read, Unserved
  <2>2. CASE p = r
    <3>1. Due(p) /\ ~Due(p)'
      BY <1>1, <2>1, <2>2 DEF Due
    <3>2. inbox'[p] = Append(inbox[p], outgoing)
      BY <1>1, <1>2, <2>1, <2>2 DEF Sent, IInv, Typed
    <3> QED
      BY <3>1, <3>2 DEF Whole
  <2>3. CASE p # r
    <3>1. inbox'[p] = inbox[p]
      BY <1>1, <2>1, <2>3, Mail DEF IInv
    <3>2. p >= cursor <=> p >= cursor'
      <4>1. p >= cursor => r <= p
        BY <1>1, <2>1 DEF Unserved
      <4> QED
        BY <1>1, <2>1, <2>3, <4>1
    <3>3. Due(p)' <=> Due(p)
      BY <1>1, <3>2 DEF Due
    <3> QED
      BY <1>1, <3>1, <3>3 DEF Whole
  <2> QED
    BY <2>2, <2>3
<1> QED
  BY <1>1, <1>2 DEF Together

\* A broadcast begins: it is to come for everybody.
LEMMA TogetherBegins ==
  ASSUME IInv, UNCHANGED <<early, session, inbox>>,
         thread' \in {"starting", "sending"}, cursor' = 0,
         \A p, q \in early :
           session[p] = "open" /\ session[q] = "open" => inbox[p] = inbox[q]
  PROVE  Together'
<1> SUFFICES ASSUME NEW p \in early, NEW q \in early, session[p] = "open", session[q] = "open"
             PROVE  Whole(p)' = Whole(q)'
  BY DEF Together
<1>1. p \in Nat /\ q \in Nat
  BY MatchAssumption DEF IInv, Typed
<1>2. Due(p)' /\ Due(q)'
  BY <1>1 DEF Due
<1> QED
  BY <1>2 DEF Whole

LEMMA TogetherKeeps ==
  ASSUME IInv, Contents, Together, [Next]_vars
  PROVE  Together'
<1> USE DEF mainVars, rosterVars, cmdVars, startVars, eventVars, castVars
<1>1. \A p \in Players : session'[p] = "open" => session[p] = "open"
  BY SessionsClose
<1>3. ASSUME UNCHANGED <<early, state, inbox>>,
             \/ thread' \notin {"starting", "sending"} /\ thread \notin {"starting", "sending"}
             \/ UNCHANGED <<thread, cursor, outgoing>>
      PROVE  Together'
  BY <1>1, <1>3, TogetherSame
<1>4. ASSUME state' # "Started" PROVE Together'
  BY <1>4 DEF Together
<1>5. CASE \/ CreateMatch \/ Join \/ EraseSession
           \/ \E p \in Players : JoinCheck(p) \/ Disconnect(p) \/ PeerReset(p)
  <2>1. /\ UNCHANGED <<early, state, cursor, outgoing, inbox>>
        /\ thread' = thread \/ (thread = "none" /\ thread' = "init")
    BY <1>5 DEF CreateMatch, Join, JoinActivate, JoinInsert, EraseSession, JoinCheck,
       Disconnect, PeerReset
  <2> QED
    BY <1>1, <2>1, TogetherSame
<1>6. CASE \/ \E p \in Players, k \in Kinds : Submit(p, k)
           \/ DrainCommands \/ BatchDone \/ StartSize \/ StartFill
           \/ OrientationsNotDue \/ SendOrientationUpdates \/ EventsNotDue \/ UNCHANGED vars
  BY <1>3, <1>6 DEF Submit, DrainCommands, BatchDone, StartSize, StartFill, Faults,
     OrientationsNotDue, SendOrientationUpdates, EventsNotDue, vars
<1>7. CASE ThreadInit
  BY <1>4, <1>7 DEF ThreadInit
<1>8. ASSUME NEW p \in Players, NEW k \in Kinds,
             LET c == [user |-> p, kind |-> k]
             IN  ExecuteNothing(c) \/ ExecuteJump(c) \/ StartMatch(c)
      PROVE  Together'
  <2>1. CASE StartMatch([user |-> p, kind |-> k])
    BY <1>4, <2>1 DEF StartMatch
  <2>2. CASE ~StartMatch([user |-> p, kind |-> k])
    <3>1. /\ UNCHANGED <<early, state, inbox>>
          /\ thread' \notin {"starting", "sending"} /\ thread \notin {"starting", "sending"}
      BY <1>8, <2>2 DEF ExecuteNothing, ExecuteJump, NextCommand
    <3> QED
      BY <1>3, <3>1
  <2> QED
    BY <2>1, <2>2
<1>9. ASSUME NEW r \in Players, BroadcastTo(r) PROVE Together'
  BY <1>9, TogetherBroadcast
<1>10. CASE BroadcastDone
  <2>1. /\ Unserved = {} /\ thread' \notin {"starting", "sending"}
        /\ UNCHANGED <<early, state, inbox>>
    BY <1>10 DEF BroadcastDone
  <2>2. \A p \in early : p < cursor
    <3>1. \A p \in early : p \in members /\ p \in Nat /\ cursor \in Nat
      BY MatchAssumption DEF IInv, Typed, Read
    <3> QED
      BY <2>1, <3>1 DEF Unserved
  <2> QED
    BY <1>1, <2>1, <2>2, TogetherSame
<1>11. CASE StartAnnounce
  <2>1. /\ thread = "announce" /\ thread' = "starting" /\ cursor' = 0
        /\ UNCHANGED <<early, session, inbox>>
    BY <1>11 DEF StartAnnounce
  <2>2. state # "Started" /\ early \subseteq Players
    BY <2>1 DEF IInv, Phases, Preparing, Typed
  <2>3. \A p \in early : inbox[p] = <<>>
    BY <2>2 DEF IInv, Telling
  <2> QED
    BY <2>1, <2>3, TogetherBegins
<1>12. CASE SendPlayerEvents
  <2>1. /\ thread = "events" /\ state = "Started" /\ UNCHANGED <<early, state, session, inbox>>
        /\ (thread' = "sending" /\ cursor' = 0) \/ thread' = "drain"
    BY <1>12 DEF SendPlayerEvents
  <2>2. CASE thread' = "drain"
    BY <1>3, <2>1, <2>2
  <2>3. CASE thread' = "sending" /\ cursor' = 0
    <3>1. ASSUME NEW p \in early, NEW q \in early, session[p] = "open", session[q] = "open"
          PROVE  inbox[p] = inbox[q]
      <4>1. ~Due(p) /\ ~Due(q)
        BY <2>1 DEF Due
      <4>2. Whole(p) = Whole(q)
        BY <2>1, <3>1 DEF Together
      <4> QED
        BY <4>1, <4>2 DEF Whole
    <3> QED
      BY <2>1, <2>3, <3>1, TogetherBegins
  <2> QED
    BY <2>1, <2>2, <2>3
<1> QED
  BY <1>5, <1>6, <1>7, <1>8, <1>9, <1>10, <1>11, <1>12 DEF Next, MatchThread, Execute

\* All who were in the match from its start are sent the same messages in the same
\* order, for any number of players and commands (Match.SameStream).
THEOREM StreamsAgree == Spec => []SameStream
<1>1. Init => Together
  BY DEF Init, Together
<1>2. IInv /\ Accounts /\ Together /\ [Next]_vars => Together'
  BY TogetherKeeps DEF Accounts
<1>3. IInv /\ Together => SameStream
  <2> SUFFICES ASSUME Together, state = "Started", thread \notin {"starting", "sending"},
                      NEW p \in early, NEW q \in early,
                      session[p] = "open", session[q] = "open"
               PROVE  inbox[p] = inbox[q]
    BY DEF SameStream
  <2>1. Whole(p) = Whole(q) /\ ~Due(p) /\ ~Due(q)
    BY DEF Together, Due
  <2> QED
    BY <2>1 DEF Whole
<1> QED
  BY <1>1, <1>2, <1>3, Invariance, AccountsHold, PTL DEF Spec

-----------------------------------------------------------------------------
(* Instance ids.                                                           *)

\* Who does not join again shares his instance id with nobody, however often others
\* join, up to as many players as a byte has values (Match.InstanceIdsDistinct).
THEOREM InstanceIds == Spec => []InstanceIdsDistinct
<1>1. Init => Numbered
  BY DEF Init, Numbered, InstanceIdsDistinct
<1>2. ASSUME IInv, Numbered, [Next]_vars PROVE Numbered'
  <2> USE DEF mainVars, rosterVars, cmdVars, startVars, eventVars, castVars
  <2>1. members \subseteq Players
    BY <1>2 DEF IInv, Typed
  <2>2. CASE UNCHANGED <<members, rejoined, instance>>
    BY <1>2, <2>2 DEF Numbered, InstanceIdsDistinct
  <2>3. CASE JoinInsert
    <3> DEFINE p == main.player
               n == Cardinality(members)
    <3>1. p \in Players
      BY <1>2, <2>3, MainTyped DEF JoinInsert, IInv, Idle
    <3>2. /\ members' = members \cup {p} /\ rejoined' = rejoined \cup ({p} \cap members)
          /\ instance' = [instance EXCEPT ![p] = Cardinality(members') % ByteValues]
      BY <2>3 DEF JoinInsert
    <3>3. IsFiniteSet(members) /\ n \in Nat
      BY <2>1, Counted
    <3>4. \A q \in Players \ {p} : instance'[q] = instance[q]
      BY <1>2, <3>2 DEF IInv, Typed
    <3>5. CASE p \in members
      <4>1. members' = members /\ members' \ rejoined' \subseteq (members \ rejoined) \ {p}
        BY <3>2, <3>5
      <4>2. \A q \in members' \ rejoined' : q \in members \ rejoined /\ instance'[q] = instance[q]
        BY <2>1, <3>4, <4>1
      <4> QED
        BY <1>2, <4>1, <4>2 DEF Numbered, InstanceIdsDistinct
    <3>6. CASE p \notin members
      <4>1. rejoined' = rejoined /\ Cardinality(members') = n + 1
        <5>1. {p} \cap members = {}
          BY <3>6
        <5>2. rejoined' = rejoined
          BY <3>2, <5>1
        <5>3. Cardinality(members \cup {p}) = Cardinality(members) + 1
          BY <3>3, <3>6, FS_AddElement
        <5> QED
          BY <3>2, <5>2, <5>3
      <4>2. instance'[p] = (n + 1) % ByteValues
        BY <1>2, <3>1, <3>2, <4>1 DEF IInv, Typed
      <4> HIDE DEF p, n
      <4> SUFFICES ASSUME n + 1 <= ByteValues
                   PROVE  /\ \A q \in members' \ rejoined' :
                               \/ instance'[q] \in 1..(n + 1)
                               \/ instance'[q] = 0 /\ n + 1 = ByteValues
                          /\ \A q, r \in members' \ rejoined' :
                               q # r => instance'[q] # instance'[r]
        BY <4>1 DEF Numbered, InstanceIdsDistinct
      <4>3. instance'[p] = n + 1 \/ (instance'[p] = 0 /\ n + 1 = ByteValues)
        BY <3>3, <4>2, Byte, MatchAssumption
      <4>4. n <= ByteValues /\ n # ByteValues
        BY <3>3, MatchAssumption
      <4>5. \A q \in members \ rejoined :
              q # p /\ instance'[q] = instance[q] /\ instance'[q] \in 1..n
        BY <1>2, <2>1, <3>4, <3>6, <4>4 DEF Numbered, n
      <4>6. \A q, r \in members \ rejoined : q # r => instance'[q] # instance'[r]
        BY <1>2, <4>4, <4>5 DEF Numbered, InstanceIdsDistinct, n
      <4>7. \A q \in members' \ rejoined' : q = p \/ q \in members \ rejoined
        BY <3>2, <4>1
      <4>8. n + 1 \in 1..(n + 1) /\ n + 1 \notin 1..n /\ 0 \notin 1..n
        BY <3>3
      <4>9. \A q \in members' \ rejoined' :
              \/ instance'[q] \in 1..(n + 1)
              \/ instance'[q] = 0 /\ n + 1 = ByteValues
        BY <3>3, <4>3, <4>5, <4>7
      <4>10. \A q, r \in members' \ rejoined' : q # r => instance'[q] # instance'[r]
        BY <4>3, <4>5, <4>6, <4>7, <4>8
      <4> QED
        BY <4>9, <4>10
    <3> QED
      BY <3>5, <3>6
  <2>4. JoinInsert \/ UNCHANGED <<members, rejoined, instance>>
    <3>1. Execute => UNCHANGED <<members, rejoined, instance>>
      BY ZenonT(60) DEF Execute, ExecuteNothing, ExecuteJump, StartMatch, NextCommand
    <3>2. MatchThread => UNCHANGED <<members, rejoined, instance>>
      BY <3>1, ZenonT(60) DEF MatchThread, ThreadInit, DrainCommands, BatchDone, StartSize,
         StartFill, StartAnnounce, BroadcastTo, BroadcastDone, OrientationsNotDue,
         SendOrientationUpdates, EventsNotDue, SendPlayerEvents
    <3>3. (\/ CreateMatch \/ EraseSession \/ JoinActivate
           \/ \E p \in Players : JoinCheck(p) \/ Disconnect(p) \/ PeerReset(p)
           \/ \E p \in Players, k \in Kinds : Submit(p, k))
            => UNCHANGED <<members, rejoined, instance>>
      BY ZenonT(60) DEF CreateMatch, EraseSession, JoinActivate, JoinCheck, Disconnect, PeerReset,
         Submit
    <3> QED
      BY <1>2, <3>2, <3>3 DEF Next, Join, vars
  <2> QED
    BY <2>2, <2>3, <2>4
<1>3. Numbered => InstanceIdsDistinct
  BY DEF Numbered
<1> QED
  BY <1>1, <1>2, <1>3, Invariance, PTL DEF Spec
=============================================================================
