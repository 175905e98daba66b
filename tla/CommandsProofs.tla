--------------------------- MODULE CommandsProofs ---------------------------
(***************************************************************************)
(* Proofs about Commands: for any sets of sessions and codes, and any      *)
(* number of commands, either thread executes a session's commands in      *)
(* order, only those meant for it, and none of a registered session is     *)
(* lost or executed twice.                                                 *)
(***************************************************************************)
EXTENDS Commands, SequenceTheorems, FiniteSetTheorems, TLAPS

\* Of the commands of one session in the set, those in P were sent first.
Precede(P, Q) == \A k \in P, l \in Q : k.session = l.session => k.number < l.number

\* The commands of each session are in the order they were sent in.
Ordered(q) ==
  \A i, j \in DOMAIN q : i < j /\ q[i].session = q[j].session => q[i].number < q[j].number

\* What a thread has looked up, and all that it has or had.
Called(t) == IF t = "async" THEN ToSet(calling) ELSE {}
Held(t) == ToSet(executed[t]) \cup Called(t) \cup ToSet(batch[t]) \cup ToSet(queue[t])

\* A command passes from the queue of its thread through the batch, and in the
\* case of Process_Async through the look-up, to those executed; it overtakes
\* none, and the next one sent comes after them all.
Lined(t) ==
  /\ Ordered(executed[t]) /\ Ordered(batch[t]) /\ Ordered(queue[t])
  /\ Precede(ToSet(executed[t]), Called(t) \cup ToSet(batch[t]) \cup ToSet(queue[t]))
  /\ Precede(Called(t), ToSet(batch[t]) \cup ToSet(queue[t]))
  /\ Precede(ToSet(batch[t]), ToSet(queue[t]))
  /\ \A k \in Held(t) : k.number <= sent[k.session]

\* No command is on both threads.
Apart == Held("main") \cap Held("async") = {}

\* Those on the async thread were sorted by a table entry of AddCommand's.
Sorted ==
  /\ \A c \in Codes : table[c] = "async" => c \in AsyncCodes
  /\ \A k \in Held("async") : k.code \in AsyncCodes

\* A thread takes the next batch when it is done with the last one, and looks
\* one command up at a time.
Emptied ==
  /\ main # "execute" => batch["main"] = <<>>
  /\ async \in {"start", "drain"} => batch["async"] = <<>>
  /\ calling = <<>> \/ \E k \in Command : calling = <<k>>

\* Sessions are added once; what a registered one has sent is somewhere.
Joined ==
  /\ ToSet(addQueue) \subseteq open \ registered
  /\ \A k \in known :
       /\ k.session \in open \ ToSet(addQueue)
       /\ process = "runs" /\ k.session \in registered =>
            k \in Held("main") \cup Held("async")

IInv ==
  /\ TypeOK
  /\ \A t \in Threads : Lined(t)
  /\ Apart /\ Sorted /\ Emptied /\ Joined

-----------------------------------------------------------------------------
(* Sequences of commands.                                                  *)

LEMMA ElementsTyped ==
  ASSUME NEW S, NEW q \in Seq(S)
  PROVE  ToSet(q) \subseteq S
<1>1. DOMAIN q = 1..Len(q)
  BY LenProperties
<1> QED
  BY <1>1, ElementOfSeq DEF ToSet

LEMMA EmptyOrdered == ToSet(<<>>) = {} /\ Ordered(<<>>)
BY DEF ToSet, Ordered

\* A command behind all the others of its session.
LEMMA Appended ==
  ASSUME NEW q \in Seq(Command), NEW k \in Command
  PROVE  /\ Append(q, k) \in Seq(Command)
         /\ ToSet(Append(q, k)) = ToSet(q) \cup {k}
         /\ Ordered(q) /\ Precede(ToSet(q), {k}) => Ordered(Append(q, k))
<1>1. /\ Append(q, k) \in Seq(Command) /\ Len(q) \in Nat /\ DOMAIN q = 1..Len(q)
      /\ DOMAIN Append(q, k) = 1..(Len(q) + 1)
      /\ \A i \in 1..Len(q) : Append(q, k)[i] = q[i]
      /\ Append(q, k)[Len(q) + 1] = k
  BY AppendProperties, LenProperties
<1>2. 1..(Len(q) + 1) = 1..Len(q) \cup {Len(q) + 1}
  BY <1>1
<1>3. ToSet(Append(q, k)) = ToSet(q) \cup {k}
  BY <1>1, <1>2 DEF ToSet
<1>4. ASSUME Ordered(q), Precede(ToSet(q), {k}) PROVE Ordered(Append(q, k))
  <2>1. \A i \in 1..Len(q) : q[i].session = k.session => q[i].number < k.number
    BY <1>1, <1>4 DEF Precede, ToSet
  <2> SUFFICES ASSUME NEW i \in 1..(Len(q) + 1), NEW j \in 1..(Len(q) + 1), i < j,
                      Append(q, k)[i].session = Append(q, k)[j].session
               PROVE  Append(q, k)[i].number < Append(q, k)[j].number
    BY <1>1 DEF Ordered
  <2>2. i \in 1..Len(q)
    BY <1>1
  <2>3. CASE j \in 1..Len(q)
    BY <1>1, <1>4, <2>2, <2>3 DEF Ordered
  <2>4. CASE j = Len(q) + 1
    BY <1>1, <2>1, <2>2, <2>4
  <2> QED
    BY <1>2, <2>3, <2>4
<1> QED
  BY <1>1, <1>3, <1>4

LEMMA AppendedSession ==
  ASSUME NEW q \in Seq(Sessions), NEW s \in Sessions
  PROVE  Append(q, s) \in Seq(Sessions) /\ ToSet(Append(q, s)) = ToSet(q) \cup {s}
<1>1. /\ Append(q, s) \in Seq(Sessions) /\ Len(q) \in Nat /\ DOMAIN q = 1..Len(q)
      /\ DOMAIN Append(q, s) = 1..(Len(q) + 1)
      /\ \A i \in 1..Len(q) : Append(q, s)[i] = q[i]
      /\ Append(q, s)[Len(q) + 1] = s
  BY AppendProperties, LenProperties
<1>2. 1..(Len(q) + 1) = 1..Len(q) \cup {Len(q) + 1}
  BY <1>1
<1> QED
  BY <1>1, <1>2 DEF ToSet

\* The first command leaves.
LEMMA Taken ==
  ASSUME NEW q \in Seq(Command), q # <<>>
  PROVE  /\ Head(q) \in Command /\ Tail(q) \in Seq(Command)
         /\ ToSet(q) = ToSet(Tail(q)) \cup {Head(q)}
         /\ Ordered(q) => Ordered(Tail(q)) /\ Precede({Head(q)}, ToSet(Tail(q)))
<1>1. /\ Head(q) \in Command /\ Tail(q) \in Seq(Command) /\ Len(q) \in Nat \ {0}
      /\ Head(q) = q[1] /\ DOMAIN q = 1..Len(q)
      /\ DOMAIN Tail(q) = 1..(Len(q) - 1)
      /\ \A i \in 1..(Len(q) - 1) : Tail(q)[i] = q[i + 1]
  BY HeadTailProperties, LenProperties, EmptySeq
<1>2. \A i \in 1..Len(q) : i = 1 \/ (i - 1 \in 1..(Len(q) - 1) /\ q[i] = Tail(q)[i - 1])
  BY <1>1
<1>3. ToSet(q) = ToSet(Tail(q)) \cup {Head(q)}
  <2>1. ToSet(q) \subseteq ToSet(Tail(q)) \cup {Head(q)}
    <3> SUFFICES ASSUME NEW i \in DOMAIN q
                 PROVE  q[i] \in ToSet(Tail(q)) \cup {Head(q)}
      BY DEF ToSet
    <3> QED
      BY <1>1, <1>2 DEF ToSet
  <2>2. \A i \in DOMAIN Tail(q) : i + 1 \in DOMAIN q /\ Tail(q)[i] = q[i + 1]
    BY <1>1
  <2>3. 1 \in DOMAIN q
    BY <1>1
  <2> QED
    BY <1>1, <2>1, <2>2, <2>3 DEF ToSet
<1>4. ASSUME Ordered(q) PROVE Ordered(Tail(q)) /\ Precede({Head(q)}, ToSet(Tail(q)))
  <2>1. \A i \in 1..(Len(q) - 1) : i + 1 \in 1..Len(q) /\ 1 \in 1..Len(q) /\ 1 < i + 1
    BY <1>1
  <2>2. Ordered(Tail(q))
    BY <1>1, <1>4, <2>1 DEF Ordered
  <2>3. Precede({Head(q)}, ToSet(Tail(q)))
    BY <1>1, <1>4, <2>1 DEF Ordered, Precede, ToSet
  <2> QED
    BY <2>2, <2>3
<1> QED
  BY <1>1, <1>3, <1>4

\* All that is held are commands.
LEMMA HeldTyped ==
  ASSUME TypeOK, NEW t \in Threads
  PROVE  /\ Held(t) \subseteq Command
         /\ queue[t] \in Seq(Command) /\ batch[t] \in Seq(Command)
         /\ executed[t] \in Seq(Command)
         /\ \A k \in Held(t) :
              k.session \in Sessions /\ k.number \in Nat /\ sent[k.session] \in Nat
<1>1. queue[t] \in Seq(Command) /\ batch[t] \in Seq(Command) /\ executed[t] \in Seq(Command)
  BY DEF TypeOK
<1>2. Held(t) \subseteq Command
  BY <1>1, ElementsTyped DEF Held, Called, TypeOK
<1>3. \A k \in Command : k.session \in Sessions /\ k.number \in Nat
  BY CommandsAssumption DEF Command
<1>4. \A s \in Sessions : sent[s] \in Nat
  <2>1. \A s \in Sessions : sent[s] \in 0..MaxSent
    BY DEF TypeOK
  <2> QED
    BY <2>1, CommandsAssumption
<1> QED
  BY <1>1, <1>2, <1>3, <1>4

-----------------------------------------------------------------------------
(* The actions.                                                            *)

LEMMA InitIInv == Init => IInv
<1> SUFFICES ASSUME Init PROVE IInv
  OBVIOUS
<1>1. TypeOK
  BY CommandsAssumption DEF Init, TypeOK
<1>2. ASSUME NEW t \in Threads
      PROVE  Ordered(executed[t]) /\ Ordered(batch[t]) /\ Ordered(queue[t]) /\ Held(t) = {}
  BY EmptyOrdered DEF Init, Held, Called
<1>3. \A t \in Threads : Lined(t)
  BY <1>2 DEF Lined, Precede, Held
<1>4. Apart /\ Sorted /\ Emptied /\ Joined
  BY <1>2, EmptyOrdered DEF Init, Apart, Sorted, Emptied, Joined, Threads
<1> QED
  BY <1>1, <1>3, <1>4 DEF IInv

\* Process: a command joins the queue for its code.
LEMMA ProcessKeeps ==
  ASSUME IInv, NEW s \in Sessions, NEW c \in Codes, Process(s, c)
  PROVE  IInv'
<1> DEFINE k == [session |-> s, code |-> c, number |-> sent[s] + 1]
           d == Destination(c)
<1>1. /\ s \in open /\ sent[s] < MaxSent
      /\ sent' = [sent EXCEPT ![s] = sent[s] + 1]
      /\ table' = [table EXCEPT ![c] = IF table[c] = "none" THEN "null" ELSE table[c]]
      /\ queue' = [queue EXCEPT ![d] = Append(queue[d], k)]
      /\ known' = IF s \in registered THEN known \cup {k} ELSE known
      /\ UNCHANGED <<process, main, async, added, runAsync, sessionVars, batch, calling,
                     executed>>
  BY DEF Process
<1>2. /\ k \in Command /\ k.session = s /\ k.code = c /\ k.number = sent[s] + 1
      /\ sent[s] \in Nat /\ sent[s] + 1 \in 0..MaxSent /\ d \in Threads
      /\ d = "async" => table[c] = "async"
  <2>1. sent[s] \in 0..MaxSent
    BY DEF IInv, TypeOK
  <2>2. sent[s] \in Nat /\ sent[s] + 1 \in 1..MaxSent /\ sent[s] + 1 \in 0..MaxSent
    BY <1>1, <2>1, CommandsAssumption
  <2>3. d \in Threads /\ (d = "async" => table[c] = "async")
    BY DEF Destination, Threads
  <2> QED
    BY <2>2, <2>3 DEF Command
<1> HIDE DEF k, d
<1> USE DEF sessionVars
<1>3. /\ Append(queue[d], k) \in Seq(Command)
      /\ ToSet(Append(queue[d], k)) = ToSet(queue[d]) \cup {k}
      /\ Ordered(queue[d]) /\ Precede(ToSet(queue[d]), {k}) => Ordered(Append(queue[d], k))
  BY <1>2, Appended, HeldTyped DEF IInv
<1>4. \A t \in Threads : queue'[t] = IF t = d THEN Append(queue[d], k) ELSE queue[t]
  BY <1>1, <1>2 DEF IInv, TypeOK
<1>5. \A t \in Threads : Held(t)' = IF t = d THEN Held(t) \cup {k} ELSE Held(t)
  BY <1>1, <1>3, <1>4 DEF Held, Called
<1>6. \A t \in Threads : \A l \in Held(t) : l # k /\ (l.session = s => l.number < k.number)
  <2> TAKE t \in Threads
  <2> TAKE l \in Held(t)
  <2>1. l.number <= sent[l.session] /\ l.number \in Nat
    BY HeldTyped DEF IInv, Lined
  <2> QED
    BY <1>2, <2>1
<1>7. \A r \in Sessions : sent'[r] = IF r = s THEN sent[s] + 1 ELSE sent[r]
  BY <1>1 DEF IInv, TypeOK
<1>8. TypeOK'
  <2>1. sent' \in [Sessions -> 0..MaxSent]
    BY <1>1, <1>2 DEF IInv, TypeOK
  <2>2. table' \in [Codes -> {"none", "null", "main", "async"}]
    BY <1>1 DEF IInv, TypeOK
  <2>3. queue' \in [Threads -> Seq(Command)]
    BY <1>1, <1>2, <1>3 DEF IInv, TypeOK
  <2> QED
    BY <1>1, <1>2, <2>1, <2>2, <2>3 DEF IInv, TypeOK
<1>9. ASSUME NEW t \in Threads PROVE Lined(t)'
  <2>1. \A l \in Held(t)' : l.number <= sent'[l.session]
    <3> SUFFICES ASSUME NEW l \in Held(t)' PROVE l.number <= sent'[l.session]
      OBVIOUS
    <3>1. CASE l = k /\ t = d
      BY <1>2, <1>7, <3>1
    <3>2. CASE l \in Held(t)
      <4>1. /\ l.session \in Sessions /\ l.number \in Nat /\ sent[l.session] \in Nat
            /\ l.number <= sent[l.session]
        BY <3>2, HeldTyped DEF IInv, Lined
      <4> QED
        BY <1>7, <4>1
    <3> QED
      BY <1>5, <3>1, <3>2
  <2>2. CASE t # d
    BY <1>1, <1>4, <2>1, <2>2 DEF IInv, Lined, Called
  <2>3. CASE t = d
    <3>1. Precede(Held(t), {k})
      BY <1>2, <1>6 DEF Precede
    <3>2. Ordered(queue'[t])
      BY <1>3, <1>4, <2>3, <3>1 DEF IInv, Lined, Precede, Held
    <3>3. ToSet(queue'[t]) = ToSet(queue[t]) \cup {k}
      BY <1>3, <1>4, <2>3
    <3> QED
      BY <1>1, <2>1, <3>1, <3>2, <3>3 DEF IInv, Lined, Called, Precede, Held
  <2> QED
    BY <2>2, <2>3
<1>10. Apart'
  BY <1>5, <1>6 DEF IInv, Apart, Threads
<1>11. Sorted'
  <2>1. \A b \in Codes : table'[b] = "async" => table[b] = "async"
    BY <1>1 DEF IInv, TypeOK
  <2> QED
    BY <1>2, <1>5, <2>1 DEF IInv, Sorted, Threads
<1>12. Emptied'
  BY <1>1 DEF IInv, Emptied
<1>13. Joined'
  BY <1>1, <1>2, <1>5 DEF IInv, Joined, Threads
<1> QED
  BY <1>8, <1>9, <1>10, <1>11, <1>12, <1>13 DEF IInv

\* The next batch.
LEMMA TakeKeeps ==
  ASSUME IInv, NEW t \in Threads,
         (t = "main" /\ MainTake) \/ (t = "async" /\ AsyncTake)
  PROVE  IInv'
<1>1. /\ batch[t] = <<>>
      /\ batch' = [batch EXCEPT ![t] = queue[t]]
      /\ queue' = [queue EXCEPT ![t] = <<>>]
      /\ UNCHANGED <<process, tableVars, sessionVars, sent, calling, historyVars>>
      /\ t = "main" => main' = "execute" /\ async' = async
      /\ t = "async" => async' = "execute" /\ main' = main /\ async = "drain"
  BY DEF IInv, Emptied, MainTake, AsyncTake, Take
<1> USE DEF tableVars, sessionVars, historyVars
<1>2. /\ \A u \in Threads : queue'[u] = IF u = t THEN <<>> ELSE queue[u]
      /\ \A u \in Threads : batch'[u] = IF u = t THEN queue[t] ELSE batch[u]
  BY <1>1 DEF IInv, TypeOK
<1>3. \A u \in Threads : Held(u)' = Held(u)
  BY <1>1, <1>2, EmptyOrdered DEF Held, Called
<1>4. TypeOK'
  <2>1. queue' \in [Threads -> Seq(Command)] /\ batch' \in [Threads -> Seq(Command)]
    BY <1>1, EmptySeq DEF IInv, TypeOK
  <2> QED
    BY <1>1, <2>1 DEF IInv, TypeOK, Threads
<1>5. ASSUME NEW u \in Threads PROVE Lined(u)'
  BY <1>1, <1>2, <1>3, EmptyOrdered DEF IInv, Lined, Called, Precede
<1>6. Apart' /\ Sorted'
  BY <1>1, <1>3 DEF IInv, Apart, Sorted, Threads
<1>7. Emptied'
  BY <1>1, <1>2 DEF IInv, Emptied, Threads
<1>8. Joined'
  BY <1>1, <1>3 DEF IInv, Joined, Threads
<1> QED
  BY <1>4, <1>5, <1>6, <1>7, <1>8 DEF IInv

\* DoProcess on the main thread: the first command of the batch is executed, or it
\* is dropped because its session is not registered, or the process ends.
LEMMA ExecuteKeeps ==
  ASSUME IInv, MainExecute
  PROVE  IInv'
<1> DEFINE k == Head(batch["main"])
<1>1. /\ process = "runs" /\ main = "execute" /\ batch["main"] # <<>>
      /\ batch' = [batch EXCEPT !["main"] = Tail(batch["main"])]
      /\ UNCHANGED <<main, async, tableVars, sessionVars, sent, queue, calling, known>>
      /\ \/ k.session \notin registered /\ process' = process /\ executed' = executed
         \/ process' = "null callback" /\ executed' = executed
         \/ /\ executed' = [executed EXCEPT !["main"] = Append(executed["main"], k)]
            /\ process' = process
  BY DEF MainExecute, MainRuns
<1>2. /\ batch["main"] \in Seq(Command) /\ executed["main"] \in Seq(Command)
      /\ "main" \in Threads
  BY HeldTyped DEF IInv, Threads
<1>3. /\ k \in Command /\ Tail(batch["main"]) \in Seq(Command)
      /\ ToSet(batch["main"]) = ToSet(Tail(batch["main"])) \cup {k}
      /\ Ordered(Tail(batch["main"])) /\ Precede({k}, ToSet(Tail(batch["main"])))
  BY <1>1, <1>2, Taken DEF IInv, Lined
<1>4. /\ Append(executed["main"], k) \in Seq(Command)
      /\ ToSet(Append(executed["main"], k)) = ToSet(executed["main"]) \cup {k}
      /\ Ordered(Append(executed["main"], k))
  <2>1. Precede(ToSet(executed["main"]), {k}) /\ Ordered(executed["main"])
    BY <1>2, <1>3 DEF IInv, Lined, Precede
  <2> QED
    BY <1>2, <1>3, <2>1, Appended
<1> HIDE DEF k
<1> USE DEF tableVars, sessionVars
<1>5. /\ batch'["main"] = Tail(batch["main"]) /\ batch'["async"] = batch["async"]
      /\ executed'["async"] = executed["async"]
      /\ executed'["main"] = executed["main"] \/ executed'["main"] = Append(executed["main"], k)
  BY <1>1 DEF IInv, TypeOK, Threads
<1>6. /\ Held("async")' = Held("async")
      /\ Held("main")' \subseteq Held("main")
      /\ Held("main") \subseteq Held("main")' \cup {k}
  BY <1>1, <1>3, <1>4, <1>5 DEF Held, Called
<1>7. TypeOK'
  <2>1. batch' \in [Threads -> Seq(Command)]
    BY <1>1, <1>3 DEF IInv, TypeOK
  <2>2. executed' \in [Threads -> Seq(Command)]
    BY <1>1, <1>4 DEF IInv, TypeOK
  <2>3. process' \in {"runs", "stuck", "terminated", "null callback"}
    BY <1>1
  <2> QED
    BY <1>1, <2>1, <2>2, <2>3 DEF IInv, TypeOK
<1>8. Lined("async")'
  BY <1>1, <1>5, <1>6 DEF IInv, Lined, Called, Threads
<1>9. Lined("main")'
  <2>1. Ordered(executed'["main"]) /\ Ordered(batch'["main"]) /\ Ordered(queue'["main"])
    BY <1>1, <1>2, <1>3, <1>4, <1>5 DEF IInv, Lined
  <2>2. Precede(ToSet(executed'["main"]), ToSet(batch'["main"]) \cup ToSet(queue'["main"]))
    BY <1>1, <1>2, <1>3, <1>4, <1>5 DEF IInv, Lined, Precede
  <2>3. Precede(ToSet(batch'["main"]), ToSet(queue'["main"]))
    BY <1>1, <1>2, <1>3, <1>5 DEF IInv, Lined, Precede
  <2>4. \A l \in Held("main")' : l.number <= sent'[l.session]
    BY <1>1, <1>2, <1>6 DEF IInv, Lined
  <2>5. Called("main")' = {}
    BY DEF Called
  <2> QED
    BY <2>1, <2>2, <2>3, <2>4, <2>5 DEF Lined, Precede
<1>10. Apart' /\ Sorted' /\ Emptied'
  BY <1>1, <1>5, <1>6 DEF IInv, Apart, Sorted, Emptied
<1>11. Joined'
  <2>1. \A l \in known : process' = "runs" /\ l.session \in registered =>
          l \in Held("main")' \cup Held("async")'
    <3> SUFFICES ASSUME NEW l \in known, process' = "runs", l.session \in registered,
                        l \notin Held("async")'
                 PROVE  l \in Held("main")'
      OBVIOUS
    <3>1. l \in Held("main")
      BY <1>1, <1>6 DEF IInv, Joined
    <3>2. CASE l = k
      <4>1. executed'["main"] = Append(executed["main"], k)
        BY <1>1, <3>2 DEF IInv, TypeOK, Threads
      <4> QED
        BY <1>4, <3>2, <4>1 DEF Held
    <3> QED
      BY <1>6, <3>1, <3>2
  <2> QED
    BY <1>1, <2>1 DEF IInv, Joined
<1> QED
  BY <1>7, <1>8, <1>9, <1>10, <1>11 DEF IInv, Threads

\* DoProcess on the other thread: the session is looked up.
LEMMA LookupKeeps ==
  ASSUME IInv, AsyncLookup
  PROVE  IInv'
<1> DEFINE k == Head(batch["async"])
<1>1. /\ async = "execute" /\ batch["async"] # <<>>
      /\ batch' = [batch EXCEPT !["async"] = Tail(batch["async"])]
      /\ UNCHANGED <<process, main, tableVars, sessionVars, sent, queue, historyVars>>
      /\ \/ k.session \notin registered /\ calling' = calling /\ async' = async
         \/ calling' = <<k>> /\ async' = "call"
  BY DEF AsyncLookup
<1>2. /\ batch["async"] \in Seq(Command) /\ "async" \in Threads
      /\ calling = <<>> /\ Called("async") = {}
  BY <1>1, HeldTyped, EmptyOrdered DEF IInv, TypeOK, Threads, Called
<1>3. /\ k \in Command /\ Tail(batch["async"]) \in Seq(Command)
      /\ ToSet(batch["async"]) = ToSet(Tail(batch["async"])) \cup {k}
      /\ Ordered(Tail(batch["async"])) /\ Precede({k}, ToSet(Tail(batch["async"])))
  BY <1>1, <1>2, Taken DEF IInv, Lined
<1> HIDE DEF k
<1> USE DEF tableVars, sessionVars, historyVars
<1>4. batch'["async"] = Tail(batch["async"]) /\ batch'["main"] = batch["main"]
  BY <1>1 DEF IInv, TypeOK, Threads
<1>5. /\ Called("async")' \subseteq {k}
      /\ k.session \in registered => Called("async")' = {k}
  <2>1. ToSet(<<k>>) = {k}
    BY DEF ToSet
  <2> QED
    BY <1>1, <1>2, <2>1, EmptyOrdered DEF Called
<1>6. /\ Held("main")' = Held("main")
      /\ Held("async")' \subseteq Held("async")
      /\ Held("async") \subseteq Held("async")' \cup {k}
      /\ k.session \in registered => Held("async")' = Held("async")
  BY <1>1, <1>2, <1>3, <1>4, <1>5 DEF Held, Called
<1>7. TypeOK'
  <2>1. batch' \in [Threads -> Seq(Command)]
    BY <1>1, <1>3 DEF IInv, TypeOK
  <2>2. calling' \in Seq(Command) /\ (calling' # <<>> <=> async' = "call")
    <3>1. <<k>> \in Seq(Command) /\ <<k>> # <<>>
      BY <1>3
    <3> QED
      BY <1>1, <1>2, <3>1, EmptySeq
  <2>3. async' \in {"start", "drain", "execute", "call"}
    BY <1>1
  <2> QED
    BY <1>1, <2>1, <2>2, <2>3 DEF IInv, TypeOK
<1>8. Lined("main")'
  BY <1>1, <1>4, <1>6 DEF IInv, Lined, Called, Threads
<1>9. Lined("async")'
  <2>1. /\ Ordered(executed'["async"]) /\ Ordered(batch'["async"])
        /\ Ordered(queue'["async"])
    BY <1>1, <1>2, <1>3, <1>4 DEF IInv, Lined
  <2>2. Precede(ToSet(executed'["async"]),
                Called("async")' \cup ToSet(batch'["async"]) \cup ToSet(queue'["async"]))
    BY <1>1, <1>2, <1>3, <1>4, <1>5 DEF IInv, Lined, Precede
  <2>3. Precede(ToSet(batch'["async"]), ToSet(queue'["async"]))
    BY <1>1, <1>2, <1>3, <1>4 DEF IInv, Lined, Precede
  <2>4. Precede(Called("async")', ToSet(batch'["async"]) \cup ToSet(queue'["async"]))
    BY <1>1, <1>2, <1>3, <1>4, <1>5 DEF IInv, Lined, Precede
  <2>5. \A l \in Held("async")' : l.number <= sent'[l.session]
    BY <1>1, <1>2, <1>6 DEF IInv, Lined
  <2> QED
    BY <2>1, <2>2, <2>3, <2>4, <2>5 DEF Lined
<1>10. Apart' /\ Sorted'
  BY <1>1, <1>6 DEF IInv, Apart, Sorted
<1>11. Emptied'
  BY <1>1, <1>2, <1>3, <1>4 DEF IInv, Emptied
<1>12. Joined'
  <2>1. \A l \in known : process' = "runs" /\ l.session \in registered =>
          l \in Held("main")' \cup Held("async")'
    BY <1>1, <1>6 DEF IInv, Joined
  <2> QED
    BY <1>1, <2>1 DEF IInv, Joined
<1> QED
  BY <1>7, <1>8, <1>9, <1>10, <1>11, <1>12 DEF IInv, Threads

\* DoProcess on the other thread: the command is executed.
LEMMA CallKeeps ==
  ASSUME IInv, AsyncCall
  PROVE  IInv'
<1>1. /\ async = "call" /\ calling' = <<>> /\ async' = "execute"
      /\ executed' = [executed EXCEPT !["async"] = executed["async"] \o calling]
      /\ UNCHANGED <<process, main, tableVars, sessionVars, sent, queue, batch, known>>
  BY DEF AsyncCall
<1>2. PICK k \in Command : calling = <<k>>
  BY <1>1 DEF IInv, TypeOK, Emptied
<1>3. Called("async") = {k} /\ Called("async")' = {} /\ "async" \in Threads
  BY <1>1, <1>2, EmptyOrdered DEF Called, ToSet, Threads
<1>4. /\ executed["async"] \o calling \in Seq(Command)
      /\ ToSet(executed["async"] \o calling) = ToSet(executed["async"]) \cup {k}
      /\ Ordered(executed["async"] \o calling)
  <2>1. executed["async"] \in Seq(Command)
    BY <1>3, HeldTyped DEF IInv
  <2>2. executed["async"] \o calling = Append(executed["async"], k)
    BY <1>2, <2>1, AppendIsConcat
  <2>3. Precede(ToSet(executed["async"]), {k}) /\ Ordered(executed["async"])
    BY <1>3 DEF IInv, Lined, Precede
  <2> QED
    BY <2>1, <2>2, <2>3, Appended
<1> USE DEF tableVars, sessionVars
<1>5. executed'["main"] = executed["main"] /\ executed'["async"] = executed["async"] \o calling
  BY <1>1 DEF IInv, TypeOK, Threads
<1>6. Held("main")' = Held("main") /\ Held("async")' = Held("async")
  BY <1>1, <1>3, <1>4, <1>5 DEF Held, Called
<1>7. TypeOK'
  <2>1. executed' \in [Threads -> Seq(Command)]
    BY <1>1, <1>4 DEF IInv, TypeOK
  <2> QED
    BY <1>1, <2>1, EmptySeq DEF IInv, TypeOK
<1>8. Lined("main")'
  BY <1>1, <1>5, <1>6 DEF IInv, Lined, Called, Threads
<1>9. Lined("async")'
  <2>1. Precede(ToSet(executed'["async"]), ToSet(batch'["async"]) \cup ToSet(queue'["async"]))
    BY <1>1, <1>3, <1>4, <1>5 DEF IInv, Lined, Precede
  <2> QED
    BY <1>1, <1>3, <1>4, <1>5, <1>6, <2>1 DEF IInv, Lined, Precede
<1>10. Apart' /\ Sorted' /\ Emptied' /\ Joined'
  BY <1>1, <1>6 DEF IInv, Apart, Sorted, Emptied, Joined
<1> QED
  BY <1>7, <1>8, <1>9, <1>10 DEF IInv, Threads

\* Steps that no command takes part in.
LEMMA QuietKeeps ==
  ASSUME IInv, TypeOK', Emptied',
         UNCHANGED <<sent, queue, batch, calling, historyVars>>,
         \A c \in Codes : table'[c] = "async" => c \in AsyncCodes,
         process' = "runs" => process = "runs",
         open \subseteq open',
         ToSet(addQueue') \subseteq open' \ registered',
         \A k \in known : k.session \notin ToSet(addQueue'),
         registered' \subseteq registered \cup ToSet(addQueue)
  PROVE  IInv'
<1>1. Held("main")' = Held("main") /\ Held("async")' = Held("async")
  BY DEF Held, Called, historyVars
<1>2. ASSUME NEW t \in Threads PROVE Lined(t)'
  BY <1>1 DEF IInv, Lined, Called, Threads, historyVars
<1>3. Apart' /\ Sorted'
  BY <1>1 DEF IInv, Apart, Sorted
<1>4. Joined'
  BY <1>1 DEF IInv, Joined, historyVars
<1> QED
  BY <1>2, <1>3, <1>4 DEF IInv

LEMMA ConnectKeeps ==
  ASSUME IInv, NEW s \in Sessions, Connect(s)
  PROVE  IInv'
<1>1. /\ s \notin open /\ open' = open \cup {s} /\ addQueue' = Append(addQueue, s)
      /\ UNCHANGED <<process, main, async, tableVars, registered, sent, queue, batch,
                     calling, historyVars>>
  BY DEF Connect
<1>2. addQueue' \in Seq(Sessions) /\ ToSet(addQueue') = ToSet(addQueue) \cup {s}
  <2>1. addQueue \in Seq(Sessions)
    BY DEF IInv, TypeOK
  <2> QED
    BY <1>1, <2>1, AppendedSession
<1> USE DEF tableVars, historyVars
<1>3. TypeOK'
  BY <1>1, <1>2 DEF IInv, TypeOK
<1>4. Emptied'
  BY <1>1 DEF IInv, Emptied
<1>5. s \notin registered /\ \A k \in known : k.session # s
  BY <1>1 DEF IInv, TypeOK, Joined
<1> QED
  BY <1>1, <1>2, <1>3, <1>4, <1>5, QuietKeeps DEF IInv, Joined, Sorted

LEMMA AddCommandKeeps ==
  ASSUME IInv, NEW c \in Codes, AddCommand(c)
  PROVE  IInv'
<1>1. /\ c \in MainCodes \cup AsyncCodes /\ added' = added \cup {c}
      /\ table' = IF table[c] = "none"
                  THEN [table EXCEPT ![c] = IF c \in AsyncCodes THEN "async" ELSE "main"]
                  ELSE table
      /\ UNCHANGED <<process, main, async, runAsync, sessionVars, sent, queue, batch,
                     calling, historyVars>>
  BY DEF AddCommand
<1> USE DEF sessionVars, historyVars
<1>2. table' \in [Codes -> {"none", "null", "main", "async"}]
  BY <1>1 DEF IInv, TypeOK
<1>3. TypeOK'
  BY <1>1, <1>2 DEF IInv, TypeOK
<1>4. Emptied'
  BY <1>1 DEF IInv, Emptied
<1>5. \A b \in Codes : table'[b] = "async" => b \in AsyncCodes
  BY <1>1 DEF IInv, TypeOK, Sorted
<1> QED
  BY <1>1, <1>3, <1>4, <1>5, QuietKeeps DEF IInv, Joined

LEMMA SessionsKeep ==
  ASSUME IInv, AddSessions \/ \E s \in Sessions : RemoveSession(s)
  PROVE  IInv'
<1>1. /\ \/ /\ registered' = registered \cup ToSet(addQueue) /\ addQueue' = <<>>
            /\ main' = "removes"
         \/ /\ registered' \subseteq registered /\ addQueue' = addQueue
            /\ main' = main
      /\ process' \in {process, "stuck", "terminated"}
      /\ main \in {"adds", "removes"} /\ main' = "removes"
      /\ UNCHANGED <<async, tableVars, open, sent, queue, batch, calling, historyVars>>
  BY DEF AddSessions, RemoveSession, sessionVars
<1> USE DEF tableVars, historyVars
<1>2. /\ addQueue' \in Seq(Sessions) /\ ToSet(addQueue') \subseteq ToSet(addQueue)
      /\ registered' \subseteq registered \cup ToSet(addQueue)
      /\ ToSet(addQueue') \cap registered' = {}
  BY <1>1, EmptyOrdered, EmptySeq DEF IInv, TypeOK, Joined
<1>3. TypeOK'
  BY <1>1, <1>2 DEF IInv, TypeOK, Joined
<1>4. Emptied'
  BY <1>1 DEF IInv, Emptied
<1>5. process' = "runs" => process = "runs"
  BY <1>1
<1> QED
  BY <1>1, <1>2, <1>3, <1>4, <1>5, QuietKeeps DEF IInv, Joined, Sorted

LEMMA PhasesKeep ==
  ASSUME IInv,
         Initialised \/ RemovesDone \/ MainDone \/ AsyncStart \/ AsyncDone \/ UNCHANGED vars
  PROVE  IInv'
<1>1. UNCHANGED <<process, table, added, sessionVars, sent, queue, batch, calling,
                  historyVars>>
  BY DEF Initialised, RemovesDone, MainDone, AsyncStart, AsyncDone, vars, tableVars
<1> USE DEF sessionVars, historyVars
<1>2. /\ main' \in {main, "adds", "drain"}
      /\ main = "execute" /\ main' # main => batch["main"] = <<>>
      /\ async' = async \/ (async # "call" /\ async' \in {"drain"})
      /\ async' # async /\ async = "execute" => batch["async"] = <<>>
      /\ runAsync' \in BOOLEAN
  BY DEF Initialised, RemovesDone, MainDone, AsyncStart, AsyncDone, vars, tableVars,
     IInv, TypeOK
<1>3. TypeOK'
  BY <1>1, <1>2 DEF IInv, TypeOK
<1>4. Emptied'
  BY <1>1, <1>2 DEF IInv, TypeOK, Emptied
<1> QED
  BY <1>1, <1>3, <1>4, QuietKeeps DEF IInv, Joined, Sorted

-----------------------------------------------------------------------------
\* The inductive invariant.
THEOREM Invariance == Spec => []IInv
<1>1. IInv /\ [Next]_vars => IInv'
  <2> SUFFICES ASSUME IInv, [Next]_vars PROVE IInv'
    OBVIOUS
  <2>1. ASSUME NEW s \in Sessions, Connect(s) PROVE IInv'
    BY <2>1, ConnectKeeps
  <2>2. CASE AddSessions \/ \E s \in Sessions : RemoveSession(s)
    BY <2>2, SessionsKeep
  <2>3. ASSUME NEW s \in Sessions, NEW c \in Codes, Process(s, c) PROVE IInv'
    BY <2>3, ProcessKeeps
  <2>4. ASSUME NEW c \in Codes, AddCommand(c) PROVE IInv'
    BY <2>4, AddCommandKeeps
  <2>5. CASE MainTake \/ AsyncTake
    BY <2>5, TakeKeeps DEF Threads
  <2>6. CASE MainExecute
    BY <2>6, ExecuteKeeps
  <2>7. CASE AsyncLookup
    BY <2>7, LookupKeeps
  <2>8. CASE AsyncCall
    BY <2>8, CallKeeps
  <2>9. CASE Initialised \/ RemovesDone \/ MainDone \/ AsyncStart \/ AsyncDone
             \/ UNCHANGED vars
    BY <2>9, PhasesKeep
  <2> QED
    BY <2>1, <2>2, <2>3, <2>4, <2>5, <2>6, <2>7, <2>8, <2>9 DEF Next, Main, Async
<1> QED
  BY InitIInv, <1>1, PTL DEF Spec

\* Types are kept.
THEOREM TypeCorrect == Spec => []TypeOK
<1>1. IInv => TypeOK
  BY DEF IInv
<1> QED
  BY <1>1, Invariance, PTL

\* Either thread executes a session's commands in the order they were sent in
\* (Commands.InOrder).
THEOREM ExecutedInOrder == Spec => []InOrder
<1>1. IInv => InOrder
  BY DEF IInv, Lined, Ordered, InOrder
<1> QED
  BY <1>1, Invariance, PTL

\* Handlers for the main thread are not called on the other one
\* (Commands.ThreadConfined).
THEOREM HandlersConfined == Spec => []ThreadConfined
<1>1. IInv => ThreadConfined
  BY DEF IInv, Sorted, Held, ToSet, ThreadConfined
<1> QED
  BY <1>1, Invariance, PTL

-----------------------------------------------------------------------------
(* Neither lost nor doubled.                                               *)

\* The command is in the sequence at most once.
Single(q, k) == \A i, j \in DOMAIN q : q[i] = k /\ q[j] = k => i = j

LEMMA OrderedSingle ==
  ASSUME NEW q \in Seq(Command), Ordered(q), NEW k
  PROVE  Single(q, k)
<1>1. \A i \in DOMAIN q : q[i].number \in Nat /\ i \in Nat
  <2>1. \A l \in Command : l.number \in Nat
    BY CommandsAssumption DEF Command
  <2>2. DOMAIN q = 1..Len(q) /\ Len(q) \in Nat
    BY LenProperties
  <2> QED
    BY <2>1, <2>2, ElementOfSeq
<1>2. SUFFICES ASSUME NEW i \in DOMAIN q, NEW j \in DOMAIN q, q[i] = k, q[j] = k, i < j
               PROVE  FALSE
  BY <1>1 DEF Single
<1> QED
  BY <1>1, <1>2 DEF Ordered

LEMMA Joining ==
  ASSUME NEW p \in Seq(Command), NEW q \in Seq(Command), NEW k,
         Single(p, k), Single(q, k), k \notin ToSet(p) \/ k \notin ToSet(q)
  PROVE  /\ p \o q \in Seq(Command)
         /\ ToSet(p \o q) = ToSet(p) \cup ToSet(q)
         /\ Single(p \o q, k)
<1>1. /\ p \o q \in Seq(Command) /\ Len(p) \in Nat /\ Len(q) \in Nat
      /\ DOMAIN p = 1..Len(p) /\ DOMAIN q = 1..Len(q)
      /\ DOMAIN (p \o q) = 1..(Len(p) + Len(q))
      /\ \A i \in 1..(Len(p) + Len(q)) :
           (p \o q)[i] = IF i <= Len(p) THEN p[i] ELSE q[i - Len(p)]
  BY ConcatProperties, LenProperties
<1>2. /\ \A i \in 1..Len(p) : i \in DOMAIN (p \o q) /\ (p \o q)[i] = p[i]
      /\ \A i \in 1..Len(q) : i + Len(p) \in DOMAIN (p \o q) /\ (p \o q)[i + Len(p)] = q[i]
      /\ \A i \in DOMAIN (p \o q) : i \in 1..Len(p) \/ i - Len(p) \in 1..Len(q)
  BY <1>1
<1>3. ToSet(p \o q) = ToSet(p) \cup ToSet(q)
  <2>1. ToSet(p \o q) \subseteq ToSet(p) \cup ToSet(q)
    BY <1>1 DEF ToSet
  <2>2. ToSet(p) \subseteq ToSet(p \o q)
    BY <1>1, <1>2 DEF ToSet
  <2>3. ToSet(q) \subseteq ToSet(p \o q)
    <3> SUFFICES ASSUME NEW i \in 1..Len(q) PROVE q[i] \in ToSet(p \o q)
      BY <1>1 DEF ToSet
    <3> QED
      BY <1>2 DEF ToSet
  <2> QED
    BY <2>1, <2>2, <2>3
<1>4. Single(p \o q, k)
  BY <1>1 DEF Single, ToSet
<1> QED
  BY <1>1, <1>3, <1>4

\* A command that a registered session has sent is in one place, once
\* (Commands.KnownCommandKept).
THEOREM KnownCommandsKept == Spec => []KnownCommandKept
<1>1. ASSUME IInv, process = "runs", NEW k \in known, k.session \in registered
      PROVE  Cardinality({i \in DOMAIN Places : Places[i] = k}) = 1
  <2>1. k \in Held("main") \cup Held("async") /\ k \in Command /\ k.number \in Nat
    BY <1>1, CommandsAssumption DEF IInv, Joined, TypeOK, Command
  <2>2. Places \in Seq(Command) /\ ToSet(Places) = Held("main") \cup Held("async")
        /\ Single(Places, k)
    <3> DEFINE p1 == queue["main"] \o batch["main"]
               p2 == p1 \o executed["main"]
               p3 == p2 \o queue["async"]
               p4 == p3 \o batch["async"]
               p5 == p4 \o calling
               p6 == p5 \o executed["async"]
    <3>1. /\ "main" \in Threads /\ "async" \in Threads
          /\ Called("main") = {} /\ Called("async") = ToSet(calling)
      BY DEF Threads, Called
    <3>2. \A t \in Threads :
            /\ queue[t] \in Seq(Command) /\ batch[t] \in Seq(Command)
            /\ executed[t] \in Seq(Command)
            /\ Single(queue[t], k) /\ Single(batch[t], k) /\ Single(executed[t], k)
      BY <1>1, HeldTyped, OrderedSingle DEF IInv, Lined
    <3>3. calling \in Seq(Command) /\ Single(calling, k)
      BY <1>1 DEF IInv, TypeOK, Emptied, Single
    <3>4. \A t \in Threads :
            /\ k \in ToSet(queue[t]) => k \notin ToSet(batch[t]) \cup Called(t)
            /\ k \in ToSet(executed[t]) =>
                 k \notin ToSet(queue[t]) \cup ToSet(batch[t]) \cup Called(t)
            /\ k \in ToSet(batch[t]) => k \notin Called(t)
      <4>1. ~(k.number < k.number)
        BY <2>1
      <4> QED
        BY <1>1, <4>1 DEF IInv, Lined, Precede
    <3>5. k \notin Held("main") \/ k \notin Held("async")
      BY <1>1 DEF IInv, Apart
    <3> HIDE DEF p1, p2, p3, p4, p5, p6
    <3>6. /\ p1 \in Seq(Command) /\ Single(p1, k)
          /\ ToSet(p1) = ToSet(queue["main"]) \cup ToSet(batch["main"])
      BY <3>1, <3>2, <3>4, Joining DEF p1
    <3>7. p2 \in Seq(Command) /\ Single(p2, k) /\ ToSet(p2) = Held("main")
      <4>1. k \notin ToSet(p1) \/ k \notin ToSet(executed["main"])
        BY <3>1, <3>4, <3>6
      <4>2. ToSet(p2) = ToSet(p1) \cup ToSet(executed["main"])
        BY <3>1, <3>2, <3>6, <4>1, Joining DEF p2
      <4> QED
        BY <3>1, <3>2, <3>6, <4>1, <4>2, Joining DEF p2, Held
    <3>8. /\ p3 \in Seq(Command) /\ Single(p3, k)
          /\ ToSet(p3) = Held("main") \cup ToSet(queue["async"])
      <4>1. k \notin ToSet(p2) \/ k \notin ToSet(queue["async"])
        BY <3>5, <3>7 DEF Held
      <4> QED
        BY <3>1, <3>2, <3>7, <4>1, Joining DEF p3
    <3>9. /\ p4 \in Seq(Command) /\ Single(p4, k)
          /\ ToSet(p4) = Held("main") \cup ToSet(queue["async"]) \cup ToSet(batch["async"])
      <4>1. k \notin ToSet(p3) \/ k \notin ToSet(batch["async"])
        BY <3>1, <3>4, <3>5, <3>8 DEF Held
      <4> QED
        BY <3>1, <3>2, <3>8, <4>1, Joining DEF p4
    <3>10. /\ p5 \in Seq(Command) /\ Single(p5, k)
           /\ ToSet(p5) = Held("main") \cup ToSet(queue["async"])
                            \cup ToSet(batch["async"]) \cup Called("async")
      <4>1. k \notin ToSet(p4) \/ k \notin ToSet(calling)
        BY <3>1, <3>4, <3>5, <3>9 DEF Held
      <4> QED
        BY <3>1, <3>3, <3>9, <4>1, Joining DEF p5
    <3>11. /\ p6 \in Seq(Command) /\ Single(p6, k)
           /\ ToSet(p6) = Held("main") \cup Held("async")
      <4>1. k \notin ToSet(p5) \/ k \notin ToSet(executed["async"])
        BY <3>1, <3>4, <3>5, <3>10 DEF Held
      <4>2. ToSet(p6) = ToSet(p5) \cup ToSet(executed["async"])
        BY <3>1, <3>2, <3>10, <4>1, Joining DEF p6
      <4> QED
        BY <3>1, <3>2, <3>10, <4>1, <4>2, Joining DEF p6, Held
    <3>12. Places = p6
      BY DEF Places, p1, p2, p3, p4, p5, p6
    <3> QED
      BY <3>11, <3>12
  <2>3. PICK i \in DOMAIN Places : Places[i] = k
    BY <2>1, <2>2 DEF ToSet
  <2>4. {j \in DOMAIN Places : Places[j] = k} = {i}
    BY <2>2, <2>3 DEF Single
  <2> QED
    BY <2>4, FS_Singleton
<1>2. IInv => KnownCommandKept
  BY <1>1 DEF KnownCommandKept
<1> QED
  BY <1>2, Invariance, PTL
=============================================================================
