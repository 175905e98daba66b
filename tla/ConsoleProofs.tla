--------------------------- MODULE ConsoleProofs ---------------------------
(***************************************************************************)
(* Proofs about Console: for any number of entries, each is drawn once and *)
(* in the order of the calls; and for any number of keys, each line that   *)
(* is not empty is executed once, whole and in order.                      *)
(***************************************************************************)
EXTENDS Console, SequenceTheorems, FiniteSetTheorems, TLAPS

\* The types the argument needs.
LogTyped ==
  /\ added \in Nat
  /\ entries \in Seq(Nat) /\ current \in Seq(Nat) /\ drawn \in Seq(Nat)
  /\ next \in Nat \ {0}
  /\ main = "draw" => next <= Len(current) + 1

\* How many entries the main thread has taken and not drawn yet.
Pending == IF main = "draw" THEN Len(current) + 1 - next ELSE 0

\* The entries drawn, those pending and those in the list are the entries added,
\* in order.
LogLinedUp ==
  /\ Len(drawn) + Pending + Len(entries) = added
  /\ \A i \in 1..Len(drawn) : drawn[i] = i
  /\ main = "draw" =>
       \A i \in next..Len(current) : current[i] = Len(drawn) + 1 + (i - next)
  /\ \A i \in 1..Len(entries) : entries[i] = Len(drawn) + Pending + i

LogInv == LogTyped /\ LogLinedUp

\* The types of the operator's line, and what the main thread's round sees to:
\* a command is taken before the next key is read.
LineTyped ==
  /\ read \in Seq(Keys) /\ input \in Seq(Keys) /\ command \in Seq(Keys)
  /\ executed \in Seq(Seq(Keys))
  /\ curCommand = input
  /\ main # "update" => command = <<>>

LineInv == LineTyped /\ LinesAreExecuted

-----------------------------------------------------------------------------
\* What an Append does to a sequence of entries.
LEMMA Appended ==
  ASSUME NEW q \in Seq(Nat), NEW m \in Nat
  PROVE  /\ Append(q, m) \in Seq(Nat)
         /\ Len(q) \in Nat
         /\ Len(Append(q, m)) = Len(q) + 1
         /\ \A i \in 1..Len(q) : Append(q, m)[i] = q[i]
         /\ Append(q, m)[Len(q) + 1] = m
BY AppendProperties, LenProperties

\* A step of the main thread outside the drawing leaves the log alone.
LEMMA Elsewhere ==
  ASSUME LogInv, UNCHANGED logVars, main # "draw", main' # "draw"
  PROVE  LogInv'
BY DEF LogInv, LogTyped, LogLinedUp, Pending, logVars

\* A push, of any thread, while the main thread stays in or out of the drawing.
LEMMA PushKeeps ==
  ASSUME LogInv, Push, (main = "draw") <=> (main' = "draw")
  PROVE  LogInv'
<1>1. /\ entries \in Seq(Nat) /\ added \in Nat /\ added' = added + 1
      /\ entries' = Append(entries, added')
      /\ UNCHANGED <<current, next, drawn>>
  BY DEF Push, LogInv, LogTyped
<1>2. /\ entries' \in Seq(Nat) /\ Len(entries) \in Nat
      /\ Len(entries') = Len(entries) + 1
      /\ \A i \in 1..Len(entries) : entries'[i] = entries[i]
      /\ entries'[Len(entries) + 1] = added'
  BY <1>1, Appended
<1>3. /\ Len(drawn) \in Nat /\ Len(current) \in Nat
      /\ Pending \in Int /\ Pending' = Pending
  BY <1>1, LenProperties DEF LogInv, LogTyped, Pending
<1>4. LogTyped'
  BY <1>1, <1>2 DEF LogInv, LogTyped
<1>5. LogLinedUp'
  <2>1. Len(drawn') + Pending' + Len(entries') = added'
    BY <1>1, <1>2, <1>3 DEF LogInv, LogLinedUp
  <2>2. ASSUME NEW i \in 1..Len(entries')
        PROVE  entries'[i] = Len(drawn') + Pending' + i
    <3>1. CASE i \in 1..Len(entries)
      BY <3>1, <1>1, <1>2, <1>3 DEF LogInv, LogLinedUp
    <3>2. CASE i = Len(entries) + 1
      BY <3>2, <2>1, <1>1, <1>2, <1>3
    <3> QED
      BY <3>1, <3>2, <1>2
  <2>3. /\ \A i \in 1..Len(drawn') : drawn'[i] = i
        /\ main' = "draw" =>
             \A i \in next'..Len(current') :
               current'[i] = Len(drawn') + 1 + (i - next')
    BY <1>1 DEF LogInv, LogLinedUp
  <2> QED
    BY <2>1, <2>2, <2>3 DEF LogLinedUp
<1> QED
  BY <1>4, <1>5 DEF LogInv

\* The taking of the list turns all its entries into pending ones.
LEMMA TakeKeeps == LogInv /\ TakeEntries => LogInv'
<1> SUFFICES ASSUME LogInv, TakeEntries PROVE LogInv'
  OBVIOUS
<1>1. /\ main = "take" /\ main' = "draw"
      /\ current' = entries /\ entries' = <<>> /\ next' = 1
      /\ UNCHANGED <<added, drawn>>
  BY DEF TakeEntries
<1>2. /\ Len(entries) \in Nat /\ Len(drawn) \in Nat /\ Len(entries') = 0
      /\ entries' \in Seq(Nat)
  BY <1>1, LenProperties, EmptySeq DEF LogInv, LogTyped
<1>3. LogTyped'
  BY <1>1, <1>2 DEF LogInv, LogTyped
<1>4. Pending = 0 /\ Pending' = Len(entries)
  BY <1>1, <1>2 DEF Pending
<1>5. LogLinedUp'
  BY <1>1, <1>2, <1>4 DEF LogInv, LogLinedUp
<1> QED
  BY <1>3, <1>5 DEF LogInv

\* The drawing of one entry, and the end of the loop.
LEMMA DrawKeeps == LogInv /\ DrawEntry => LogInv'
<1> SUFFICES ASSUME LogInv, DrawEntry PROVE LogInv'
  OBVIOUS
<1>1. /\ main = "draw" /\ UNCHANGED <<added, entries, current>>
      /\ current \in Seq(Nat) /\ drawn \in Seq(Nat) /\ entries \in Seq(Nat)
      /\ next \in Nat \ {0} /\ next <= Len(current) + 1
      /\ Len(current) \in Nat /\ Len(drawn) \in Nat /\ Len(entries) \in Nat
      /\ Pending = Len(current) + 1 - next
  BY LenProperties DEF DrawEntry, LogInv, LogTyped, Pending
<1>2. CASE next <= Len(current)
  <2>1. /\ drawn' = Append(drawn, current[next]) /\ next' = next + 1
        /\ main' = "draw"
    BY <1>1, <1>2 DEF DrawEntry
  <2>2. current[next] \in Nat /\ current[next] = Len(drawn) + 1
    BY <1>1, <1>2, ElementOfSeq DEF LogInv, LogLinedUp
  <2>3. /\ drawn' \in Seq(Nat) /\ Len(drawn') = Len(drawn) + 1
        /\ \A i \in 1..Len(drawn) : drawn'[i] = drawn[i]
        /\ drawn'[Len(drawn) + 1] = Len(drawn) + 1
    BY <1>1, <2>1, <2>2, Appended
  <2>4. LogTyped'
    BY <1>1, <1>2, <2>1, <2>3 DEF LogInv, LogTyped
  <2>5. Pending' = Pending - 1
    BY <1>1, <2>1 DEF Pending
  <2>6. LogLinedUp'
    <3>1. ASSUME NEW i \in 1..Len(drawn') PROVE drawn'[i] = i
      <4>1. CASE i \in 1..Len(drawn)
        <5>1. drawn[i] = i
          BY <4>1 DEF LogInv, LogLinedUp
        <5> QED
          BY <4>1, <5>1, <2>3
      <4>2. CASE i = Len(drawn) + 1
        BY <4>2, <2>3
      <4> QED
        BY <4>1, <4>2, <2>3, <1>1
    <3>2. Len(drawn') + Pending' + Len(entries') = added'
      BY <1>1, <2>3, <2>5 DEF LogInv, LogLinedUp
    <3>3. \A i \in next'..Len(current') :
            current'[i] = Len(drawn') + 1 + (i - next')
      BY <1>1, <2>1, <2>3 DEF LogInv, LogLinedUp
    <3>4. \A i \in 1..Len(entries') : entries'[i] = Len(drawn') + Pending' + i
      <4>1. Len(drawn') + Pending' = Len(drawn) + Pending
        BY <1>1, <2>3, <2>5
      <4>2. \A i \in 1..Len(entries) : entries[i] = Len(drawn) + Pending + i
        BY DEF LogInv, LogLinedUp
      <4> QED
        BY <1>1, <4>1, <4>2
    <3> QED
      BY <3>1, <3>2, <3>3, <3>4 DEF LogLinedUp
  <2> QED
    BY <2>4, <2>6 DEF LogInv
<1>3. CASE next > Len(current)
  <2>1. main' = "process" /\ UNCHANGED <<drawn, next>>
    BY <1>1, <1>3 DEF DrawEntry
  <2>2. next = Len(current) + 1
    BY <1>1, <1>3
  <2>3. Pending = 0
    BY <1>1, <2>2
  <2>4. Pending' = 0
    BY <2>1 DEF Pending
  <2>5. LogTyped'
    BY <1>1, <2>1 DEF LogInv, LogTyped
  <2>6. LogLinedUp'
    BY <1>1, <2>1, <2>3, <2>4 DEF LogInv, LogLinedUp
  <2> QED
    BY <2>5, <2>6 DEF LogInv
<1> QED
  BY <1>1, <1>2, <1>3

\* The inductive invariant: the drawn, the pending and the listed entries are
\* consecutive runs of the numbers up to `added'.
THEOREM LogInvariance == Spec => []LogInv
<1>1. Init => LogInv
  <2> SUFFICES ASSUME Init PROVE LogInv
    OBVIOUS
  <2>1. /\ main = "process" /\ added = 1 /\ next = 1
        /\ entries = <<1>> /\ current = <<>> /\ drawn = <<>>
    BY DEF Init
  <2> QED
    BY <2>1 DEF LogInv, LogTyped, LogLinedUp, Pending
<1>2. LogInv /\ [Next]_vars => LogInv'
  <2> SUFFICES ASSUME LogInv, [Next]_vars PROVE LogInv'
    OBVIOUS
  <2>1. CASE AddEntry
    BY <2>1, PushKeeps DEF AddEntry
  <2>2. CASE MainLogs
    BY <2>2, PushKeeps DEF MainLogs
  <2>3. CASE TestEntries
    BY <2>3, Elsewhere DEF TestEntries
  <2>4. CASE TakeEntries
    BY <2>4, TakeKeeps
  <2>5. CASE DrawEntry
    BY <2>5, DrawKeeps
  <2>6. CASE ProcessNothing
    BY <2>6, Elsewhere DEF ProcessNothing
  <2>7. ASSUME NEW k \in Letters, ProcessLetter(k) PROVE LogInv'
    BY <2>7, Elsewhere DEF ProcessLetter
  <2>8. CASE ProcessEnter
    BY <2>8, PushKeeps DEF ProcessEnter
  <2>9. CASE ExecuteCommand
    BY <2>9, Elsewhere DEF ExecuteCommand
  <2>10. CASE UNCHANGED vars
    BY <2>10 DEF vars, logVars, LogInv, LogTyped, LogLinedUp, Pending
  <2> QED
    BY <2>1, <2>2, <2>3, <2>4, <2>5, <2>6, <2>7, <2>8, <2>9, <2>10 DEF Next
<1> QED
  BY <1>1, <1>2, PTL DEF Spec

\* Every entry that AddEntry is called with is drawn once and in the order of the
\* calls: Logger::Update's test of the list without the mutex costs nothing.
THEOREM LogDrawnInOrder == Spec => []LogInOrder
<1>1. LogInv => LogInOrder
  <2> SUFFICES ASSUME LogInv PROVE LogInOrder
    OBVIOUS
  <2> DEFINE left == IF main = "draw" THEN SubSeq(current, next, Len(current)) ELSE <<>>
  <2> DEFINE all == [i \in 1..added |-> i]
  <2>1. /\ added \in Nat /\ next \in Nat \ {0} /\ Len(current) \in Nat
        /\ Len(drawn) \in Nat /\ Len(entries) \in Nat
        /\ drawn \in Seq(Nat) /\ entries \in Seq(Nat) /\ current \in Seq(Nat)
    BY LenProperties DEF LogInv, LogTyped
  <2>2. /\ left \in Seq(Nat) /\ Len(left) = Pending
        /\ \A i \in 1..Pending : left[i] = Len(drawn) + i
    <3>1. CASE main = "draw"
      <4>1. \A i \in next..Len(current) : current[i] \in Nat
        BY <2>1, ElementOfSeq
      <4>2. /\ SubSeq(current, next, Len(current)) \in Seq(Nat)
            /\ Len(SubSeq(current, next, Len(current))) =
                 IF next <= Len(current) THEN Len(current) - next + 1 ELSE 0
            /\ \A i \in 1..(Len(current) - next + 1) :
                 SubSeq(current, next, Len(current))[i] = current[next + i - 1]
        BY <2>1, <4>1, SubSeqProperties
      <4>3. Pending = Len(current) - next + 1 /\ Pending >= 0
        BY <2>1, <3>1 DEF Pending, LogInv, LogTyped
      <4>4. \A i \in 1..Pending : current[next + i - 1] = Len(drawn) + i
        BY <2>1, <3>1, <4>3 DEF LogInv, LogLinedUp
      <4>5. left = SubSeq(current, next, Len(current))
        BY <3>1
      <4>6. Len(left) = Pending
        BY <2>1, <4>2, <4>3, <4>5
      <4>7. ASSUME NEW i \in 1..Pending PROVE left[i] = Len(drawn) + i
        <5>1. left[i] = current[next + i - 1]
          BY <4>2, <4>3, <4>5
        <5> QED
          BY <4>4, <5>1
      <4> QED
        BY <4>2, <4>5, <4>6, <4>7
    <3>2. CASE main # "draw"
      BY <3>2, EmptySeq DEF Pending
    <3> QED
      BY <3>1, <3>2
  <2>3. Pending \in Nat
    BY <2>2, LenProperties
  <2>4. /\ drawn \o left \in Seq(Nat)
        /\ Len(drawn \o left) = Len(drawn) + Pending
        /\ \A i \in 1..(Len(drawn) + Pending) : (drawn \o left)[i] = i
    <3> HIDE DEF left
    <3>1. /\ drawn \o left \in Seq(Nat)
          /\ Len(drawn \o left) = Len(drawn) + Len(left)
          /\ \A i \in 1..Len(drawn) + Len(left) : (drawn \o left)[i] =
                 IF i <= Len(drawn) THEN drawn[i] ELSE left[i - Len(drawn)]
      BY <2>1, <2>2, ConcatProperties
    <3> QED
      BY <2>1, <2>2, <2>3, <3>1 DEF LogInv, LogLinedUp
  <2> DEFINE before == drawn \o left
  <2>5. /\ before \o entries \in Seq(Nat)
        /\ Len(before \o entries) = added
        /\ \A i \in 1..added : (before \o entries)[i] = i
    <3> HIDE DEF before
    <3>1. /\ before \o entries \in Seq(Nat)
          /\ Len(before \o entries) = Len(before) + Len(entries)
          /\ \A i \in 1..Len(before) + Len(entries) : (before \o entries)[i] =
                 IF i <= Len(before) THEN before[i] ELSE entries[i - Len(before)]
      BY <2>1, <2>4, ConcatProperties DEF before
    <3>2. /\ Len(before) = Len(drawn) + Pending
          /\ \A i \in 1..(Len(drawn) + Pending) : before[i] = i
      BY <2>4 DEF before
    <3>3. /\ Len(drawn) + Pending + Len(entries) = added
          /\ \A i \in 1..Len(entries) : entries[i] = Len(before) + i
      BY <3>2 DEF LogInv, LogLinedUp
    <3>4. ASSUME NEW i \in 1..added PROVE (before \o entries)[i] = i
      <4>1. i \in 1..(Len(before) + Len(entries)) /\ Len(before) \in Nat
        BY <2>1, <2>3, <3>2, <3>3
      <4>2. CASE i <= Len(before)
        <5>1. before[i] = i
          BY <4>1, <4>2, <3>2
        <5> QED
          BY <4>1, <4>2, <5>1, <3>1
      <4>3. CASE i > Len(before)
        <5>1. /\ i - Len(before) \in 1..Len(entries)
              /\ (before \o entries)[i] = entries[i - Len(before)]
          BY <2>1, <4>1, <4>3, <3>1
        <5>2. entries[i - Len(before)] = Len(before) + (i - Len(before))
          BY <3>3, <5>1
        <5> QED
          BY <4>1, <5>1, <5>2
      <4> QED
        BY <4>1, <4>2, <4>3
    <3> QED
      BY <2>1, <2>3, <3>1, <3>2, <3>3, <3>4
  <2>6. all \in Seq(Nat) /\ Len(all) = added /\ \A i \in 1..added : all[i] = i
    BY <2>1
  <2>7. before \o entries = all
    <3> HIDE DEF before, all
    <3> QED
      BY <2>5, <2>6, SeqEqual
  <2> QED
    BY <2>7 DEF LogInOrder
<1> QED
  BY <1>1, LogInvariance, PTL

-----------------------------------------------------------------------------
(* The operator's line.                                                    *)

LEMMA KeysApart == Enter \in Keys /\ \A k \in Letters : k \in Keys /\ k # Enter
BY DEF Keys, Letters, Enter

\* Parts of a sequence that has grown.
LEMMA PartsGrown ==
  ASSUME NEW S, NEW s \in Seq(S), NEW x \in S,
         NEW a \in 1..(Len(s) + 1), NEW b \in 0..Len(s)
  PROVE  /\ SubSeq(Append(s, x), a, b) = SubSeq(s, a, b)
         /\ SubSeq(s, a, b) \in Seq(S)
         /\ Append(SubSeq(s, a, Len(s)), x) = SubSeq(Append(s, x), a, Len(s) + 1)
<1> DEFINE t == Append(s, x)
           n == Len(s)
<1>1. /\ n \in Nat /\ t \in Seq(S) /\ \A i \in 1..n : t[i] = s[i] /\ s[i] \in S
      /\ t[n + 1] = x
  BY LenProperties, AppendProperties, ElementOfSeq
<1> HIDE DEF t, n
<1>2. a \in Int /\ a >= 1 /\ a <= n + 1 /\ b \in Int /\ b <= n
  BY <1>1 DEF n
<1>3. ASSUME NEW q, NEW c \in Int, c <= n + 1, \A i \in a..c : q[i] \in S
      PROVE  /\ SubSeq(q, a, c) \in Seq(S)
             /\ Len(SubSeq(q, a, c)) = IF a <= c THEN c - a + 1 ELSE 0
             /\ \A i \in 1..(c - a + 1) : SubSeq(q, a, c)[i] = q[a + i - 1]
  BY <1>2, <1>3, SubSeqProperties
<1>4. ASSUME NEW c \in Int, c <= n
      PROVE  /\ SubSeq(s, a, c) \in Seq(S)
             /\ Len(SubSeq(s, a, c)) = IF a <= c THEN c - a + 1 ELSE 0
             /\ \A i \in 1..(c - a + 1) : SubSeq(s, a, c)[i] = s[a + i - 1]
  <2>1. \A i \in a..c : i \in 1..n
    BY <1>1, <1>2, <1>4
  <2>2. \A i \in a..c : s[i] \in S
    BY <1>1, <2>1
  <2> QED
    BY <1>1, <1>3, <1>4, <2>2
<1>5. ASSUME NEW c \in Int, c <= n + 1
      PROVE  /\ SubSeq(t, a, c) \in Seq(S)
             /\ Len(SubSeq(t, a, c)) = IF a <= c THEN c - a + 1 ELSE 0
             /\ \A i \in 1..(c - a + 1) : SubSeq(t, a, c)[i] = t[a + i - 1]
  <2>1. \A i \in a..c : i \in 1..n \/ i = n + 1
    BY <1>1, <1>2, <1>5
  <2>2. \A i \in a..c : t[i] \in S
    BY <1>1, <2>1
  <2> QED
    BY <1>3, <1>5, <2>2
<1>6. SubSeq(t, a, b) = SubSeq(s, a, b)
  <2>1. /\ SubSeq(s, a, b) \in Seq(S) /\ SubSeq(t, a, b) \in Seq(S)
        /\ Len(SubSeq(s, a, b)) = Len(SubSeq(t, a, b))
    <3>1. b <= n + 1
      BY <1>1, <1>2
    <3> QED
      BY <1>2, <1>4, <1>5, <3>1
  <2>2. ASSUME NEW i \in 1..Len(SubSeq(s, a, b))
        PROVE  SubSeq(s, a, b)[i] = SubSeq(t, a, b)[i]
    <3>1. i \in 1..(b - a + 1) /\ b <= n + 1
      BY <1>1, <1>2, <1>4
    <3>2. a + i - 1 \in 1..n
      BY <1>1, <1>2, <3>1
    <3> QED
      BY <1>1, <1>2, <1>4, <1>5, <3>1, <3>2
  <2> QED
    BY <2>1, <2>2, SeqEqual
<1>7. Append(SubSeq(s, a, n), x) = SubSeq(t, a, n + 1)
  <2> DEFINE p == SubSeq(s, a, n)
             q == SubSeq(t, a, n + 1)
  <2>1. /\ p \in Seq(S) /\ Len(p) = n - a + 1
        /\ \A i \in 1..(n - a + 1) : p[i] = s[a + i - 1]
    BY <1>1, <1>2, <1>4
  <2>2. /\ q \in Seq(S) /\ Len(q) = n + 1 - a + 1
        /\ \A i \in 1..(n + 1 - a + 1) : q[i] = t[a + i - 1]
    BY <1>1, <1>2, <1>5
  <2> HIDE DEF p, q
  <2>3. /\ Append(p, x) \in Seq(S) /\ Len(Append(p, x)) = Len(p) + 1
        /\ \A i \in 1..Len(p) : Append(p, x)[i] = p[i]
        /\ Append(p, x)[Len(p) + 1] = x
    BY <2>1, AppendProperties
  <2>4. Len(Append(p, x)) = Len(q)
    BY <1>1, <1>2, <2>1, <2>2, <2>3
  <2>5. ASSUME NEW i \in 1..Len(q) PROVE Append(p, x)[i] = q[i]
    <3>1. CASE i \in 1..(n - a + 1)
      <4>1. a + i - 1 \in 1..n /\ i \in 1..(n + 1 - a + 1)
        BY <1>1, <1>2, <3>1
      <4> QED
        BY <1>1, <2>1, <2>2, <2>3, <3>1, <4>1
    <3>2. CASE i = n - a + 2
      <4>1. a + i - 1 = n + 1 /\ i \in 1..(n + 1 - a + 1) /\ i = Len(p) + 1
        BY <1>1, <1>2, <2>1, <3>2
      <4> QED
        BY <1>1, <2>2, <2>3, <4>1
    <3>3. i \in 1..(n + 1 - a + 1)
      BY <2>2
    <3>4. i \in 1..(n - a + 1) \/ i = n - a + 2
      BY <1>1, <1>2, <3>3
    <3> QED
      BY <3>1, <3>2, <3>4
  <2>6. Append(p, x) = q
    BY <2>2, <2>3, <2>4, <2>5, SeqEqual
  <2> QED
    BY <2>6 DEF p, q
<1> QED
  BY <1>1, <1>2, <1>4, <1>6, <1>7 DEF n, t

\* What one more key does to the lines.
LEMMA KeyRead ==
  ASSUME read \in Seq(Keys), NEW k \in Keys, read' = Append(read, k), NEW n \in Nat, n = Len(read)
  PROVE  /\ read' \in Seq(Keys) /\ Len(read') = n + 1
         /\ DOMAIN read = 1..n /\ DOMAIN read' = 1..(n + 1)
         /\ \A i \in 1..n : read'[i] = read[i]
         /\ read'[n + 1] = k
         /\ \A a \in 1..(n + 1) : \A b \in 0..n :
              (OneLine(a, b)' <=> OneLine(a, b)) /\ SubSeq(read', a, b) = SubSeq(read, a, b)
         /\ LineEnds \subseteq 1..n
         /\ LineEnds' = LineEnds \cup
              (IF k = Enter /\ n >= 1 /\ read[n] # Enter THEN {n + 1} ELSE {})
<1>1. /\ read' \in Seq(Keys) /\ Len(read') = n + 1
      /\ DOMAIN read = 1..n /\ DOMAIN read' = 1..(n + 1)
      /\ \A i \in 1..n : read'[i] = read[i]
      /\ read'[n + 1] = k
  BY AppendProperties, LenProperties
<1>2. ASSUME NEW a \in 1..(n + 1), NEW b \in 0..n
      PROVE  (OneLine(a, b)' <=> OneLine(a, b)) /\ SubSeq(read', a, b) = SubSeq(read, a, b)
  <2>1. SubSeq(read', a, b) = SubSeq(read, a, b)
    BY PartsGrown
  <2>2. /\ a # 1 => read'[a - 1] = read[a - 1]
        /\ \A i \in a..b : read'[i] = read[i]
    BY <1>1
  <2> QED
    BY <2>1, <2>2 DEF OneLine
<1>3. LineEnds \subseteq 1..n
  BY <1>1 DEF LineEnds
<1>4. \A b \in 1..n : b \in LineEnds' <=> b \in LineEnds
  <2>1. \A b \in 1..n : b > 1 => b - 1 \in 1..n
    OBVIOUS
  <2> QED
    BY <1>1, <2>1 DEF LineEnds
<1>5. n + 1 \in LineEnds' <=> k = Enter /\ n >= 1 /\ read[n] # Enter
  <2>1. (n + 1) - 1 = n /\ (n + 1 > 1 <=> n >= 1) /\ n + 1 \in 1..(n + 1)
    OBVIOUS
  <2>2. n >= 1 => read'[n] = read[n]
    BY <1>1
  <2> QED
    BY <1>1, <2>1, <2>2 DEF LineEnds
<1>6. LineEnds' \subseteq 1..n \cup {n + 1}
  BY <1>1 DEF LineEnds
<1>7. LineEnds' = LineEnds \cup
        (IF k = Enter /\ n >= 1 /\ read[n] # Enter THEN {n + 1} ELSE {})
  BY <1>3, <1>4, <1>5, <1>6
<1> QED
  BY <1>1, <1>2, <1>3, <1>7

\* The number of a line among those that are not empty.
LEMMA Ranked ==
  ASSUME NEW n \in Nat, LineEnds \subseteq 1..n
  PROVE  /\ IsFiniteSet(LineEnds) /\ Cardinality(LineEnds) \in Nat
         /\ \A b \in LineEnds :
              Cardinality({c \in LineEnds : c <= b}) \in 1..Cardinality(LineEnds)
<1>1. IsFiniteSet(1..n)
  BY FS_Interval
<1>2. IsFiniteSet(LineEnds)
  BY <1>1, FS_Subset
<1>3. Cardinality(LineEnds) \in Nat
  BY <1>2, FS_CardinalityType
<1>4. ASSUME NEW b \in LineEnds
      PROVE  Cardinality({c \in LineEnds : c <= b}) \in 1..Cardinality(LineEnds)
  <2> DEFINE R == {c \in LineEnds : c <= b}
  <2>1. R \in SUBSET LineEnds /\ b \in R
    OBVIOUS
  <2> HIDE DEF R
  <2>2. IsFiniteSet(R) /\ Cardinality(R) <= Cardinality(LineEnds)
    BY <1>2, <2>1, FS_Subset
  <2>3. Cardinality(R) \in Nat /\ Cardinality(R) # 0
    BY <2>1, <2>2, FS_CardinalityType, FS_EmptySet
  <2>4. Cardinality(R) \in 1..Cardinality(LineEnds)
    BY <1>3, <2>2, <2>3
  <2> QED
    BY <2>4 DEF R
<1> QED
  BY <1>2, <1>3, <1>4

\* LinesAreExecuted after a step, the positions of its last line spelled out.
LEMMA LinesNext ==
  ASSUME NEW m \in Nat, Len(read') = m, Len(Found') = Cardinality(LineEnds'),
         \A b \in LineEnds' : \E a \in 1..b :
           /\ OneLine(a, b - 1)'
           /\ Found'[Cardinality({c \in LineEnds' : c <= b})] = SubSeq(read', a, b - 1),
         NEW e \in 1..(m + 1), e = 1 \/ read'[e - 1] = Enter,
         \A i \in e..m : read'[i] # Enter,
         curCommand' = SubSeq(read', e, m)
  PROVE  LinesAreExecuted'
<1>1. \E a \in 1..(Len(read') + 1) :
        /\ (a = 1 \/ read'[a - 1] = Enter) /\ \A i \in a..Len(read') : read'[i] # Enter
        /\ curCommand' = SubSeq(read', a, Len(read'))
  OBVIOUS
<1> QED
  BY <1>1 DEF LinesAreExecuted, OneLine

\* A step that reads no key and takes no command.
LEMMA NoKey ==
  ASSUME LineInv, UNCHANGED <<input, curCommand, read, command, executed>>,
         main' = main \/ main # "update"
  PROVE  LineInv'
<1>1. LineTyped'
  BY DEF LineInv, LineTyped
<1>2. LinesAreExecuted'
  <2>1. Found' = Found /\ LineEnds' = LineEnds
    BY DEF Found, LineEnds
  <2> QED
    BY <2>1 DEF LineInv, LinesAreExecuted, OneLine
<1> QED
  BY <1>1, <1>2 DEF LineInv

\* A key of the line.
LEMMA LetterKeeps ==
  ASSUME LineInv, NEW k \in Letters, ProcessLetter(k)
  PROVE  LineInv'
<1>1. CASE UNCHANGED inputVars
  <2>1. UNCHANGED <<input, curCommand, read, command, executed>> /\ main = "process"
    BY <1>1 DEF ProcessLetter, inputVars
  <2> QED
    BY <2>1, NoKey
<1>2. CASE ~UNCHANGED inputVars
  <2>n. PICK n : n = Len(read)
    OBVIOUS
  <2>1. /\ main = "process" /\ UNCHANGED <<command, executed>>
        /\ input' = Append(input, k) /\ curCommand' = input' /\ read' = Append(read, k)
    BY <1>2 DEF ProcessLetter
  <2>2. /\ k \in Keys /\ k # Enter /\ read \in Seq(Keys) /\ n \in Nat /\ input \in Seq(Keys)
        /\ curCommand = input /\ command = <<>>
    BY <2>n, <2>1, KeysApart, LenProperties DEF LineInv, LineTyped
  <2>3. /\ read' \in Seq(Keys) /\ Len(read') = n + 1
        /\ \A i \in 1..n : read'[i] = read[i]
        /\ read'[n + 1] = k
        /\ \A a \in 1..(n + 1) : \A b \in 0..n :
             (OneLine(a, b)' <=> OneLine(a, b)) /\ SubSeq(read', a, b) = SubSeq(read, a, b)
        /\ LineEnds \subseteq 1..n /\ LineEnds' = LineEnds
    BY <2>n, <2>1, <2>2, KeyRead
  <2>4. LineTyped'
    <3>1. input' \in Seq(Keys)
      BY <2>1, <2>2, AppendProperties
    <3> QED
      BY <2>1, <2>2, <2>3, <3>1 DEF LineInv, LineTyped
  <2>5. Found' = Found
    BY <2>1 DEF Found
  <2>6. \A b \in LineEnds : \E a \in 1..b :
          /\ OneLine(a, b - 1)'
          /\ Found[Cardinality({c \in LineEnds : c <= b})] = SubSeq(read', a, b - 1)
    <3> SUFFICES ASSUME NEW b \in LineEnds
                 PROVE  \E a \in 1..b :
                          /\ OneLine(a, b - 1)'
                          /\ Found[Cardinality({c \in LineEnds : c <= b})] =
                               SubSeq(read', a, b - 1)
      OBVIOUS
    <3>1. PICK a \in 1..b :
            /\ OneLine(a, b - 1)
            /\ Found[Cardinality({c \in LineEnds : c <= b})] = SubSeq(read, a, b - 1)
      BY DEF LineInv, LinesAreExecuted
    <3>2. a \in 1..(n + 1) /\ b - 1 \in 0..n
      BY <2>2, <2>3
    <3> QED
      BY <2>3, <3>1, <3>2
  <2>7. PICK a \in 1..(n + 1) : OneLine(a, n) /\ input = SubSeq(read, a, n)
    BY <2>n, <2>2 DEF LineInv, LinesAreExecuted
  <2>8. Append(input, k) = SubSeq(read', a, n + 1)
    BY <2>n, <2>1, <2>2, <2>7, PartsGrown
  <2>9. a = 1 \/ read'[a - 1] = Enter
    <3>1. a # 1 => read'[a - 1] = read[a - 1]
      BY <2>2, <2>3
    <3> QED
      BY <2>7, <3>1 DEF OneLine
  <2>10. ASSUME NEW i \in a..(n + 1) PROVE read'[i] # Enter
    <3>1. CASE i = n + 1
      BY <2>2, <2>3, <3>1
    <3>2. CASE i # n + 1
      <4>1. i \in 1..n /\ i \in a..n
        BY <2>2, <3>2
      <4> QED
        BY <2>3, <2>7, <4>1 DEF OneLine
    <3> QED
      BY <3>1, <3>2
  <2>11. Len(Found') = Cardinality(LineEnds')
    BY <2>3, <2>5 DEF LineInv, LinesAreExecuted
  <2>12. LinesAreExecuted'
    <3>1. a \in 1..((n + 1) + 1) /\ n + 1 \in Nat
      BY <2>2
    <3>2. curCommand' = SubSeq(read', a, n + 1)
      BY <2>1, <2>8
    <3>3. \A b \in LineEnds' : \E e \in 1..b :
            /\ OneLine(e, b - 1)'
            /\ Found'[Cardinality({c \in LineEnds' : c <= b})] = SubSeq(read', e, b - 1)
      BY <2>3, <2>5, <2>6
    <3> QED
      BY <2>3, <2>9, <2>10, <2>11, <3>1, <3>2, <3>3, LinesNext
  <2> QED
    BY <2>4, <2>12 DEF LineInv
<1> QED
  BY <1>1, <1>2

\* Enter ends the line, which becomes a command unless it is empty.
LEMMA EnterKeeps ==
  ASSUME LineInv, ProcessEnter
  PROVE  LineInv'
<1>n. PICK n : n = Len(read)
  OBVIOUS
<1>1. /\ main = "process" /\ main' = "update" /\ UNCHANGED executed
      /\ command' = input /\ input' = <<>> /\ curCommand' = <<>> /\ read' = Append(read, Enter)
  BY DEF ProcessEnter
<1>2. /\ Enter \in Keys /\ read \in Seq(Keys) /\ n \in Nat /\ input \in Seq(Keys)
      /\ curCommand = input /\ command = <<>> /\ executed \in Seq(Seq(Keys))
      /\ Len(executed) \in Nat
  BY <1>n, <1>1, KeysApart, LenProperties DEF LineInv, LineTyped
<1>3. /\ read' \in Seq(Keys) /\ Len(read') = n + 1
      /\ \A i \in 1..n : read'[i] = read[i]
      /\ read'[n + 1] = Enter
      /\ \A a \in 1..(n + 1) : \A b \in 0..n :
           (OneLine(a, b)' <=> OneLine(a, b)) /\ SubSeq(read', a, b) = SubSeq(read, a, b)
      /\ LineEnds \subseteq 1..n
      /\ LineEnds' = LineEnds \cup (IF n >= 1 /\ read[n] # Enter THEN {n + 1} ELSE {})
  BY <1>n, <1>1, <1>2, KeyRead
<1>4. LineTyped'
  BY <1>1, <1>2, <1>3, EmptySeq DEF LineInv, LineTyped
<1>5. PICK a \in 1..(n + 1) : OneLine(a, n) /\ input = SubSeq(read, a, n)
  BY <1>n, <1>2 DEF LineInv, LinesAreExecuted
<1>6. Found = executed
  BY <1>2, ConcatEmptySeq DEF Found
<1>7. \A b \in LineEnds : \E e \in 1..b :
        /\ OneLine(e, b - 1)'
        /\ executed[Cardinality({c \in LineEnds : c <= b})] = SubSeq(read', e, b - 1)
  <2> SUFFICES ASSUME NEW b \in LineEnds
               PROVE  \E e \in 1..b :
                        /\ OneLine(e, b - 1)'
                        /\ executed[Cardinality({c \in LineEnds : c <= b})] =
                             SubSeq(read', e, b - 1)
    OBVIOUS
  <2>1. PICK e \in 1..b :
          /\ OneLine(e, b - 1)
          /\ executed[Cardinality({c \in LineEnds : c <= b})] = SubSeq(read, e, b - 1)
    BY <1>6 DEF LineInv, LinesAreExecuted
  <2>2. e \in 1..(n + 1) /\ b - 1 \in 0..n
    BY <1>2, <1>3
  <2> QED
    BY <1>3, <2>1, <2>2
<1>8. ASSUME Len(Found') = Cardinality(LineEnds'),
             \A b \in LineEnds' : \E e \in 1..b :
               /\ OneLine(e, b - 1)'
               /\ Found'[Cardinality({c \in LineEnds' : c <= b})] = SubSeq(read', e, b - 1)
      PROVE  LineInv'
  <2>1. PICK m \in Nat : m = n + 1
    BY <1>2
  <2>2. PICK e \in 1..(m + 1) : e = m + 1
    BY <2>1
  <2>3. e - 1 = m /\ e..m = {} /\ m < e /\ e \in Int /\ m \in Int
    BY <2>1, <2>2
  <2>4. SubSeq(read', e, m) = <<>>
    BY <2>3, SubSeqEmpty
  <2>5. Len(read') = m /\ read'[e - 1] = Enter /\ curCommand' = SubSeq(read', e, m)
    BY <1>1, <1>3, <2>1, <2>3, <2>4
  <2>6. \A i \in e..m : read'[i] # Enter
    BY <2>3
  <2>7. LinesAreExecuted'
    BY <1>8, <2>5, <2>6, LinesNext
  <2> QED
    BY <1>4, <2>7 DEF LineInv
<1>9. Len(executed) = Cardinality(LineEnds)
  BY <1>6 DEF LineInv, LinesAreExecuted
<1>10. CASE a = n + 1
  <2>1. input = <<>>
    <3>1. n < a /\ a \in Int /\ n \in Int
      BY <1>2, <1>10
    <3> QED
      BY <1>5, <3>1, SubSeqEmpty
  <2>2. ~(n >= 1 /\ read[n] # Enter)
    BY <1>2, <1>5, <1>10 DEF OneLine
  <2>3. LineEnds' = LineEnds
    BY <1>3, <2>2
  <2>4. Found' = executed
    BY <1>1, <1>2, <2>1, ConcatEmptySeq DEF Found
  <2> QED
    BY <1>7, <1>8, <1>9, <2>3, <2>4
<1>11. CASE a # n + 1
  <2>1. n >= 1 /\ n \in a..n
    BY <1>2, <1>11
  <2>2. read[n] # Enter
    BY <1>5, <2>1 DEF OneLine
  <2>3. LineEnds' = LineEnds \cup {n + 1}
    BY <1>3, <2>1, <2>2
  <2>4. input # <<>>
    <3>1. n \in 0..n
      BY <1>2
    <3>2. \A i \in a..n : i \in 1..n
      BY <1>2
    <3>3. \A i \in a..n : read[i] \in Keys
      BY <1>n, <1>2, <3>2, ElementOfSeq
    <3>4. Len(input) = n - a + 1
      BY <1>2, <1>5, <1>11, <3>3, SubSeqProperties
    <3>5. Len(input) # 0
      BY <1>2, <1>11, <3>4
    <3> QED
      BY <3>5, EmptySeq
  <2>5. Found' = Append(executed, input)
    BY <1>1, <1>2, <2>4, AppendIsConcat DEF Found
  <2>6. /\ Len(Found') = Len(executed) + 1
        /\ \A i \in 1..Len(executed) : Found'[i] = executed[i]
        /\ Found'[Len(executed) + 1] = input
    BY <1>2, <2>5, AppendProperties
  <2>7. /\ IsFiniteSet(LineEnds)
        /\ \A b \in LineEnds :
             Cardinality({c \in LineEnds : c <= b}) \in 1..Len(executed)
    BY <1>2, <1>3, <1>9, Ranked
  <2>8. n + 1 \notin LineEnds
    BY <1>2, <1>3
  <2>9. Cardinality(LineEnds') = Len(executed) + 1
    BY <1>9, <2>3, <2>7, <2>8, FS_AddElement
  <2>10. ASSUME NEW b \in LineEnds'
         PROVE  \E e \in 1..b :
                  /\ OneLine(e, b - 1)'
                  /\ Found'[Cardinality({c \in LineEnds' : c <= b})] = SubSeq(read', e, b - 1)
    <3>1. CASE b = n + 1
      <4>1. {c \in LineEnds' : c <= b} = LineEnds'
        <5>1. \A c \in 1..n : c <= n + 1
          BY <1>2
        <5>2. \A c \in LineEnds' : c <= b
          BY <1>2, <1>3, <2>3, <3>1, <5>1
        <5> QED
          BY <5>2
      <4>2. Found'[Cardinality({c \in LineEnds' : c <= b})] = input
        BY <2>6, <2>9, <4>1
      <4>3. b - 1 = n /\ n \in 0..n
        BY <1>2, <3>1
      <4>4. OneLine(a, n)' /\ SubSeq(read', a, n) = input
        BY <1>3, <1>5, <4>3
      <4> QED
        BY <3>1, <4>2, <4>3, <4>4
    <3>2. CASE b \in LineEnds
      <4>1. {c \in LineEnds' : c <= b} = {c \in LineEnds : c <= b}
        <5>1. ~(n + 1 <= b)
          BY <1>2, <1>3, <3>2
        <5> QED
          BY <2>3, <5>1
      <4>2. Cardinality({c \in LineEnds : c <= b}) \in 1..Len(executed)
        BY <2>7, <3>2
      <4> QED
        BY <1>7, <2>6, <3>2, <4>1, <4>2
    <3> QED
      BY <2>3, <3>1, <3>2
  <2> QED
    BY <1>8, <2>6, <2>9, <2>10
<1> QED
  BY <1>10, <1>11

\* Update takes the command.
LEMMA CommandKeeps ==
  ASSUME LineInv, ExecuteCommand
  PROVE  LineInv'
<1>1. /\ executed' = (IF command # <<>> THEN Append(executed, command) ELSE executed)
      /\ command' = <<>> /\ UNCHANGED <<input, curCommand, read>>
  BY DEF ExecuteCommand, inputVars
<1>2. executed \in Seq(Seq(Keys)) /\ command \in Seq(Keys)
  BY DEF LineInv, LineTyped
<1>3. executed' \in Seq(Seq(Keys))
  BY <1>1, <1>2, AppendProperties
<1>4. Found' = executed'
  BY <1>1, <1>3, ConcatEmptySeq DEF Found
<1>5. Found = executed'
  <2>1. CASE command = <<>>
    BY <1>1, <1>2, <2>1, ConcatEmptySeq DEF Found
  <2>2. CASE command # <<>>
    BY <1>1, <1>2, <2>2, AppendIsConcat DEF Found
  <2> QED
    BY <2>1, <2>2
<1>6. LineTyped'
  BY <1>1, <1>3, EmptySeq DEF LineInv, LineTyped
<1>7. LineEnds' = LineEnds /\ \A a, b : OneLine(a, b)' <=> OneLine(a, b)
  BY <1>1 DEF LineEnds, OneLine
<1> QED
  BY <1>1, <1>4, <1>5, <1>6, <1>7 DEF LineInv, LinesAreExecuted

\* The inductive invariant: the line under way is what was read since the last
\* enter, and no command waits when the next key is read.
THEOREM LineInvariance == Spec => []LineInv
<1>1. Init => LineInv
  <2> SUFFICES ASSUME Init PROVE LineInv
    OBVIOUS
  <2>1. /\ main = "process" /\ input = <<>> /\ curCommand = <<>> /\ read = <<>>
        /\ command = <<>> /\ executed = <<>>
    BY DEF Init
  <2>2. LineEnds = {}
    BY <2>1 DEF LineEnds
  <2>3. Found = <<>> /\ Len(Found) = 0
    BY <2>1 DEF Found
  <2>4. OneLine(1, 0) /\ SubSeq(read, 1, 0) = <<>>
    BY <2>1, SubSeqEmpty DEF OneLine
  <2>5. \E a \in 1..(Len(read) + 1) :
          OneLine(a, Len(read)) /\ curCommand = SubSeq(read, a, Len(read))
    <3>1. Len(read) = 0 /\ 1 \in 1..(0 + 1)
      BY <2>1
    <3> QED
      BY <2>1, <2>4, <3>1
  <2> QED
    BY <2>1, <2>2, <2>3, <2>5, FS_EmptySet DEF LineInv, LineTyped, LinesAreExecuted
<1>2. LineInv /\ [Next]_vars => LineInv'
  <2> SUFFICES ASSUME LineInv, [Next]_vars PROVE LineInv'
    OBVIOUS
  <2>2. CASE AddEntry \/ MainLogs \/ TestEntries \/ TakeEntries \/ DrawEntry
             \/ ProcessNothing \/ UNCHANGED vars
    <3>1. /\ UNCHANGED <<input, curCommand, read, command, executed>>
          /\ main' = main \/ main # "update"
      BY <2>2 DEF AddEntry, MainLogs, TestEntries, TakeEntries, DrawEntry, ProcessNothing,
         vars, inputVars
    <3> QED
      BY <3>1, NoKey
  <2>3. ASSUME NEW k \in Letters, ProcessLetter(k) PROVE LineInv'
    BY <2>3, LetterKeeps
  <2>4. CASE ProcessEnter
    BY <2>4, EnterKeeps
  <2>5. CASE ExecuteCommand
    BY <2>5, CommandKeeps
  <2> QED
    BY <2>2, <2>3, <2>4, <2>5 DEF Next
<1> QED
  BY <1>1, <1>2, PTL DEF Spec

\* Every line the operator ended that is not empty is found by Update once, whole and
\* in order, and what is shown is the rest, for any number of keys.
THEOREM LinesExecuted == Spec => []LinesAreExecuted
<1>1. LineInv => LinesAreExecuted
  BY DEF LineInv
<1> QED
  BY <1>1, LineInvariance, PTL
=============================================================================
