------------------------- MODULE SendPipelineProofs -------------------------
(***************************************************************************)
(* Proofs about SendPipeline: the safety invariants hold for every number  *)
(* of messages and threads, for both behaviours of a full semaphore and    *)
(* for both threads that may close, and the connection implements          *)
(* FifoChannel.                                                            *)
(***************************************************************************)
EXTENDS SendPipeline, SequenceTheorems, TLAPS

\* Tokens of semaphore 2, tokens still owed to it and a sender that has taken
\* one are all backed by queued messages. A saturating release only loses
\* tokens, so this is an inequality.
TokensBacked ==
  /\ queueLen = Len(queue)
  /\ Len(queue) >= sem2 + owed + (IF sender = "pop" THEN 1 ELSE 0)

\* At most one write is outstanding, and only while the sender waits for it:
\* semaphore 1 and `write' are one permit between the sender and the io thread.
OneWrite ==
  /\ sender # "acquire1" => write = "none" /\ sem1 = 0
  /\ sender = "acquire1" =>
       \/ write # "none" /\ sem1 = 0
       \/ write = "none" /\ sem1 = 1
       \/ write = "none" /\ sem1 = 0 /\ ~running

\* The queue holds the last Len(queue) of the accepted messages.
QueueInOrder ==
  /\ Len(queue) <= accepted
  /\ \A i \in 1..Len(queue) : queue[i] = accepted - Len(queue) + i

\* The message in hand is the one before them.
HandInOrder ==
  /\ sender = "write" => msg = accepted - Len(queue) /\ msg > 0
  /\ write = "issued" => buffer = accepted - Len(queue) /\ buffer > 0

\* A message is on its way between the queue and the socket.
Held == sender = "write" \/ write = "issued"

\* On a link that is up the client has received all the others.
UpToDate ==
  link = "up" =>
    IF Held THEN Len(wire) + 1 = accepted - Len(queue)
            ELSE Len(wire) = accepted - Len(queue)

InOrder == QueueInOrder /\ HandInOrder /\ WireInOrder /\ UpToDate

\* A semaphore that counts loses no token: there is one for every queued message.
TokensExact ==
  ~saturating => Len(queue) = sem2 + owed + (IF sender = "pop" THEN 1 ELSE 0)

\* m_running is set until close resets it, and the sender ends only after that.
StoppedByClose ==
  /\ running <=> closer \in {"idle", "stop"}
  /\ sender = "done" => ~running

IInv ==
  TypeOK /\ TokensBacked /\ OneWrite /\ InOrder /\ TokensExact /\ StoppedByClose

-----------------------------------------------------------------------------
\* A release adds at most one token, and exactly one to an empty semaphore.
LEMMA ReleasedBounds ==
  ASSUME NEW s \in Nat
  PROVE  /\ Released(s) \in Nat /\ Released(s) <= s + 1
         /\ s = 0 => Released(s) = 1
BY DEF Released

\* What a push does to a queue of message numbers.
LEMMA Pushed ==
  ASSUME NEW q \in Seq(Nat), NEW m \in Nat
  PROVE  /\ Append(q, m) \in Seq(Nat)
         /\ Len(q) \in Nat
         /\ Len(Append(q, m)) = Len(q) + 1
         /\ \A i \in 1..Len(q) : Append(q, m)[i] = q[i]
         /\ Append(q, m)[Len(q) + 1] = m
         /\ DOMAIN q = 1..Len(q)
         /\ DOMAIN Append(q, m) = 1..(Len(q) + 1)
BY AppendProperties, LenProperties

\* What a pop does to a queue that is not empty.
LEMMA Popped ==
  ASSUME NEW q \in Seq(Nat), q # <<>>
  PROVE  /\ Len(q) \in Nat /\ Len(q) > 0
         /\ Head(q) \in Nat /\ Head(q) = q[1]
         /\ Tail(q) \in Seq(Nat)
         /\ Len(Tail(q)) = Len(q) - 1
         /\ \A i \in 1..Len(Tail(q)) : Tail(q)[i] = q[i + 1]
<1>1. Len(q) \in Nat /\ Len(q) > 0
  BY EmptySeq, LenProperties
<1>2. /\ Head(q) \in Nat /\ Tail(q) \in Seq(Nat)
      /\ Len(Tail(q)) = Len(q) - 1
      /\ \A i \in 1..Len(Tail(q)) : Tail(q)[i] = q[i + 1]
  BY HeadTailProperties
<1>3. Head(q) = q[1]
  OBVIOUS
<1> QED
  BY <1>1, <1>2, <1>3

\* The initial state satisfies the inductive invariant.
LEMMA InitIInv == Init => IInv
<1> SUFFICES ASSUME Init PROVE IInv
  OBVIOUS
<1> USE DEF Init
<1>1. Len(queue) = 0 /\ Len(wire) = 0 /\ <<>> \in Seq(Nat)
  BY EmptySeq
<1>2. TypeOK
  BY <1>1 DEF TypeOK, SenderSteps, CloserSteps
<1>3. TokensBacked
  BY <1>1 DEF TokensBacked
<1>4. OneWrite
  BY DEF OneWrite
<1>5. WireInOrder
  BY DEF WireInOrder
<1>6. ~Held
  BY DEF Held
<1>7. QueueInOrder /\ HandInOrder
  BY <1>1 DEF QueueInOrder, HandInOrder
<1>8. accepted = 0
  OBVIOUS
<1>9. UpToDate
  <2> HIDE DEF Init
  <2> QED
    BY <1>1, <1>6, <1>8 DEF UpToDate
<1>10. TokensExact /\ StoppedByClose
  BY <1>1 DEF TokensExact, StoppedByClose
<1> QED
  BY <1>2, <1>3, <1>4, <1>5, <1>7, <1>9, <1>10 DEF IInv, InOrder

\* No step of any thread leaves the types.
LEMMA StepTypeOK == TypeOK /\ TokensBacked /\ [Next]_vars => TypeOK'
<1> SUFFICES ASSUME TypeOK, TokensBacked, [Next]_vars PROVE TypeOK'
  OBVIOUS
<1> USE DEF TypeOK, SenderSteps, CloserSteps, settings, sendVars, queueVars
<1>1. CASE SendBegin
  BY <1>1 DEF SendBegin
<1>2. CASE SendPush
  BY <1>2 DEF SendPush
<1>3. CASE SendRelease
  BY <1>3, ReleasedBounds DEF SendRelease
<1>4. CASE SenderLoop
  BY <1>4 DEF SenderLoop
<1>5. CASE SenderTest
  BY <1>5 DEF SenderTest
<1>6. CASE SenderAcquire2
  BY <1>6 DEF SenderAcquire2
<1>7. CASE SenderPop
  <2>1. CASE queue # <<>>
    <3>1. /\ Head(queue) \in Nat
          /\ Tail(queue) \in Seq(Nat)
          /\ Len(queue) \in Nat /\ Len(queue) > 0
          /\ Len(Tail(queue)) = Len(queue) - 1
      BY <2>1, Popped
    <3>2. /\ queue' = Tail(queue) /\ msg' = Head(queue)
          /\ sender' = "write" /\ queueLen' = queueLen - 1
          /\ UNCHANGED <<settings, connected, sendVars, accepted, sem1, sem2,
                         running, buffer, write, link, wire, closer>>
      BY <1>7, <2>1 DEF SenderPop
    <3>3. queueLen' \in Nat
      BY <3>1, <3>2 DEF TokensBacked
    <3>4. queue' \in Seq(Nat) /\ msg' \in Nat
      BY <3>1, <3>2
    <3> QED
      BY <3>2, <3>3, <3>4
  <2>2. CASE queue = <<>>
    BY <1>7, <2>2 DEF SenderPop
  <2> QED
    BY <2>1, <2>2
<1>8. CASE SenderWrite
  BY <1>8 DEF SenderWrite
<1>9. CASE SenderAcquire1
  BY <1>9 DEF SenderAcquire1
<1>10. CASE Transmit
  BY <1>10 DEF Transmit
<1>11. CASE PeerGone
  BY <1>11 DEF PeerGone
<1>12. CASE HandleWrite
  BY <1>12, ReleasedBounds DEF HandleWrite
<1>13. CASE CloseBegin
  BY <1>13 DEF CloseBegin
<1>14. CASE CloseStop
  BY <1>14 DEF CloseStop
<1>15. CASE CloseSocket
  BY <1>15 DEF CloseSocket
<1>16. CASE CloseJoin
  BY <1>16 DEF CloseJoin
<1>17. CASE UNCHANGED vars
  BY <1>17 DEF vars
<1> QED
  BY <1>1, <1>2, <1>3, <1>4, <1>5, <1>6, <1>7, <1>8, <1>9, <1>10, <1>11,
     <1>12, <1>13, <1>14, <1>15, <1>16, <1>17 DEF Next, Sender, Closer

\* Queued messages keep up with the tokens.
LEMMA StepTokensBacked ==
  TypeOK /\ TokensBacked /\ [Next]_vars => TokensBacked'
<1> SUFFICES ASSUME TypeOK, TokensBacked, [Next]_vars PROVE TokensBacked'
  OBVIOUS
<1> USE DEF TypeOK, TokensBacked, SenderSteps, settings, sendVars, queueVars
<1>1. CASE SendBegin
  BY <1>1 DEF SendBegin
<1>2. CASE SendPush
  BY <1>2 DEF SendPush
<1>3. CASE SendRelease
  <2>1. sem2' \in Nat /\ sem2' <= sem2 + 1
    BY <1>3, ReleasedBounds DEF SendRelease
  <2> QED
    BY <1>3, <2>1 DEF SendRelease
<1>4. CASE SenderLoop
  BY <1>4 DEF SenderLoop
<1>5. CASE SenderTest
  BY <1>5 DEF SenderTest
<1>6. CASE SenderAcquire2
  BY <1>6 DEF SenderAcquire2
<1>7. CASE SenderPop
  <2>1. CASE queue # <<>>
    <3>1. /\ Head(queue) \in Nat
          /\ Tail(queue) \in Seq(Nat)
          /\ Len(queue) \in Nat /\ Len(queue) > 0
          /\ Len(Tail(queue)) = Len(queue) - 1
      BY <2>1, Popped
    <3> QED
      BY <1>7, <2>1, <3>1 DEF SenderPop
  <2>2. CASE queue = <<>>
    BY <1>7, <2>2 DEF SenderPop
  <2> QED
    BY <2>1, <2>2
<1>8. CASE SenderWrite
  BY <1>8 DEF SenderWrite
<1>9. CASE SenderAcquire1
  BY <1>9 DEF SenderAcquire1
<1>10. CASE Transmit
  BY <1>10 DEF Transmit
<1>11. CASE PeerGone
  BY <1>11 DEF PeerGone
<1>12. CASE HandleWrite
  BY <1>12 DEF HandleWrite
<1>13. CASE CloseBegin
  BY <1>13 DEF CloseBegin
<1>14. CASE CloseStop
  BY <1>14 DEF CloseStop
<1>15. CASE CloseSocket
  BY <1>15 DEF CloseSocket
<1>16. CASE CloseJoin
  BY <1>16 DEF CloseJoin
<1>17. CASE UNCHANGED vars
  BY <1>17 DEF vars
<1> QED
  BY <1>1, <1>2, <1>3, <1>4, <1>5, <1>6, <1>7, <1>8, <1>9, <1>10, <1>11,
     <1>12, <1>13, <1>14, <1>15, <1>16, <1>17 DEF Next, Sender, Closer

\* Semaphore 1 and the outstanding write stay one permit.
LEMMA StepOneWrite ==
  TypeOK /\ TokensBacked /\ OneWrite /\ [Next]_vars => OneWrite'
<1> SUFFICES ASSUME TypeOK, TokensBacked, OneWrite, [Next]_vars PROVE OneWrite'
  OBVIOUS
<1> USE DEF TypeOK, TokensBacked, OneWrite, SenderSteps, settings, sendVars,
            queueVars
<1>1. CASE SendBegin
  BY <1>1 DEF SendBegin
<1>2. CASE SendPush
  BY <1>2 DEF SendPush
<1>3. CASE SendRelease
  BY <1>3 DEF SendRelease
<1>4. CASE SenderLoop
  BY <1>4 DEF SenderLoop
<1>5. CASE SenderTest
  BY <1>5 DEF SenderTest
<1>6. CASE SenderAcquire2
  BY <1>6 DEF SenderAcquire2
<1>7. CASE SenderPop
  BY <1>7 DEF SenderPop
<1>8. CASE SenderWrite
  BY <1>8 DEF SenderWrite
<1>9. CASE SenderAcquire1
  BY <1>9 DEF SenderAcquire1
<1>10. CASE Transmit
  BY <1>10 DEF Transmit
<1>11. CASE PeerGone
  BY <1>11 DEF PeerGone
<1>12. CASE HandleWrite
  BY <1>12, ReleasedBounds DEF HandleWrite
<1>13. CASE CloseBegin
  BY <1>13 DEF CloseBegin
<1>14. CASE CloseStop
  BY <1>14 DEF CloseStop
<1>15. CASE CloseSocket
  BY <1>15 DEF CloseSocket
<1>16. CASE CloseJoin
  BY <1>16 DEF CloseJoin
<1>17. CASE UNCHANGED vars
  BY <1>17 DEF vars
<1> QED
  BY <1>1, <1>2, <1>3, <1>4, <1>5, <1>6, <1>7, <1>8, <1>9, <1>10, <1>11,
     <1>12, <1>13, <1>14, <1>15, <1>16, <1>17 DEF Next, Sender, Closer

\* Order is kept through the queue, the buffer and the socket.
LEMMA StepInOrder == IInv /\ [Next]_vars => InOrder'
<1> SUFFICES ASSUME IInv, [Next]_vars PROVE InOrder'
  OBVIOUS
<1> USE DEF IInv, TypeOK, TokensBacked, OneWrite, InOrder, QueueInOrder,
            HandInOrder, WireInOrder, UpToDate, Held, SenderSteps, settings,
            sendVars, queueVars
<1>1. CASE SendBegin
  BY <1>1 DEF SendBegin
<1>2. CASE SendPush
  <2>1. /\ Len(queue') = Len(queue) + 1
        /\ \A i \in 1..Len(queue) : queue'[i] = queue[i]
        /\ queue'[Len(queue) + 1] = accepted + 1
        /\ Len(queue) \in Nat
    BY <1>2, Pushed DEF SendPush
  <2>2. accepted' - Len(queue') = accepted - Len(queue)
    BY <1>2, <2>1 DEF SendPush
  <2>3. ASSUME NEW i \in 1..Len(queue')
        PROVE  queue'[i] = accepted' - Len(queue') + i
    <3>1. i \in 1..(Len(queue) + 1)
      BY <2>1
    <3>2. CASE i = Len(queue) + 1
      BY <1>2, <2>1, <2>2, <3>2 DEF SendPush
    <3>3. CASE i \in 1..Len(queue)
      BY <2>1, <2>2, <3>3
    <3> QED
      BY <2>1, <3>1, <3>2, <3>3
  <2>4. QueueInOrder'
    BY <1>2, <2>1, <2>3 DEF SendPush
  <2>5. HandInOrder' /\ WireInOrder'
    BY <1>2, <2>2 DEF SendPush
  <2>6. Held' <=> Held
    BY <1>2 DEF SendPush
  <2>7. UpToDate'
    BY <1>2, <2>2, <2>6 DEF SendPush
  <2> HIDE DEF QueueInOrder, HandInOrder, WireInOrder, UpToDate
  <2> QED
    BY <2>4, <2>5, <2>7
<1>3. CASE SendRelease
  BY <1>3 DEF SendRelease
<1>4. CASE SenderLoop
  BY <1>4 DEF SenderLoop
<1>5. CASE SenderTest
  BY <1>5 DEF SenderTest
<1>6. CASE SenderAcquire2
  BY <1>6 DEF SenderAcquire2
<1>7. CASE SenderPop
  <2>1. CASE queue # <<>>
    <3>1. /\ Len(queue) \in Nat /\ Len(queue) > 0
          /\ Len(queue') = Len(queue) - 1
          /\ \A i \in 1..Len(queue') : queue'[i] = queue[i + 1]
          /\ msg' = queue[1]
      BY <1>7, <2>1, Popped DEF SenderPop
    <3>2. msg' = accepted' - Len(queue') /\ msg' > 0
      BY <1>7, <2>1, <3>1 DEF SenderPop
    <3>3. \A i \in 1..Len(queue') : queue'[i] = accepted' - Len(queue') + i
      BY <1>7, <2>1, <3>1 DEF SenderPop
    <3>4. ~Held /\ Held' /\ write = "none"
      BY <1>7, <2>1 DEF SenderPop
    <3>5. QueueInOrder'
      BY <1>7, <2>1, <3>1, <3>3 DEF SenderPop
    <3>6. HandInOrder' /\ WireInOrder'
      BY <1>7, <3>2, <3>4 DEF SenderPop
    <3>7. /\ Len(wire) \in Nat /\ accepted \in Nat
          /\ wire' = wire /\ accepted' = accepted /\ link' = link
      BY <1>7, LenProperties DEF SenderPop
    <3>8. link = "up" => Len(wire) = accepted - Len(queue)
      BY <3>4
    <3>9. UpToDate'
      <4> HIDE DEF IInv, TypeOK, Held
      <4>1. Len(queue) \in Nat /\ Len(queue') = Len(queue) - 1
        BY <3>1
      <4>2. link' = "up" => Len(wire') + 1 = accepted' - Len(queue')
        BY <4>1, <3>7, <3>8
      <4> QED
        BY <3>4, <4>2
    <3> HIDE DEF QueueInOrder, HandInOrder, WireInOrder, UpToDate
    <3> QED
      BY <3>5, <3>6, <3>9
  <2>2. CASE queue = <<>>
    BY <1>7, <2>2 DEF SenderPop
  <2> QED
    BY <2>1, <2>2
<1>8. CASE SenderWrite
  BY <1>8 DEF SenderWrite
<1>9. CASE SenderAcquire1
  BY <1>9 DEF SenderAcquire1
<1>10. CASE Transmit
  <2>1. Held /\ ~Held' /\ sender = "acquire1"
    BY <1>10 DEF Transmit
  <2>2. CASE link = "up"
    <3>1. buffer = Len(wire) + 1
      BY <1>10, <2>1, <2>2, LenProperties DEF Transmit
    <3>2. WireInOrder' /\ Len(wire') = Len(wire) + 1
      BY <1>10, <2>2, <3>1, Pushed DEF Transmit
    <3> QED
      BY <1>10, <2>1, <2>2, <3>1, <3>2 DEF Transmit
  <2>3. CASE link = "down"
    BY <1>10, <2>1, <2>3 DEF Transmit
  <2> QED
    BY <2>2, <2>3
<1>11. CASE PeerGone
  BY <1>11 DEF PeerGone
<1>12. CASE HandleWrite
  BY <1>12 DEF HandleWrite
<1>13. CASE CloseBegin
  BY <1>13 DEF CloseBegin
<1>14. CASE CloseStop
  BY <1>14 DEF CloseStop
<1>15. CASE CloseSocket
  BY <1>15 DEF CloseSocket
<1>16. CASE CloseJoin
  BY <1>16 DEF CloseJoin
<1>17. CASE UNCHANGED vars
  BY <1>17 DEF vars
<1> QED
  BY <1>1, <1>2, <1>3, <1>4, <1>5, <1>6, <1>7, <1>8, <1>9, <1>10, <1>11,
     <1>12, <1>13, <1>14, <1>15, <1>16, <1>17 DEF Next, Sender, Closer

\* Where releases count, the tokens and the queued messages stay one to one.
LEMMA StepTokensExact ==
  TypeOK /\ TokensBacked /\ TokensExact /\ [Next]_vars => TokensExact'
<1> SUFFICES ASSUME TypeOK, TokensBacked, TokensExact, ~saturating, [Next]_vars
             PROVE  Len(queue') = sem2' + owed' + (IF sender' = "pop" THEN 1 ELSE 0)
  <2>1. [Next]_vars => saturating' = saturating
    BY DEF Next, Sender, Closer, SendBegin, SendPush, SendRelease, SenderLoop, SenderTest,
           SenderAcquire2, SenderPop, SenderWrite, SenderAcquire1, Transmit, PeerGone,
           HandleWrite, CloseBegin, CloseStop, CloseSocket, CloseJoin, vars, settings
  <2> QED
    BY <2>1 DEF TokensExact
<1> USE DEF TypeOK, TokensBacked, TokensExact, SenderSteps, settings, sendVars, queueVars
<1>1. CASE SendBegin
  BY <1>1 DEF SendBegin
<1>2. CASE SendPush
  BY <1>2, Pushed DEF SendPush
<1>3. CASE SendRelease
  <2>1. sem2' = sem2 + 1 /\ owed' = owed - 1 /\ owed > 0
    BY <1>3 DEF SendRelease, Released
  <2> QED
    BY <1>3, <2>1 DEF SendRelease
<1>4. CASE SenderLoop
  BY <1>4 DEF SenderLoop
<1>5. CASE SenderTest
  BY <1>5 DEF SenderTest
<1>6. CASE SenderAcquire2
  BY <1>6 DEF SenderAcquire2
<1>7. CASE SenderPop
  <2>1. queue # <<>>
    <3>1. Len(queue) > 0
      BY <1>7 DEF SenderPop
    <3> QED
      BY <3>1, EmptySeq
  <2>2. Len(queue) \in Nat /\ Len(Tail(queue)) = Len(queue) - 1
    BY <2>1, Popped
  <2> QED
    BY <1>7, <2>1, <2>2 DEF SenderPop
<1>8. CASE SenderWrite
  BY <1>8 DEF SenderWrite
<1>9. CASE SenderAcquire1
  BY <1>9 DEF SenderAcquire1
<1>10. CASE Transmit \/ PeerGone \/ HandleWrite
  BY <1>10 DEF Transmit, PeerGone, HandleWrite
<1>11. CASE CloseBegin \/ CloseStop \/ CloseSocket \/ CloseJoin
  BY <1>11 DEF CloseBegin, CloseStop, CloseSocket, CloseJoin
<1>12. CASE UNCHANGED vars
  BY <1>12 DEF vars
<1> QED
  BY <1>1, <1>2, <1>3, <1>4, <1>5, <1>6, <1>7, <1>8, <1>9, <1>10, <1>11, <1>12
     DEF Next, Sender, Closer

\* Only close resets m_running, and only then the sender leaves its loop.
LEMMA StepStopped ==
  TypeOK /\ StoppedByClose /\ [Next]_vars => StoppedByClose'
<1> SUFFICES ASSUME TypeOK, StoppedByClose, [Next]_vars PROVE StoppedByClose'
  OBVIOUS
<1> USE DEF TypeOK, StoppedByClose, CloserSteps, settings, sendVars, queueVars
<1>1. CASE SendBegin \/ SendPush \/ SendRelease
  BY <1>1 DEF SendBegin, SendPush, SendRelease
<1>2. CASE SenderLoop
  BY <1>2 DEF SenderLoop
<1>3. CASE SenderTest \/ SenderAcquire2
  BY <1>3 DEF SenderTest, SenderAcquire2
<1>4. CASE SenderPop
  BY <1>4 DEF SenderPop
<1>5. CASE SenderWrite \/ SenderAcquire1
  BY <1>5 DEF SenderWrite, SenderAcquire1
<1>6. CASE Transmit \/ PeerGone \/ HandleWrite
  BY <1>6 DEF Transmit, PeerGone, HandleWrite
<1>7. CASE CloseBegin
  BY <1>7 DEF CloseBegin
<1>8. CASE CloseStop
  BY <1>8 DEF CloseStop
<1>9. CASE CloseSocket
  BY <1>9 DEF CloseSocket
<1>10. CASE CloseJoin
  BY <1>10 DEF CloseJoin
<1>11. CASE UNCHANGED vars
  BY <1>11 DEF vars
<1> QED
  BY <1>1, <1>2, <1>3, <1>4, <1>5, <1>6, <1>7, <1>8, <1>9, <1>10, <1>11
     DEF Next, Sender, Closer

-----------------------------------------------------------------------------
\* The inductive invariant holds in every behaviour.
THEOREM Invariance == Spec => []IInv
<1>1. IInv /\ [Next]_vars => IInv'
  BY StepTypeOK, StepTokensBacked, StepOneWrite, StepInOrder, StepTokensExact, StepStopped
     DEF IInv
<1> QED
  BY InitIInv, <1>1, PTL DEF Spec

\* Every variable keeps its type: no queue length and no semaphore ever goes
\* below zero.
THEOREM TypeCorrect == Spec => []TypeOK
<1>1. IInv => TypeOK
  BY DEF IInv
<1> QED
  BY Invariance, <1>1, PTL

\* start_send never copies into m_send_buffer while an async_write reads it.
THEOREM BufferFree == Spec => []SendBufferFree
<1>1. IInv => SendBufferFree
  BY DEF IInv, OneWrite, SendBufferFree
<1> QED
  BY Invariance, <1>1, PTL

\* A sender thread woken by semaphore 2 always finds a message.
THEOREM WakeupHasMessage == Spec => []WakeupFindsMessage
<1>1. IInv => WakeupFindsMessage
  <2> SUFFICES ASSUME IInv, sender = "pop" PROVE queue # <<>>
    BY DEF WakeupFindsMessage
  <2>1. Len(queue) >= sem2 + owed + 1
    BY DEF IInv, TokensBacked
  <2>2. Len(queue) > 0
    BY <2>1 DEF IInv, TypeOK
  <2> QED
    BY <2>2, EmptySeq
<1> QED
  BY Invariance, <1>1, PTL

\* The sender waits on semaphore 1 for a write that exists, or was stopped.
THEOREM WaitIsBacked == Spec => []WaitsForRealWrite
<1>1. IInv => WaitsForRealWrite
  BY DEF IInv, TypeOK, OneWrite, WaitsForRealWrite
<1> QED
  BY Invariance, <1>1, PTL

\* The client receives the messages in the order of the pushes, without gaps.
THEOREM DeliveredInOrder == Spec => []WireInOrder
<1>1. IInv => WireInOrder
  BY DEF IInv, InOrder
<1> QED
  BY Invariance, <1>1, PTL

\* When nothing goes on by itself any more and close has not stopped the connection,
\* its sender waits for a message and, where semaphores count, the client has been
\* sent everything: no wakeup is lost and no wait is for a write nobody issued.
THEOREM RestIsDelivered == Spec => []RestsDelivered
<1>1. IInv => RestsDelivered
  <2> SUFFICES ASSUME IInv, AtRest, running
               PROVE  /\ sender = "acquire2"
                      /\ ~saturating /\ link = "up" => Len(wire) = accepted
    BY DEF RestsDelivered
  <2>1. closer = "idle" /\ IoFree
    BY DEF IInv, AtRest, StoppedByClose, TypeOK, CloserSteps, IoFree
  <2>2. write = "none"
    BY <2>1 DEF AtRest, IInv, TypeOK
  <2>3. sender = "acquire2" /\ sem2 = 0
    BY <2>2 DEF AtRest, IInv, OneWrite, StoppedByClose
  <2>4. ASSUME ~saturating, link = "up" PROVE Len(wire) = accepted
    <3>1. Len(queue) = 0
      BY <2>3, <2>4 DEF AtRest, IInv, TokensExact
    <3>2. Len(wire) = accepted - Len(queue)
      BY <2>2, <2>3, <2>4 DEF IInv, InOrder, UpToDate, Held
    <3> QED
      BY <3>1, <3>2 DEF IInv, TypeOK
  <2> QED
    BY <2>3, <2>4
<1> QED
  BY Invariance, <1>1, PTL

\* While close stops the sender, a sender that has a step to come which ends its loop
\* goes on having one until it has ended.
THEOREM WakesUntilDone == Spec => WakeIsKept
<1> DEFINE Kept == closer \in {"shut", "join"} /\ SenderWillWake =>
                     SenderWillWake' \/ sender' = "done"
<1>1. IInv /\ [Next]_vars => Kept
  <2> SUFFICES ASSUME IInv, [Next]_vars, closer \in {"shut", "join"}, SenderWillWake
               PROVE  SenderWillWake' \/ sender' = "done"
    OBVIOUS
  <2>1. ~running
    BY DEF IInv, StoppedByClose
  <2> USE <2>1 DEF SenderWillWake, settings, sendVars, queueVars
  <2>2. CASE SendBegin \/ SendPush
    BY <2>2 DEF SendBegin, SendPush
  <2>3. CASE SendRelease
    <3>1. sem2 > 0 => sem2' > 0
      BY <2>3 DEF SendRelease, Released, IInv, TypeOK
    <3> QED
      BY <2>3, <3>1 DEF SendRelease
  <2>4. CASE SenderLoop
    BY <2>4 DEF SenderLoop
  <2>5. CASE SenderTest
    BY <2>5 DEF SenderTest
  <2>6. CASE SenderAcquire2
    BY <2>6 DEF SenderAcquire2
  <2>7. CASE SenderPop
    <3>1. queue # <<>>
      <4>1. Len(queue) > 0
        BY <2>7 DEF SenderPop, IInv, TypeOK, TokensBacked
      <4> QED
        BY <4>1, EmptySeq
    <3> QED
      BY <2>7, <3>1 DEF SenderPop
  <2>8. CASE SenderWrite
    BY <2>8 DEF SenderWrite
  <2>9. CASE SenderAcquire1
    BY <2>9 DEF SenderAcquire1
  <2>10. CASE Transmit
    BY <2>10 DEF Transmit
  <2>11. CASE PeerGone
    BY <2>11 DEF PeerGone
  <2>12. CASE HandleWrite
    <3>1. sender = "acquire1" /\ sem1 = 0
      BY <2>12 DEF HandleWrite, IInv, OneWrite, TypeOK
    <3>2. sem1' = 1 /\ sender' = sender
      BY <2>12, <3>1 DEF HandleWrite, Released
    <3> QED
      BY <3>1, <3>2
  <2>13. CASE CloseBegin \/ CloseStop \/ CloseSocket \/ CloseJoin
    BY <2>13 DEF CloseBegin, CloseStop, CloseSocket, CloseJoin
  <2>14. CASE UNCHANGED vars
    BY <2>14 DEF vars
  <2> QED
    BY <2>2, <2>3, <2>4, <2>5, <2>6, <2>7, <2>8, <2>9, <2>10, <2>11, <2>12, <2>13, <2>14
       DEF Next, Sender, Closer
<1>2. IInv /\ [Next]_vars => [Kept]_vars
  BY <1>1
<1> QED
  BY Invariance, <1>2, PTL DEF Spec, WakeIsKept

-----------------------------------------------------------------------------
\* A connection starts as an empty channel that is up.
LEMMA InitChannel == Init => Channel!Init
<1> SUFFICES ASSUME Init PROVE Channel!Init
  OBVIOUS
<1>1. InHand = <<>> /\ queue = <<>>
  BY DEF Init, InHand
<1>2. InHand \o queue = <<>>
  BY <1>1, EmptySeq, ConcatEmptySeq
<1> QED
  BY <1>2 DEF Channel!Init, Init

\* Every step of a thread is a step of the channel or leaves it unchanged.
LEMMA StepChannel ==
  IInv /\ IInv' /\ [Next]_vars => [Channel!Next]_(Channel!channelVars)
<1> SUFFICES ASSUME IInv, IInv', [Next]_vars
             PROVE  [Channel!Next]_(Channel!channelVars)
  OBVIOUS
<1> USE DEF Channel!channelVars, settings, sendVars, queueVars
<1>0. /\ queue \in Seq(Nat) /\ InHand \in Seq(Nat) /\ accepted \in Nat
      /\ queue' \in Seq(Nat)
  BY DEF IInv, TypeOK, InHand
<1>1. CASE SendBegin
  BY <1>1 DEF SendBegin, InHand, IInv, OneWrite
<1>2. CASE SendPush
  <2>1. InHand' = InHand /\ queue' = Append(queue, accepted + 1)
    BY <1>2 DEF SendPush, InHand
  <2>2. InHand \o Append(queue, accepted + 1)
          = Append(InHand \o queue, accepted + 1)
    BY <1>0
  <2>3. Channel!Accept
    BY <1>2, <2>1, <2>2 DEF SendPush, Channel!Accept
  <2> QED
    BY <2>3 DEF Channel!Next
<1>3. CASE SendRelease
  BY <1>3 DEF SendRelease, InHand, IInv, OneWrite
<1>4. CASE SenderLoop
  BY <1>4 DEF SenderLoop, InHand, IInv, OneWrite
<1>5. CASE SenderTest
  BY <1>5 DEF SenderTest, InHand, IInv, OneWrite
<1>6. CASE SenderAcquire2
  BY <1>6 DEF SenderAcquire2, InHand, IInv, OneWrite
<1>7. CASE SenderPop
  <2>1. CASE queue # <<>>
    <3>1. InHand = <<>> /\ InHand' = <<Head(queue)>> /\ queue' = Tail(queue)
      BY <1>7, <2>1 DEF SenderPop, InHand, IInv, OneWrite
    <3>2. <<Head(queue)>> \o Tail(queue) = <<>> \o queue
      BY <1>0, <2>1
    <3> QED
      BY <1>7, <3>1, <3>2 DEF SenderPop
  <2>2. CASE queue = <<>>
    BY <1>7, <2>2 DEF SenderPop, InHand
  <2> QED
    BY <2>1, <2>2
<1>8. CASE SenderWrite
  <2>1. InHand' = InHand
    BY <1>8 DEF SenderWrite, InHand
  <2> QED
    BY <1>8, <2>1 DEF SenderWrite
<1>9. CASE SenderAcquire1
  BY <1>9 DEF SenderAcquire1, InHand, IInv, OneWrite
<1>10. CASE Transmit
  <2>1. InHand = <<buffer>> /\ InHand' = <<>> /\ buffer \in Nat
    BY <1>10 DEF Transmit, InHand, IInv, TypeOK, OneWrite
  <2>2. /\ <<buffer>> \o queue # <<>>
        /\ Head(<<buffer>> \o queue) = buffer
        /\ Tail(<<buffer>> \o queue) = <<>> \o queue
    BY <1>0, <2>1
  <2>3. CASE link = "up"
    <3>1. Channel!Deliver
      BY <1>10, <2>1, <2>2, <2>3 DEF Transmit, Channel!Deliver
    <3> QED
      BY <3>1 DEF Channel!Next
  <2>4. CASE link # "up"
    <3>1. Channel!Lose
      BY <1>10, <2>1, <2>2, <2>4 DEF Transmit, Channel!Lose
    <3> QED
      BY <3>1 DEF Channel!Next
  <2> QED
    BY <2>3, <2>4
<1>11. CASE PeerGone
  <2>1. Channel!Fail
    BY <1>11 DEF PeerGone, Channel!Fail, InHand
  <2> QED
    BY <2>1 DEF Channel!Next
<1>12. CASE HandleWrite
  BY <1>12 DEF HandleWrite, InHand, IInv, OneWrite
<1>13. CASE CloseBegin
  BY <1>13 DEF CloseBegin, InHand, IInv, OneWrite
<1>14. CASE CloseStop
  BY <1>14 DEF CloseStop, InHand, IInv, OneWrite
<1>15. CASE CloseSocket
  <2>1. CASE link = "up"
    <3>1. Channel!Fail
      BY <1>15, <2>1 DEF CloseSocket, Channel!Fail, InHand
    <3> QED
      BY <3>1 DEF Channel!Next
  <2>2. CASE link # "up"
    BY <1>15, <2>2 DEF CloseSocket, InHand, IInv, TypeOK
  <2> QED
    BY <2>1, <2>2
<1>16. CASE CloseJoin
  BY <1>16 DEF CloseJoin, InHand, IInv, OneWrite
<1>17. CASE UNCHANGED vars
  BY <1>17 DEF vars, InHand
<1> QED
  BY <1>1, <1>2, <1>3, <1>4, <1>5, <1>6, <1>7, <1>8,
     <1>9, <1>10, <1>11, <1>12, <1>13, <1>14, <1>15, <1>16, <1>17
     DEF Next, Sender, Closer

\* The connection implements the channel its callers rely on: in order, no
\* message twice, none skipped until the link fails.
THEOREM ImplementsChannel == Spec => ChannelSpec
<1>1. Init => Channel!Init
  BY InitChannel
<1>2. IInv /\ IInv' /\ [Next]_vars => [Channel!Next]_(Channel!channelVars)
  BY StepChannel
<1> QED
  BY Invariance, <1>1, <1>2, PTL DEF Spec, ChannelSpec, Channel!Spec
=============================================================================
