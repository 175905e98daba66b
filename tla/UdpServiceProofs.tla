-------------------------- MODULE UdpServiceProofs --------------------------
(***************************************************************************)
(* Proofs about UdpService: for any set of connections and any number of   *)
(* datagrams, only a run() before the first connection stops the service,  *)
(* a stopped service is mute, and a connection that is served always has a *)
(* step to come for what is left to do.                                    *)
(***************************************************************************)
EXTENDS UdpService, TLAPS

\* The types the argument needs.
Typed ==
  /\ stopped \in BOOLEAN
  /\ conn \in [Connections -> {"none", "open", "stopping", "joining", "closed"}]
  /\ recv \in [Connections -> {"none", "armed"}]
  /\ got \in [Connections -> Nat]
  /\ queue \in [Connections -> Nat]
  /\ sem1 \in [Connections -> Nat] /\ sem2 \in [Connections -> Nat]
  /\ sender \in [Connections -> SenderSteps]
  /\ write \in [Connections -> {"none", "done"}]
  /\ sent \in [Connections -> Nat]

\* Before its creation a connection has done nothing, and nobody runs for it.
Unborn(c) ==
  conn[c] = "none" =>
    /\ recv[c] = "none" /\ got[c] = 0
    /\ sender[c] = "none" /\ write[c] = "none" /\ sem1[c] = 0 /\ sent[c] = 0
    /\ queue[c] = 0 /\ sem2[c] = 0

\* From then on its receive is armed for ever.
Listening(c) == conn[c] # "none" => recv[c] = "armed"

\* On a stopped service a sender that has sent waits for a completion.
Waiting(c) ==
  stopped =>
    /\ got[c] = 0 /\ sem1[c] = 0
    /\ sent[c] = 0 \/ (sent[c] = 1 /\ sender[c] = "acquire1")

\* Tokens of semaphore 2, and a sender that has taken one, are backed by datagrams
\* in the queue. A release that loses tokens makes this an inequality.
Backed(c) == queue[c] >= sem2[c] + (IF sender[c] = "pop" THEN 1 ELSE 0)

\* Semaphore 1 and the send begun are one permit between the sender and the service.
OneSend(c) ==
  /\ sender[c] # "acquire1" => write[c] = "none" /\ sem1[c] = 0
  /\ sender[c] = "acquire1" =>
       \/ write[c] = "done" /\ sem1[c] = 0
       \/ write[c] = "none" /\ sem1[c] = 1
       \/ write[c] = "none" /\ sem1[c] = 0 /\ ~Running(c)

\* The sender of an open connection goes round its loop.
Looping(c) == Running(c) => sender[c] \notin {"none", "done"}

Sending(c) == Backed(c) /\ OneSend(c) /\ Looping(c)

Inv == \A c \in Connections : Unborn(c) /\ Listening(c) /\ Waiting(c) /\ Sending(c)

IInv == Typed /\ Inv

-----------------------------------------------------------------------------
\* The service stops only while no connection has been created.
LEMMA RunEmptyKeeps == IInv /\ RunEmpty => IInv'
<1> SUFFICES ASSUME IInv, RunEmpty PROVE IInv'
  OBVIOUS
<1> USE DEF IInv, Typed, Inv, RunEmpty, recvVars, sendVars
<1>1. Typed'
  OBVIOUS
<1>2. ASSUME NEW c \in Connections PROVE (Unborn(c) /\ Listening(c) /\ Waiting(c) /\ Sending(c))'
  <2>1. conn[c] = "none"
    BY DEF Listening
  <2> QED
    BY <2>1 DEF Unborn, Listening, Waiting, Sending, Backed, OneSend, Looping, Running
<1> QED
  BY <1>1, <1>2

\* The handlers of the service, which run only while it is up.
LEMMA HandlersKeep ==
  ASSUME NEW d \in Connections, Receiver(d) \/ HandleSend(d), IInv
  PROVE  IInv'
<1> USE DEF IInv, Typed, Inv, Unborn, Listening, Waiting, Sending,
            Backed, OneSend, Looping, Running, serviceVars, sendVars, recvVars
<1>1. CASE HandleReceive(d)
  BY <1>1 DEF HandleReceive, Received, ServiceUp
<1>2. CASE HandleError(d)
  BY <1>2 DEF HandleError, Received, ServiceUp
<1>3. CASE HandleSend(d)
  BY <1>3 DEF HandleSend, ServiceUp, Released
<1> QED
  BY <1>1, <1>2, <1>3 DEF Receiver

\* The sender thread: it gets past its completion only with a token.
LEMMA SenderKeeps ==
  ASSUME NEW d \in Connections, Sender(d), IInv
  PROVE  IInv'
<1> USE DEF IInv, Typed, Inv, Unborn, Listening, Waiting, Sending,
            Backed, OneSend, Looping, Running, serviceVars, recvVars,
            SenderMoves, SenderSteps
<1>1. CASE SenderTests(d)
  BY <1>1 DEF SenderTests
<1>2. CASE SenderAcquires2(d)
  BY <1>2 DEF SenderAcquires2
<1>3. CASE SenderPops(d)
  BY <1>3 DEF SenderPops
<1>4. CASE SenderAcquires1(d)
  BY <1>4 DEF SenderAcquires1
<1> QED
  BY <1>1, <1>2, <1>3, <1>4 DEF Sender

\* The other threads, and the client.
LEMMA OthersKeep ==
  ASSUME NEW d \in Connections, IInv,
         \/ Create(d) \/ CreateClashes(d) \/ Send(d)
         \/ CloseBegins(d) \/ CloseSocket(d) \/ CloseJoins(d)
         \/ \E what \in {"data", "error"} : Arrive(d, what)
  PROVE  IInv'
<1> USE DEF IInv, Typed, Inv, Unborn, Listening, Waiting, Sending,
            Backed, OneSend, Looping, Running, serviceVars, recvVars, sendVars
<1>1. CASE Create(d)
  BY <1>1 DEF Create, SenderSteps
<1>2. CASE CreateClashes(d)
  BY <1>2 DEF CreateClashes
<1>3. CASE Send(d)
  <2>1. /\ sem2'[d] \in Nat /\ sem2'[d] <= sem2[d] + 1
        /\ queue'[d] = queue[d] + 1
        /\ sem2' \in [Connections -> Nat]
        /\ \A c \in Connections \ {d} : sem2'[c] = sem2[c] /\ queue'[c] = queue[c]
    BY <1>3 DEF Send, Released
  <2> QED
    BY <1>3, <2>1 DEF Send
<1>4. CASE CloseBegins(d)
  BY <1>4 DEF CloseBegins
<1>5. CASE CloseSocket(d)
  BY <1>5 DEF CloseSocket
<1>6. CASE CloseJoins(d)
  BY <1>6 DEF CloseJoins
<1>7. CASE \E what \in {"data", "error"} : Arrive(d, what)
  BY <1>7 DEF Arrive
<1> QED
  BY <1>1, <1>2, <1>3, <1>4, <1>5, <1>6, <1>7

\* The inductive invariant: a connection listens for ever from its creation on,
\* so the service can only have stopped before, and what comes after a stop ends
\* in the wait for the first completion.
THEOREM UdpInvariance == Spec => []IInv
<1>1. Init => IInv
  <2> SUFFICES ASSUME Init PROVE Typed /\ Inv
    BY DEF IInv
  <2>1. Typed
    BY DEF Init, Zero, Typed, SenderSteps
  <2>2. Inv
    <3> SUFFICES ASSUME NEW c \in Connections
                 PROVE  Unborn(c) /\ Listening(c) /\ Waiting(c) /\ Sending(c)
      BY DEF Inv
    <3>1. /\ conn[c] = "none" /\ recv[c] = "none" /\ got[c] = 0 /\ queue[c] = 0
          /\ sem1[c] = 0 /\ sem2[c] = 0 /\ sender[c] = "none" /\ write[c] = "none"
          /\ sent[c] = 0
      BY DEF Init, Zero
    <3> QED
      BY <3>1 DEF Unborn, Listening, Waiting, Sending, Backed, OneSend, Looping, Running
  <2> QED
    BY <2>1, <2>2
<1>2. IInv /\ [Next]_vars => IInv'
  <2> SUFFICES ASSUME IInv, [Next]_vars PROVE IInv'
    OBVIOUS
  <2>1. CASE RunEmpty
    BY <2>1, RunEmptyKeeps
  <2>2. ASSUME NEW c \in Connections, Receiver(c) \/ HandleSend(c) PROVE IInv'
    BY <2>2, HandlersKeep
  <2>3. ASSUME NEW c \in Connections, Sender(c) PROVE IInv'
    BY <2>3, SenderKeeps
  <2>4. ASSUME NEW c \in Connections,
               \/ Create(c) \/ CreateClashes(c) \/ Send(c)
               \/ CloseBegins(c) \/ CloseSocket(c) \/ CloseJoins(c)
               \/ \E what \in {"data", "error"} : Arrive(c, what)
        PROVE  IInv'
    BY <2>4, OthersKeep
  <2>5. CASE UNCHANGED vars
    BY <2>5 DEF vars, serviceVars, recvVars, sendVars, IInv, Typed, Inv, Unborn,
                Listening, Waiting, Sending, Backed, OneSend, Looping, Running
  <2> QED
    BY <2>1, <2>2, <2>3, <2>4, <2>5 DEF Next
<1> QED
  BY <1>1, <1>2, PTL DEF Spec

\* On a stopped service no datagram is handled, and one leaves per connection:
\* udp_main_server::RunService before the first EnableUdp, and never later.
THEOREM StoppedStaysMute == Spec => []StoppedIsMute
<1>1. IInv => StoppedIsMute
  <2> SUFFICES ASSUME IInv, stopped, NEW c \in Connections
               PROVE  got[c] = 0 /\ sent[c] <= 1
    BY DEF StoppedIsMute
  <2>1. got[c] = 0 /\ (sent[c] = 0 \/ sent[c] = 1)
    BY DEF IInv, Inv, Waiting
  <2> QED
    BY <2>1
<1> QED
  BY <1>1, UdpInvariance, PTL

\* While the service is up a connection never rests with work left: the receive is armed
\* on every path of handle_receive, and start_send's early return on an empty queue,
\* after which RunSend would wait for a send nobody began, is not taken.
THEOREM ServedKeepsGoing == Spec => []ServedGoesOn
<1>1. IInv => ServedGoesOn
  <2> SUFFICES ASSUME IInv, NEW c \in Connections, Served(c)
               PROVE  /\ recv[c] = "armed"
                      /\ sem2[c] <= queue[c]
                      /\ sender[c] \notin {"none", "done"}
                      /\ sender[c] = "pop" => queue[c] > 0
                      /\ sender[c] = "acquire1" => write[c] = "done" \/ sem1[c] > 0
    BY DEF ServedGoesOn
  <2>1. Running(c) /\ conn[c] # "none"
    BY DEF Served, Running
  <2>2. recv[c] = "armed"
    BY <2>1 DEF IInv, Inv, Listening
  <2>3. sem2[c] <= queue[c] /\ (sender[c] = "pop" => queue[c] > 0)
    BY DEF IInv, Typed, Inv, Sending, Backed
  <2>4. sender[c] \notin {"none", "done"}
    BY <2>1 DEF IInv, Inv, Sending, Looping
  <2>5. sender[c] = "acquire1" => write[c] = "done" \/ sem1[c] > 0
    BY <2>1 DEF IInv, Inv, Sending, OneSend
  <2> QED
    BY <2>2, <2>3, <2>4, <2>5
<1> QED
  BY <1>1, UdpInvariance, PTL
=============================================================================
