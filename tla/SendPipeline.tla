---------------------------- MODULE SendPipeline ----------------------------
(***************************************************************************)
(* The sending half of one client connection: SocketUser::Send,            *)
(* tcp_connection::Send, the connection's own sender thread (RunSend and   *)
(* start_send), the completion handler handle_write on the io thread, and  *)
(* SocketUser::Close with tcp_connection::close, which joins the sender.   *)
(*                                                                         *)
(* Sending threads (the main loop, the match thread, the io thread) are    *)
(* counted, not named: `admitted' of them have read Connected as true and  *)
(* not pushed yet, `owed' have pushed and not yet released semaphore 2.    *)
(* A message is named by its place in the order of the pushes.             *)
(* udp_connection has the same structure on a socket and semaphores of its *)
(* own.                                                                    *)
(***************************************************************************)
EXTENDS Naturals, Sequences

CONSTANTS
  MaxMessages,  \* bound: messages pushed in a behaviour
  MaxThreads    \* bound: threads inside Send at the same time

ASSUME PipelineAssumption ==
  /\ MaxMessages \in Nat
  /\ MaxThreads \in Nat

VARIABLES
  saturating, \* chosen at the start: release() of a full binary_semaphore leaves
              \* it at one (MSVC stores 1); FALSE: it counts on (libstdc++ adds 1)
  closeOnIo,  \* chosen at the start: Close is called by the io thread
              \* (handle_read, reset peer) and not by the main loop
  connected,  \* SocketUser::Connected
  admitted,   \* threads between the Connected test and the push
  owed,       \* threads between the push and the release of semaphore 2
  accepted,   \* pushes so far
  queue,      \* m_send_messages
  queueLen,   \* m_send_queue_len
  sem1,       \* m_sends_semaphore_1: a write has completed
  sem2,       \* m_sends_semaphore_2: a message has been queued
  running,    \* m_running
  sender,     \* program counter of m_thread_sends
  msg,        \* the local `msg' of start_send
  buffer,     \* m_send_buffer
  write,      \* the outstanding async_write: none, issued, ended
  link,       \* whether a write on the socket can still succeed
  wire,       \* what the socket has transmitted
  closer      \* program counter of the thread that calls Close

settings  == <<saturating, closeOnIo>>
sendVars  == <<admitted, owed>>
queueVars == <<accepted, queue, queueLen>>
vars == <<settings, connected, sendVars, queueVars, sem1, sem2, running, sender, msg,
          buffer, write, link, wire, closer>>

SenderSteps == {"loop", "test", "acquire2", "pop", "write", "acquire1", "done"}
CloserSteps == {"idle", "stop", "shut", "join", "closed"}

TypeOK ==
  /\ saturating \in BOOLEAN /\ closeOnIo \in BOOLEAN
  /\ connected \in BOOLEAN
  /\ admitted \in Nat /\ owed \in Nat /\ accepted \in Nat
  /\ queue \in Seq(Nat)
  /\ queueLen \in Nat
  /\ sem1 \in Nat /\ sem2 \in Nat
  /\ running \in BOOLEAN
  /\ sender \in SenderSteps
  /\ msg \in Nat /\ buffer \in Nat
  /\ write \in {"none", "issued", "ended"}
  /\ link \in {"up", "down"}
  /\ wire \in Seq(Nat)
  /\ closer \in CloserSteps

\* Mutant of Released: a full semaphore drops the token in every library.
ReleasedDropping(s) == 1

\* What std::binary_semaphore::release leaves in a semaphore that holds s.
\* Releasing a full one is undefined; the two libraries differ.
Released(s) == IF saturating /\ s >= 1 THEN s ELSE s + 1

Init ==
  /\ saturating \in BOOLEAN /\ closeOnIo \in BOOLEAN
  /\ connected = TRUE
  /\ admitted = 0 /\ owed = 0 /\ accepted = 0
  /\ queue = <<>> /\ queueLen = 0
  /\ sem1 = 0 /\ sem2 = 0
  /\ running = TRUE
  /\ sender = "loop"
  /\ msg = 0 /\ buffer = 0
  /\ write = "none"
  /\ link = "up"
  /\ wire = <<>>
  /\ closer = "idle"

-----------------------------------------------------------------------------
(* Any thread that sends.                                                  *)

\* SocketUser::Send and DoSendTcp: the Connected test, made without a lock.
SendBegin ==
  /\ connected
  /\ admitted + owed < MaxThreads
  /\ accepted + admitted < MaxMessages
  /\ admitted' = admitted + 1
  /\ UNCHANGED <<settings, connected, owed, queueVars, sem1, sem2, running,
                 sender, msg, buffer, write, link, wire, closer>>

\* Mutant of SendPush: the message is put at the end that is popped.
SendPushFront ==
  /\ admitted > 0
  /\ admitted' = admitted - 1
  /\ owed' = owed + 1
  /\ accepted' = accepted + 1
  /\ queue' = <<accepted'>> \o queue
  /\ queueLen' = queueLen + 1
  /\ UNCHANGED <<settings, connected, sem1, sem2, running, sender, msg, buffer,
                 write, link, wire, closer>>

\* tcp_connection::Send, the part under m_send_lock.
SendPush ==
  /\ admitted > 0
  /\ admitted' = admitted - 1
  /\ owed' = owed + 1
  /\ accepted' = accepted + 1
  /\ queue' = Append(queue, accepted')
  /\ queueLen' = queueLen + 1
  /\ UNCHANGED <<settings, connected, sem1, sem2, running, sender, msg, buffer,
                 write, link, wire, closer>>

\* tcp_connection::Send: the release after the unlock.
SendRelease ==
  /\ owed > 0
  /\ owed' = owed - 1
  /\ sem2' = Released(sem2)
  /\ UNCHANGED <<settings, connected, admitted, queueVars, sem1, running,
                 sender, msg, buffer, write, link, wire, closer>>

-----------------------------------------------------------------------------
(* The sender thread.                                                      *)

\* RunSend: while (m_running).
SenderLoop ==
  /\ sender = "loop"
  /\ sender' = IF running THEN "test" ELSE "done"
  /\ UNCHANGED <<settings, connected, sendVars, queueVars, sem1, sem2, running,
                 msg, buffer, write, link, wire, closer>>

\* start_send: the second test of m_running. Its early return goes on to the
\* acquire of semaphore 1 in RunSend.
SenderTest ==
  /\ sender = "test"
  /\ sender' = IF running THEN "acquire2" ELSE "acquire1"
  /\ UNCHANGED <<settings, connected, sendVars, queueVars, sem1, sem2, running,
                 msg, buffer, write, link, wire, closer>>

\* start_send: m_sends_semaphore_2.acquire().
SenderAcquire2 ==
  /\ sender = "acquire2"
  /\ sem2 > 0
  /\ sem2' = sem2 - 1
  /\ sender' = "pop"
  /\ UNCHANGED <<settings, connected, sendVars, queueVars, sem1, running, msg,
                 buffer, write, link, wire, closer>>

\* Mutant of SenderPop: the test of the queue length is off by one.
SenderPopOffByOne ==
  /\ sender = "pop"
  /\ IF queueLen > 1
     THEN /\ msg' = Head(queue)
          /\ queue' = Tail(queue)
          /\ queueLen' = queueLen - 1
          /\ sender' = "write"
     ELSE /\ sender' = "acquire1"
          /\ UNCHANGED <<msg, queue, queueLen>>
  /\ UNCHANGED <<settings, connected, sendVars, accepted, sem1, sem2, running,
                 buffer, write, link, wire, closer>>

\* start_send: the critical section on m_send_messages. When the queue is
\* empty it returns, again to the acquire of semaphore 1.
SenderPop ==
  /\ sender = "pop"
  /\ IF queue # <<>>
     THEN /\ msg' = Head(queue)
          /\ queue' = Tail(queue)
          /\ queueLen' = queueLen - 1
          /\ sender' = "write"
     ELSE /\ sender' = "acquire1"
          /\ UNCHANGED <<msg, queue, queueLen>>
  /\ UNCHANGED <<settings, connected, sendVars, accepted, sem1, sem2, running,
                 buffer, write, link, wire, closer>>

\* Mutant of SenderWrite: RunSend goes round without waiting for the write.
SenderWriteNoWait ==
  /\ sender = "write"
  /\ buffer' = msg
  /\ write' = "issued"
  /\ sender' = "loop"
  /\ UNCHANGED <<settings, connected, sendVars, queueVars, sem1, sem2, running,
                 msg, link, wire, closer>>

\* start_send: memcpy into m_send_buffer, then async_write from it.
SenderWrite ==
  /\ sender = "write"
  /\ buffer' = msg
  /\ write' = "issued"
  /\ sender' = "acquire1"
  /\ UNCHANGED <<settings, connected, sendVars, queueVars, sem1, sem2, running,
                 msg, link, wire, closer>>

\* RunSend: m_sends_semaphore_1.acquire().
SenderAcquire1 ==
  /\ sender = "acquire1"
  /\ sem1 > 0
  /\ sem1' = sem1 - 1
  /\ sender' = "loop"
  /\ UNCHANGED <<settings, connected, sendVars, queueVars, sem2, running, msg,
                 buffer, write, link, wire, closer>>

-----------------------------------------------------------------------------
(* Boost.Asio and the peer.                                                *)

\* Mutant of Transmit: a write still goes out on a socket that is gone.
TransmitAlways ==
  /\ write = "issued"
  /\ write' = "ended"
  /\ wire' = Append(wire, buffer)
  /\ UNCHANGED <<settings, connected, sendVars, queueVars, sem1, sem2, running,
                 sender, msg, buffer, link, closer>>

\* The outstanding async_write ends: transmitted, or failed with the socket.
\* The bytes are those of m_send_buffer at this moment.
Transmit ==
  /\ write = "issued"
  /\ write' = "ended"
  /\ wire' = IF link = "up" THEN Append(wire, buffer) ELSE wire
  /\ UNCHANGED <<settings, connected, sendVars, queueVars, sem1, sem2, running,
                 sender, msg, buffer, link, closer>>

\* The peer goes away; writes fail from here on.
PeerGone ==
  /\ link = "up"
  /\ link' = "down"
  /\ UNCHANGED <<settings, connected, sendVars, queueVars, sem1, sem2, running,
                 sender, msg, buffer, write, wire, closer>>

\* The only thread of the TCP io_service is free to run handlers.
IoFree == closeOnIo => closer \in {"idle", "closed"}

\* Mutant of HandleWrite: it returns on an error without the release.
HandleWriteIfOk ==
  /\ write = "ended"
  /\ IoFree
  /\ write' = "none"
  /\ sem1' = IF link = "up" THEN Released(sem1) ELSE sem1
  /\ UNCHANGED <<settings, connected, sendVars, queueVars, sem2, running,
                 sender, msg, buffer, link, wire, closer>>

\* tcp_connection::handle_write. The error code is ignored.
HandleWrite ==
  /\ write = "ended"
  /\ IoFree
  /\ write' = "none"
  /\ sem1' = Released(sem1)
  /\ UNCHANGED <<settings, connected, sendVars, queueVars, sem2, running,
                 sender, msg, buffer, link, wire, closer>>

-----------------------------------------------------------------------------
(* The thread that closes the connection.                                  *)

\* SocketUser::Close: the test and reset of Connected.
CloseBegin ==
  /\ closer = "idle"
  /\ connected
  /\ connected' = FALSE
  /\ closer' = "stop"
  /\ UNCHANGED <<settings, sendVars, queueVars, sem1, sem2, running, sender,
                 msg, buffer, write, link, wire>>

\* Mutant of CloseStop: m_running is left set.
CloseStopForgets ==
  /\ closer = "stop"
  /\ closer' = "shut"
  /\ UNCHANGED <<settings, connected, sendVars, queueVars, sem1, sem2, running,
                 sender, msg, buffer, write, link, wire>>

\* tcp_connection::close: m_running = false.
CloseStop ==
  /\ closer = "stop"
  /\ running' = FALSE
  /\ closer' = "shut"
  /\ UNCHANGED <<settings, connected, sendVars, queueVars, sem1, sem2, sender,
                 msg, buffer, write, link, wire>>

\* tcp_connection::close: socket_.close().
CloseSocket ==
  /\ closer = "shut"
  /\ link' = "down"
  /\ closer' = "join"
  /\ UNCHANGED <<settings, connected, sendVars, queueVars, sem1, sem2, running,
                 sender, msg, buffer, write, wire>>

\* tcp_connection::close: m_thread_sends.join() returns.
CloseJoin ==
  /\ closer = "join"
  /\ sender = "done"
  /\ closer' = "closed"
  /\ UNCHANGED <<settings, connected, sendVars, queueVars, sem1, sem2, running,
                 sender, msg, buffer, write, link, wire>>

-----------------------------------------------------------------------------
Sender == SenderLoop \/ SenderTest \/ SenderAcquire2 \/ SenderPop
            \/ SenderWrite \/ SenderAcquire1

Closer == CloseStop \/ CloseSocket \/ CloseJoin

Next ==
  \/ SendBegin \/ SendPush \/ SendRelease
  \/ Sender
  \/ Transmit \/ PeerGone \/ HandleWrite
  \/ CloseBegin \/ Closer

\* A thread that is inside Send leaves it, the sender thread and the io
\* threads are scheduled, an issued write ends, and a close that has begun is
\* carried on. Nobody has to send, to close or to hang up.
Fairness ==
  /\ WF_vars(SendPush) /\ WF_vars(SendRelease)
  /\ WF_vars(Sender)
  /\ WF_vars(Transmit) /\ WF_vars(HandleWrite)
  /\ WF_vars(Closer)

Spec == Init /\ [][Next]_vars

FairSpec == Spec /\ Fairness

-----------------------------------------------------------------------------
(* Safety.                                                                 *)

\* start_send copies a message into m_send_buffer only when no async_write is
\* still reading it: one buffer serves all writes of the connection, and only
\* the exchange over semaphore 1 keeps them apart.
SendBufferFree == sender = "write" => write = "none"

\* A sender thread woken by semaphore 2 finds a message: the early return of
\* start_send on an empty queue, after which RunSend would wait for the
\* completion of a write nobody issued, is never taken.
WakeupFindsMessage == sender = "pop" => queue # <<>>

\* RunSend waits on semaphore 1 only for a write that is outstanding or has
\* completed, except for the early return of start_send after m_running went
\* false between its two tests.
WaitsForRealWrite ==
  sender = "acquire1" => write # "none" \/ sem1 > 0 \/ ~running

\* Nothing goes on by itself any more: no thread is inside Send, the sender waits
\* or has ended, no write ends, no handler can run, and close has not begun, or
\* waits for the sender.
AtRest ==
  /\ admitted = 0 /\ owed = 0
  /\ \/ sender = "acquire1" /\ sem1 = 0
     \/ sender = "acquire2" /\ sem2 = 0
     \/ sender = "done"
  /\ write # "issued" /\ (write = "ended" => ~IoFree)
  /\ closer \notin {"stop", "shut"} /\ (closer = "join" => sender # "done")

\* The pipeline comes to rest only where it should: until close stops it, its
\* sender then waits for a message, never for a write, and with a semaphore that
\* counts the client has been sent everything, unless the link has failed.
RestsDelivered ==
  AtRest /\ running =>
    /\ sender = "acquire2"
    /\ ~saturating /\ link = "up" => Len(wire) = accepted

\* The client receives the messages in the order of the pushes, each once,
\* with none missing before the last one received.
WireInOrder == \A i \in DOMAIN wire : wire[i] = i

-----------------------------------------------------------------------------
(* Liveness, under FairSpec.                                               *)

\* Every token in semaphore 2 is worth a delivery: with one there, the client
\* receives another message unless the link fails or the connection is closed.
WakeupDelivers ==
  \A n \in 0..MaxMessages :
    (sem2 > 0 /\ Len(wire) = n)
      ~> (Len(wire) > n \/ link = "down" \/ ~running)

\* With a semaphore that counts, every message pushed is received unless the
\* link fails or the connection is closed. With one that saturates two Sends
\* in a row leave one token, and the last message of a burst waits in the
\* queue until something else is sent: then only WakeupDelivers is true.
PushedIsDelivered ==
  \A n \in 1..MaxMessages :
    (accepted >= n /\ ~saturating)
      ~> (Len(wire) >= n \/ link = "down" \/ ~running)

\* The sender thread has a step to come that ends its loop: it is at the top of
\* the loop, or a write it waits for completes, or it still goes round once.
SenderWillWake ==
  \/ sender = "loop"
  \/ sender = "acquire1" /\ sem1 > 0
  \/ /\ ~closeOnIo
     /\ \/ sender \in {"pop", "write"}
        \/ sender = "acquire1" /\ write # "none"
        \/ sender = "acquire2" /\ sem2 > 0

\* close() returns when the sender thread had work in hand as it was stopped.
BusyCloseReturns ==
  (closer \in {"shut", "join"} /\ SenderWillWake) ~> (closer = "closed")

\* A sender with such a step to come keeps it until it ends: what close does, and
\* what callers still inside Send do, takes nothing from it.
WakeIsKept ==
  [][(closer \in {"shut", "join"} /\ SenderWillWake =>
        SenderWillWake' \/ sender' = "done")]_vars

\* close() returns.
CloseReturns == (closer = "stop") ~> (closer = "closed")

-----------------------------------------------------------------------------
(* What a connection promises its callers (FifoChannel).                   *)

\* Popped but not yet transmitted: in the local `msg', or in the buffer.
InHand ==
  IF sender = "write" THEN <<msg>>
  ELSE IF write = "issued" THEN <<buffer>> ELSE <<>>

Channel == INSTANCE FifoChannel WITH
  sent <- accepted, pending <- InHand \o queue, received <- wire,
  up <- (link = "up")

ChannelSpec == Channel!Spec
=============================================================================
