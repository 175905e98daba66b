----------------------------- MODULE UdpService -----------------------------
(***************************************************************************)
(* The UDP side of the server: one io_service for all connections, a port, *)
(* a pending receive and a sender thread for each, from the start of the   *)
(* server.                                                                 *)
(*                                                                         *)
(* io_service::run() returns when there is no work, and leaves the service *)
(* stopped for good: nobody restarts it. The first thread to call it is    *)
(* started with the server, when no connection has given it work yet. On a *)
(* stopped service operations can still be begun, and a datagram leaves as *)
(* it is begun; but nothing completes and no handler is called.            *)
(*                                                                         *)
(* Send is one step here and datagrams are counted: SendPipeline has the   *)
(* steps of Send and the buffer, which are the same for TCP.               *)
(***************************************************************************)
EXTENDS Naturals, Sequences

CONSTANTS
  Connections,  \* udp_connections
  MaxSends,     \* bound: datagrams the server sends in a behaviour
  MaxArrivals   \* bound: datagrams and errors that arrive in a behaviour

ASSUME UdpAssumption ==
  /\ MaxSends \in Nat
  /\ MaxArrivals \in Nat

VARIABLES
  stopped,   \* the io_service has run out of work once
  ended,     \* an exception has left the tcp io thread, and the process is gone
  conn,      \* none; open; stopping, joining, closed: how far Close has come
  recv,      \* the receive: none or armed
  inbox,     \* what has arrived on the socket
  arrived,   \* how much has arrived so far, on all of them
  got,       \* datagrams handed to AsyncServer::Receive_UDP
  accepted,  \* Sends so far, on all of them
  queue,     \* the length of m_send_messages
  sem1,      \* m_sends_semaphore_1: a send has completed
  sem2,      \* m_sends_semaphore_2: a datagram has been queued
  sender,    \* program counter of m_thread_sends
  write,     \* async_send_to: none, or completed and its handler not called yet
  sent       \* datagrams that have left the socket

serviceVars == <<stopped, ended>>
recvVars == <<recv, inbox, arrived, got>>
sendVars == <<accepted, queue, sem1, sem2, sender, write, sent>>
vars == <<serviceVars, conn, recvVars, sendVars>>

SenderSteps == {"none", "loop", "test", "acquire2", "pop", "acquire1", "done"}

TypeOK ==
  /\ stopped \in BOOLEAN /\ ended \in BOOLEAN
  /\ conn \in [Connections -> {"none", "open", "stopping", "joining", "closed"}]
  /\ recv \in [Connections -> {"none", "armed"}]
  /\ inbox \in [Connections -> Seq({"data", "error"})]
  /\ arrived \in 0..MaxArrivals
  /\ got \in [Connections -> 0..MaxArrivals]
  /\ accepted \in 0..MaxSends
  /\ queue \in [Connections -> 0..MaxSends]
  /\ sem1 \in [Connections -> Nat] /\ sem2 \in [Connections -> Nat]
  /\ sender \in [Connections -> SenderSteps]
  /\ write \in [Connections -> {"none", "done"}]
  /\ sent \in [Connections -> 0..MaxSends]

Zero == [c \in Connections |-> 0]

Init ==
  /\ stopped = FALSE /\ ended = FALSE
  /\ conn = [c \in Connections |-> "none"]
  /\ recv = [c \in Connections |-> "none"]
  /\ inbox = [c \in Connections |-> <<>>]
  /\ arrived = 0 /\ got = Zero
  /\ accepted = 0 /\ queue = Zero /\ sem1 = Zero /\ sem2 = Zero
  /\ sender = [c \in Connections |-> "none"]
  /\ write = [c \in Connections |-> "none"]
  /\ sent = Zero

SocketOpen(c) == conn[c] \in {"open", "stopping"}
Running(c) == conn[c] = "open"

-----------------------------------------------------------------------------
(* The service and its threads: the one of udp_main_server and, for every  *)
(* connection, one more.                                                   *)

\* run() with nothing outstanding.
RunEmpty ==
  /\ ~stopped /\ ~ended
  /\ \A c \in Connections : recv[c] = "none" /\ write[c] = "none"
  /\ stopped' = TRUE
  /\ UNCHANGED <<ended, conn, recvVars, sendVars>>

\* Some thread is in run(), and completes operations and calls handlers.
ServiceUp == ~stopped /\ ~ended

\* The receive of c completes with what has arrived first, or is aborted with its
\* socket, and its handler is called.
Received(c, what) ==
  /\ ServiceUp
  /\ recv[c] = "armed"
  /\ IF SocketOpen(c)
     THEN /\ inbox[c] # <<>>
          /\ what = Head(inbox[c])
          /\ inbox' = [inbox EXCEPT ![c] = Tail(@)]
     ELSE /\ what = "error"
          /\ UNCHANGED inbox
  /\ UNCHANGED <<serviceVars, conn, arrived, sendVars>>

\* Mutant of HandleReceive: the next receive is not started.
HandleReceiveOnce(c) ==
  /\ Received(c, "data")
  /\ got' = [got EXCEPT ![c] = @ + 1]
  /\ recv' = [recv EXCEPT ![c] = "none"]

\* handle_receive: the datagram goes to AsyncServer, and start_receive.
HandleReceive(c) ==
  /\ Received(c, "data")
  /\ got' = [got EXCEPT ![c] = @ + 1]
  /\ recv' = [recv EXCEPT ![c] = "armed"]

\* Mutant of HandleError: an error ends the receiving.
HandleErrorStops(c) ==
  /\ Received(c, "error")
  /\ recv' = [recv EXCEPT ![c] = "none"]
  /\ UNCHANGED got

\* handle_receive: refused by the client, any other error, an empty datagram.
\* The receive is started again, even on a socket that is closed.
HandleError(c) ==
  /\ Received(c, "error")
  /\ recv' = [recv EXCEPT ![c] = "armed"]
  /\ UNCHANGED got

\* What release() can leave in a binary semaphore: it is undefined for a full one.
Released(s) == {1, s + 1}

\* handle_send.
HandleSend(c) ==
  /\ ServiceUp
  /\ write[c] = "done"
  /\ write' = [write EXCEPT ![c] = "none"]
  /\ \E n \in Released(sem1[c]) : sem1' = [sem1 EXCEPT ![c] = n]
  /\ UNCHANGED <<serviceVars, conn, recvVars, accepted, queue, sem2, sender,
                 sent>>

-----------------------------------------------------------------------------
(* The tcp io thread and the threads that send and close.                  *)

\* udp_main_server::create, from EnableUdp, with a port that no socket is bound
\* to, or
Create(c) ==
  /\ ~ended
  /\ conn[c] = "none"
  /\ conn' = [conn EXCEPT ![c] = "open"]
  /\ recv' = [recv EXCEPT ![c] = "armed"]
  /\ sender' = [sender EXCEPT ![c] = "loop"]
  /\ UNCHANGED <<serviceVars, inbox, arrived, got, accepted, queue, sem1, sem2, write,
                 sent>>

\* with the port of another session: Get_New_Port looks its random port up in
\* m_connections, where nobody puts the connections, and the constructor of the
\* socket throws.
CreateClashes(c) ==
  /\ ~ended
  /\ conn[c] = "none"
  /\ \E d \in Connections : SocketOpen(d)
  /\ ended' = TRUE
  /\ UNCHANGED <<stopped, conn, recvVars, sendVars>>

\* SocketUser::DoSendUdp, Send.
Send(c) ==
  /\ ~ended
  /\ Running(c)
  /\ accepted < MaxSends
  /\ accepted' = accepted + 1
  /\ queue' = [queue EXCEPT ![c] = @ + 1]
  /\ \E n \in Released(sem2[c]) : sem2' = [sem2 EXCEPT ![c] = n]
  /\ UNCHANGED <<serviceVars, conn, recvVars, sem1, sender, write, sent>>

\* A step of the sender thread of c, from one place to another.
SenderMoves(c, from, to) ==
  /\ ~ended
  /\ sender[c] = from
  /\ sender' = [sender EXCEPT ![c] = to]
  /\ UNCHANGED <<serviceVars, conn, recvVars, accepted>>

\* RunSend: while (m_running); and start_send's own test, whose early return
\* goes on to semaphore 1.
SenderTests(c) ==
  /\ \/ SenderMoves(c, "loop", IF Running(c) THEN "test" ELSE "done")
     \/ SenderMoves(c, "test", IF Running(c) THEN "acquire2" ELSE "acquire1")
  /\ UNCHANGED <<queue, sem1, sem2, write, sent>>

SenderAcquires2(c) ==
  /\ SenderMoves(c, "acquire2", "pop")
  /\ sem2[c] > 0
  /\ sem2' = [sem2 EXCEPT ![c] = @ - 1]
  /\ UNCHANGED <<queue, sem1, write, sent>>

\* start_send: the datagram is taken out of the queue, and async_send_to sends
\* it at once if the socket is open.
SenderPops(c) ==
  /\ SenderMoves(c, "pop", "acquire1")
  /\ IF queue[c] > 0
     THEN /\ queue' = [queue EXCEPT ![c] = @ - 1]
          /\ write' = [write EXCEPT ![c] = "done"]
          /\ sent' = IF SocketOpen(c) THEN [sent EXCEPT ![c] = @ + 1] ELSE sent
     ELSE UNCHANGED <<queue, write, sent>>
  /\ UNCHANGED <<sem1, sem2>>

\* RunSend: m_sends_semaphore_1.acquire().
SenderAcquires1(c) ==
  /\ SenderMoves(c, "acquire1", "loop")
  /\ sem1[c] > 0
  /\ sem1' = [sem1 EXCEPT ![c] = @ - 1]
  /\ UNCHANGED <<queue, sem2, write, sent>>

\* Close, called or not: m_running = false,
CloseBegins(c) ==
  /\ ~ended
  /\ conn[c] = "open"
  /\ conn' = [conn EXCEPT ![c] = "stopping"]
  /\ UNCHANGED <<serviceVars, recvVars, sendVars>>

\* m_socket_.close(), and
CloseSocket(c) ==
  /\ ~ended
  /\ conn[c] = "stopping"
  /\ conn' = [conn EXCEPT ![c] = "joining"]
  /\ UNCHANGED <<serviceVars, recvVars, sendVars>>

\* the join. m_connections.erase() finds nothing to erase.
CloseJoins(c) ==
  /\ ~ended
  /\ conn[c] = "joining"
  /\ sender[c] = "done"
  /\ conn' = [conn EXCEPT ![c] = "closed"]
  /\ UNCHANGED <<serviceVars, recvVars, sendVars>>

-----------------------------------------------------------------------------
(* The client.                                                             *)

\* A datagram of the client's, or the news that it refused one of ours.
Arrive(c, what) ==
  /\ ~ended
  /\ SocketOpen(c)
  /\ what = "error" => sent[c] > 0
  /\ arrived < MaxArrivals
  /\ arrived' = arrived + 1
  /\ inbox' = [inbox EXCEPT ![c] = Append(@, what)]
  /\ UNCHANGED <<serviceVars, conn, recv, got, sendVars>>

-----------------------------------------------------------------------------
Sender(c) ==
  SenderTests(c) \/ SenderAcquires2(c) \/ SenderPops(c) \/ SenderAcquires1(c)

Receiver(c) == HandleReceive(c) \/ HandleError(c)

Next ==
  \/ RunEmpty
  \/ \E c \in Connections :
       \/ Receiver(c) \/ HandleSend(c) \/ Sender(c)
       \/ Create(c) \/ CreateClashes(c)
       \/ Send(c)
       \/ CloseBegins(c) \/ CloseSocket(c) \/ CloseJoins(c)
       \/ \E what \in {"data", "error"} : Arrive(c, what)

\* The service's threads and the sender threads run. No client has to come, to
\* send or to leave, and the first run() may come before or after a client.
Fairness ==
  \A c \in Connections :
    /\ WF_vars(Receiver(c)) /\ WF_vars(HandleSend(c))
    /\ WF_vars(Sender(c))

Spec == Init /\ [][Next]_vars

FairSpec == Spec /\ Fairness

-----------------------------------------------------------------------------
(* Properties.                                                             *)

\* A service that has stopped was never up: no datagram of a client was or will
\* be handled, and of all that the game sends to it one datagram leaves. Put the
\* other way, nothing that happens to a connection, errors and closing included,
\* takes the last work from a service that a client has used.
StoppedIsMute == stopped => \A c \in Connections : got[c] = 0 /\ sent[c] <= 1

Served(c) == ServiceUp /\ Running(c)

\* A connection that is served does not come to rest with work left: its receive
\* is armed when something has arrived, and its sender waits for a datagram, with
\* every token of semaphore 2 worth one, or for a send that has been begun.
ServedGoesOn ==
  \A c \in Connections : Served(c) =>
    /\ inbox[c] # <<>> => recv[c] = "armed"
    /\ sem2[c] <= queue[c]
    /\ sender[c] \notin {"none", "done"}
    /\ sender[c] = "pop" => queue[c] > 0
    /\ sender[c] = "acquire1" => write[c] = "done" \/ sem1[c] > 0

\* While the service is up a connection works both ways: what arrives is
\* handled, errors in between or not, and the sender comes back for every token
\* of semaphore 2.
UpIsServed ==
  \A c \in Connections :
    /\ (Served(c) /\ inbox[c] # <<>>) ~> (inbox[c] = <<>> \/ ~Served(c))
    /\ (Served(c) /\ sem2[c] > 0) ~> (sem2[c] = 0 \/ ~Served(c))
=============================================================================
