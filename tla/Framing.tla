------------------------------ MODULE Framing -------------------------------
(***************************************************************************)
(* The bytes on the wire: BufferUtils, how tcp_connection::handle_read     *)
(* cuts a stream into commands, how udp_connection::handle_receive and     *)
(* AsyncServer::Receive_UDP cut a datagram, and how a player's events are  *)
(* written. A byte has Base values (256) and a length two bytes, low byte  *)
(* first. The client writes its messages as the server reads them.         *)
(***************************************************************************)
EXTENDS Naturals, Sequences, FiniteSets, SequencesExt

CONSTANTS
  Base,         \* values of a byte: 256 in the code
  Commands,     \* command bytes clients use
  Jump,         \* the command byte of the one event there is
  Payloads,     \* what follows the command
  MaxPlayers,   \* bound: players of the match, numbered from 1
  MaxMessages,  \* bound: messages and events of all kinds
  MaxReceived   \* bound: datagrams received, with repetitions

Byte == 0..(Base - 1)

Players == 1..MaxPlayers

ASSUME FramingAssumption ==
  /\ Base \in Nat /\ Base > 1
  /\ Commands \subseteq Byte /\ Jump \in Commands
  /\ \A d \in Payloads : d \in Seq(Byte) /\ Len(d) + 3 < Base * Base
  /\ MaxPlayers \in Nat /\ MaxPlayers < Base
  /\ MaxMessages \in Nat /\ MaxReceived \in Nat

VARIABLES
  inFlight,  \* bytes of the TCP stream that have not arrived
  arrived,   \* bytes that have arrived and were not read
  up,        \* the peer has not closed the stream
  reader,    \* handle_read: waits for the length, waits for the message, ended
  size,      \* the length it has read
  sent,      \* history: the commands sent over TCP
  got,       \* the commands given to Process, over TCP
  datagrams, \* the datagrams sent
  recvBuff,  \* udp_connection::m_recv_buff
  received,  \* datagrams received so far
  gotUdp,    \* history: each datagram received, and the command it gave
  events     \* m_active_events of each player, by its m_match_instance_id

tcpVars == <<inFlight, arrived, up, reader, size, sent, got>>
udpVars == <<datagrams, recvBuff, received, gotUdp>>
vars == <<tcpVars, udpVars, events>>

\* As much of m_recv_buff as a datagram of the payloads here can lead into.
BuffSize == 8 + Len(CHOOSE d \in Payloads : \A e \in Payloads : Len(d) >= Len(e))

Message == [command : Commands, data : Payloads]

-----------------------------------------------------------------------------
(* BufferUtils.                                                            *)

\* A uint16_t in memory.
TwoBytes(n) == <<n % Base, (n \div Base) % Base>>
Number(bytes) == bytes[1] + Base * bytes[2]

AddLength(data) == TwoBytes(Len(data)) \o data

Add_UDP_ID(id, data) == TwoBytes(id) \o data

AddFirst(byte, origin) == <<byte>> \o origin

\* RemoveFront: an origin that is too short is returned as it is.
RemoveFront(n, origin) ==
  IF n > Len(origin) THEN origin ELSE SubSeq(origin, n + 1, Len(origin))

\* A command as the client sends it over TCP, and over UDP with its id (0).
TcpFrame(m) == AddLength(AddFirst(m.command, m.data))
Datagram(m) == AddLength(Add_UDP_ID(0, AddFirst(m.command, m.data)))

-----------------------------------------------------------------------------
TypeOK ==
  /\ inFlight \in Seq(Byte) /\ arrived \in Seq(Byte)
  /\ up \in BOOLEAN
  /\ reader \in {"length", "message", "ended"}
  /\ size \in 0..(Base * Base - 1)
  /\ sent \in Seq(Message)
  /\ got \in Seq([command : Byte, data : Seq(Byte)])
  /\ datagrams \subseteq Seq(Byte)
  /\ recvBuff \in [1..BuffSize -> Byte]
  /\ received \in 0..MaxReceived
  /\ \A g \in gotUdp : g.of \in datagrams /\ g.data \in Seq(Byte)
  /\ events \in [Players -> Seq(Message)]

\* m_recv_buff is not initialised; its bytes are alike, whatever they are.
Init ==
  /\ inFlight = <<>> /\ arrived = <<>> /\ up = TRUE
  /\ reader = "length" /\ size = 0
  /\ sent = <<>> /\ got = <<>>
  /\ datagrams = {}
  /\ \E b \in Byte : recvBuff = [i \in 1..BuffSize |-> b]
  /\ received = 0 /\ gotUdp = {}
  /\ events = [p \in Players |-> <<>>]

\* The events of all players, one player after the other.
Queued(queues) ==
  LET upTo[p \in 0..MaxPlayers] ==
        IF p = 0 THEN <<>>
        ELSE upTo[p - 1] \o
               [i \in 1..Len(queues[p]) |->
                  [instance |-> p, command |-> queues[p][i].command, data |-> queues[p][i].data]]
  IN  upTo[MaxPlayers]

MayWrite == Len(sent) + Cardinality(datagrams) + Len(Queued(events)) < MaxMessages

-----------------------------------------------------------------------------
(* TCP.                                                                    *)

\* The client sends a command.
ClientSend(m) ==
  /\ up /\ MayWrite
  /\ inFlight' = inFlight \o TcpFrame(m)
  /\ sent' = Append(sent, m)
  /\ UNCHANGED <<arrived, up, reader, size, got, udpVars, events>>

\* The client sends a message of no bytes, after which nothing else is sent.
ClientSendEmpty ==
  /\ up
  /\ inFlight' = inFlight \o AddLength(<<>>)
  /\ up' = FALSE
  /\ UNCHANGED <<arrived, reader, size, sent, got, udpVars, events>>

\* The client goes away.
ClientGone ==
  /\ up
  /\ up' = FALSE
  /\ UNCHANGED <<inFlight, arrived, reader, size, sent, got, udpVars, events>>

\* The stream arrives in pieces.
Arrive ==
  /\ inFlight # <<>>
  /\ \E n \in 1..Len(inFlight) :
       /\ arrived' = arrived \o SubSeq(inFlight, 1, n)
       /\ inFlight' = RemoveFront(n, inFlight)
  /\ UNCHANGED <<up, reader, size, sent, got, udpVars, events>>

\* handle_read: two bytes are there. A length of zero ends the session.
ReadLength ==
  /\ reader = "length"
  /\ Len(arrived) >= 2
  /\ size' = Number(SubSeq(arrived, 1, 2))
  /\ arrived' = RemoveFront(2, arrived)
  /\ reader' = IF size' = 0 THEN "ended" ELSE "message"
  /\ UNCHANGED <<inFlight, up, sent, got, udpVars, events>>

\* Mutant of ReadMessage: what has arrived is taken for the message.
ReadSome ==
  /\ reader = "message"
  /\ Len(arrived) >= 1
  /\ LET message == SubSeq(arrived, 1, IF Len(arrived) < size THEN Len(arrived) ELSE size)
     IN  got' = Append(got, [command |-> message[1], data |-> RemoveFront(1, message)])
  /\ arrived' = RemoveFront(IF Len(arrived) < size THEN Len(arrived) ELSE size, arrived)
  /\ reader' = "length"
  /\ UNCHANGED <<inFlight, up, size, sent, udpVars, events>>

\* handle_read blocks until the message is there; ProcessReceiveBuffer takes the
\* command off; Start_Read.
ReadMessage ==
  /\ reader = "message"
  /\ Len(arrived) >= size
  /\ LET message == SubSeq(arrived, 1, size)
     IN  got' = Append(got, [command |-> message[1], data |-> RemoveFront(1, message)])
  /\ arrived' = RemoveFront(size, arrived)
  /\ reader' = "length"
  /\ UNCHANGED <<inFlight, up, size, sent, udpVars, events>>

\* handle_read: the stream has ended before the length or the message was there.
ReadFails ==
  /\ ~up /\ inFlight = <<>>
  /\ \/ reader = "length" /\ Len(arrived) < 2
     \/ reader = "message" /\ Len(arrived) < size
  /\ reader' = "ended"
  /\ UNCHANGED <<inFlight, arrived, up, size, sent, got, udpVars, events>>

-----------------------------------------------------------------------------
(* UDP.                                                                    *)

\* The client sends a datagram.
ClientSendUdp(m) ==
  /\ MayWrite
  /\ datagrams' = datagrams \cup {Datagram(m)}
  /\ UNCHANGED <<tcpVars, recvBuff, received, gotUdp, events>>

\* Mutant of Payload: the command is taken for the first byte of the data.
PayloadEarly(buff, n) == SubSeq(buff, 5, 4 + n)

\* Receive_UDP: what Process copies, `size' bytes from behind the command, of
\* which the id and the command were three.
Payload(buff, n) == SubSeq(buff, 6, 5 + n)

\* A datagram arrives, once, twice or never, in any order: it overwrites the
\* front of m_recv_buff, and the length is read back from there.
UdpReceive(d) ==
  /\ d \in datagrams
  /\ received < MaxReceived
  /\ received' = received + 1
  /\ recvBuff' = [i \in 1..BuffSize |-> IF i <= Len(d) THEN d[i] ELSE recvBuff[i]]
  /\ gotUdp' = gotUdp \cup
       {[of |-> d, command |-> recvBuff'[5],
         data |-> Payload(recvBuff', Number(recvBuff'))]}
  /\ UNCHANGED <<tcpVars, datagrams, events>>

-----------------------------------------------------------------------------
(* Player events.                                                          *)

\* Add_Player_Event, Forward_Player_Event: a jump is queued, anything else is not.
AddEvent(p, m) ==
  /\ m.command = Jump
  /\ MayWrite
  /\ events' = [events EXCEPT ![p] = Append(@, m)]
  /\ UNCHANGED <<tcpVars, udpVars>>

\* Mutant of Entry: no length for an event without data.
EntryShort(instance, e) ==
  <<instance, e.command>> \o (IF e.data = <<>> THEN <<>> ELSE <<Len(e.data) % Base>> \o e.data)

\* What SerializePlayerEvents adds of one event.
Entry(instance, e) == <<instance, e.command, Len(e.data) % Base>> \o e.data

\* SerializePlayerEvents: an entry per event, behind what is in the buffer. (None,
\* which it passes over, is never queued.)
SerializePlayerEvents(buff, instance, queue) ==
  LET after[n \in 0..Len(queue)] ==
        IF n = 0 THEN buff ELSE after[n - 1] \o Entry(instance, queue[n])
  IN  after[Len(queue)]

\* SendPlayerEvents: the entries of all players; the number of events in front.
EventsMessage(queues) ==
  LET buff[p \in 0..MaxPlayers] ==
        IF p = 0 THEN <<>> ELSE SerializePlayerEvents(buff[p - 1], p, queues[p])
      num_events[p \in 0..MaxPlayers] ==
        IF p = 0 THEN 0 ELSE num_events[p - 1] + Len(queues[p])
  IN  AddFirst(num_events[MaxPlayers] % Base, buff[MaxPlayers])

\* The client takes the entries apart again.
ParseEvents(message) ==
  LET entry[k \in 2..(Len(message) + Base + 3)] ==
        IF k + 2 > Len(message) THEN <<>>
        ELSE <<[instance |-> message[k], command |-> message[k + 1],
                data |-> SubSeq(message, k + 3, k + 2 + message[k + 2])]>>
               \o entry[k + 3 + message[k + 2]]
  IN  [count |-> message[1], events |-> entry[2]]

-----------------------------------------------------------------------------
Next ==
  \/ \E m \in Message : ClientSend(m) \/ ClientSendUdp(m) \/ \E p \in Players : AddEvent(p, m)
  \/ ClientSendEmpty \/ ClientGone
  \/ Arrive
  \/ ReadLength \/ ReadMessage \/ ReadFails
  \/ \E d \in datagrams : UdpReceive(d)

Spec == Init /\ [][Next]_vars

-----------------------------------------------------------------------------
(* Safety.                                                                 *)

\* The server takes the commands the client sent from the stream, whole and in
\* order, however it was cut up on the way and wherever it broke off: reading
\* starts again only when the message before is complete. None is left behind:
\* when all has arrived and handle_read waits for more, or has ended, it has taken
\* every one.
TcpInOrder ==
  /\ IsPrefix(got, sent)
  /\ inFlight = <<>>
       /\ ~ (reader = "length" /\ Len(arrived) >= 2)
       /\ ~ (reader = "message" /\ Len(arrived) >= size)
     => got = sent

\* A datagram gives its command and, in front, its data. Three bytes follow that
\* are not its own: they were left in m_recv_buff by a datagram before it.
UdpPrefix ==
  \A g \in gotUdp : \E m \in Message :
    /\ g.of = Datagram(m)
    /\ g.command = m.command
    /\ IsPrefix(m.data, g.data) /\ Len(g.data) = Len(m.data) + 3

\* A client reads from a Player_Events message the events that were queued, each
\* with its player, while their number and the lengths of their data fit into a byte.
EventsRoundTrip ==
  LET all == Queued(events)
  IN  Len(all) < Base /\ (\A i \in DOMAIN all : Len(all[i].data) < Base) =>
        ParseEvents(EventsMessage(events)) = [count |-> Len(all), events |-> all]
=============================================================================
