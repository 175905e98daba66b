----------------------------- MODULE FifoChannel -----------------------------
(***************************************************************************)
(* What a connection promises the threads that send on it: the client      *)
(* receives the messages in the order they were accepted, none twice and   *)
(* none skipped, until the link fails; what is pending after that is lost. *)
(* Messages are numbered in the order they are accepted.                   *)
(***************************************************************************)
EXTENDS Naturals, Sequences

VARIABLES sent, pending, received, up

channelVars == <<sent, pending, received, up>>

Init ==
  /\ sent = 0
  /\ pending = <<>>
  /\ received = <<>>
  /\ up = TRUE

Accept ==
  /\ sent' = sent + 1
  /\ pending' = Append(pending, sent')
  /\ UNCHANGED <<received, up>>

Deliver ==
  /\ up
  /\ pending # <<>>
  /\ received' = Append(received, Head(pending))
  /\ pending' = Tail(pending)
  /\ UNCHANGED <<sent, up>>

Lose ==
  /\ ~up
  /\ pending # <<>>
  /\ pending' = Tail(pending)
  /\ UNCHANGED <<sent, received, up>>

Fail ==
  /\ up
  /\ up' = FALSE
  /\ UNCHANGED <<sent, pending, received>>

Next == Accept \/ Deliver \/ Lose \/ Fail

Spec == Init /\ [][Next]_channelVars
=============================================================================
