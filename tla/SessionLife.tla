---------------------------- MODULE SessionLife -----------------------------
(***************************************************************************)
(* What AsyncServer promises the game about a session: it becomes known    *)
(* once, the game is told of its end once and while it is still known, and *)
(* a session that has left never comes back.                               *)
(***************************************************************************)
EXTENDS Naturals

CONSTANT Sessions

VARIABLES
  known,  \* sessions the server has
  told    \* how often the game was told of the end of each session

lifeVars == <<known, told>>

Init ==
  /\ known = {}
  /\ told = [s \in Sessions |-> 0]

Add(s) ==
  /\ s \notin known
  /\ told[s] = 0
  /\ known' = known \cup {s}
  /\ UNCHANGED told

End(s) ==
  /\ s \in known
  /\ told[s] = 0
  /\ told' = [told EXCEPT ![s] = 1]
  /\ UNCHANGED known

Forget(s) ==
  /\ s \in known
  /\ told[s] = 1
  /\ known' = known \ {s}
  /\ UNCHANGED told

Next == \E s \in Sessions : Add(s) \/ End(s) \/ Forget(s)

Spec == Init /\ [][Next]_lifeVars
=============================================================================
