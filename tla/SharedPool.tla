------------------------------ MODULE SharedPool ------------------------------
(***************************************************************************)
(* What a pool of expensive-job slots promises the estates that share it,  *)
(* whatever lock files, descriptors and dying processes it is made of: the *)
(* first participant sets the capacity, only one with authority raises it, *)
(* no more jobs run at once than it ever said, and no more of one estate   *)
(* than that estate allows itself.  (That a lowered capacity binds at once *)
(* is not promised: see the README, the shrinking pool.)                   *)
(***************************************************************************)
EXTENDS Naturals, FiniteSets

CONSTANTS Job, Local, LocalOf, LocalMax, Materializing, Authority, MaxSlots

VARIABLES
  capacity,   \* the most the pool was agreed at, 0 while nobody has
  running     \* the jobs admitted and not yet ended

pool == <<capacity, running>>

Expensive(js) == js \ Materializing

Of(l, js) == {j \in js : LocalOf[j] = l}

Init == capacity = 0 /\ running = {}

Agree ==
  /\ capacity = 0 \/ Authority # {}
  /\ capacity' \in capacity + 1 .. MaxSlots
  /\ UNCHANGED running

Admit(j) ==
  /\ j \notin running
  /\ Cardinality(Of(LocalOf[j], running)) < LocalMax[LocalOf[j]]
  /\ j \notin Materializing => Cardinality(Expensive(running)) < capacity
  /\ running' = running \cup {j}
  /\ UNCHANGED capacity

End(j) ==
  /\ j \in running
  /\ running' = running \ {j}
  /\ UNCHANGED capacity

Next == Agree \/ \E j \in Job : Admit(j) \/ End(j)

Spec == Init /\ [][Next]_pool

=============================================================================
