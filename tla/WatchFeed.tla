------------------------------ MODULE WatchFeed ------------------------------
(***************************************************************************)
(* What a `watch` promises its client, whatever threads, channels and      *)
(* wakes the daemon uses to keep it: the events of each Work it follows,   *)
(* all of them, from the first, in journal order, none twice.              *)
(***************************************************************************)
EXTENDS Naturals, Sequences

CONSTANTS Works, Clients, MaxEvents

VARIABLES
  journal,   \* [Works -> Nat], the events of the Work are 1..journal[w]
  got        \* [Clients -> [Works -> Seq(Nat)]], what the client has read

feed == <<journal, got>>

Init ==
  /\ journal = [w \in Works |-> 0]
  /\ got = [c \in Clients |-> [w \in Works |-> <<>>]]

Happen(w) ==
  /\ journal[w] < MaxEvents
  /\ journal' = [journal EXCEPT ![w] = @ + 1]
  /\ UNCHANGED got

\* The one event a client may read next.
Read(c, w) ==
  /\ Len(got[c][w]) < journal[w]
  /\ got' = [got EXCEPT ![c][w] = Append(@, Len(@) + 1)]
  /\ UNCHANGED journal

Next == \E w \in Works : Happen(w) \/ \E c \in Clients : Read(c, w)

Spec == Init /\ [][Next]_feed

=============================================================================
