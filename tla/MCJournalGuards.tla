-------------------------- MODULE MCJournalGuards ---------------------------
(* A Work p with two children c and d; three connections. *)
EXTENDS JournalGuards, TLC

CONSTANTS p, c, d, r1, r2, r3

Family == p :> NoWork @@ c :> p @@ d :> p
Depths == p :> 0 @@ c :> 1 @@ d :> 1
Ids == p :> 3 @@ c :> 2 @@ d :> 1

Ask(op, work, run, other, from, cite) ==
  [op |-> op, work |-> work, run |-> run, other |-> other, from |-> from, cite |-> cite]
One(op, work, run) == Ask(op, work, run, work, work, 0)

Asked ==
  << Ask("raise", c, 2, c, c, 1), Ask("raise", p, 1, c, p, 0),
     Ask("apply", c, 2, p, c, 1), Ask("apply", p, 1, c, d, 1),
     One("claim", c, 2), One("claim", d, 2), One("claim", p, 1),
     One("retry", p, 1), One("retry", c, 2), One("fail", c, 2), One("cancel", c, 0),
     One("cancel", p, 0), One("cascade", p, 0), One("assert", c, 2),
     One("settle", c, 2), One("inventory", p, 0) >>

\* Every three different ones, in no order.
Triples == {[r \in {r1, r2, r3} |-> Asked[IF r = r1 THEN h ELSE IF r = r2 THEN i ELSE j]] :
              <<h, i, j>> \in {t \in (DOMAIN Asked) \X (DOMAIN Asked) \X (DOMAIN Asked) :
                                 t[1] < t[2] /\ t[2] < t[3]}}

\* A Claim or a cancel may have a Work advance, which takes the Atlas.
Ops(m) == {m[r].op : r \in DOMAIN m}
Together == {m \in Triples : /\ "inventory" \in Ops(m)
                            /\ Ops(m) \cap {"claim", "cancel", "cascade"} # {}}
Apart == Triples \ Together

Last == <<Open(1, 1), Claimed(1), Open(2, 2)>>

Estates ==
  { \* the parent waits for its children, whose last leaves run
    p :> <<Open(1, 1), Claimed(1), Held({d})>> @@ c :> Last @@ d :> Last,
    \* both run; the parent has a Finding that rests on one of a child
    p :> <<Open(1, 1), Raised(1, 0, c, 4)>> @@ c :> Append(Last, Raised(2, 1, c, 0))
      @@ d :> Append(Last, Claimed(2)) }
=============================================================================
