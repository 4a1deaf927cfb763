------------------------- MODULE JournalGuardsProofs -------------------------
(***************************************************************************)
(* The lock discipline keeps connections from waiting in a circle, for     *)
(* every tree of Works, every number of connections and every mix of       *)
(* requests in which no inventory of the estate meets a Claim or a cancel. *)
(*                                                                         *)
(* The invariant says what each phase of a request holds.  From it: whoever*)
(* holds a journal and waits, waits for a journal that comes later in      *)
(* journal_lock_order; so in a circle no journal held would be the last.   *)
(*                                                                         *)
(* What is decided with no guard held is founded when it is written, and no*)
(* settlement is lost while the requests are no more than its attempts.    *)
(***************************************************************************)
EXTENDS JournalGuards, FiniteSetTheorems, SequenceTheorems, WellFoundedInduction, TLAPS

Tasks == [pc : Phases, on : Works, todo : Seq(Works), need : SUBSET Works,
          looked : SUBSET Works, doomed : Seq(Works)]

Shape ==
  /\ plan \in [Request -> Plan]
  /\ guard \in [Locks -> Request \cup {Free}]
  /\ task \in [Request -> Tasks]

\* Only a cancel has Works to cancel, and it has one while it is about one.
Condemned(r, t) ==
  /\ t.doomed # <<>> => plan[r].op \in Ends
  /\ t.pc \in {"children", "cancel"} \/ (t.pc = "start" /\ plan[r].op \in Ends)
       => t.doomed # <<>>

\* What request r holds in each phase, and which requests reach it.
Orderly(r) ==
  LET t == task[r] IN
  /\ Condemned(r, t)
  /\ t.pc \in {"close", "advance", "reevaluate"} => plan[r].op \in {"claim"} \cup Ends
  /\ t.pc = "replay" => plan[r].op = "inventory"
  /\ t.pc \in {"observe", "decide", "recheck"} => t.todo # <<>>
  /\ \A l \in Locks : Holds(r, l) =>
       /\ t.pc \in {"close", "advance", "gather", "apply", "replay"}
       /\ t.pc \in {"close", "advance"} => l = t.on
       /\ t.pc \in {"gather", "apply"} => l \in Works
       /\ t.pc = "gather" => \A w \in t.need : Lower(l, w)
       /\ t.pc = "replay" => l = Atlas

Discipline == Shape /\ \A r \in Request : Orderly(r)

\* The two that take the Atlas and a journal in opposite orders: an inventory,
\* and a Claim, or a cancel, after which a leaf is reserved whose review targets
\* are frozen.
Inverted(mix) ==
  \E q, r \in Request : mix[q].op = "inventory" /\ mix[r].op \in {"claim"} \cup Ends

-----------------------------------------------------------------------------
(* Orders. *)

\* A nonempty set has an element whose value of f is least.
LEMMA LeastValue ==
  ASSUME NEW W, W # {}, NEW f, \A w \in W : f[w] \in Nat
  PROVE  \E w \in W : \A v \in W : f[w] <= f[v]
<1> DEFINE V == {f[w] : w \in W}
<1>1. V \subseteq Nat /\ V # {}
  OBVIOUS
<1>2. PICK n \in V : \A m \in V : <<m, n>> \notin OpToRel(<, Nat)
  BY <1>1, NatLessThanWellFounded, WFMin, Zenon
<1>3. \A m \in V : ~(m < n)
  BY <1>1, <1>2 DEF OpToRel
<1>4. PICK w \in W : f[w] = n
  OBVIOUS
<1>5. \A v \in W : f[w] <= f[v]
  BY <1>1, <1>3, <1>4
<1> QED
  BY <1>5

\* The same for two values, the first one first.
LEMMA LexLeast ==
  ASSUME NEW W, W # {}, NEW f, NEW g,
         \A w \in W : f[w] \in Nat /\ g[w] \in Nat
  PROVE  \E w \in W : \A v \in W : f[w] < f[v] \/ (f[w] = f[v] /\ g[w] <= g[v])
<1>1. PICK u \in W : \A v \in W : f[u] <= f[v]
  BY LeastValue
<1> DEFINE U == {v \in W : f[v] = f[u]}
<1>2. PICK w \in U : \A v \in U : g[w] <= g[v]
  <2>1. U # {} /\ \A v \in U : g[v] \in Nat
    BY <1>1
  <2> HIDE DEF U
  <2> QED
    BY <2>1, LeastValue
<1>3. ASSUME NEW v \in W
      PROVE  f[w] < f[v] \/ (f[w] = f[v] /\ g[w] <= g[v])
  BY <1>1, <1>2
<1> QED
  BY <1>2, <1>3

LEMMA LeastIsLeast ==
  ASSUME NEW W \in SUBSET Works, W # {}
  PROVE  Least(W) \in W /\ \A v \in W \ {Least(W)} : Lower(Least(W), v)
<1>1. \A w \in W : Depth[w] \in Nat /\ Id[w] \in Nat
  BY JournalGuardsAssumption DEF Tree
<1>2. PICK w \in W : \A v \in W : Depth[w] < Depth[v] \/ (Depth[w] = Depth[v] /\ Id[w] <= Id[v])
  BY <1>1, LexLeast
<1>3. \A v \in W \ {w} : Lower(w, v)
  <2> TAKE v \in W \ {w}
  <2>1. Id[v] # Id[w]
    BY JournalGuardsAssumption DEF Tree
  <2> QED
    BY <1>1, <1>2, <2>1 DEF Lower
<1> QED
  BY <1>3 DEF Least

LEMMA LowestId ==
  ASSUME Shape, NEW r \in Request, task[r].need # {}
  PROVE  NextById(r) \in task[r].need
<1>1. task[r].need \subseteq Works
  BY DEF Shape, Tasks
<1>2. \A w \in task[r].need : Id[w] \in Nat
  BY <1>1, JournalGuardsAssumption DEF Tree
<1>3. \E w \in task[r].need : \A v \in task[r].need : Id[w] <= Id[v]
  BY <1>2, LeastValue
<1> QED
  BY <1>3 DEF NextById

\* Where depths and ids are bounded, a nonempty set of Works has a last one.
LEMMA SomeLast ==
  ASSUME NEW b \in Nat, \A w \in Works : Depth[w] <= b /\ Id[w] <= b,
         NEW W \in SUBSET Works, W # {}
  PROVE  \E w \in W : \A v \in W : ~Lower(w, v)
<1> DEFINE f == [w \in Works |-> b - Depth[w]]
           g == [w \in Works |-> b - Id[w]]
<1>1. \A w \in Works : Depth[w] \in Nat /\ Id[w] \in Nat
  BY JournalGuardsAssumption DEF Tree
<1>2. \A w \in W : f[w] \in Nat /\ g[w] \in Nat
  BY <1>1
<1>3. PICK w \in W : \A v \in W : f[w] < f[v] \/ (f[w] = f[v] /\ g[w] <= g[v])
  <2> HIDE DEF f, g
  <2> QED
    BY <1>2, LexLeast
<1>4. ASSUME NEW v \in W
      PROVE  ~Lower(w, v)
  <2>1. w \in Works /\ v \in Works
    BY <1>4
  <2>2. f[w] = b - Depth[w] /\ f[v] = b - Depth[v] /\ g[w] = b - Id[w] /\ g[v] = b - Id[v]
    BY <2>1
  <2>3. f[w] < f[v] \/ (f[w] = f[v] /\ g[w] <= g[v])
    BY <1>3, <1>4
  <2> HIDE DEF f, g
  <2> QED
    BY <1>1, <2>1, <2>2, <2>3 DEF Lower
<1> QED
  BY <1>3, <1>4

-----------------------------------------------------------------------------
(* In a circle, no journal held would be the last. *)

LEMMA HoldersPhase ==
  ASSUME Discipline, NEW r \in Request, NEW l \in Locks, Holds(r, l)
  PROVE  /\ task[r] \in Tasks
         /\ task[r].pc \in {"close", "advance", "gather", "apply", "replay"}
         /\ l = Atlas => task[r].pc = "replay" /\ plan[r].op = "inventory"
         /\ l \in Works => task[r].pc # "replay"
<1>1. task[r] \in Tasks /\ Orderly(r)
  BY DEF Discipline, Shape
<1>2. Atlas \notin Works
  BY JournalGuardsAssumption DEF Tree
<1> QED
  BY <1>1, <1>2 DEF Orderly, Tasks

LEMMA WaitsHigher ==
  ASSUME Discipline, ~Inverted(plan),
         NEW S \in SUBSET Request, \A r \in S : Blocked(r, S),
         NEW w \in Works, guard[w] \in S
  PROVE  \E v \in Works : guard[v] \in S /\ Lower(w, v)
<1> DEFINE r == guard[w]
           t == task[r]
<1>1. r \in Request /\ w \in Locks /\ Holds(r, w) /\ Orderly(r)
  BY DEF Holds, Locks, Discipline
<1>2. t \in Tasks /\ t.pc \in {"close", "advance", "gather", "apply"}
  BY <1>1, HoldersPhase
<1>3. PICK l \in WaitsFor(r) : guard[l] \in S
  BY DEF Blocked
<1>4. CASE t.pc = "close"
  <2>1. w = t.on /\ l \in Children(w)
    BY <1>1, <1>3, <1>4 DEF Orderly, WaitsFor
  <2>2. l \in Works /\ Parent[l] = w
    BY <2>1 DEF Children
  <2>3. Depth[l] = Depth[w] + 1 /\ Depth[w] \in Nat
    BY <2>2, JournalGuardsAssumption DEF Tree
  <2>4. Lower(w, l)
    BY <2>3 DEF Lower
  <2> QED
    BY <1>3, <2>2, <2>4
<1>5. CASE t.pc = "advance"
  <2>1. l = Atlas /\ plan[r].op \in {"claim"} \cup Ends
    BY <1>1, <1>3, <1>5 DEF Orderly, WaitsFor
  <2>2. Holds(guard[Atlas], Atlas) /\ guard[Atlas] \in Request /\ Atlas \in Locks
    BY <1>3, <2>1 DEF Holds, Locks
  <2>3. plan[guard[Atlas]].op = "inventory"
    BY <2>2, HoldersPhase
  <2> QED
    BY <1>1, <2>1, <2>2, <2>3 DEF Inverted
<1>6. CASE t.pc = "gather"
  <2>1. t.need # {} /\ l = Least(t.need)
    BY <1>3, <1>6 DEF WaitsFor, NextGuard
  <2>2. l \in t.need /\ t.need \subseteq Works
    BY <1>2, <2>1, LeastIsLeast DEF Tasks
  <2> QED
    BY <1>1, <1>3, <1>6, <2>2 DEF Orderly
<1>7. CASE t.pc = "apply"
  BY <1>3, <1>7 DEF WaitsFor
<1> QED
  BY <1>2, <1>4, <1>5, <1>6, <1>7

LEMMA NobodyCircles ==
  ASSUME Discipline, ~Inverted(plan),
         NEW b \in Nat, \A w \in Works : Depth[w] <= b /\ Id[w] <= b
  PROVE  NoCircularWait
<1> SUFFICES ASSUME NEW S \in SUBSET Request, S # {}, \A r \in S : Blocked(r, S)
             PROVE  FALSE
  BY DEF NoCircularWait
<1> DEFINE H == {w \in Works : guard[w] \in S}
<1>1. H # {}
  <2>1. PICK r \in S : \E l \in WaitsFor(r) : guard[l] \in S
    BY DEF Blocked
  <2>2. PICK l \in WaitsFor(r) : guard[l] \in S
    BY <2>1
  <2>3. l \in Locks
    <3>1. task[r] \in Tasks /\ plan[r] \in Plan
      BY DEF Discipline, Shape
    <3>2. task[r].need # {} => Least(task[r].need) \in Works /\ NextById(r) \in Works
      BY <3>1, LeastIsLeast, LowestId DEF Tasks, Discipline
    <3> QED
      BY <2>2, <3>1, <3>2 DEF WaitsFor, Locks, Children, NextGuard, Tasks, Plan, Phases
  <2>4. CASE l = Atlas
    <3> DEFINE q == guard[Atlas]
    <3>1. q \in S /\ Holds(q, Atlas) /\ Atlas \in Locks
      BY <2>2, <2>3, <2>4 DEF Holds
    <3>2. task[q] \in Tasks /\ task[q].pc = "replay"
      BY <3>1, HoldersPhase
    <3>3. PICK v \in WaitsFor(q) : guard[v] \in S
      BY <3>1 DEF Blocked
    <3>4. task[q].need # {} /\ v = NextById(q)
      BY <3>2, <3>3 DEF WaitsFor
    <3>5. v \in Works
      BY <3>1, <3>2, <3>4, LowestId DEF Tasks, Discipline
    <3> QED
      BY <3>3, <3>5
  <2>5. CASE l \in Works
    BY <2>2, <2>5
  <2> QED
    BY <2>3, <2>4, <2>5 DEF Locks
<1>2. PICK w \in H : \A v \in H : ~Lower(w, v)
  BY <1>1, SomeLast
<1>3. \E v \in Works : guard[v] \in S /\ Lower(w, v)
  BY <1>2, WaitsHigher
<1> QED
  BY <1>2, <1>3

-----------------------------------------------------------------------------
(* Every step keeps the discipline. *)

LEMMA Frame ==
  ASSUME Discipline, Shape', plan' = plan, NEW r \in Request,
         \A q \in Request \ {r} : task'[q] = task[q],
         \A l \in Locks : guard'[l] = guard[l] \/ {guard[l], guard'[l]} \subseteq {Free, r},
         Orderly(r)'
  PROVE  Discipline'
<1> SUFFICES ASSUME NEW q \in Request \ {r}
             PROVE  Orderly(q)'
  BY DEF Discipline
<1>1. Orderly(q) /\ task'[q] = task[q]
  BY DEF Discipline
<1>2. \A l \in Locks : Holds(q, l)' <=> Holds(q, l)
  BY JournalGuardsAssumption DEF Tree, Holds
<1> QED
  BY <1>1, <1>2 DEF Orderly, Condemned, Lower

\* A request that comes out of a step with empty hands.
LEMMA EmptyHands ==
  ASSUME Discipline, plan' = plan, NEW r \in Request,
         NEW t \in Tasks, task' = [task EXCEPT ![r] = t],
         Drop(r) \/ (guard' = guard /\ \A l \in Locks : ~Holds(r, l)),
         Condemned(r, t), t.pc \in {"close", "advance", "reevaluate"} =>
                            plan[r].op \in {"claim"} \cup Ends,
         t.pc # "replay",
         t.pc \in {"observe", "decide", "recheck"} => t.todo # <<>>
  PROVE  Discipline'
<1>1. Shape'
  BY DEF Discipline, Shape, Drop
<1>2. /\ \A l \in Locks : guard'[l] = guard[l] \/ {guard[l], guard'[l]} \subseteq {Free, r}
      /\ \A l \in Locks : ~Holds(r, l)'
  <2>1. r # Free
    BY JournalGuardsAssumption DEF Tree
  <2>2. CASE Drop(r)
    <3>1. \A l \in Locks : guard'[l] = IF guard[l] = r THEN Free ELSE guard[l]
      BY <2>2 DEF Drop, Holds
    <3> QED
      BY <2>1, <3>1 DEF Holds
  <2>3. CASE guard' = guard /\ \A l \in Locks : ~Holds(r, l)
    BY <2>3 DEF Holds
  <2> QED
    BY <2>2, <2>3
<1>3. task'[r] = t /\ \A q \in Request \ {r} : task'[q] = task[q]
  BY DEF Discipline, Shape
<1>4. Orderly(r)'
  BY <1>2, <1>3 DEF Orderly, Condemned
<1> QED
  BY <1>1, <1>2, <1>3, <1>4, Frame

\* Outside the phases that hold, a request holds nothing.
LEMMA Resting ==
  ASSUME Discipline, NEW r \in Request,
         task[r].pc \notin {"close", "advance", "gather", "apply", "replay"}
  PROVE  \A l \in Locks : ~Holds(r, l)
BY DEF Discipline, Orderly

LEMMA SettleTyped ==
  ASSUME NEW t \in Tasks, NEW todo \in Seq(Works)
  PROVE  /\ SettleNext(t, todo) \in Tasks
         /\ SettleNext(t, todo).pc \in {"done", "observe", "cancel"}
         /\ SettleNext(t, todo).pc = "observe" => SettleNext(t, todo).todo # <<>>
         /\ SettleNext(t, todo).pc = "cancel" => t.doomed # <<>>
         /\ SettleNext(t, todo).doomed = t.doomed
<1>1. CASE todo = <<>> /\ t.doomed = <<>>
  BY <1>1, EmptySeq DEF SettleNext, Tasks, Phases
<1>2. CASE todo # <<>>
  <2>1. Head(todo) \in Works
    BY <1>2
  <2> QED
    BY <1>2, <2>1 DEF SettleNext, Tasks, Phases
<1>3. CASE todo = <<>> /\ t.doomed # <<>>
  <2>1. Head(t.doomed) \in Works
    BY <1>3 DEF Tasks
  <2> QED
    BY <1>3, <2>1, EmptySeq DEF SettleNext, Tasks, Phases
<1> QED
  BY <1>1, <1>2, <1>3

\* A request that goes on to settle, its hands empty.
LEMMA Settling ==
  ASSUME Discipline, plan' = plan, NEW r \in Request,
         NEW todo \in Seq(Works), Settle(r, todo),
         Drop(r) \/ (guard' = guard /\ \A l \in Locks : ~Holds(r, l))
  PROVE  Discipline'
<1>1. task[r] \in Tasks /\ task' = [task EXCEPT ![r] = SettleNext(task[r], todo)]
  BY DEF Discipline, Shape, Settle
<1>2. SettleNext(task[r], todo) \in Tasks
  BY <1>1, SettleTyped
<1>3. Condemned(r, SettleNext(task[r], todo))
  BY <1>1, SettleTyped DEF Discipline, Orderly, Condemned
<1> QED
  BY <1>1, <1>2, <1>3, SettleTyped, EmptyHands

\* A request that goes on to another phase, its hands empty.
LEMMA Going ==
  ASSUME Discipline, plan' = plan, NEW r \in Request,
         NEW pc \in Phases, Goto(r, pc), guard' = guard,
         task[r].pc \notin {"close", "advance", "gather", "apply", "replay"},
         pc \notin {"start", "children", "cancel", "close", "advance", "reevaluate", "replay"},
         pc \in {"observe", "decide", "recheck"} => task[r].todo # <<>>
  PROVE  Discipline'
<1> DEFINE t == [task[r] EXCEPT !.pc = pc]
<1>1. task[r] \in Tasks /\ task' = [task EXCEPT ![r] = t]
  BY DEF Discipline, Shape, Goto
<1>2. t \in Tasks /\ t.pc = pc /\ t.todo = task[r].todo /\ t.doomed = task[r].doomed
  BY <1>1 DEF Tasks
<1> HIDE DEF t
<1>3. Condemned(r, t)
  BY <1>2 DEF Discipline, Orderly, Condemned
<1> QED
  BY <1>1, <1>2, <1>3, Resting, EmptyHands

LEMMA TaskTyped ==
  ASSUME Discipline, NEW r \in Request
  PROVE  /\ task[r] \in Tasks /\ task[r].on \in Works /\ task[r].todo \in Seq(Works)
         /\ plan[r].work \in Works /\ <<>> \in Seq(Works)
         /\ <<plan[r].work>> \in Seq(Works)
         /\ <<task[r].on>> \o task[r].todo \in Seq(Works)
         /\ task[r].todo # <<>> => Tail(task[r].todo) \in Seq(Works)
         /\ task[r].doomed \in Seq(Works)
         /\ task[r].doomed # <<>> => Tail(task[r].doomed) \in Seq(Works)
<1>1. task[r] \in Tasks /\ plan[r] \in Plan
  BY DEF Discipline, Shape
<1>2. /\ task[r].on \in Works /\ task[r].todo \in Seq(Works) /\ plan[r].work \in Works
      /\ task[r].doomed \in Seq(Works)
  BY <1>1 DEF Tasks, Plan
<1>3. <<task[r].on>> \in Seq(Works) /\ <<plan[r].work>> \in Seq(Works)
  BY <1>2
<1> QED
  BY <1>1, <1>2, <1>3, EmptySeq, ConcatProperties, HeadTailProperties

LEMMA LapKeeps ==
  ASSUME Discipline, plan' = plan, guard' = guard, NEW r \in Request,
         NEW todo \in Seq(Works), NEW pc \in {"again", "observe"}, LosesLap(r, pc, todo),
         task[r].pc \notin {"close", "advance", "gather", "apply", "replay"},
         pc = "observe" => task[r].todo # <<>>
  PROVE  Discipline'
<1>1. CASE Settle(r, todo)
  BY <1>1, Resting, Settling
<1>2. CASE Goto(r, pc)
  BY <1>2, Going DEF Phases
<1> QED
  BY <1>1, <1>2 DEF LosesLap

\* The steps of requests that hold nothing and take nothing they keep.
LEMMA LightStepKeeps ==
  ASSUME Discipline, NEW r \in Request,
         \/ Write(r) \/ ClaimRefused(r) \/ Look(r) \/ Admit(r) \/ Raise(r)
         \/ AskSettle(r) \/ Observe(r) \/ Decide(r) \/ Mint(r)
         \/ AskApply(r) \/ Resolve(r) \/ Reconcile(r)
  PROVE  Discipline'
<1> USE TaskTyped
<1>1. CASE Write(r)
  BY <1>1, Resting, Settling DEF Write, Asks, At, Finish
<1>2. CASE ClaimRefused(r)
  BY <1>2, Resting, Settling DEF ClaimRefused, Asks, At
<1>3. CASE Look(r)
  <2>1. CASE Goto(r, "admit")
    BY <1>3, <2>1, Going DEF Look, Asks, At, Phases
  <2>2. CASE Finish(r)
    BY <1>3, <2>2, Resting, Settling DEF Look, Asks, At, Finish
  <2> QED
    BY <1>3, <2>1, <2>2 DEF Look
<1>4. CASE Admit(r)
  BY <1>4, Going DEF Admit, At, Phases
<1>5. CASE Raise(r)
  <2>1. CASE Settle(r, <<plan[r].work>>)
    BY <1>5, <2>1, Resting, Settling DEF Raise, At
  <2>2. CASE LosesLap(r, "again", <<>>)
    BY <1>5, <2>2, LapKeeps DEF Raise, At
  <2> QED
    BY <1>5, <2>1, <2>2 DEF Raise
<1>6. CASE AskSettle(r)
  BY <1>6, Resting, Settling DEF AskSettle, Asks, At
<1>7. CASE Observe(r)
  BY <1>7, Going DEF Observe, At, Phases, Discipline, Orderly
<1>8. CASE Decide(r)
  BY <1>8, Going DEF Decide, At, Phases, Discipline, Orderly
<1>9. CASE Mint(r)
  <2>1. task[r].todo # <<>>
    BY <1>9 DEF Mint, At, Discipline, Orderly
  <2>2. CASE Settle(r, Tail(task[r].todo))
    BY <1>9, <2>1, <2>2, Resting, Settling DEF Mint, At
  <2>3. CASE LosesLap(r, "observe", Tail(task[r].todo))
    BY <1>9, <2>1, <2>3, LapKeeps DEF Mint, At
  <2> QED
    BY <1>9, <2>2, <2>3 DEF Mint
<1>10. CASE AskApply(r)
  <2>1. CASE Goto(r, "resolve")
    BY <1>10, <2>1, Going DEF AskApply, Asks, At, Phases
  <2>2. CASE Finish(r)
    BY <1>10, <2>2, Resting, Settling DEF AskApply, Asks, At, Finish
  <2> QED
    BY <1>10, <2>1, <2>2 DEF AskApply
<1>11. CASE Resolve(r)
  <2> DEFINE t == [task[r] EXCEPT !.pc = "gather", !.need = Needed(r)]
  <2>1. Needed(r) \subseteq Works
    BY DEF Needed, Discipline, Shape, Plan
  <2>2. t \in Tasks
    BY <2>1 DEF Tasks, Phases
  <2>3. task' = [task EXCEPT ![r] = t] /\ t.pc = "gather" /\ t.doomed = task[r].doomed
    BY <1>11 DEF Resolve, Discipline, Shape, Tasks
  <2> HIDE DEF t
  <2>4. Condemned(r, t)
    BY <2>3 DEF Discipline, Orderly, Condemned
  <2> QED
    BY <1>11, <2>2, <2>3, <2>4, Resting, EmptyHands DEF Resolve, At
<1>12. CASE Reconcile(r)
  BY <1>12, Resting, Settling DEF Reconcile, At, Finish
<1> QED
  BY <1>1, <1>2, <1>3, <1>4, <1>5, <1>6, <1>7, <1>8, <1>9, <1>10, <1>11, <1>12

\* The steps of a Claim from its append to its parent's closure, and those of a
\* cancel about the parent.
LEMMA ClaimStepKeeps ==
  ASSUME Discipline, NEW r \in Request,
         ClaimRecorded(r) \/ Close(r) \/ Advance(r) \/ Reevaluate(r)
  PROVE  Discipline'
<1> USE TaskTyped
<1>0. r # Free /\ Atlas \notin Works
  BY JournalGuardsAssumption DEF Tree
<1>1. CASE ClaimRecorded(r)
  <2>1. /\ task'[r] \in Tasks /\ task'[r].pc \in {"close", "advance"}
        /\ task'[r].on = task[r].on /\ task'[r].doomed = task[r].doomed
        /\ task' \in [Request -> Tasks]
        /\ \A q \in Request \ {r} : task'[q] = task[q]
    <3> DEFINE t == [task[r] EXCEPT !.pc = IF LeafOf(Own(r), plan[r].run) = 1 THEN "close"
                                           ELSE "advance",
                                    !.todo = <<plan[r].work>>]
    <3>1. /\ t \in Tasks /\ t.pc \in {"close", "advance"} /\ t.on = task[r].on
          /\ t.doomed = task[r].doomed
      BY DEF Tasks, Phases
    <3>2. task' = [task EXCEPT ![r] = t]
      BY <1>1 DEF ClaimRecorded
    <3> HIDE DEF t
    <3> QED
      BY <3>1, <3>2 DEF Discipline, Shape
  <2>2. plan' = plan /\ plan[r].op = "claim" /\ \A l \in Locks : ~Holds(r, l)
    BY <1>1, Resting DEF ClaimRecorded, Asks, At
  <2>3. /\ guard' = [guard EXCEPT ![task[r].on] = r] /\ guard[task[r].on] = Free
        /\ task[r].on \in Locks
    BY <1>1 DEF ClaimRecorded, Take, IsFree, Locks
  <2>4. Shape'
    BY <2>1, <2>2, <2>3 DEF Discipline, Shape
  <2>5. \A l \in Locks : /\ guard'[l] = guard[l] \/ {guard[l], guard'[l]} \subseteq {Free, r}
                         /\ Holds(r, l)' => l = task[r].on
    BY <1>0, <2>2, <2>3 DEF Discipline, Shape, Holds
  <2>6. Orderly(r)'
    BY <2>1, <2>2, <2>5 DEF Orderly, Condemned, Discipline
  <2> QED
    BY <2>1, <2>2, <2>4, <2>5, <2>6, Frame
<1>2. CASE Close(r)
  <2>1. CASE Goto(r, "advance") /\ UNCHANGED guard
    <3>1. /\ task' = [task EXCEPT ![r].pc = "advance"] /\ task[r].pc = "close"
          /\ plan' = plan /\ guard' = guard /\ plan[r].op \in {"claim"} \cup Ends
      BY <1>2, <2>1 DEF Close, Goto, At, Discipline, Orderly
    <3>0. task \in [Request -> Tasks] /\ task[r] \in Tasks
      BY DEF Discipline, Shape
    <3>5. "advance" \in Phases
      BY DEF Phases
    <3>6. [task[r] EXCEPT !.pc = "advance"] \in Tasks
      BY <3>0, <3>5 DEF Tasks
    <3>2. /\ task'[r] = [task[r] EXCEPT !.pc = "advance"]
          /\ task'[r] \in Tasks /\ task' \in [Request -> Tasks]
          /\ \A q \in Request \ {r} : task'[q] = task[q]
      BY <3>0, <3>1, <3>6
    <3>3. Shape'
      BY <3>1, <3>2 DEF Discipline, Shape
    <3>4. Orderly(r)'
      BY <3>1, <3>2 DEF Orderly, Condemned, Holds, Tasks, Discipline
    <3> QED
      BY <3>1, <3>2, <3>3, <3>4, Frame
  <2>2. CASE Settle(r, task[r].todo) /\ Drop(r)
    BY <1>2, <2>2, Settling DEF Close
  <2> QED
    BY <1>2, <2>1, <2>2 DEF Close
<1>3. CASE Advance(r)
  <2>1. /\ plan' = plan /\ Drop(r) /\ task[r].pc = "advance"
        /\ plan[r].op \in {"claim"} \cup Ends
    BY <1>3 DEF Advance, At, Discipline, Orderly
  <2>2. CASE Settle(r, task[r].todo)
    BY <2>1, <2>2, Settling
  <2>3. CASE /\ task' = [task EXCEPT ![r].pc = "reevaluate", ![r].on = Parent[task[r].on]]
             /\ Parent[task[r].on] # NoWork
    <3> DEFINE t == [task[r] EXCEPT !.pc = "reevaluate", !.on = Parent[task[r].on]]
    <3>1. Parent[task[r].on] \in Works
      BY <2>3, JournalGuardsAssumption DEF Tree
    <3>2. /\ t \in Tasks /\ t.pc = "reevaluate" /\ t.doomed = task[r].doomed
          /\ task' = [task EXCEPT ![r] = t]
      BY <2>3, <3>1 DEF Tasks, Phases, Discipline, Shape
    <3> HIDE DEF t
    <3>3. Condemned(r, t)
      BY <3>2 DEF Discipline, Orderly, Condemned
    <3> QED
      BY <2>1, <3>2, <3>3, EmptyHands
  <2> QED
    BY <1>3, <2>2, <2>3 DEF Advance
<1>4. CASE Reevaluate(r)
  <2>1. /\ plan' = plan /\ task[r].pc = "reevaluate" /\ plan[r].op \in {"claim"} \cup Ends
        /\ \A l \in Locks : ~Holds(r, l)
    BY <1>4, Resting DEF Reevaluate, At, Discipline, Orderly
  <2> DEFINE todo == <<task[r].on>> \o task[r].todo
  <2>2. CASE /\ task' = [task EXCEPT ![r].pc = "close", ![r].todo = todo]
             /\ Take(r, task[r].on)
    <3>1. /\ task'[r] \in Tasks /\ task'[r].pc = "close" /\ task'[r].on = task[r].on
          /\ task'[r].doomed = task[r].doomed
          /\ task' \in [Request -> Tasks]
          /\ \A q \in Request \ {r} : task'[q] = task[q]
      <4> HIDE DEF todo
      <4>0. task \in [Request -> Tasks] /\ task[r] \in Tasks
        BY DEF Discipline, Shape
      <4>1. todo \in Seq(Works)
        <5>1. task[r].on \in Works /\ task[r].todo \in Seq(Works)
          BY <4>0 DEF Tasks
        <5> QED
          BY <5>1 DEF todo
      <4>2. [task[r] EXCEPT !.pc = "close", !.todo = todo] \in Tasks
        BY <4>0, <4>1 DEF Tasks, Phases
      <4>3. /\ task'[r] = [task[r] EXCEPT !.pc = "close", !.todo = todo]
            /\ task' \in [Request -> Tasks]
            /\ \A q \in Request \ {r} : task'[q] = task[q]
        BY <2>2, <4>0, <4>2
      <4> QED
        BY <4>0, <4>2, <4>3 DEF Tasks
    <3>2. /\ guard' = [guard EXCEPT ![task[r].on] = r] /\ guard[task[r].on] = Free
          /\ task[r].on \in Locks
      BY <1>4, <2>2 DEF Reevaluate, Take, IsFree, Locks
    <3>3. Shape'
      BY <2>1, <3>1, <3>2 DEF Discipline, Shape
    <3>4. \A l \in Locks : /\ guard'[l] = guard[l] \/ {guard[l], guard'[l]} \subseteq {Free, r}
                           /\ Holds(r, l)' => l = task[r].on
      BY <1>0, <2>1, <3>2 DEF Discipline, Shape, Holds
    <3>5. Orderly(r)'
      BY <2>1, <3>1, <3>4 DEF Orderly, Condemned, Discipline
    <3> QED
      BY <2>1, <3>1, <3>3, <3>4, <3>5, Frame
  <2>3. CASE Settle(r, todo) /\ UNCHANGED guard
    BY <2>1, <2>3, Settling
  <2> QED
    BY <1>4, <2>2, <2>3 DEF Reevaluate
<1> QED
  BY <1>1, <1>2, <1>3, <1>4

\* The open children of a Work can be put in an order.
LEMMA InOrder ==
  ASSUME NEW w \in Works
  PROVE  /\ Orders(OpenChildren(w)) # {}
         /\ Orders(OpenChildren(w)) \subseteq Seq(Works)
<1> DEFINE open == OpenChildren(w)
<1>1. IsFiniteSet(open)
  <2>1. IsFiniteSet({c \in Works : Parent[c] = w}) /\ open \subseteq {c \in Works : Parent[c] = w}
    BY JournalGuardsAssumption DEF Tree, OpenChildren, Children
  <2> QED
    BY <2>1, FS_Subset
<1>2. Cardinality(open) \in Nat /\ open \subseteq Works
  BY <1>1, FS_CardinalityType DEF OpenChildren, Children
<1>3. Orders(open) \subseteq Seq(Works)
  BY <1>2 DEF Orders
<1>4. PICK s \in Bijection(1..Cardinality(open), open) : TRUE
  BY <1>1, FS_NatBijection, FS_CountingElements DEF ExistsBijection
<1>5. s \in Orders(open)
  BY <1>4 DEF Orders, Bijection, Surjection, Injection
<1> QED
  BY <1>3, <1>5

\* A request that has done with a Work it was to cancel.
LEMMA Sparing ==
  ASSUME Discipline, plan' = plan, guard' = guard, NEW r \in Request, Spared(r),
         task[r].doomed # <<>>,
         task[r].pc \notin {"close", "advance", "gather", "apply", "replay"}
  PROVE  Discipline'
<1> USE TaskTyped
<1> DEFINE u == [task[r] EXCEPT !.doomed = Tail(@)]
           t == SettleNext(u, <<>>)
<1>1. u \in Tasks
  BY DEF Tasks
<1>2. task' = [task EXCEPT ![r] = t]
  BY DEF Spared
<1> HIDE DEF u
<1>3. /\ t \in Tasks /\ t.pc \in {"done", "observe", "cancel"}
      /\ t.pc = "observe" => t.todo # <<>>
      /\ t.pc = "cancel" => t.doomed # <<>>
  BY <1>1, SettleTyped
<1> HIDE DEF t
<1>4. plan[r].op \in Ends
  BY DEF Discipline, Orderly, Condemned
<1>5. Condemned(r, t)
  BY <1>3, <1>4 DEF Condemned
<1> QED
  BY <1>2, <1>3, <1>5, Resting, EmptyHands

\* The steps of a cancel.
LEMMA CancelStepKeeps ==
  ASSUME Discipline, NEW r \in Request,
         CancelLooks(r) \/ CancelSeesChildren(r) \/ CancelWrites(r)
  PROVE  Discipline'
<1> USE TaskTyped
<1>0. /\ plan' = plan /\ guard' = guard /\ task[r].pc \in {"start", "children", "cancel"}
      /\ task[r].doomed # <<>> /\ plan[r].op \in Ends
  BY DEF CancelLooks, CancelSeesChildren, CancelWrites, At, Discipline, Orderly, Condemned
<1>1. CASE Spared(r)
  BY <1>0, <1>1, Sparing
<1>2. CASE Goto(r, "children")
  <2> DEFINE t == [task[r] EXCEPT !.pc = "children"]
  <2>1. /\ t \in Tasks /\ t.pc = "children" /\ t.doomed = task[r].doomed
        /\ task' = [task EXCEPT ![r] = t]
    BY <1>2 DEF Tasks, Phases, Goto
  <2> HIDE DEF t
  <2>2. Condemned(r, t)
    BY <1>0, <2>1 DEF Condemned
  <2> QED
    BY <1>0, <2>1, <2>2, Resting, EmptyHands
<1>3. CASE CancelSeesChildren(r) /\ ~Spared(r)
  <2>1. PICK first \in Orders(OpenChildren(task[r].on)) :
          task' = [task EXCEPT ![r].pc = "cancel",
                               ![r].on = Head(first \o task[r].doomed),
                               ![r].looked = @ \cup {task[r].on},
                               ![r].doomed = first \o @]
    BY <1>3 DEF CancelSeesChildren
  <2> DEFINE doomed == first \o task[r].doomed
             t == [task[r] EXCEPT !.pc = "cancel", !.on = Head(doomed),
                                  !.looked = @ \cup {task[r].on}, !.doomed = doomed]
  <2>2. first \in Seq(Works)
    BY <2>1, InOrder
  <2>3. doomed \in Seq(Works) /\ doomed # <<>>
    BY <1>0, <2>2, ConcatProperties
  <2>4. task' = [task EXCEPT ![r] = t]
    BY <2>1 DEF Discipline, Shape
  <2> HIDE DEF doomed
  <2>5. Head(doomed) \in Works
    BY <2>3
  <2>6. t \in Tasks /\ t.pc = "cancel" /\ t.doomed # <<>>
    BY <2>3, <2>5 DEF Tasks, Phases
  <2> HIDE DEF t
  <2>7. Condemned(r, t)
    BY <1>0, <2>6 DEF Condemned
  <2> QED
    BY <1>0, <2>4, <2>6, <2>7, Resting, EmptyHands
<1>4. CASE CancelWrites(r) /\ ~Spared(r)
  <2> DEFINE t == [task[r] EXCEPT !.pc = "reevaluate", !.on = Parent[task[r].on],
                                  !.doomed = Tail(@)]
  <2>1. Parent[task[r].on] # NoWork /\ task' = [task EXCEPT ![r] = t]
    BY <1>4 DEF CancelWrites, Discipline, Shape
  <2>2. Parent[task[r].on] \in Works
    BY <2>1, JournalGuardsAssumption DEF Tree
  <2>3. t \in Tasks /\ t.pc = "reevaluate"
    BY <1>0, <2>2 DEF Tasks, Phases
  <2> HIDE DEF t
  <2>4. Condemned(r, t)
    BY <1>0, <2>3 DEF Condemned
  <2> QED
    BY <1>0, <2>1, <2>3, <2>4, Resting, EmptyHands
<1> QED
  BY <1>1, <1>2, <1>3, <1>4 DEF CancelLooks

\* The steps of an application that holds guards.
LEMMA ApplyStepKeeps ==
  ASSUME Discipline, NEW r \in Request, Gather(r) \/ Judge(r) \/ Apply(r)
  PROVE  Discipline'
<1> USE TaskTyped
<1>0. r # Free /\ task[r].need \subseteq Works
  BY JournalGuardsAssumption DEF Tree, Tasks
<1>1. CASE Gather(r)
  <2> DEFINE next == NextGuard(r)
             t == [task[r] EXCEPT !.need = @ \ {next}]
  <2>1. /\ task[r].pc = "gather" /\ task[r].need # {} /\ plan' = plan
        /\ guard[next] = Free /\ guard' = [guard EXCEPT ![next] = r]
        /\ task' = [task EXCEPT ![r] = t]
    BY <1>1 DEF Gather, At, IsFree, Take
  <2>2. next \in task[r].need /\ \A w \in task[r].need \ {next} : Lower(next, w)
    BY <1>0, <2>1, LeastIsLeast DEF NextGuard
  <2>3. /\ t \in Tasks /\ t.pc = "gather" /\ t.need = task[r].need \ {next}
        /\ t.doomed = task[r].doomed
    BY <2>1 DEF Tasks
  <2>4. next \in Works /\ next \in Locks
    BY <1>0, <2>2 DEF Locks
  <2> HIDE DEF next, t
  <2>5. task'[r] = t /\ \A q \in Request \ {r} : task'[q] = task[q]
    BY <2>1 DEF Discipline, Shape
  <2>6. Shape'
    BY <2>1, <2>3, <2>4 DEF Discipline, Shape
  <2>7. \A l \in Locks : /\ guard'[l] = guard[l] \/ {guard[l], guard'[l]} \subseteq {Free, r}
                         /\ Holds(r, l)' => l = next \/ Holds(r, l)
    BY <2>1, <2>4 DEF Discipline, Shape, Holds
  <2>8. Orderly(r)'
    <3>1. \A l \in Locks : Holds(r, l) => l \in Works /\ \A w \in task[r].need : Lower(l, w)
      BY <2>1 DEF Discipline, Orderly
    <3>2. \A l \in Locks : Holds(r, l)' => l \in Works /\ \A w \in t.need : Lower(l, w)
      BY <2>2, <2>3, <2>4, <2>7, <3>1
    <3>3. \A l \in Locks : Holds(r, l)' => l \in Works /\ \A w \in t.need : Lower(l, w)'
      BY <3>2 DEF Lower
    <3>4. Condemned(r, t)
      BY <2>3 DEF Discipline, Orderly, Condemned
    <3> QED
      BY <2>1, <2>3, <2>5, <3>3, <3>4 DEF Orderly, Condemned
  <2> QED
    BY <2>1, <2>5, <2>6, <2>7, <2>8, Frame
<1>2. CASE Judge(r)
  <2>1. task[r].pc = "gather" /\ plan' = plan
    BY <1>2 DEF Judge, At
  <2>2. CASE Goto(r, "apply") /\ UNCHANGED guard
    <3> DEFINE t == [task[r] EXCEPT !.pc = "apply"]
    <3>1. /\ t \in Tasks /\ t.pc = "apply" /\ t.doomed = task[r].doomed
          /\ task' = [task EXCEPT ![r] = t]
      BY <2>2 DEF Tasks, Phases, Goto
    <3> HIDE DEF t
    <3>2. /\ task'[r] = t /\ \A q \in Request \ {r} : task'[q] = task[q]
          /\ Shape'
      BY <2>1, <2>2, <3>1 DEF Discipline, Shape
    <3>3. \A l \in Locks : Holds(r, l)' => l \in Works
      BY <2>1, <2>2 DEF Discipline, Orderly, Holds
    <3>4. Orderly(r)'
      BY <2>1, <3>1, <3>2, <3>3 DEF Orderly, Condemned, Discipline
    <3> QED
      BY <2>1, <2>2, <3>2, <3>4, Frame
  <2>3. CASE Finish(r) /\ Drop(r)
    BY <2>1, <2>3, Settling DEF Finish
  <2> QED
    BY <1>2, <2>2, <2>3 DEF Judge
<1>3. CASE Apply(r)
  <2> DEFINE t == [task[r] EXCEPT !.pc = "reconcile"]
  <2>1. /\ t \in Tasks /\ t.pc = "reconcile" /\ t.doomed = task[r].doomed
        /\ task' = [task EXCEPT ![r] = t]
    BY <1>3 DEF Tasks, Phases, Apply, Goto
  <2> HIDE DEF t
  <2>2. Condemned(r, t)
    BY <2>1 DEF Discipline, Orderly, Condemned
  <2> QED
    BY <1>3, <2>1, <2>2, EmptyHands DEF Apply
<1> QED
  BY <1>1, <1>2, <1>3

\* The steps of an inventory.
LEMMA InventoryStepKeeps ==
  ASSUME Discipline, NEW r \in Request, Inventory(r) \/ Replay(r)
  PROVE  Discipline'
<1> USE TaskTyped
<1>0. r # Free /\ Atlas \in Locks
  BY JournalGuardsAssumption DEF Tree, Locks
<1>1. CASE Inventory(r)
  <2>1. plan' = plan /\ plan[r].op = "inventory" /\ \A l \in Locks : ~Holds(r, l)
    BY <1>1, Resting DEF Inventory, Asks, At
  <2>2. CASE /\ IsFree(Atlas) /\ Take(r, Atlas)
             /\ task' = [task EXCEPT ![r].pc = "replay", ![r].need = Works]
    <3> DEFINE t == [task[r] EXCEPT !.pc = "replay", !.need = Works]
    <3>1. /\ t \in Tasks /\ t.pc = "replay" /\ t.doomed = task[r].doomed
          /\ task' = [task EXCEPT ![r] = t]
      BY <2>2 DEF Tasks, Phases
    <3> HIDE DEF t
    <3>2. /\ task'[r] = t /\ \A q \in Request \ {r} : task'[q] = task[q]
          /\ Shape'
      BY <1>0, <2>1, <2>2, <3>1 DEF Discipline, Shape, Take
    <3>3. \A l \in Locks : /\ guard'[l] = guard[l] \/ {guard[l], guard'[l]} \subseteq {Free, r}
                           /\ Holds(r, l)' => l = Atlas
      BY <1>0, <2>1, <2>2 DEF Discipline, Shape, Holds, Take, IsFree
    <3>4. Orderly(r)'
      BY <2>1, <3>1, <3>2, <3>3 DEF Orderly, Condemned, Discipline
    <3> QED
      BY <2>1, <3>2, <3>3, <3>4, Frame
  <2>3. CASE Finish(r) /\ UNCHANGED guard
    BY <2>1, <2>3, Settling DEF Finish
  <2> QED
    BY <1>1, <2>2, <2>3 DEF Inventory
<1>2. CASE Replay(r)
  <2>1. plan' = plan /\ task[r].pc = "replay"
    BY <1>2 DEF Replay, At
  <2>2. CASE Drop(r) /\ Finish(r)
    BY <2>1, <2>2, Settling DEF Finish
  <2>3. CASE /\ task' = [task EXCEPT ![r].need = @ \ {NextById(r)}]
             /\ UNCHANGED guard
    <3> DEFINE t == [task[r] EXCEPT !.need = @ \ {NextById(r)}]
    <3>1. /\ t \in Tasks /\ t.pc = "replay" /\ t.doomed = task[r].doomed
          /\ task' = [task EXCEPT ![r] = t]
      BY <2>1, <2>3 DEF Tasks
    <3> HIDE DEF t
    <3>2. /\ task'[r] = t /\ \A q \in Request \ {r} : task'[q] = task[q]
          /\ Shape'
      BY <2>1, <2>3, <3>1 DEF Discipline, Shape
    <3>3. plan[r].op = "inventory" /\ \A l \in Locks : Holds(r, l)' => l = Atlas
      BY <2>1, <2>3 DEF Discipline, Orderly, Holds
    <3>4. Orderly(r)'
      BY <2>1, <3>1, <3>2, <3>3 DEF Orderly, Condemned, Discipline
    <3> QED
      BY <2>1, <2>3, <3>2, <3>4, Frame
  <2> QED
    BY <1>2, <2>2, <2>3 DEF Replay
<1> QED
  BY <1>1, <1>2

LEMMA DisciplineInit ==
  Init => Discipline
<1> SUFFICES ASSUME Init
             PROVE  Discipline
  OBVIOUS
<1>1. plan \in [Request -> Plan]
  BY JournalGuardsAssumption DEF Init
<1>2. ASSUME NEW r \in Request
      PROVE  task[r] \in Tasks /\ Condemned(r, task[r])
  <2>1. plan[r].work \in Works
    BY <1>1 DEF Plan
  <2>2. <<plan[r].work>> \in Seq(Works) /\ <<>> \in Seq(Works) /\ <<plan[r].work>> # <<>>
    BY <2>1
  <2> QED
    BY <2>1, <2>2 DEF Init, Tasks, Phases, Condemned
<1>3. Shape
  BY <1>1, <1>2 DEF Init, Shape
<1>4. ASSUME NEW r \in Request
      PROVE  Orderly(r)
  <2>1. task[r].pc = "start" /\ \A l \in Locks : ~Holds(r, l)
    BY JournalGuardsAssumption DEF Init, Holds, Tree
  <2> QED
    BY <1>2, <2>1 DEF Orderly
<1> QED
  BY <1>3, <1>4 DEF Discipline

LEMMA DisciplineNext ==
  Discipline /\ [Next]_vars => Discipline'
<1> SUFFICES ASSUME Discipline, [Next]_vars
             PROVE  Discipline'
  OBVIOUS
<1>1. ASSUME NEW r \in Request, Step(r)
      PROVE  Discipline'
  BY <1>1, LightStepKeeps, ClaimStepKeeps, CancelStepKeeps, ApplyStepKeeps,
     InventoryStepKeeps DEF Step
<1>2. CASE UNCHANGED vars
  <2>1. plan' = plan /\ guard' = guard /\ task' = task
    BY <1>2 DEF vars
  <2> QED
    BY <2>1 DEF Discipline, Shape, Orderly, Condemned, Holds, Lower
<1> QED
  BY <1>1, <1>2 DEF Next, Answered

\* What a request asks never changes.
LEMMA PlanStays ==
  [Next]_vars => plan' = plan
<1> SUFFICES ASSUME [Next]_vars
             PROVE  plan' = plan
  OBVIOUS
<1>1. ASSUME NEW r \in Request, Step(r)
      PROVE  plan' = plan
  BY <1>1 DEF Step, Write, CancelLooks, CancelSeesChildren, CancelWrites, ClaimRefused,
     ClaimRecorded, Close, Advance, Reevaluate, Look, Admit, Raise, AskSettle, Observe,
     Decide, Mint, AskApply, Resolve, Gather, Judge, Apply, Reconcile, Inventory, Replay
<1> QED
  BY <1>1 DEF Next, Answered, vars

-----------------------------------------------------------------------------
(* What a request may rely on between the moments it holds a guard. *)

Memos == [seen : Nat, lap : 0..Attempts - 1, found : Nat, ready : SUBSET Nat]

\* What settlement_candidates calls ready, of the journal j of w, the journals
\* of its children being told.
SettlesOn(told, w, j, f) ==
  /\ f \in Proposed(j)
  /\ ByClaim(j, f) \/ \E c \in Children(w) : j[f].child = c /\ ByChild(j, f, told[c])

\* A journal is held while it is being written in several steps; what was
\* decided is so of the journal as it was observed; and who has judged an
\* application holds the journals it judged.
Founded(r) ==
  LET t == task[r]
      m == memo[r]
      work == plan[r].work
  IN
  /\ t.pc \in {"start", "admit", "append", "again"} => t.on = work
  /\ t.pc \in {"close", "advance"} => Holds(r, t.on)
  /\ t.pc \in {"admit", "append", "decide", "recheck"} => m.seen <= Len(Own(r))
  /\ t.pc \in {"admit", "append"} => MayRaise(Prefix(Own(r), m.seen), plan[r].run)
  /\ t.pc = "recheck" => \A f \in m.ready : SettlesOn(journal, t.on, Prefix(Own(r), m.seen), f)
  /\ t.pc \in {"gather", "apply"} => \A w \in Needed(r) \ t.need : Holds(r, w)
  /\ t.pc = "apply" => t.need = {} /\ StillProducing(r) /\ Credited(r)

Records ==
  /\ journal \in [Works -> Seq(Event)]
  /\ memo \in [Request -> Memos]

Grounds == Discipline /\ Records /\ \A r \in Request : Founded(r)

-----------------------------------------------------------------------------
(* Journals only grow. *)

Grown(j, k) ==
  /\ j \in Seq(Event) /\ k \in Seq(Event) /\ Len(j) <= Len(k)
  /\ \A i \in 1..Len(j) : k[i] = j[i]

LEMMA Appended ==
  ASSUME NEW j \in Seq(Event), NEW e \in Seq(Event)
  PROVE  /\ Grown(j, j \o e) /\ Len(j \o e) = Len(j) + Len(e)
         /\ \A i \in Len(j) + 1 .. Len(j \o e) : i - Len(j) \in DOMAIN e /\ (j \o e)[i] = e[i - Len(j)]
BY DEF Grown

LEMMA Observed ==
  ASSUME NEW j \in Seq(Event), NEW n \in 0..Len(j)
  PROVE  /\ Prefix(j, n) \in Seq(Event) /\ Len(Prefix(j, n)) = n
         /\ \A i \in 1..n : Prefix(j, n)[i] = j[i]
         /\ Prefix(j, Len(j)) = j
<1>1. Prefix(j, n) = [i \in 1..n |-> j[i]]
  BY DEF Prefix
<1>2. Prefix(j, Len(j)) = j
  BY DEF Prefix
<1>3. \A i \in 1..n : j[i] \in Event
  OBVIOUS
<1> QED
  BY <1>1, <1>2, <1>3

\* An observation is one of every later journal.
LEMMA StillObserved ==
  ASSUME NEW j, NEW k, Grown(j, k), NEW n \in 0..Len(j)
  PROVE  Prefix(k, n) = Prefix(j, n)
<1>1. Prefix(k, n) = [i \in 1..n |-> k[i]] /\ Prefix(j, n) = [i \in 1..n |-> j[i]]
  BY DEF Prefix, Grown
<1> QED
  BY <1>1 DEF Grown

LEMMA StillSays ==
  ASSUME NEW j, NEW k, Grown(j, k)
  PROVE  /\ \A e : Says(j, e) => Says(k, e)
         /\ \A x : Has(j, x) => Has(k, x)
         /\ \A c : Receipted(j, c) => Receipted(k, c)
BY DEF Grown, Says, Has, Receipted

\* New Runs come from RunOpened alone.
LEMMA SameRunsOf ==
  ASSUME NEW j, NEW k, Grown(j, k), \A i \in Len(j) + 1 .. Len(k) : k[i].k # "open"
  PROVE  /\ RunsOf(k) = RunsOf(j)
         /\ \A n : LeafOf(k, n) = LeafOf(j, n)
         /\ \A n : Latest(k, n) <=> Latest(j, n)
<1>1. \A i \in DOMAIN k : i \in DOMAIN j \/ i \in Len(j) + 1 .. Len(k)
  BY DEF Grown
<1>2. \A i \in DOMAIN j : i \in DOMAIN k /\ k[i] = j[i]
  BY DEF Grown
<1>3. RunsOf(k) = RunsOf(j)
  BY <1>1, <1>2 DEF RunsOf
<1>4. \A n, leaf : Says(k, Open(n, leaf)) <=> Says(j, Open(n, leaf))
  BY <1>1, <1>2 DEF Says, Open
<1>5. \A n : LeafOf(k, n) = LeafOf(j, n)
  BY <1>4 DEF LeafOf
<1> QED
  BY <1>3, <1>5 DEF Latest

-----------------------------------------------------------------------------
(* What each step writes, and into whose journal. *)

Writes(r, w, e) ==
  /\ w \in Works /\ e \in Seq(Event) /\ guard[w] \in {Free, r}
  /\ journal' = [journal EXCEPT ![w] = @ \o e]

\* Events no property of this module is about.
Plain(e) == \A i \in DOMAIN e : e[i].k \notin {"raise", "settle", "apply"}

\* Runs are opened in turn, and only a Run that was opened is claimed.
InTurn(j, e) ==
  /\ \A h, i \in DOMAIN e : e[h].k = "open" /\ e[i].k = "open" => h = i
  /\ \A i \in DOMAIN e : e[i].k = "open" => e[i].run = Next1(j)
  /\ \A i \in DOMAIN e : e[i].k = "claim" => e[i].run \in RunsOf(j)
Claims(e) == \E i \in DOMAIN e : e[i].k = "claim"

LEMMA EventTypes ==
  /\ \A n \in Nat : Failed(n) \in Event /\ Claimed(n) \in Event /\ Retried(n) \in Event
  /\ \A n \in Nat, leaf \in Leaves : Open(n, leaf) \in Event
  /\ \A k \in {"refused", "cancel", "assert"} : Mark(k) \in Event
  /\ \A S \in SUBSET Works : Held(S) \in Event /\ Closed(S) \in Event
  /\ \A n, claim, of \in Nat, child \in Works : Raised(n, claim, child, of) \in Event
  /\ \A f \in Nat : Settled(f) \in Event
  /\ \A f, run, cite \in Nat, by, from \in Works : Applied(f, by, run, from, cite) \in Event
BY DEF Event, Failed, Claimed, Retried, Held, Closed, Open, Mark, Raised, Settled, Applied

LEMMA RunsOfTyped ==
  ASSUME NEW j \in Seq(Event)
  PROVE  Next1(j) \in Nat /\ \A n \in RunsOf(j) : LeafOf(j, n) \in Leaves
<1> DEFINE I == {h \in DOMAIN j : j[h].k = "open"}
           f == [i \in I |-> j[i].run]
<1>1. IsFiniteSet(I)
  BY FS_Interval, FS_Subset
<1>2. f \in Surjection(I, RunsOf(j))
  BY DEF Surjection, RunsOf
<1>3. Next1(j) \in Nat
  BY <1>1, <1>2, FS_Surjection, FS_CardinalityType DEF Next1
<1>4. ASSUME NEW n \in RunsOf(j)
      PROVE  LeafOf(j, n) \in Leaves
  <2>1. PICK i \in DOMAIN j : j[i].k = "open" /\ j[i].run = n
    BY DEF RunsOf
  <2>2. j[i] \in [k : {"open"}, run : Nat, leaf : Leaves]
    BY <2>1 DEF Event
  <2>3. j[i].leaf \in Leaves /\ j[i] = Open(n, j[i].leaf)
    BY <2>1, <2>2 DEF Open
  <2> QED
    BY <2>3 DEF LeafOf, Says
<1> QED
  BY <1>3, <1>4

\* The writes of a Claim, a failure, a retry, a cancellation and a judgement.
LEMMA PlainSteps ==
  ASSUME Grounds, NEW r \in Request,
         \/ Write(r) \/ ClaimRefused(r) \/ ClaimRecorded(r) \/ Close(r) \/ Advance(r)
         \/ CancelWrites(r)
  PROVE  \/ journal' = journal
         \/ \E w \in Works, e \in Seq(Event) :
              /\ Writes(r, w, e) /\ Plain(e) /\ InTurn(journal[w], e)
              /\ Claims(e) => ClaimRecorded(r) /\ w = plan[r].work
<1>0. /\ plan[r] \in Plan /\ plan[r].work \in Works /\ plan[r].run \in Nat
      /\ task[r] \in Tasks /\ task[r].on \in Works
      /\ journal \in [Works -> Seq(Event)] /\ Founded(r)
  BY DEF Grounds, Discipline, Shape, Records, Plan, Tasks
<1> DEFINE Fits(w, e) == Plain(e) /\ InTurn(journal[w], e) /\ ~Claims(e)
<1>1. ASSUME NEW w \in Works, IsFree(w) \/ Holds(r, w), NEW e \in Seq(Event), Append1(w, e), Fits(w, e)
      PROVE  \E v \in Works, d \in Seq(Event) : Writes(r, v, d) /\ Fits(v, d)
  BY <1>1 DEF Writes, Append1, IsFree, Holds
\* One event that opens no Run, or none, fits every journal.
<1>2. ASSUME NEW w \in Works
      PROVE  /\ Fits(w, <<>>)
             /\ \A x \in Event : x.k \notin {"raise", "settle", "apply", "open", "claim"} =>
                  <<x>> \in Seq(Event) /\ Fits(w, <<x>>)
  BY DEF Plain, InTurn, Claims
<1>3. CASE Write(r)
  <2> DEFINE w == plan[r].work
             j == journal[w]
             n == plan[r].run
  <2>1. IsFree(w) /\ j \in Seq(Event)
    BY <1>0, <1>3 DEF Write
  <2>2. /\ <<Failed(n)>> \in Seq(Event) /\ Fits(w, <<Failed(n)>>)
        /\ <<Mark("assert")>> \in Seq(Event) /\ Fits(w, <<Mark("assert")>>)
        /\ <<>> \in Seq(Event) /\ Fits(w, <<>>)
    <3>1. /\ Failed(n) \in Event /\ Failed(n).k = "fail"
          /\ Mark("assert") \in Event /\ Mark("assert").k = "assert"
      BY <1>0, EventTypes DEF Failed, Mark
    <3>2. w \in Works /\ <<>> \in Seq(Event)
      BY <1>0
    <3> HIDE DEF Fits, n, w, j
    <3> QED
      BY <1>2, <3>1, <3>2
  <2>3. ASSUME MayRetry(j, n)
        PROVE  /\ <<Retried(n), Open(Next1(j), LeafOf(j, n))>> \in Seq(Event)
               /\ Fits(w, <<Retried(n), Open(Next1(j), LeafOf(j, n))>>)
    <3>1. Open(Next1(j), LeafOf(j, n)) \in Event /\ Retried(n) \in Event
      BY <1>0, <2>1, <2>3, RunsOfTyped, EventTypes DEF MayRetry, Latest
    <3>2. /\ Retried(n).k = "retried" /\ Open(Next1(j), LeafOf(j, n)).k = "open"
          /\ Open(Next1(j), LeafOf(j, n)).run = Next1(j)
      BY DEF Retried, Open
    <3> HIDE DEF j, n
    <3> QED
      BY <3>1, <3>2 DEF Plain, InTurn, Claims, j
  <2>4. PICK e \in Seq(Event) : Append1(w, e) /\ Fits(w, e)
    <3>1. CASE Append1(w, IF n \in Running(j) /\ ~Terminal(j) THEN <<Failed(n)>> ELSE <<>>)
      BY <2>2, <3>1
    <3>2. CASE Append1(w, IF MayRetry(j, n) THEN <<Retried(n), Open(Next1(j), LeafOf(j, n))>> ELSE <<>>)
      BY <2>2, <2>3, <3>2
    <3>3. CASE Append1(w, IF Findings(j) = {} THEN <<>> ELSE <<Mark("assert")>>)
      BY <2>2, <3>3
    <3> QED
      BY <1>3, <3>1, <3>2, <3>3 DEF Write
  <2> QED
    BY <1>0, <1>1, <2>1, <2>4
<1>4. CASE ClaimRecorded(r)
  <2> DEFINE e == <<Claimed(plan[r].run)>>
  <2>1. Claimed(plan[r].run) \in Event /\ Claimed(plan[r].run).k = "claim"
        /\ Claimed(plan[r].run).run = plan[r].run
    BY <1>0, EventTypes DEF Claimed
  <2>2. task[r].on = plan[r].work /\ plan[r].run \in RunsOf(journal[plan[r].work])
    BY <1>0, <1>4 DEF ClaimRecorded, Asks, At, Founded, Own, MayClaim
  <2>3. e \in Seq(Event) /\ Plain(e) /\ InTurn(journal[plan[r].work], e)
    BY <2>1, <2>2 DEF Plain, InTurn
  <2>4. Writes(r, plan[r].work, e)
    BY <1>0, <1>4, <2>2, <2>3 DEF ClaimRecorded, Writes, Append1, IsFree
  <2> QED
    BY <1>0, <1>4, <2>3, <2>4
<1>5. CASE Close(r)
  <2> DEFINE w == task[r].on
             closed == Closed(Receipts(Own(r), w))
             held == Held(Missing(Own(r), w))
  <2>1. /\ <<closed>> \in Seq(Event) /\ Fits(w, <<closed>>)
        /\ <<held>> \in Seq(Event) /\ Fits(w, <<held>>)
        /\ <<>> \in Seq(Event) /\ Fits(w, <<>>)
    <3>1. Receipts(Own(r), w) \in SUBSET Works /\ Missing(Own(r), w) \in SUBSET Works
      BY <1>0 DEF Receipts, Missing, Children
    <3>2. closed \in Event /\ held \in Event
      BY <3>1, EventTypes
    <3>3. closed.k = "closed" /\ held.k = "held" /\ w \in Works /\ <<>> \in Seq(Event)
      BY <1>0 DEF Closed, Held
    <3> HIDE DEF w, closed, held
    <3> HIDE DEF Fits
    <3> QED
      BY <1>2, <3>2, <3>3
  <2>2. Holds(r, w) /\ w \in Works
    BY <1>0, <1>5 DEF Close, At, Founded
  <2>3. \E e \in {<<closed>>, <<held>>, <<>>} : Append1(w, e)
    BY <1>5 DEF Close
  <2> HIDE DEF w, closed, held, Fits
  <2> QED
    BY <1>1, <2>1, <2>2, <2>3 DEF Fits
<1>6. CASE Advance(r)
  <2>1. Holds(r, task[r].on)
    BY <1>0, <1>6 DEF Advance, At, Founded
  <2>2. Next1(Own(r)) \in Nat
    BY <1>0, RunsOfTyped DEF Own
  <2>3. /\ <<Open(Next1(Own(r)), 2)>> \in Seq(Event)
        /\ Fits(task[r].on, <<Open(Next1(Own(r)), 2)>>)
    <3>1. Open(Next1(Own(r)), 2) \in Event
      BY <2>2, EventTypes DEF Leaves
    <3>2. Open(Next1(Own(r)), 2).k = "open" /\ Open(Next1(Own(r)), 2).run = Next1(journal[task[r].on])
      BY DEF Open, Own
    <3> QED
      BY <3>1, <3>2 DEF Plain, InTurn, Claims
  <2> QED
    BY <1>0, <1>1, <1>6, <2>1, <2>3 DEF Advance
<1>7. CASE ClaimRefused(r) \/ CancelWrites(r)
  <2> DEFINE w == task[r].on
  <2>1. \A k \in {"refused", "cancel"} : <<Mark(k)>> \in Seq(Event) /\ Fits(w, <<Mark(k)>>)
    <3> TAKE k \in {"refused", "cancel"}
    <3>1. Mark(k) \in Event /\ Mark(k).k = k /\ w \in Works
      BY <1>0, EventTypes DEF Mark
    <3>2. Mark(k).k \notin {"raise", "settle", "apply", "open", "claim"}
      BY <3>1
    <3> HIDE DEF Fits, w
    <3> QED
      BY <1>2, <3>1, <3>2
  <2>2. Fits(w, <<>>) /\ <<>> \in Seq(Event) /\ w \in Works
    BY <1>0, <1>2
  <2>3. IsFree(w) /\ (journal' = journal \/ \E e \in {<<Mark("refused")>>, <<Mark("cancel")>>, <<>>} : Append1(w, e))
    BY <1>7 DEF ClaimRefused, CancelWrites
  <2> HIDE DEF w, Fits
  <2> QED
    BY <1>1, <2>1, <2>2, <2>3 DEF Fits
<1> QED
  BY <1>3, <1>4, <1>5, <1>6, <1>7

\* The elements of a finite set of numbers have every rank below its size.
LEMMA Ranks ==
  ASSUME NEW S \in SUBSET Nat, IsFiniteSet(S), NEW n \in 0..(Cardinality(S) - 1)
  PROVE  \E f \in S : Cardinality({g \in S : g < f}) = n
<1> DEFINE Below(f) == {g \in S : g < f}
           rank == [f \in S |-> Cardinality(Below(f))]
<1>0. Cardinality(S) \in Nat /\ n \in Nat /\ n < Cardinality(S)
  BY FS_CardinalityType
<1>1. \A f \in S : IsFiniteSet(Below(f)) /\ rank[f] \in Nat
  <2> TAKE f \in S
  <2>1. IsFiniteSet(Below(f))
    BY FS_Subset
  <2> HIDE DEF Below
  <2> QED
    BY <2>1, FS_CardinalityType
<1>2. \A f, g \in S : g < f => rank[g] < rank[f]
  <2> SUFFICES ASSUME NEW f \in S, NEW g \in S, g < f
               PROVE  rank[g] < rank[f]
    OBVIOUS
  <2>1. f \in Nat /\ g \in Nat /\ \A x \in S : x \in Nat /\ (x < g => x < f)
    OBVIOUS
  <2>3. Below(g) \in SUBSET Below(f) /\ g \in Below(f) /\ g \notin Below(g)
    <3>1. \A x \in Below(g) : x \in Below(f)
      BY <2>1
    <3>2. g \in Below(f)
      OBVIOUS
    <3>3. ~(g < g)
      BY <2>1
    <3>4. g \notin Below(g)
      BY <3>3
    <3> HIDE DEF Below
    <3> QED
      BY <3>1, <3>2, <3>4
  <2> HIDE DEF Below
  <2>2. Cardinality(Below(g)) <= Cardinality(Below(f)) /\ Cardinality(Below(f)) # Cardinality(Below(g))
    BY <1>1, <2>3, FS_Subset
  <2> QED
    BY <1>1, <2>2
<1>3. \A f, g \in S : rank[f] = rank[g] => f = g
  BY <1>1, <1>2
\* As many as have a rank below n.
<1>4. ASSUME NEW T \in SUBSET S, \A f \in T : rank[f] < n
      PROVE  Cardinality(T) <= n
  <2> DEFINE h == [f \in T |-> rank[f]]
  <2> HIDE DEF rank, Below
  <2>1. ASSUME NEW f \in T
        PROVE  rank[f] \in 0..(n - 1)
    <3>1. rank[f] \in Nat /\ rank[f] < n
      BY <1>1, <1>4
    <3> QED
      BY <1>0, <3>1
  <2>2. IsFiniteSet(0..(n - 1)) /\ Cardinality(0..(n - 1)) = n
    <3>1. n - 1 \in Int /\ 0 \in Int /\ (0 > n - 1 => n = 0) /\ (n - 1) - 0 + 1 = n
      BY <1>0
    <3> QED
      BY <3>1, FS_Interval
  <2>3. h \in [T -> 0..(n - 1)] /\ \A f, g \in T : h[f] = h[g] => f = g
    BY <1>3, <2>1
  <2>4. h \in Injection(T, 0..(n - 1))
    BY <2>3 DEF Injection, IsInjective
  <2> HIDE DEF h
  <2> QED
    BY <2>2, <2>4, FS_Injection
<1> DEFINE U == {f \in S : ~(rank[f] < n)}
<1>5. U # {}
  <2> SUFFICES ASSUME U = {}
               PROVE  FALSE
    OBVIOUS
  <2>1. \A f \in S : rank[f] < n
    BY <1>1
  <2> HIDE DEF rank, U
  <2> QED
    BY <1>0, <1>4, <2>1
<1>6. PICK u \in U : \A v \in U : u <= v
  <2> DEFINE id == [f \in U |-> f]
  <2>1. \A f \in U : id[f] = f /\ id[f] \in Nat
    BY DEF U
  <2> HIDE DEF U, id
  <2> QED
    BY <1>5, <2>1, LeastValue
<1>7. u \in S /\ ~(rank[u] < n) /\ rank[u] = Cardinality(Below(u)) /\ Below(u) \in SUBSET S
  BY <1>6
<1>8. \A f \in Below(u) : rank[f] < n
  <2> SUFFICES ASSUME NEW f \in Below(u), ~(rank[f] < n)
               PROVE  FALSE
    OBVIOUS
  <2>1. f \in U /\ f < u /\ f \in Nat /\ u \in Nat
    BY <1>7
  <2> HIDE DEF U, rank, Below
  <2> QED
    BY <1>6, <2>1
<1>9. rank[u] = n
  <2> HIDE DEF rank, Below, U
  <2> QED
    BY <1>0, <1>1, <1>4, <1>7, <1>8
<1> QED
  BY <1>7, <1>9

\* One settlement for each of them, and none twice.
LEMMA SettlementsOf ==
  ASSUME NEW S \in SUBSET Nat, IsFiniteSet(S)
  PROVE  /\ Settlements(S) \in Seq(Event)
         /\ \A i \in DOMAIN Settlements(S) :
              \E f \in S : /\ Settlements(S)[i] = Settled(f)
                           /\ \A h \in DOMAIN Settlements(S) : h # i => Settlements(S)[h] # Settled(f)
<1> DEFINE rank(f) == Cardinality({g \in S : g < f})
           pick(i) == CHOOSE f \in S : rank(f) = i - 1
           n == Cardinality(S)
<1>1. n \in Nat
  BY FS_CardinalityType
<1>2. Settlements(S) = [i \in 1..n |-> Settled(pick(i))]
  BY DEF Settlements
<1>3. \A i \in 1..n : pick(i) \in S /\ rank(pick(i)) = i - 1
  <2> TAKE i \in 1..n
  <2>1. i - 1 \in 0..(n - 1)
    BY <1>1
  <2>2. \E f \in S : rank(f) = i - 1
    BY <2>1, Ranks
  <2> HIDE DEF rank
  <2> QED
    BY <2>2
<1> HIDE DEF rank, pick, n
<1>4. \A i \in 1..n : Settled(pick(i)) \in Event
  BY <1>3, EventTypes
<1>5. Settlements(S) \in Seq(Event) /\ DOMAIN Settlements(S) = 1..n
  BY <1>1, <1>2, <1>4
<1>6. \A h, i \in 1..n : h # i => Settled(pick(h)) # Settled(pick(i))
  <2> SUFFICES ASSUME NEW h \in 1..n, NEW i \in 1..n, Settled(pick(h)) = Settled(pick(i))
               PROVE  h = i
    OBVIOUS
  <2>1. pick(h) = pick(i)
    BY DEF Settled
  <2>2. h - 1 = i - 1
    BY <1>3, <2>1
  <2> QED
    BY <2>2
<1>7. ASSUME NEW i \in 1..n
      PROVE  \E f \in S : /\ Settlements(S)[i] = Settled(f)
                          /\ \A h \in 1..n : h # i => Settlements(S)[h] # Settled(f)
  <2>1. pick(i) \in S /\ \A h \in 1..n : Settlements(S)[h] = Settled(pick(h))
    BY <1>2, <1>3
  <2> QED
    BY <1>6, <2>1
<1> QED
  BY <1>5, <1>7

LEMMA GroundsFacts ==
  ASSUME Grounds, NEW r \in Request
  PROVE  /\ plan[r] \in Plan /\ plan[r].work \in Works /\ plan[r].other \in Works
         /\ plan[r].from \in Works /\ plan[r].run \in Nat /\ plan[r].cite \in Nat
         /\ task[r] \in Tasks /\ task[r].on \in Works /\ task[r].need \in SUBSET Works
         /\ memo[r] \in Memos /\ memo[r].seen \in Nat /\ memo[r].found \in Nat
         /\ memo[r].lap \in 0..Attempts - 1 /\ memo[r].ready \in SUBSET Nat
         /\ journal \in [Works -> Seq(Event)] /\ Own(r) \in Seq(Event)
         /\ Discipline /\ Records /\ Founded(r)
<1>1. /\ plan[r] \in Plan /\ task[r] \in Tasks /\ memo[r] \in Memos
      /\ journal \in [Works -> Seq(Event)] /\ Discipline /\ Records /\ Founded(r)
  BY DEF Grounds, Discipline, Shape, Records
<1>2. task[r].on \in Works
  BY <1>1 DEF Tasks
<1> QED
  BY <1>1, <1>2 DEF Plan, Tasks, Memos, Own

\* What is appended to the journal of w is all that changes.
LEMMA WritesGrow ==
  ASSUME Records, NEW r \in Request, NEW w, NEW e, Writes(r, w, e)
  PROVE  /\ journal' \in [Works -> Seq(Event)]
         /\ journal'[w] = journal[w] \o e /\ Grown(journal[w], journal'[w])
         /\ \A v \in Works : Grown(journal[v], journal'[v])
         /\ \A v \in Works \ {w} : journal'[v] = journal[v]
<1>1. /\ journal' \in [Works -> Seq(Event)] /\ journal'[w] = journal[w] \o e
      /\ \A v \in Works \ {w} : journal'[v] = journal[v]
  BY DEF Records, Writes
<1>2. Grown(journal[w], journal'[w])
  BY <1>1, Appended DEF Records, Writes
<1>3. \A v \in Works : Grown(journal[v], journal[v])
  BY DEF Records, Grown
<1> QED
  BY <1>1, <1>2, <1>3

\* A raise, re-checked, writes what it decided.
LEMMA RaiseWrites ==
  ASSUME Grounds, NEW r \in Request, Raise(r), journal' # journal
  PROVE  /\ Writes(r, plan[r].work, <<TheFinding(r)>>)
         /\ TheFinding(r).k = "raise" /\ TheFinding(r).run = plan[r].run
         /\ MayRaise(journal[plan[r].work], plan[r].run)
<1>1. /\ task[r].pc = "append" /\ IsFree(plan[r].work) /\ SameObservation(r)
      /\ Append1(plan[r].work, <<TheFinding(r)>>)
      /\ task[r].on = plan[r].work
  BY GroundsFacts DEF Raise, At, Founded
<1>2. TheFinding(r) \in Event
  <2>1. (IF DoneClaim(Prefix(Own(r), memo[r].seen), plan[r].cite) THEN plan[r].cite ELSE 0) \in Nat
    BY GroundsFacts
  <2> QED
    BY <2>1, GroundsFacts, EventTypes DEF TheFinding
<1>3. MayRaise(journal[plan[r].work], plan[r].run)
  <2>1. Prefix(Own(r), memo[r].seen) = Own(r)
    BY <1>1, GroundsFacts, Observed DEF SameObservation
  <2> QED
    BY <1>1, <2>1, GroundsFacts DEF Founded, Own
<1>4. Writes(r, plan[r].work, <<TheFinding(r)>>)
  BY <1>1, <1>2, GroundsFacts DEF Writes, Append1, IsFree
<1> QED
  BY <1>3, <1>4 DEF TheFinding, Raised

\* So does a settlement.
LEMMA MintWrites ==
  ASSUME Grounds, NEW r \in Request, Mint(r), journal' # journal
  PROVE  /\ Writes(r, task[r].on, Settlements(memo[r].ready))
         /\ memo[r].ready \in SUBSET Nat /\ IsFiniteSet(memo[r].ready)
         /\ \A f \in memo[r].ready : SettlesOn(journal, task[r].on, Own(r), f)
<1>1. /\ task[r].pc = "recheck" /\ IsFree(task[r].on) /\ SameObservation(r)
      /\ Append1(task[r].on, Settlements(memo[r].ready))
  BY DEF Mint, At
<1>2. Prefix(Own(r), memo[r].seen) = Own(r)
  BY <1>1, GroundsFacts, Observed DEF SameObservation
<1>3. \A f \in memo[r].ready : SettlesOn(journal, task[r].on, Own(r), f)
  BY <1>1, <1>2, GroundsFacts DEF Founded
<1>4. memo[r].ready \in SUBSET (1..Len(Own(r)))
  BY <1>3, GroundsFacts DEF SettlesOn, Proposed, Findings
<1>5. IsFiniteSet(memo[r].ready)
  <2> DEFINE n == Len(Own(r))
  <2>1. n \in Nat
    BY GroundsFacts
  <2> HIDE DEF n
  <2>2. IsFiniteSet(1..n)
    BY <2>1, FS_Interval
  <2> QED
    BY <1>4, <2>2, FS_Subset DEF n
<1>6. Writes(r, task[r].on, Settlements(memo[r].ready))
  BY <1>1, <1>5, GroundsFacts, SettlementsOf DEF Writes, Append1, IsFree
<1> QED
  BY <1>3, <1>5, <1>6, GroundsFacts

\* And an application, by a request that holds what it was judged on.
LEMMA ApplyWrites ==
  ASSUME Grounds, NEW r \in Request, Apply(r)
  PROVE  /\ Writes(r, plan[r].other, <<Applied(memo[r].found, plan[r].work, plan[r].run,
                                               plan[r].from, plan[r].cite)>>)
         /\ StillProducing(r) /\ Credited(r)
<1>1. task[r].pc = "apply"
  BY DEF Apply, At
<1>2. task[r].need = {} /\ StillProducing(r) /\ Credited(r) /\ Holds(r, plan[r].other)
  BY <1>1, GroundsFacts DEF Founded, Needed
<1>3. Applied(memo[r].found, plan[r].work, plan[r].run, plan[r].from, plan[r].cite) \in Event
  BY GroundsFacts, EventTypes
<1> QED
  BY <1>2, <1>3, GroundsFacts DEF Apply, Append1, Writes, Holds

\* What a step does to the journals.
LEMMA JournalStep ==
  ASSUME Grounds, NEW r \in Request, Step(r), journal' # journal
  PROVE  \/ \E w \in Works, e \in Seq(Event) : Writes(r, w, e) /\ Plain(e)
         \/ Raise(r) \/ Mint(r) \/ Apply(r)
<1>1. CASE \/ Write(r) \/ ClaimRefused(r) \/ ClaimRecorded(r) \/ Close(r) \/ Advance(r)
           \/ CancelWrites(r)
  BY <1>1, PlainSteps
<1>2. CASE \/ CancelLooks(r) \/ CancelSeesChildren(r) \/ Reevaluate(r) \/ Look(r) \/ Admit(r) \/ AskSettle(r) \/ Observe(r)
           \/ Decide(r) \/ AskApply(r) \/ Resolve(r) \/ Gather(r) \/ Judge(r) \/ Reconcile(r)
           \/ Inventory(r) \/ Replay(r)
  BY <1>2 DEF CancelLooks, CancelSeesChildren, Reevaluate, Look, Admit, AskSettle, Observe,
     Decide, AskApply, Resolve, Gather, Judge, Reconcile, Inventory, Replay
<1> QED
  BY <1>1, <1>2 DEF Step

LEMMA JournalsGrow ==
  ASSUME Grounds, NEW r \in Request, Step(r)
  PROVE  /\ journal' \in [Works -> Seq(Event)]
         /\ \A v \in Works : Grown(journal[v], journal'[v])
         /\ \A v \in Works : guard[v] \notin {Free, r} => journal'[v] = journal[v]
<1>1. CASE journal' = journal
  <2>1. journal \in [Works -> Seq(Event)]
    BY GroundsFacts
  <2> QED
    BY <1>1, <2>1 DEF Grown
<1>2. CASE journal' # journal
  <2>1. PICK w, e : Writes(r, w, e)
    BY <1>2, JournalStep, RaiseWrites, MintWrites, ApplyWrites
  <2>2. guard[w] \in {Free, r}
    BY <2>1 DEF Writes
  <2> QED
    BY <2>1, <2>2, GroundsFacts, WritesGrow
<1> QED
  BY <1>1, <1>2

-----------------------------------------------------------------------------
(* What stands in a journal goes on standing. *)

\* An event of a journal that was written to is an old one or one of those
\* written; what came before an old one is the same.
LEMMA OldOrNew ==
  ASSUME NEW j \in Seq(Event), NEW e \in Seq(Event), NEW i \in DOMAIN (j \o e)
  PROVE  \/ /\ i \in DOMAIN j /\ (j \o e)[i] = j[i]
            /\ Prefix(j \o e, i - 1) = Prefix(j, i - 1)
         \/ /\ i \in Len(j) + 1 .. Len(j) + Len(e) /\ i - Len(j) \in DOMAIN e
            /\ (j \o e)[i] = e[i - Len(j)]
<1>1. DOMAIN (j \o e) = 1..(Len(j) + Len(e)) /\ DOMAIN j = 1..Len(j) /\ Len(j) \in Nat /\ Len(e) \in Nat
  OBVIOUS
<1>2. CASE i <= Len(j)
  <2>1. i \in 1..Len(j) /\ i - 1 \in 0..Len(j)
    BY <1>1, <1>2
  <2>2. Grown(j, j \o e)
    BY Appended
  <2>3. Prefix(j \o e, i - 1) = Prefix(j, i - 1)
    BY <2>1, <2>2, StillObserved
  <2> QED
    BY <1>1, <2>1, <2>2, <2>3 DEF Grown
<1>3. CASE ~(i <= Len(j))
  <2>1. i \in Len(j) + 1 .. Len(j) + Len(e)
    BY <1>1, <1>3
  <2> QED
    BY <2>1, Appended
<1> QED
  BY <1>2, <1>3

LEMMA RaisedKeeps ==
  ASSUME Grounds, RaisedByCurrentRun, NEW r \in Request, Step(r)
  PROVE  RaisedByCurrentRun'
<1>1. CASE journal' = journal
  BY <1>1 DEF RaisedByCurrentRun, Findings
<1>2. ASSUME NEW w \in Works, NEW e \in Seq(Event), Writes(r, w, e),
             \A i \in DOMAIN e : e[i].k = "raise" =>
               e = <<e[i]>> /\ MayRaise(journal[w], e[i].run)
      PROVE  RaisedByCurrentRun'
  <2> SUFFICES ASSUME NEW v \in Works, NEW i \in Findings(journal'[v])
               PROVE  MayRaise(Prefix(journal'[v], i - 1), journal'[v][i].run)
    BY DEF RaisedByCurrentRun
  <2>1. /\ journal'[w] = journal[w] \o e /\ \A u \in Works \ {w} : journal'[u] = journal[u]
        /\ \A u \in Works : journal[u] \in Seq(Event)
    BY <1>2, GroundsFacts, WritesGrow DEF Records
  <2>2. CASE v # w
    BY <2>1, <2>2 DEF RaisedByCurrentRun
  <2>3. CASE v = w
    <3>1. i \in DOMAIN (journal[w] \o e) /\ (journal[w] \o e)[i].k = "raise"
      BY <2>1, <2>3 DEF Findings
    <3>2. CASE /\ i \in DOMAIN journal[w] /\ (journal[w] \o e)[i] = journal[w][i]
               /\ Prefix(journal[w] \o e, i - 1) = Prefix(journal[w], i - 1)
      BY <2>1, <2>3, <3>1, <3>2 DEF RaisedByCurrentRun, Findings
    <3>3. CASE /\ i \in Len(journal[w]) + 1 .. Len(journal[w]) + Len(e)
               /\ i - Len(journal[w]) \in DOMAIN e
               /\ (journal[w] \o e)[i] = e[i - Len(journal[w])]
      <4> DEFINE h == i - Len(journal[w])
      <4>1. e = <<e[h]>> /\ MayRaise(journal[w], e[h].run)
        BY <1>2, <3>1, <3>3
      <4>2. Len(e) = 1
        BY <4>1
      <4>3. i - 1 = Len(journal[w]) /\ Len(journal[w]) \in 0..Len(journal[w])
        BY <2>1, <3>3, <4>2
      <4>4. Prefix(journal[w] \o e, i - 1) = journal[w]
        BY <2>1, <4>3, Appended, StillObserved, Observed
      <4> QED
        BY <2>1, <2>3, <3>3, <4>1, <4>4
    <3> QED
      BY <1>2, <2>1, <3>1, <3>2, <3>3, OldOrNew
  <2> QED
    BY <2>2, <2>3
<1>3. CASE \E w \in Works, e \in Seq(Event) : Writes(r, w, e) /\ Plain(e)
  BY <1>2, <1>3 DEF Plain
<1>4. CASE Raise(r) /\ journal' # journal
  <2> DEFINE e == <<TheFinding(r)>>
  <2>1. /\ Writes(r, plan[r].work, e) /\ TheFinding(r).run = plan[r].run
        /\ MayRaise(journal[plan[r].work], plan[r].run)
    BY <1>4, RaiseWrites
  <2>2. \A i \in DOMAIN e : e = <<e[i]>> /\ e[i] = TheFinding(r)
    OBVIOUS
  <2> HIDE DEF e
  <2> QED
    BY <1>2, <2>1, <2>2 DEF Writes
<1>5. CASE Mint(r) /\ journal' # journal
  <2>1. /\ Writes(r, task[r].on, Settlements(memo[r].ready))
        /\ memo[r].ready \in SUBSET Nat /\ IsFiniteSet(memo[r].ready)
    BY <1>5, MintWrites
  <2>2. \A i \in DOMAIN Settlements(memo[r].ready) : Settlements(memo[r].ready)[i].k = "settle"
    BY <2>1, SettlementsOf DEF Settled
  <2> QED
    BY <1>2, <2>1, <2>2 DEF Writes
<1>6. CASE Apply(r)
  <2> DEFINE x == Applied(memo[r].found, plan[r].work, plan[r].run, plan[r].from, plan[r].cite)
  <2>1. Writes(r, plan[r].other, <<x>>)
    BY <1>6, ApplyWrites
  <2>2. x.k = "apply"
    BY DEF Applied
  <2>3. \A i \in DOMAIN <<x>> : <<x>>[i].k # "raise"
    BY <2>2
  <2> QED
    BY <1>2, <2>1, <2>3 DEF Writes
<1> QED
  BY <1>1, <1>3, <1>4, <1>5, <1>6, JournalStep

\* Settlements written before its own leave a Finding as ready as it was.
LEMMA StillSettles ==
  ASSUME NEW told, NEW w, NEW f, NEW j, NEW k, Grown(j, k), SettlesOn(told, w, j, f),
         \A i \in Len(j) + 1 .. Len(k) : k[i].k = "settle" /\ k[i] # Settled(f)
  PROVE  SettlesOn(told, w, k, f)
<1>1. \A i \in DOMAIN k : i \in DOMAIN j \/ i \in Len(j) + 1 .. Len(k)
  BY DEF Grown
<1>2. \A i \in DOMAIN j : i \in DOMAIN k /\ k[i] = j[i]
  BY DEF Grown
<1>3. f \in DOMAIN j /\ j[f].k = "raise" /\ ~Says(j, Settled(f)) /\ k[f] = j[f] /\ f \in DOMAIN k
  BY <1>2 DEF SettlesOn, Proposed, Findings
<1>4. ~Says(k, Settled(f))
  BY <1>1, <1>2, <1>3 DEF Says
<1>5. f \in Proposed(k)
  BY <1>3, <1>4 DEF Proposed, Findings
<1>6. ByClaim(j, f) => ByClaim(k, f)
  BY <1>3, StillSays, SameRunsOf DEF ByClaim, DoneClaim
<1>7. \A c : ByChild(j, f, told[c]) => ByChild(k, f, told[c])
  BY <1>3, StillSays DEF ByChild
<1> QED
  BY <1>3, <1>5, <1>6, <1>7 DEF SettlesOn

\* A child's journal that grew says what it said.
LEMMA StillTold ==
  ASSUME NEW w \in Works, NEW j, NEW f, SettlesOn(journal, w, j, f),
         \A v \in Works : Grown(journal[v], journal'[v])
  PROVE  SettlesOn(journal', w, j, f)
<1>1. \A c \in Children(w) : ByChild(j, f, journal[c]) => ByChild(j, f, journal'[c])
  BY StillSays DEF ByChild, Children
<1> QED
  BY <1>1 DEF SettlesOn

LEMMA SettlesKeeps ==
  ASSUME Grounds, SettlementStands, NEW r \in Request, Step(r)
  PROVE  SettlementStands'
<1>0. /\ journal \in [Works -> Seq(Event)]
      /\ \A v \in Works : Grown(journal[v], journal'[v])
  BY GroundsFacts, JournalsGrow
\* The property, of the journal k of w.
<1> DEFINE Stands(told, w, k, i) ==
             k[i].k = "settle" =>
               LET before == Prefix(k, i - 1)
                   f == k[i].f
               IN /\ f \in Proposed(before)
                  /\ \/ ByClaim(before, f)
                     \/ \E c \in Children(w) : k[f].child = c /\ ByChild(before, f, told[c])
<1>1. \A w \in Works : \A i \in DOMAIN journal[w] : Stands(journal, w, journal[w], i)
  BY DEF SettlementStands
<1>2. ASSUME NEW w \in Works, NEW i \in DOMAIN journal[w], journal[w][i].k = "settle"
      PROVE  SettlesOn(journal, w, Prefix(journal[w], i - 1), journal[w][i].f)
  <2> DEFINE before == Prefix(journal[w], i - 1)
             f == journal[w][i].f
  <2>1. i - 1 \in 0..Len(journal[w]) /\ journal[w] \in Seq(Event)
    BY <1>0, <1>2
  <2>2. \A h \in DOMAIN before : before[h] = journal[w][h]
    BY <2>1, Observed
  <2>3. f \in Proposed(before) /\ f \in DOMAIN before
    BY <1>1, <1>2 DEF Proposed, Findings
  <2> HIDE DEF before, f
  <2> QED
    BY <1>1, <1>2, <2>2, <2>3 DEF SettlesOn, before, f
<1>3. ASSUME NEW w \in Works, NEW i \in DOMAIN journal'[w],
             journal'[w][i].k = "settle" =>
               SettlesOn(journal', w, Prefix(journal'[w], i - 1), journal'[w][i].f)
      PROVE  Stands(journal', w, journal'[w], i)
  <2> SUFFICES ASSUME journal'[w][i].k = "settle"
               PROVE  Stands(journal', w, journal'[w], i)
    OBVIOUS
  <2> DEFINE before == Prefix(journal'[w], i - 1)
             f == journal'[w][i].f
  <2>1. i - 1 \in 0..Len(journal'[w]) /\ journal'[w] \in Seq(Event)
    BY <1>0 DEF Grown
  <2>2. \A h \in DOMAIN before : before[h] = journal'[w][h]
    BY <2>1, Observed
  <2>3. SettlesOn(journal', w, Prefix(journal'[w], i - 1), journal'[w][i].f)
    BY <1>3
  <2>4. f \in DOMAIN before
    BY <2>3 DEF SettlesOn, Proposed, Findings
  <2>5. before[f] = journal'[w][f]
    BY <2>2, <2>4
  <2> QED
    BY <2>3, <2>5 DEF SettlesOn
<1>4. ASSUME NEW w \in Works, NEW e \in Seq(Event), Writes(r, w, e),
             \A i \in DOMAIN e : e[i].k = "settle" =>
               SettlesOn(journal, w, Prefix(journal[w] \o e, Len(journal[w]) + i - 1), e[i].f)
      PROVE  SettlementStands'
  <2>1. /\ journal'[w] = journal[w] \o e /\ \A u \in Works \ {w} : journal'[u] = journal[u]
        /\ \A u \in Works : journal[u] \in Seq(Event)
    BY <1>0, <1>4, GroundsFacts, WritesGrow DEF Records
  <2>2. ASSUME NEW v \in Works, NEW i \in DOMAIN journal'[v], journal'[v][i].k = "settle"
        PROVE  SettlesOn(journal', v, Prefix(journal'[v], i - 1), journal'[v][i].f)
    <3>1. ASSUME i \in DOMAIN journal[v], journal'[v][i] = journal[v][i],
                 Prefix(journal'[v], i - 1) = Prefix(journal[v], i - 1)
          PROVE  SettlesOn(journal', v, Prefix(journal'[v], i - 1), journal'[v][i].f)
      <4>1. SettlesOn(journal, v, Prefix(journal[v], i - 1), journal[v][i].f)
        BY <1>2, <2>2, <3>1
      <4> QED
        BY <1>0, <3>1, <4>1, StillTold
    <3>2. CASE v # w
      BY <2>1, <2>2, <3>1, <3>2
    <3>3. CASE v = w
      <4>1. CASE /\ i \in DOMAIN journal[w] /\ (journal[w] \o e)[i] = journal[w][i]
                 /\ Prefix(journal[w] \o e, i - 1) = Prefix(journal[w], i - 1)
        BY <2>1, <3>1, <3>3, <4>1
      <4>2. CASE /\ i \in Len(journal[w]) + 1 .. Len(journal[w]) + Len(e)
                 /\ i - Len(journal[w]) \in DOMAIN e
                 /\ (journal[w] \o e)[i] = e[i - Len(journal[w])]
        <5> DEFINE h == i - Len(journal[w])
        <5>1. Len(journal[w]) + h - 1 = i - 1
          BY <2>1, <4>2
        <5>2. SettlesOn(journal, w, Prefix(journal[w] \o e, i - 1), e[h].f)
          BY <1>4, <2>1, <2>2, <3>3, <4>2, <5>1
        <5>3. SettlesOn(journal, w, Prefix(journal'[w], i - 1), journal'[w][i].f)
          BY <2>1, <4>2, <5>2
        <5> QED
          BY <1>0, <3>3, <5>3, StillTold
      <4> QED
        BY <2>1, <2>2, <3>3, <4>1, <4>2, OldOrNew
    <3> QED
      BY <3>2, <3>3
  <2>3. \A v \in Works : \A i \in DOMAIN journal'[v] : Stands(journal', v, journal'[v], i)
    BY <1>3, <2>2
  <2> QED
    BY <2>3 DEF SettlementStands
<1>5. CASE journal' = journal
  BY <1>5 DEF SettlementStands
<1>6. CASE \E w \in Works, e \in Seq(Event) : Writes(r, w, e) /\ Plain(e)
  BY <1>4, <1>6 DEF Plain
<1>7. CASE Raise(r) /\ journal' # journal
  <2>1. Writes(r, plan[r].work, <<TheFinding(r)>>) /\ TheFinding(r).k = "raise"
    BY <1>7, RaiseWrites
  <2>2. \A i \in DOMAIN <<TheFinding(r)>> : <<TheFinding(r)>>[i].k # "settle"
    BY <2>1
  <2> QED
    BY <1>4, <2>1, <2>2 DEF Writes
<1>8. CASE Apply(r)
  <2> DEFINE x == Applied(memo[r].found, plan[r].work, plan[r].run, plan[r].from, plan[r].cite)
  <2>1. Writes(r, plan[r].other, <<x>>)
    BY <1>8, ApplyWrites
  <2>2. x.k = "apply"
    BY DEF Applied
  <2>3. \A i \in DOMAIN <<x>> : <<x>>[i].k # "settle"
    BY <2>2
  <2> QED
    BY <1>4, <2>1, <2>3 DEF Writes
<1>9. CASE Mint(r) /\ journal' # journal
  <2> DEFINE w == task[r].on
             j == journal[w]
             e == Settlements(memo[r].ready)
  <2>1. /\ Writes(r, w, e) /\ memo[r].ready \in SUBSET Nat /\ IsFiniteSet(memo[r].ready)
        /\ \A f \in memo[r].ready : SettlesOn(journal, w, j, f)
    BY <1>9, MintWrites DEF Own
  <2>2. w \in Works /\ e \in Seq(Event) /\ j \in Seq(Event)
    BY <1>0, <2>1 DEF Writes
  <2>3. ASSUME NEW i \in DOMAIN e
        PROVE  SettlesOn(journal, w, Prefix(j \o e, Len(j) + i - 1), e[i].f)
    <3>1. PICK f \in memo[r].ready : e[i] = Settled(f) /\ \A h \in DOMAIN e : h # i => e[h] # Settled(f)
      BY <2>1, <2>3, SettlementsOf
    <3>2. \A h \in DOMAIN e : e[h].k = "settle"
      BY <2>1, SettlementsOf DEF Settled
    <3> HIDE DEF e, j, w
    <3> DEFINE n == Len(j) + i - 1
               k == Prefix(j \o e, n)
    <3>3. /\ Len(j \o e) = Len(j) + Len(e) /\ i \in 1..Len(e) /\ Len(j) \in Nat /\ Len(e) \in Nat
          /\ j \o e \in Seq(Event)
      BY <2>2, <2>3
    <3>4. n \in 0..Len(j \o e) /\ n \in Nat /\ Len(j) <= n
      BY <3>3
    <3>5. k \in Seq(Event) /\ Len(k) = n /\ \A x \in 1..n : k[x] = (j \o e)[x]
      BY <3>3, <3>4, Observed
    <3> HIDE DEF k
    <3>6. Grown(j, k)
      <4>1. Grown(j, j \o e)
        BY <2>2, Appended
      <4>2. \A x \in 1..Len(j) : x \in 1..n
        BY <3>3, <3>4
      <4> QED
        BY <2>2, <3>4, <3>5, <4>1, <4>2 DEF Grown
    <3>7. ASSUME NEW x \in Len(j) + 1 .. Len(k)
          PROVE  k[x].k = "settle" /\ k[x] # Settled(f)
      <4>1. /\ x \in 1..n /\ x \in Len(j) + 1 .. Len(j \o e)
            /\ x - Len(j) # i
        BY <3>3, <3>4, <3>5
      <4>2. x - Len(j) \in DOMAIN e /\ k[x] = e[x - Len(j)]
        BY <2>2, <3>5, <4>1, Appended
      <4> QED
        BY <3>1, <3>2, <4>1, <4>2
    <3>8. SettlesOn(journal, w, k, f)
      BY <2>1, <3>1, <3>6, <3>7, StillSettles
    <3>9. e[i].f = f
      BY <3>1 DEF Settled
    <3> QED
      BY <3>8, <3>9 DEF k
  <2> QED
    BY <1>4, <2>1, <2>2, <2>3
<1> QED
  BY <1>5, <1>6, <1>7, <1>8, <1>9, JournalStep

\* The facts an application is judged on are those of the journals it holds.
LEMMA AppliesOnFacts ==
  ASSUME Grounds, NEW r \in Request, Step(r), NEW w \in Works,
         NEW i \in Len(journal[w]) + 1 .. Len(journal'[w]), journal'[w][i].k = "apply"
  PROVE  LET e == journal'[w][i] IN
         /\ Producing(journal[e.by]) = e.run
         /\ e.cite # 0 => DoneClaim(journal[e.from], e.cite) /\ Latest(journal[e.from], e.cite)
<1>0. journal \in [Works -> Seq(Event)] /\ Records
  BY GroundsFacts
<1>1. ASSUME NEW v \in Works, NEW e \in Seq(Event), Writes(r, v, e)
      PROVE  \E h \in DOMAIN e : journal'[w][i] = e[h]
  <2>1. /\ journal'[v] = journal[v] \o e /\ \A u \in Works \ {v} : journal'[u] = journal[u]
    BY <1>0, <1>1, WritesGrow
  <2>2. w = v
    <3>1. Len(journal[w]) \in Nat
      BY <1>0
    <3> QED
      BY <2>1, <3>1
  <2> QED
    BY <1>0, <2>1, <2>2, Appended
<1>2. Apply(r)
  <2>1. journal' # journal
    <3>1. Len(journal[w]) \in Nat
      BY <1>0
    <3> QED
      BY <3>1
  <2>2. ~ \E v \in Works, e \in Seq(Event) : Writes(r, v, e) /\ Plain(e)
    BY <1>1 DEF Plain
  <2>3. ~Raise(r)
    <3> SUFFICES ASSUME Raise(r)
                 PROVE  FALSE
      OBVIOUS
    <3>1. Writes(r, plan[r].work, <<TheFinding(r)>>) /\ TheFinding(r).k = "raise"
      BY <2>1, RaiseWrites
    <3>2. \A h \in DOMAIN <<TheFinding(r)>> : <<TheFinding(r)>>[h].k # "apply"
      BY <3>1
    <3> QED
      BY <1>1, <3>1, <3>2 DEF Writes
  <2>4. ~Mint(r)
    <3> SUFFICES ASSUME Mint(r)
                 PROVE  FALSE
      OBVIOUS
    <3>1. /\ Writes(r, task[r].on, Settlements(memo[r].ready))
          /\ memo[r].ready \in SUBSET Nat /\ IsFiniteSet(memo[r].ready)
      BY <2>1, MintWrites
    <3>2. \A h \in DOMAIN Settlements(memo[r].ready) : Settlements(memo[r].ready)[h].k = "settle"
      BY <3>1, SettlementsOf DEF Settled
    <3> QED
      BY <1>1, <3>1, <3>2 DEF Writes
  <2> QED
    BY <2>1, <2>2, <2>3, <2>4, JournalStep
<1> DEFINE x == Applied(memo[r].found, plan[r].work, plan[r].run, plan[r].from, plan[r].cite)
<1>3. Writes(r, plan[r].other, <<x>>) /\ StillProducing(r) /\ Credited(r)
  BY <1>2, ApplyWrites
<1>4. journal'[w][i] = x
  <2>1. PICK h \in DOMAIN <<x>> : journal'[w][i] = <<x>>[h]
    BY <1>1, <1>3 DEF Writes
  <2>2. h = 1
    OBVIOUS
  <2> QED
    BY <2>1, <2>2
<1>5. x.by = plan[r].work /\ x.run = plan[r].run /\ x.from = plan[r].from /\ x.cite = plan[r].cite
  BY DEF Applied
<1> HIDE DEF x
<1> QED
  BY <1>3, <1>4, <1>5 DEF StillProducing, Credited

-----------------------------------------------------------------------------
(* Every step keeps what requests rely on. *)

\* A step of r leaves alone what the others have read and hold.
LEMMA OwnStep ==
  ASSUME Grounds, NEW r \in Request, Step(r)
  PROVE  /\ plan' = plan
         /\ \A q \in Request \ {r} : task'[q] = task[q] /\ memo'[q] = memo[q]
         /\ \A q \in Request \ {r} : \A l \in Locks : Holds(q, l)' <=> Holds(q, l)
<1>0. /\ Discipline /\ task \in [Request -> Tasks] /\ memo \in [Request -> Memos]
      /\ guard \in [Locks -> Request \cup {Free}] /\ Free \notin Request
      /\ task[r].on \in Locks /\ Atlas \in Locks
  BY GroundsFacts, JournalGuardsAssumption DEF Discipline, Shape, Records, Locks, Tree
<1>1. plan' = plan
  BY PlanStays DEF Next
<1>2. \A q \in Request \ {r} : task'[q] = task[q]
  BY <1>0 DEF Step, Write, CancelLooks, CancelSeesChildren, CancelWrites, Spared, ClaimRefused,
     ClaimRecorded, Close, Advance, Reevaluate, Look, Admit, Raise, AskSettle, Observe, Decide, Mint,
     AskApply, Resolve, Gather, Judge, Apply, Reconcile, Inventory, Replay, Settle, Goto, Finish,
     LosesLap
<1>3. \A q \in Request \ {r} : memo'[q] = memo[q]
  BY <1>0 DEF Step, Write, CancelLooks, CancelSeesChildren, CancelWrites, ClaimRefused,
     ClaimRecorded, Close, Advance, Reevaluate, Look, Admit, Raise, AskSettle, Observe, Decide, Mint,
     AskApply, Resolve, Gather, Judge, Apply, Reconcile, Inventory, Replay, Reads, LosesLap
<1>4. ASSUME NEW q \in Request \ {r}
      PROVE  \A l \in Locks : Holds(q, l)' <=> Holds(q, l)
  <2>1. CASE guard' = guard
    BY <2>1 DEF Holds
  <2>2. CASE Drop(r)
    BY <1>0, <2>2 DEF Drop, Holds
  <2>3. CASE \E l \in Locks : IsFree(l) /\ Take(r, l)
    BY <1>0, <2>3 DEF IsFree, Take, Holds
  <2>4. CASE Gather(r)
    <3>1. task[r].need \in SUBSET Works /\ task[r].need # {}
      BY <2>4, GroundsFacts DEF Gather
    <3>2. NextGuard(r) \in Locks
      BY <3>1, LeastIsLeast DEF NextGuard, Locks
    <3> QED
      BY <2>3, <2>4, <3>2 DEF Gather
  <2>5. \/ guard' = guard \/ Drop(r) \/ Gather(r)
        \/ \E l \in {task[r].on, Atlas} : IsFree(l) /\ Take(r, l)
    BY DEF Step, Write, CancelLooks, CancelSeesChildren, CancelWrites, ClaimRefused, ClaimRecorded,
       Close, Advance, Reevaluate, Look, Admit, Raise, AskSettle, Observe, Decide, Mint, AskApply,
       Resolve, Judge, Apply, Reconcile, Inventory, Replay
  <2> QED
    BY <1>0, <2>1, <2>2, <2>3, <2>4, <2>5
<1> QED
  BY <1>1, <1>2, <1>3, <1>4

\* What a request relies on is kept by the steps of the others.
LEMMA FoundedFrame ==
  ASSUME Grounds, NEW r \in Request, Step(r), NEW q \in Request \ {r}
  PROVE  Founded(q)'
<1> DEFINE t == task[q]
           m == memo[q]
<1>0. /\ task[q] \in Tasks /\ t.on \in Works /\ m.seen \in Nat /\ Founded(q)
      /\ plan[q].work \in Works /\ plan[q].from \in Works /\ plan[q].other \in Works
      /\ journal \in [Works -> Seq(Event)]
  BY GroundsFacts
<1>1. /\ plan' = plan /\ task'[q] = task[q] /\ memo'[q] = memo[q]
      /\ \A l \in Locks : Holds(q, l)' <=> Holds(q, l)
  BY OwnStep
<1>2. /\ \A v \in Works : Grown(journal[v], journal'[v])
      /\ \A v \in Works : Holds(q, v) => journal'[v] = journal[v]
  <2>1. \A v \in Works : Holds(q, v) => guard[v] \notin {Free, r}
    BY JournalGuardsAssumption DEF Holds, Tree
  <2> QED
    BY <2>1, JournalsGrow
<1>3. Own(q)' = journal'[t.on] /\ Own(q) = journal[t.on]
  BY <1>1 DEF Own
<1>4. t.pc \in {"admit", "append", "decide", "recheck"} =>
        m.seen <= Len(Own(q)') /\ Prefix(Own(q)', m.seen) = Prefix(Own(q), m.seen)
  <2> SUFFICES ASSUME t.pc \in {"admit", "append", "decide", "recheck"}
               PROVE  m.seen <= Len(Own(q)') /\ Prefix(Own(q)', m.seen) = Prefix(Own(q), m.seen)
    OBVIOUS
  <2>1. m.seen <= Len(Own(q)) /\ Grown(Own(q), Own(q)')
    BY <1>0, <1>2, <1>3 DEF Founded
  <2>2. m.seen \in 0..Len(Own(q)) /\ Len(Own(q)) <= Len(Own(q)')
    BY <1>0, <2>1 DEF Grown
  <2>3. Prefix(Own(q)', m.seen) = Prefix(Own(q), m.seen)
    BY <2>1, <2>2, StillObserved
  <2>4. Len(Own(q)') \in Nat /\ Len(Own(q)) \in Nat
    BY <2>1 DEF Grown
  <2> QED
    BY <1>0, <2>1, <2>2, <2>3, <2>4
<1>5. t.pc = "recheck" => \A f \in m.ready : SettlesOn(journal', t.on, Prefix(Own(q)', m.seen), f)
  <2> SUFFICES ASSUME t.pc = "recheck", NEW f \in m.ready
               PROVE  SettlesOn(journal', t.on, Prefix(Own(q)', m.seen), f)
    OBVIOUS
  <2>1. SettlesOn(journal, t.on, Prefix(Own(q), m.seen), f)
    BY <1>0 DEF Founded
  <2>2. SettlesOn(journal', t.on, Prefix(Own(q), m.seen), f)
    BY <1>0, <1>2, <2>1, StillTold
  <2> QED
    BY <1>4, <2>2
<1>6. t.pc \in {"gather", "apply"} => \A w \in Needed(q)' \ t.need : Holds(q, w)'
  BY <1>0, <1>1 DEF Founded, Needed, Locks
<1>7. t.pc = "apply" => t.need = {} /\ StillProducing(q)' /\ Credited(q)'
  <2> SUFFICES ASSUME t.pc = "apply"
               PROVE  t.need = {} /\ StillProducing(q)' /\ Credited(q)'
    OBVIOUS
  <2>1. t.need = {} /\ StillProducing(q) /\ Credited(q) /\ \A w \in Needed(q) : Holds(q, w)
    BY <1>0 DEF Founded
  <2>2. journal'[plan[q].work] = journal[plan[q].work] /\ journal'[plan[q].from] = journal[plan[q].from]
    BY <1>0, <1>2, <2>1 DEF Needed
  <2> QED
    BY <1>1, <2>1, <2>2 DEF StillProducing, Credited
<1>8. t.pc \in {"admit", "append"} => MayRaise(Prefix(Own(q)', m.seen), plan[q].run)
  BY <1>0, <1>4 DEF Founded
<1>9. /\ t.pc \in {"start", "admit", "append", "again"} => t.on = plan[q].work
      /\ t.pc \in {"close", "advance"} => Holds(q, t.on)'
  BY <1>0, <1>1 DEF Founded, Locks
<1> QED
  BY <1>1, <1>3, <1>4, <1>5, <1>6, <1>7, <1>8, <1>9 DEF Founded

\* A request with nothing at stake: it is over, or starts to observe.
LEMMA NothingAtStake ==
  ASSUME NEW r \in Request,
         task'[r].pc \in {"done", "observe", "children", "cancel", "reevaluate", "resolve",
                         "reconcile", "replay"}
  PROVE  Founded(r)'
BY DEF Founded

LEMMA SettleMoves ==
  ASSUME Grounds, NEW r \in Request, NEW todo \in Seq(Works), Settle(r, todo)
  PROVE  task'[r].pc \in {"done", "observe", "cancel"}
<1>1. task'[r] = SettleNext(task[r], todo)
  BY DEF Settle, Grounds, Discipline, Shape
<1> QED
  BY <1>1, GroundsFacts, SettleTyped

\* What becomes of a request that has done with a Work it was to cancel.
LEMMA SparedMoves ==
  ASSUME Grounds, NEW r \in Request, Spared(r), CancelLooks(r) \/ CancelSeesChildren(r) \/ CancelWrites(r)
  PROVE  /\ task'[r] \in Tasks /\ task'[r].pc \in {"done", "cancel"}
         /\ task'[r].todo = <<>> /\ task'[r].doomed = Tail(task[r].doomed)
         /\ (task'[r].pc = "cancel") <=> (Tail(task[r].doomed) # <<>>)
<1> DEFINE rest == [task[r] EXCEPT !.doomed = Tail(@)]
<1>1. task[r].doomed # <<>> /\ task[r] \in Tasks
  BY GroundsFacts DEF Grounds, Discipline, Orderly, Condemned, CancelLooks, CancelSeesChildren,
     CancelWrites, At
<1>2. Tail(task[r].doomed) \in Seq(Works)
  BY <1>1, GroundsFacts, TaskTyped
<1>3. rest \in Tasks /\ rest.doomed = Tail(task[r].doomed)
  BY <1>1, <1>2 DEF Tasks
<1>4. task'[r] = SettleNext(rest, <<>>)
  BY DEF Spared, Grounds, Discipline, Shape
<1> HIDE DEF rest
<1>5. SettleNext(rest, <<>>).todo = <<>> /\ SettleNext(rest, <<>>).pc \in {"done", "cancel"}
      /\ (SettleNext(rest, <<>>).pc = "cancel" <=> rest.doomed # <<>>)
  BY <1>3 DEF SettleNext, Tasks
<1> QED
  BY <1>3, <1>4, <1>5, SettleTyped, EmptySeq

\* And of one that goes on with it.
LEMMA CancelMoves ==
  ASSUME Grounds, NEW r \in Request, ~Spared(r),
         CancelLooks(r) \/ CancelSeesChildren(r) \/ CancelWrites(r)
  PROVE  /\ CancelLooks(r) => task'[r].pc = "children" /\ task'[r].doomed = task[r].doomed
         /\ CancelSeesChildren(r) =>
              /\ task'[r].pc = "cancel"
              /\ \E first \in Orders(OpenChildren(task[r].on)) :
                   task'[r].doomed = first \o task[r].doomed
         /\ CancelWrites(r) =>
              /\ task'[r].pc = "reevaluate" /\ Parent[task[r].on] # NoWork
              /\ task'[r].on = Parent[task[r].on] /\ task'[r].doomed = Tail(task[r].doomed)
         /\ task'[r].pc \in {"children", "cancel", "reevaluate"}
<1>0. task \in [Request -> Tasks] /\ task[r] \in Tasks
  BY DEF Grounds, Discipline, Shape
<1>1. ASSUME CancelLooks(r)
      PROVE  task'[r].pc = "children" /\ task'[r].doomed = task[r].doomed
  BY <1>0, <1>1 DEF CancelLooks, Goto, Tasks
<1>2. ASSUME CancelSeesChildren(r)
      PROVE  /\ task'[r].pc = "cancel"
             /\ \E first \in Orders(OpenChildren(task[r].on)) :
                  task'[r].doomed = first \o task[r].doomed
  <2>1. PICK first \in Orders(OpenChildren(task[r].on)) :
          task' = [task EXCEPT ![r].pc = "cancel",
                               ![r].on = Head(first \o task[r].doomed),
                               ![r].looked = @ \cup {task[r].on},
                               ![r].doomed = first \o @]
    BY <1>2 DEF CancelSeesChildren
  <2> QED
    BY <1>0, <2>1 DEF Tasks
<1>3. ASSUME CancelWrites(r)
      PROVE  /\ task'[r].pc = "reevaluate" /\ Parent[task[r].on] # NoWork
             /\ task'[r].on = Parent[task[r].on] /\ task'[r].doomed = Tail(task[r].doomed)
  BY <1>0, <1>3 DEF CancelWrites, Tasks
<1> QED
  BY <1>1, <1>2, <1>3

LEMMA MemoTyped ==
  ASSUME Grounds, NEW r \in Request, Step(r)
  PROVE  memo' \in [Request -> Memos]
<1>0. /\ memo \in [Request -> Memos] /\ memo[r] \in Memos /\ journal \in [Works -> Seq(Event)]
      /\ Own(r) \in Seq(Event) /\ plan[r].other \in Works /\ memo[r].lap \in 0..Attempts - 1
      /\ task[r].on \in Works /\ memo[r].seen \in Nat /\ Attempts \in Nat \ {0}
  BY GroundsFacts, JournalGuardsAssumption DEF Grounds, Records
<1>1. ASSUME NEW n \in Nat, Reads(r, "seen", n) \/ Reads(r, "found", n)
      PROVE  memo' \in [Request -> Memos]
  <2>1. CASE memo' = [memo EXCEPT ![r]["seen"] = n]
    <3>1. [memo[r] EXCEPT !["seen"] = n] \in Memos
      BY <1>0 DEF Memos
    <3> QED
      BY <1>0, <2>1, <3>1
  <2>2. CASE memo' = [memo EXCEPT ![r]["found"] = n]
    <3>1. [memo[r] EXCEPT !["found"] = n] \in Memos
      BY <1>0 DEF Memos
    <3> QED
      BY <1>0, <2>2, <3>1
  <2> QED
    BY <1>1, <2>1, <2>2 DEF Reads
<1>2. ASSUME NEW n \in 0..Attempts - 1, Reads(r, "lap", n)
      PROVE  memo' \in [Request -> Memos]
  BY <1>0, <1>2 DEF Reads, Memos
<1>3. ASSUME NEW S \in SUBSET Nat, Reads(r, "ready", S)
      PROVE  memo' \in [Request -> Memos]
  BY <1>0, <1>3 DEF Reads, Memos
<1>4. CASE Look(r) \/ Observe(r)
  <2>1. Len(Own(r)) \in Nat
    BY <1>0
  <2> QED
    BY <1>0, <1>1, <1>4, <2>1 DEF Look, Observe
<1>5. CASE Admit(r)
  <2> DEFINE cited == Findings(journal[plan[r].other])
             found == IF plan[r].other \in Children(plan[r].work) /\ cited # {}
                      THEN CHOOSE f \in cited : \A g \in cited : f <= g ELSE 0
  <2>1. cited \subseteq Nat
    BY <1>0 DEF Findings
  <2>2. cited # {} => \E f \in cited : \A g \in cited : f <= g
    <3> DEFINE id == [f \in cited |-> f]
    <3>1. \A f \in cited : id[f] = f /\ id[f] \in Nat
      BY <2>1
    <3> HIDE DEF cited, id
    <3> QED
      BY <3>1, LeastValue
  <2>3. found \in Nat
    <3> HIDE DEF cited
    <3> QED
      BY <2>1, <2>2
  <2>4. Reads(r, "found", found)
    BY <1>5 DEF Admit
  <2> QED
    BY <1>1, <2>3, <2>4
<1>6. CASE Raise(r) \/ Mint(r)
  <2>1. 0 \in 0..Attempts - 1
    BY <1>0
  <2>2. ~(memo[r].lap + 1 >= Attempts) => memo[r].lap + 1 \in 0..Attempts - 1
    BY <1>0
  <2> QED
    BY <1>2, <1>6, <2>1, <2>2 DEF Raise, Mint, LosesLap
<1>7. CASE Decide(r)
  <2> DEFINE j == Prefix(Own(r), memo[r].seen)
             S == {f \in Proposed(j) :
                          \/ ByClaim(j, f)
                          \/ \E c \in Children(task[r].on) :
                               j[f].child = c /\ ByChild(j, f, journal[c])}
  <2>1. j \in Seq(Event)
    <3>1. memo[r].seen \in 0..Len(Own(r))
      BY <1>0, <1>7, GroundsFacts DEF Decide, At, Founded
    <3> QED
      BY <1>0, <3>1, Observed
  <2>2. S \subseteq Nat
    BY <2>1 DEF Proposed, Findings
  <2>3. Reads(r, "ready", S)
    BY <1>7 DEF Decide
  <2> HIDE DEF S
  <2> QED
    BY <1>3, <2>2, <2>3
<1>8. CASE AskApply(r)
  <2> DEFINE found == CHOOSE f \in Findings(journal[plan[r].other]) : TRUE
  <2>1. CASE Reads(r, "found", found) /\ Findings(journal[plan[r].other]) # {}
    <3>1. found \in Findings(journal[plan[r].other])
      BY <2>1
    <3>2. found \in Nat
      BY <1>0, <3>1 DEF Findings
    <3> QED
      BY <1>1, <2>1, <3>2
  <2> QED
    BY <1>0, <1>8, <2>1 DEF AskApply
<1>9. CASE \/ Write(r) \/ CancelLooks(r) \/ CancelSeesChildren(r) \/ CancelWrites(r)
           \/ ClaimRefused(r) \/ ClaimRecorded(r) \/ Close(r) \/ Advance(r) \/ Reevaluate(r)
           \/ AskSettle(r) \/ Resolve(r) \/ Gather(r) \/ Judge(r) \/ Apply(r) \/ Reconcile(r)
           \/ Inventory(r) \/ Replay(r)
  <2>1. memo' = memo
    BY <1>9 DEF Write, CancelLooks, CancelSeesChildren, CancelWrites, ClaimRefused, ClaimRecorded,
       Close, Advance, Reevaluate, AskSettle, Resolve, Gather, Judge, Apply, Reconcile, Inventory, Replay
  <2> QED
    BY <1>0, <2>1
<1> QED
  BY <1>4, <1>5, <1>6, <1>7, <1>8, <1>9 DEF Step

\* The steps by which a request starts to rely on something, and the rest.
LEMMA FoundedKeeps ==
  ASSUME Grounds, NEW r \in Request, Step(r)
  PROVE  Founded(r)'
<1>0. /\ Discipline /\ task \in [Request -> Tasks] /\ memo \in [Request -> Memos]
      /\ task[r] \in Tasks /\ memo[r] \in Memos /\ memo[r].seen \in Nat
      /\ journal \in [Works -> Seq(Event)] /\ Own(r) \in Seq(Event) /\ task[r].on \in Works
      /\ task[r].todo \in Seq(Works) /\ task[r].need \in SUBSET Works
      /\ plan[r].work \in Works /\ Founded(r) /\ plan' = plan
      /\ guard \in [Locks -> Request \cup {Free}] /\ r # Free
  BY GroundsFacts, TaskTyped, OwnStep, JournalGuardsAssumption DEF Grounds, Records, Discipline, Shape, Tree
<1> USE TaskTyped
<1>1. CASE Look(r)
  <2>1. CASE MayRaise(Own(r), plan[r].run)
    <3>1. /\ task'[r].pc = "admit" /\ task'[r].on = task[r].on
          /\ memo'[r].seen = Len(Own(r)) /\ journal' = journal
      BY <1>0, <1>1, <2>1 DEF Look, Goto, Reads, Tasks, Memos
    <3>2. task[r].on = plan[r].work
      BY <1>0, <1>1 DEF Look, Asks, At, Founded
    <3>3. Own(r)' = Own(r) /\ Prefix(Own(r), Len(Own(r))) = Own(r)
      BY <1>0, <3>1, Observed DEF Own
    <3>4. Len(Own(r)) <= Len(Own(r))
      BY <1>0
    <3> QED
      BY <1>0, <2>1, <3>1, <3>2, <3>3, <3>4 DEF Founded
  <2>2. CASE ~MayRaise(Own(r), plan[r].run)
    BY <1>1, <2>2, <1>0, SettleMoves, NothingAtStake DEF Look, Finish
  <2> QED
    BY <2>1, <2>2
<1>2. CASE Admit(r)
  <2>1. /\ task'[r].pc = "append" /\ task'[r].on = task[r].on
        /\ memo'[r].seen = memo[r].seen /\ journal' = journal /\ task[r].pc = "admit"
    BY <1>0, <1>2 DEF Admit, At, Goto, Reads, Tasks, Memos
  <2> QED
    BY <1>0, <2>1 DEF Founded, Own
<1>3. CASE Raise(r)
  <2>1. task[r].on = plan[r].work
    BY <1>0, <1>3 DEF Raise, At, Founded
  <2>2. CASE Goto(r, "again")
    <3>1. task'[r].pc = "again" /\ task'[r].on = task[r].on
      BY <1>0, <2>2 DEF Goto, Tasks
    <3> QED
      BY <1>0, <2>1, <3>1 DEF Founded
  <2>3. CASE Settle(r, <<plan[r].work>>) \/ Settle(r, <<>>)
    BY <1>0, <2>3, SettleMoves, NothingAtStake
  <2> QED
    BY <1>3, <2>2, <2>3 DEF Raise, LosesLap
<1>4. CASE Observe(r)
  <2>1. /\ task'[r].pc = "decide" /\ task'[r].on = task[r].on
        /\ memo'[r].seen = Len(Own(r)) /\ journal' = journal
    BY <1>0, <1>4 DEF Observe, Goto, Reads, Tasks, Memos
  <2>2. Own(r)' = Own(r) /\ Len(Own(r)) <= Len(Own(r))
    BY <1>0, <2>1 DEF Own
  <2> QED
    BY <1>0, <2>1, <2>2 DEF Founded
<1>5. CASE Decide(r)
  <2> DEFINE j == Prefix(Own(r), memo[r].seen)
  <2>1. /\ task'[r].pc = "recheck" /\ task'[r].on = task[r].on /\ task[r].pc = "decide"
        /\ memo'[r].seen = memo[r].seen /\ journal' = journal
        /\ memo'[r].ready = {f \in Proposed(j) :
                          \/ ByClaim(j, f)
                          \/ \E c \in Children(task[r].on) :
                               j[f].child = c /\ ByChild(j, f, journal[c])}
    BY <1>0, <1>5 DEF Decide, At, Goto, Reads, Tasks, Memos
  <2>2. \A f \in memo'[r].ready : SettlesOn(journal, task[r].on, j, f)
    BY <2>1 DEF SettlesOn
  <2>3. memo[r].seen <= Len(Own(r)) /\ Own(r)' = Own(r)
    BY <1>0, <2>1 DEF Founded, Own
  <2> HIDE DEF j
  <2>4. \A f \in memo'[r].ready : SettlesOn(journal', task'[r].on, Prefix(Own(r)', memo'[r].seen), f)
    BY <2>1, <2>2, <2>3 DEF j
  <2>5. memo'[r].seen <= Len(Own(r)')
    BY <2>1, <2>3
  <2> QED
    BY <2>1, <2>4, <2>5 DEF Founded
<1>6. CASE Mint(r)
  <2>1. Tail(task[r].todo) \in Seq(Works)
    BY <1>0, <1>6 DEF Mint, At, Discipline, Orderly
  <2>2. CASE Goto(r, "observe")
    <3>1. task'[r].pc = "observe"
      BY <1>0, <2>2 DEF Goto, Tasks
    <3> QED
      BY <3>1, NothingAtStake
  <2>3. CASE Settle(r, Tail(task[r].todo))
    BY <2>1, <2>3, SettleMoves, NothingAtStake
  <2> QED
    BY <1>6, <2>2, <2>3 DEF Mint, LosesLap
<1>7. CASE AskApply(r) \/ Resolve(r) \/ Reconcile(r) \/ Apply(r)
  <2>1. CASE Goto(r, "resolve") \/ Goto(r, "reconcile")
    <3>1. task'[r].pc \in {"resolve", "reconcile"}
      BY <1>0, <2>1 DEF Goto, Tasks
    <3> QED
      BY <3>1, NothingAtStake
  <2>2. CASE Finish(r)
    BY <1>0, <2>2, SettleMoves, NothingAtStake DEF Finish
  <2>3. CASE Resolve(r)
    <3>1. task'[r].pc = "gather" /\ task'[r].need = Needed(r) /\ Needed(r)' = Needed(r)
      BY <1>0, <2>3 DEF Resolve, Tasks, Needed
    <3> QED
      BY <3>1 DEF Founded
  <2> QED
    BY <1>7, <2>1, <2>2, <2>3 DEF AskApply, Reconcile, Apply
<1>8. CASE Gather(r)
  <2> DEFINE next == NextGuard(r)
  <2>1. /\ task[r].pc = "gather" /\ task[r].need # {} /\ guard' = [guard EXCEPT ![next] = r]
        /\ task'[r].pc = "gather" /\ task'[r].need = task[r].need \ {next}
    BY <1>0, <1>8 DEF Gather, At, Take, Tasks
  <2>2. next \in Works
    BY <1>0, <2>1, LeastIsLeast DEF NextGuard
  <2> HIDE DEF next
  <2>3. \A w \in Needed(r)' \ task'[r].need : Holds(r, w)'
    <3> SUFFICES ASSUME NEW w \in Needed(r) \ (task[r].need \ {next})
                 PROVE  guard'[w] = r
      BY <1>0, <2>1 DEF Needed, Holds
    <3>1. CASE w = next
      BY <1>0, <2>1, <2>2, <3>1 DEF Locks
    <3>2. CASE w # next
      <4>1. guard[w] = r
        BY <1>0, <2>1, <3>2 DEF Founded, Holds
      <4> QED
        BY <1>0, <2>1, <3>2, <4>1
    <3> QED
      BY <3>1, <3>2
  <2> QED
    BY <2>1, <2>3 DEF Founded
<1>9. CASE Judge(r)
  <2>1. CASE StillProducing(r) /\ Credited(r)
    <3>1. /\ task[r].pc = "gather" /\ task[r].need = {} /\ task'[r].pc = "apply" /\ task'[r].need = {}
          /\ guard' = guard /\ journal' = journal
      <4>1. /\ task[r].pc = "gather" /\ task[r].need = {} /\ journal' = journal
            /\ task' = [task EXCEPT ![r].pc = "apply"] /\ guard' = guard
        BY <1>9, <2>1 DEF Judge, At, Goto
      <4> QED
        BY <1>0, <4>1 DEF Tasks
    <3>2. StillProducing(r)' /\ Credited(r)'
      BY <1>0, <2>1, <3>1 DEF StillProducing, Credited
    <3>3. \A w \in Needed(r)' \ task'[r].need : Holds(r, w)'
      BY <1>0, <3>1 DEF Founded, Needed, Holds
    <3> QED
      BY <3>1, <3>2, <3>3 DEF Founded
  <2>2. CASE ~(StillProducing(r) /\ Credited(r))
    BY <1>0, <1>9, <2>2, SettleMoves, NothingAtStake DEF Judge, Finish
  <2> QED
    BY <2>1, <2>2
<1>10. CASE ClaimRecorded(r) \/ Reevaluate(r) \/ Close(r)
  <2>1. ASSUME NEW l \in Works, l = task[r].on, Take(r, l), task'[r].pc \in {"close", "advance"},
               task'[r].on = l
        PROVE  Founded(r)'
    <3>1. Holds(r, l)'
      BY <1>0, <2>1 DEF Take, Holds, Locks
    <3> QED
      BY <2>1, <3>1 DEF Founded
  <2>2. CASE ClaimRecorded(r)
    <3>1. task'[r].pc \in {"close", "advance"} /\ task'[r].on = task[r].on
      BY <1>0, <2>2 DEF ClaimRecorded, Tasks
    <3> QED
      BY <1>0, <2>1, <2>2, <3>1 DEF ClaimRecorded
  <2>3. CASE Reevaluate(r) /\ task'[r].pc = "close"
    <3>1. Take(r, task[r].on) /\ task'[r].on = task[r].on
      <4>1. ~Settle(r, <<task[r].on>> \o task[r].todo)
        BY <1>0, <2>3, SettleMoves
      <4> QED
        BY <1>0, <2>3, <4>1 DEF Reevaluate, Tasks
    <3> QED
      BY <1>0, <2>1, <2>3, <3>1
  <2>4. CASE Reevaluate(r) /\ task'[r].pc # "close"
    <3>1. Settle(r, <<task[r].on>> \o task[r].todo)
      BY <1>0, <2>4 DEF Reevaluate, Tasks
    <3> QED
      BY <1>0, <3>1, SettleMoves, NothingAtStake
  <2>5. CASE Close(r) /\ Goto(r, "advance") /\ UNCHANGED guard
    <3>1. task'[r].pc = "advance" /\ task'[r].on = task[r].on /\ task[r].pc = "close"
      BY <1>0, <2>5 DEF Close, Goto, At, Tasks
    <3> QED
      BY <1>0, <2>5, <3>1 DEF Founded, Holds
  <2>6. CASE Close(r) /\ Settle(r, task[r].todo)
    BY <1>0, <2>6, SettleMoves, NothingAtStake
  <2> QED
    BY <1>10, <2>2, <2>3, <2>4, <2>5, <2>6 DEF Close
<1>11. CASE Advance(r)
  <2>1. CASE Settle(r, task[r].todo)
    BY <1>0, <2>1, SettleMoves, NothingAtStake
  <2>2. CASE task' = [task EXCEPT ![r].pc = "reevaluate", ![r].on = Parent[task[r].on]]
    <3>1. task'[r].pc = "reevaluate"
      BY <1>0, <2>2 DEF Tasks
    <3> QED
      BY <3>1, NothingAtStake
  <2> QED
    BY <1>11, <2>1, <2>2 DEF Advance
<1>12. CASE Write(r) \/ ClaimRefused(r) \/ AskSettle(r)
  BY <1>0, <1>12, SettleMoves, NothingAtStake DEF Write, ClaimRefused, AskSettle, Finish
<1>13. CASE Inventory(r) \/ Replay(r)
  <2>1. CASE Finish(r)
    BY <1>0, <2>1, SettleMoves, NothingAtStake DEF Finish
  <2>2. CASE ~Finish(r)
    <3>1. task'[r].pc = "replay"
      BY <1>0, <1>13, <2>2 DEF Inventory, Replay, At, Tasks
    <3> QED
      BY <3>1, NothingAtStake
  <2> QED
    BY <2>1, <2>2
<1>14. CASE CancelLooks(r) \/ CancelSeesChildren(r) \/ CancelWrites(r)
  <2>1. CASE Spared(r)
    BY <1>0, <1>14, <2>1, SparedMoves, NothingAtStake DEF CancelLooks, CancelSeesChildren, CancelWrites
  <2>2. CASE ~Spared(r)
    <3>1. task'[r].pc \in {"children", "cancel", "reevaluate"}
      BY <1>14, <2>2, CancelMoves
    <3> QED
      BY <3>1, NothingAtStake
  <2> QED
    BY <2>1, <2>2
<1> QED
  BY <1>1, <1>2, <1>3, <1>4, <1>5, <1>6, <1>7, <1>8, <1>9, <1>10, <1>11, <1>12, <1>13, <1>14
     DEF Step

LEMMA GroundsInit == Init => Grounds
<1> SUFFICES ASSUME Init
             PROVE  Grounds
  OBVIOUS
<1>1. journal \in [Works -> Seq(Event)]
  BY JournalGuardsAssumption DEF Init
<1>2. memo \in [Request -> Memos]
  BY JournalGuardsAssumption DEF Init, Blank, Memos
<1>3. ASSUME NEW r \in Request
      PROVE  Founded(r)
  BY DEF Init, Founded
<1> QED
  BY <1>1, <1>2, <1>3, DisciplineInit DEF Grounds, Records

LEMMA GroundsNext == Grounds /\ [Next]_vars => Grounds'
<1> SUFFICES ASSUME Grounds, [Next]_vars
             PROVE  Grounds'
  OBVIOUS
<1>1. ASSUME NEW r \in Request, Step(r)
      PROVE  Grounds'
  <2>1. Discipline'
    BY <1>1, DisciplineNext DEF Grounds, Next
  <2>2. Records'
    BY <1>1, JournalsGrow, MemoTyped DEF Records
  <2>3. \A q \in Request : Founded(q)'
    BY <1>1, FoundedFrame, FoundedKeeps
  <2> QED
    BY <2>1, <2>2, <2>3 DEF Grounds
<1>2. CASE UNCHANGED vars
  <2>1. Discipline'
    BY <1>2, DisciplineNext DEF Grounds
  <2>2. plan' = plan /\ guard' = guard /\ task' = task /\ journal' = journal /\ memo' = memo
    BY <1>2 DEF vars
  <2> QED
    BY <2>1, <2>2 DEF Grounds, Records, Founded, Holds, Own, Needed, StillProducing, Credited
<1> QED
  BY <1>1, <1>2 DEF Next, Answered

LEMMA GroundsHold == Spec => []Grounds
BY GroundsInit, GroundsNext, PTL DEF Spec

LEMMA GroundsTyped == plan \in Mixes /\ Grounds => TypeOK
<1> SUFFICES ASSUME plan \in Mixes, Grounds
             PROVE  TypeOK
  OBVIOUS
<1>1. guard \in [Locks -> Request \cup {Free}]
  BY DEF Grounds, Discipline, Shape
<1>2. ASSUME NEW r \in Request
      PROVE  /\ task[r].pc \in Phases
             /\ task[r].on \in Works /\ task[r].need \subseteq Works
             /\ memo[r].lap \in 0..Attempts - 1
             /\ At(r, "done") => \A l \in Locks : ~Holds(r, l)
  BY GroundsFacts, Resting DEF Tasks, At
<1> QED
  BY <1>1, <1>2 DEF TypeOK

\* What a request decided, and what the journals say, between two steps.
Founding == plan \in Mixes /\ Grounds /\ RaisedByCurrentRun /\ SettlementStands

LEMMA FoundingInit == Init /\ RaisedByCurrentRun /\ SettlementStands => Founding
<1>1. Init => plan \in Mixes
  BY DEF Init
<1> QED
  BY <1>1, GroundsInit DEF Founding

LEMMA FoundingNext == Founding /\ [Next]_vars => Founding'
<1> SUFFICES ASSUME Founding, [Next]_vars
             PROVE  Founding'
  OBVIOUS
<1>1. Grounds' /\ (plan \in Mixes)'
  BY GroundsNext, PlanStays DEF Founding
<1>2. (RaisedByCurrentRun /\ SettlementStands)'
  <2>1. CASE UNCHANGED vars
    BY <2>1 DEF vars, RaisedByCurrentRun, SettlementStands, Founding
  <2>2. ASSUME NEW r \in Request, Step(r)
        PROVE  (RaisedByCurrentRun /\ SettlementStands)'
    BY <2>2, RaisedKeeps, SettlesKeeps DEF Founding
  <2> QED
    BY <2>1, <2>2 DEF Next, Answered
<1> QED
  BY <1>1, <1>2 DEF Founding

-----------------------------------------------------------------------------
(* What of a journal settle_ready would settle, and where it can come from. *)

\* A journal the daemon wrote: its Runs are numbered in turn, each is of one
\* leaf, and only a Run that was opened is claimed.
Numbered(j) ==
  /\ RunsOf(j) = 1..Cardinality(RunsOf(j))
  /\ \A h, i \in DOMAIN j :
       j[h].k = "open" /\ j[i].k = "open" /\ j[h].run = j[i].run => j[h].leaf = j[i].leaf
  /\ \A i \in DOMAIN j : j[i].k = "claim" => j[i].run \in RunsOf(j)

ReadyIn(j) == {f \in Proposed(j) : ByClaim(j, f)}

\* The Run that is opened next is none of those there are.
LEMMA NextIsNew ==
  ASSUME NEW j \in Seq(Event), Numbered(j)
  PROVE  /\ Cardinality(RunsOf(j)) \in Nat /\ Next1(j) \in Nat /\ Next1(j) \notin RunsOf(j)
         /\ RunsOf(j) \cup {Next1(j)} = 1..Next1(j)
<1> DEFINE n == Cardinality(RunsOf(j))
<1>1. n \in Nat
  <2>1. IsFiniteSet(RunsOf(j))
    <3> DEFINE I == {h \in DOMAIN j : j[h].k = "open"}
               f == [i \in I |-> j[i].run]
    <3>1. IsFiniteSet(I)
      BY FS_Interval, FS_Subset
    <3>2. f \in Surjection(I, RunsOf(j))
      BY DEF Surjection, RunsOf
    <3> HIDE DEF I, f
    <3> QED
      BY <3>1, <3>2, FS_Surjection
  <2> QED
    BY <2>1, FS_CardinalityType
<1>2. RunsOf(j) = 1..n /\ Next1(j) = n + 1
  BY DEF Numbered, Next1
<1> HIDE DEF n
<1>3. 1..n \cup {n + 1} = 1..(n + 1) /\ n + 1 \notin 1..n
  BY <1>1
<1> QED
  BY <1>1, <1>2, <1>3 DEF n

\* What is written in turn keeps a journal in order.
LEMMA TurnKeeps ==
  ASSUME NEW j \in Seq(Event), NEW e \in Seq(Event), Numbered(j), InTurn(j, e)
  PROVE  Numbered(j \o e)
<1> DEFINE k == j \o e
<1>1. /\ DOMAIN k = 1..(Len(j) + Len(e)) /\ DOMAIN j = 1..Len(j) /\ DOMAIN e = 1..Len(e)
      /\ Len(j) \in Nat /\ Len(e) \in Nat /\ k \in Seq(Event)
  OBVIOUS
<1>2. /\ \A i \in DOMAIN j : i \in DOMAIN k /\ k[i] = j[i]
      /\ \A i \in DOMAIN e : Len(j) + i \in DOMAIN k /\ k[Len(j) + i] = e[i]
      /\ \A i \in DOMAIN k : i \in DOMAIN j \/ (i - Len(j) \in DOMAIN e /\ k[i] = e[i - Len(j)] /\ i \in Nat)
  OBVIOUS
<1> HIDE DEF k
<1>3. RunsOf(j) \subseteq RunsOf(k)
  BY <1>2 DEF RunsOf
<1>4. \A i \in DOMAIN k : k[i].k = "open" =>
        \/ i \in DOMAIN j /\ k[i] = j[i] /\ k[i].run \in RunsOf(j)
        \/ i \notin DOMAIN j /\ i - Len(j) \in DOMAIN e /\ k[i].run = Next1(j)
  BY <1>2 DEF RunsOf, InTurn
<1>5. \A h, i \in DOMAIN k : h \notin DOMAIN j /\ i \notin DOMAIN j /\ k[h].k = "open" /\ k[i].k = "open" => h = i
  <2> SUFFICES ASSUME NEW h \in DOMAIN k, NEW i \in DOMAIN k, h \notin DOMAIN j, i \notin DOMAIN j,
                      k[h].k = "open", k[i].k = "open"
               PROVE  h = i
    OBVIOUS
  <2>1. h - Len(j) \in DOMAIN e /\ i - Len(j) \in DOMAIN e /\ k[h] = e[h - Len(j)] /\ k[i] = e[i - Len(j)]
    BY <1>2
  <2>2. h - Len(j) = i - Len(j)
    BY <2>1 DEF InTurn
  <2> QED
    BY <1>1, <2>2
<1>6. \A h, i \in DOMAIN k :
        k[h].k = "open" /\ k[i].k = "open" /\ k[h].run = k[i].run => k[h].leaf = k[i].leaf
  <2> SUFFICES ASSUME NEW h \in DOMAIN k, NEW i \in DOMAIN k,
                      k[h].k = "open", k[i].k = "open", k[h].run = k[i].run
               PROVE  k[h].leaf = k[i].leaf
    OBVIOUS
  <2>1. Next1(j) \notin RunsOf(j)
    BY NextIsNew
  <2>2. CASE h \in DOMAIN j /\ i \in DOMAIN j
    BY <1>2, <2>2 DEF Numbered
  <2>3. CASE h \notin DOMAIN j /\ i \notin DOMAIN j
    BY <1>5, <2>3
  <2> QED
    BY <1>4, <2>1, <2>2, <2>3
<1>7. \A i \in DOMAIN k : k[i].k = "claim" => k[i].run \in RunsOf(k)
  BY <1>2, <1>3 DEF Numbered, InTurn
<1>8. RunsOf(k) = 1..Cardinality(RunsOf(k))
  <2>1. RunsOf(k) \subseteq RunsOf(j) \cup {Next1(j)}
    BY <1>4 DEF RunsOf
  <2>2. CASE RunsOf(k) = RunsOf(j)
    BY <2>2 DEF Numbered
  <2>3. CASE RunsOf(k) # RunsOf(j)
    <3>1. RunsOf(k) = 1..Next1(j) /\ Next1(j) \in Nat
      BY <1>3, <2>1, <2>3, NextIsNew
    <3>2. Cardinality(1..Next1(j)) = Next1(j)
      BY <3>1, FS_Interval
    <3> QED
      BY <3>1, <3>2
  <2> QED
    BY <2>2, <2>3
<1> QED
  BY <1>6, <1>7, <1>8 DEF Numbered, k

\* Nothing becomes ready by what neither claims nor raises: a new Run of a leaf
\* can only make a Claim stale.
LEMMA ReadyShrinks ==
  ASSUME NEW j \in Seq(Event), NEW e \in Seq(Event), Numbered(j), InTurn(j, e),
         ~Claims(e), \A i \in DOMAIN e : e[i].k # "raise"
  PROVE  ReadyIn(j \o e) \subseteq ReadyIn(j)
<1> DEFINE k == j \o e
<1>1. Grown(j, k) /\ k \in Seq(Event)
  BY Appended
<1>2. \A i \in DOMAIN k : \/ i \in DOMAIN j /\ k[i] = j[i]
                          \/ \E h \in DOMAIN e : k[i] = e[h]
  BY OldOrNew
<1> HIDE DEF k
<1>3. \A i \in DOMAIN j : i \in DOMAIN k /\ k[i] = j[i]
  BY <1>1 DEF Grown
<1> SUFFICES ASSUME NEW f \in ReadyIn(k)
             PROVE  f \in ReadyIn(j)
  BY DEF k
<1>4. /\ f \in DOMAIN k /\ k[f].k = "raise" /\ ~Says(k, Settled(f))
      /\ k[f].claim # 0 /\ Says(k, Claimed(k[f].claim)) /\ Latest(k, k[f].claim)
  BY DEF ReadyIn, Proposed, Findings, ByClaim, DoneClaim
<1>5. f \in DOMAIN j /\ j[f] = k[f] /\ ~Says(j, Settled(f))
  BY <1>1, <1>2, <1>4, StillSays
<1> DEFINE n == j[f].claim
<1>6. Says(j, Claimed(n))
  <2>1. PICK i \in DOMAIN k : k[i] = Claimed(n)
    BY <1>4, <1>5 DEF Says
  <2>2. k[i].k = "claim"
    BY <2>1 DEF Claimed
  <2>3. i \in DOMAIN j /\ j[i] = Claimed(n)
    BY <1>2, <2>1, <2>2 DEF Claims
  <2> QED
    BY <2>3 DEF Says
<1>7. n \in RunsOf(j)
  <2>1. PICK i \in DOMAIN j : j[i] = Claimed(n)
    BY <1>6 DEF Says
  <2>2. j[i].k = "claim" /\ j[i].run = n
    BY <2>1 DEF Claimed
  <2> QED
    BY <2>2 DEF Numbered
<1>8. \A m \in RunsOf(j) : m \in RunsOf(k) /\ LeafOf(k, m) = LeafOf(j, m)
  <2> TAKE m \in RunsOf(j)
  <2>1. m \in RunsOf(k)
    BY <1>3 DEF RunsOf
  <2>2. \A leaf : Says(k, Open(m, leaf)) => Says(j, Open(m, leaf))
    <3> SUFFICES ASSUME NEW leaf, NEW i \in DOMAIN k, k[i] = Open(m, leaf)
                 PROVE  Says(j, Open(m, leaf))
      BY DEF Says
    <3>1. k[i].k = "open" /\ k[i].run = m
      BY DEF Open
    <3>2. i \in DOMAIN j /\ k[i] = j[i]
      BY <1>2, <3>1, NextIsNew DEF InTurn
    <3> QED
      BY <3>2 DEF Says
  <2>3. \A leaf : Says(j, Open(m, leaf)) <=> Says(k, Open(m, leaf))
    BY <1>1, <2>2, StillSays
  <2> QED
    BY <2>1, <2>3 DEF LeafOf
<1>9. Latest(j, n)
  BY <1>4, <1>5, <1>7, <1>8 DEF Latest
<1> QED
  BY <1>4, <1>5, <1>6, <1>9 DEF ReadyIn, Proposed, Findings, ByClaim, DoneClaim

\* Each of them is settled.
LEMMA AllSettled ==
  ASSUME NEW S \in SUBSET Nat, IsFiniteSet(S), NEW f \in S
  PROVE  \E i \in DOMAIN Settlements(S) : Settlements(S)[i] = Settled(f)
<1> DEFINE rank(g) == Cardinality({h \in S : h < g})
           pick(i) == CHOOSE g \in S : rank(g) = i - 1
           n == Cardinality(S)
<1>1. n \in Nat
  BY FS_CardinalityType
<1>2. Settlements(S) = [i \in 1..n |-> Settled(pick(i))]
  BY DEF Settlements
<1>3. \A i \in 1..n : pick(i) \in S /\ rank(pick(i)) = i - 1
  <2> TAKE i \in 1..n
  <2>1. i - 1 \in 0..(n - 1)
    BY <1>1
  <2>2. \E g \in S : rank(g) = i - 1
    BY <2>1, Ranks
  <2> HIDE DEF rank
  <2> QED
    BY <2>2
<1> HIDE DEF rank, pick
<1> DEFINE p == [i \in 1..n |-> pick(i)]
<1>4. p \in Injection(1..n, S)
  <2>1. \A h, i \in 1..n : p[h] = p[i] => h = i
    <3> SUFFICES ASSUME NEW h \in 1..n, NEW i \in 1..n, pick(h) = pick(i)
                 PROVE  h = i
      OBVIOUS
    <3>1. h - 1 = i - 1
      BY <1>3
    <3> QED
      BY <3>1
  <2>2. p \in [1..n -> S]
    BY <1>3
  <2> HIDE DEF p
  <2> QED
    BY <2>1, <2>2 DEF Injection, IsInjective
\* As many as there are of them, and no two the same: so all of them.
<1>5. \E i \in 1..n : p[i] = f
  <2> SUFFICES ASSUME \A i \in 1..n : p[i] # f
               PROVE  FALSE
    OBVIOUS
  <2>1. IsFiniteSet(S \ {f}) /\ Cardinality(S \ {f}) = n - 1
    BY FS_RemoveElement
  <2>2. p \in Injection(1..n, S \ {f})
    <3> HIDE DEF p
    <3> QED
      BY <1>4 DEF Injection, IsInjective
  <2>3. IsFiniteSet(1..n) /\ Cardinality(1..n) = n
    <3> HIDE DEF n
    <3> QED
      BY <1>1, FS_Interval
  <2>4. Cardinality(1..n) <= Cardinality(S \ {f})
    <3> HIDE DEF p, n
    <3> QED
      BY <2>1, <2>2, FS_Injection
  <2> HIDE DEF n
  <2> QED
    BY <1>1, <2>1, <2>3, <2>4
<1> HIDE DEF n
<1> QED
  BY <1>2, <1>5

-----------------------------------------------------------------------------
(* No settlement is lost.  Whoever makes a Finding ready, or is asked to     *)
(* settle, looks at that journal afterwards, and looks again when it finds it*)
(* moved; each of the others can move it once before it looks itself.        *)

InHold(r, w) == task[r].pc \in {"close", "advance"} /\ task[r].on = w

\* Request r may still write in the journal of w before it settles anything.
Unspent(r, w) ==
  \/ task[r].pc \in {"start", "children", "cancel", "admit", "append", "again", "resolve",
                    "gather", "apply"}
  \/ task[r].pc \in {"close", "advance", "reevaluate"} /\ Depth[w] <= Depth[task[r].on]

\* The attempts it has lost, and the one it is about to lose.
Lost(r, w) ==
  IF task[r].pc \in {"observe", "decide", "recheck"} /\ task[r].on = w THEN memo[r].lap ELSE 0
Moved(r, w) ==
  /\ task[r].pc \in {"decide", "recheck"} /\ task[r].on = w
  /\ Len(journal[w]) # memo[r].seen
  /\ \A q \in Request : ~InHold(q, w)
Others(r, w) == {q \in Request \ {r} : Unspent(q, w)}

Listed(r, w) ==
  /\ task[r].pc \in {"close", "advance", "reevaluate", "observe", "decide", "recheck"}
  /\ \E i \in DOMAIN task[r].todo : task[r].todo[i] = w

\* Request r has yet to settle w, and attempts enough.
Owes(r, w) ==
  /\ Listed(r, w)
  /\ Lost(r, w) + (IF Moved(r, w) THEN 1 ELSE 0) + Cardinality(Others(r, w)) <= Attempts - 1

Due(r, w) == At(r, "start") /\ plan[r].op \in {"claim", "settle"} /\ plan[r].work = w

Wanted(w) == \E r \in Request : plan[r].op \in {"claim", "settle"} /\ plan[r].work = w

Owed(w) == ReadyIn(journal[w]) # {} /\ Wanted(w)
             => (\E r \in Request : Due(r, w)) \/ (\E r \in Request : Owes(r, w))

\* An attempt is lost to the Work at the head of the list, and what was ready as
\* the journal was observed is among what will be settled.
Steady(r) ==
  LET t == task[r] IN
  /\ t.pc \in {"start", "children", "cancel", "close", "advance", "reevaluate"}
       => memo[r].lap = 0
  /\ t.pc \in {"observe", "decide", "recheck"} => t.todo # <<>> /\ t.on = Head(t.todo)
  /\ t.pc = "recheck" => ReadyIn(Prefix(Own(r), memo[r].seen)) \subseteq memo[r].ready

\* A cancel without --cascade has one Work to cancel, and writes no more when it
\* has been cancelled.
Single(r) ==
  /\ plan[r].op # "cascade"
  /\ task[r].doomed # <<>> =>
       task[r].pc \in {"start", "children", "cancel"} /\ Tail(task[r].doomed) = <<>>

Reckoning ==
  /\ Grounds
  /\ \A w \in Works : Numbered(journal[w]) /\ Owed(w)
  /\ \A r \in Request : Steady(r) /\ Single(r)

\* Where a request goes when it settles, with an attempt count.
LEMMA Settles ==
  ASSUME Grounds, NEW r \in Request, Single(r), NEW todo \in Seq(Works), Settle(r, todo),
         task[r].pc \notin {"start", "children", "cancel"} \/ plan[r].op \notin Ends
  PROVE  /\ task'[r].pc \in {"done", "observe"}
         /\ task'[r].doomed = <<>>
         /\ \A w : ~InHold(r, w)' /\ ~Unspent(r, w)'
         /\ todo = <<>> => task'[r].pc = "done"
         /\ todo # <<>> => /\ task'[r].pc = "observe" /\ task'[r].todo = todo
                           /\ task'[r].on = Head(todo)
<1>1. task'[r] = SettleNext(task[r], todo) /\ task[r] \in Tasks
  BY DEF Settle, Grounds, Discipline, Shape
<1>0. task[r].doomed = <<>> /\ task'[r].doomed = <<>>
  BY <1>1, SettleTyped DEF Single, Grounds, Discipline, Orderly, Condemned
<1>2. CASE todo = <<>>
  <2>1. task'[r].pc = "done"
    BY <1>0, <1>1, <1>2 DEF SettleNext, Tasks
  <2> QED
    BY <1>0, <1>2, <2>1 DEF InHold, Unspent
<1>3. CASE todo # <<>>
  <2>1. /\ task'[r].pc = "observe" /\ task'[r].todo = todo
        /\ task'[r].on = Head(todo)
    BY <1>1, <1>3 DEF SettleNext, Tasks
  <2> QED
    BY <1>0, <1>3, <2>1 DEF InHold, Unspent
<1> QED
  BY <1>0, <1>2, <1>3

LEMMA Goes ==
  ASSUME Grounds, NEW r \in Request, NEW pc, Goto(r, pc)
  PROVE  /\ task'[r].pc = pc /\ task'[r].on = task[r].on /\ task'[r].todo = task[r].todo
         /\ task'[r].doomed = task[r].doomed
BY DEF Goto, Grounds, Discipline, Shape, Tasks

\* A request comes to an end of its writing once: what it was free to write of w
\* it no longer is, when it has written there and holds the journal no longer.
\* The settlements of w itself are the exception.
LEMMA SpendsOnce ==
  ASSUME Grounds, NEW r \in Request, Single(r), Step(r), NEW w \in Works
  PROVE  /\ Unspent(r, w)' => Unspent(r, w)
         /\ InHold(r, w) /\ ~InHold(r, w)' => Unspent(r, w) /\ ~Unspent(r, w)'
         /\ journal'[w] # journal[w] /\ ~InHold(r, w)'
              => (Unspent(r, w) /\ ~Unspent(r, w)') \/ (Mint(r) /\ task[r].on = w)
<1> DEFINE Once == /\ Unspent(r, w)' => Unspent(r, w)
                   /\ InHold(r, w) /\ ~InHold(r, w)' => Unspent(r, w) /\ ~Unspent(r, w)'
                   /\ journal'[w] # journal[w] /\ ~InHold(r, w)'
                        => (Unspent(r, w) /\ ~Unspent(r, w)') \/ (Mint(r) /\ task[r].on = w)
<1>0. /\ task[r] \in Tasks /\ task[r].on \in Works /\ task[r].todo \in Seq(Works)
      /\ journal \in [Works -> Seq(Event)] /\ <<>> \in Seq(Works)
      /\ <<plan[r].work>> \in Seq(Works) /\ <<task[r].on>> \o task[r].todo \in Seq(Works)
      /\ task[r].todo # <<>> => Tail(task[r].todo) \in Seq(Works)
      /\ \A v \in Works : Depth[v] \in Nat
  BY GroundsFacts, TaskTyped, JournalGuardsAssumption DEF Tree
\* A journal is written by a request that may, or holds it.
<1>1. ASSUME Unspent(r, w), ~Unspent(r, w)'
      PROVE  Once
  BY <1>1
<1>2. ASSUME journal'[w] = journal[w], ~InHold(r, w), Unspent(r, w)' => Unspent(r, w)
      PROVE  Once
  BY <1>2
<1>3. ASSUME task[r].pc \in {"start", "children", "cancel", "admit", "append", "again", "resolve",
                            "gather", "apply"}
      PROVE  Unspent(r, w) /\ ~InHold(r, w)
  BY <1>3 DEF Unspent, InHold
<1>4. ASSUME NEW todo \in Seq(Works), Settle(r, todo),
             task[r].pc \notin {"start", "children", "cancel"} \/ plan[r].op \notin Ends
      PROVE  ~InHold(r, w)' /\ ~Unspent(r, w)'
  BY <1>4, Settles
<1>5. CASE Write(r)
  BY <1>1, <1>3, <1>4, <1>5, <1>0 DEF Write, Asks, At, Finish, Ends
<1>6. CASE ClaimRefused(r) \/ AskSettle(r)
  BY <1>1, <1>3, <1>4, <1>6, <1>0 DEF ClaimRefused, AskSettle, Asks, At, Ends
<1>7. CASE ClaimRecorded(r)
  <2>1. /\ task'[r].pc \in {"close", "advance"} /\ task'[r].on = task[r].on
        /\ task[r].pc = "start"
    BY <1>0, <1>7 DEF ClaimRecorded, Asks, At, Discipline, Shape, Grounds, Tasks
  <2>2. w # task[r].on => journal'[w] = journal[w]
    BY <1>0, <1>7 DEF ClaimRecorded, Append1
  <2> QED
    BY <1>3, <2>1, <2>2 DEF InHold
<1>8. CASE Close(r)
  <2>1. task[r].pc = "close" /\ (w # task[r].on => journal'[w] = journal[w])
    BY <1>0, <1>8 DEF Close, At, Append1
  <2>2. w = task[r].on => InHold(r, w) /\ Unspent(r, w)
    BY <1>0, <2>1 DEF InHold, Unspent
  <2>3. CASE Goto(r, "advance")
    <3>1. task'[r].pc = "advance" /\ task'[r].on = task[r].on
      BY <2>3, Goes
    <3> QED
      BY <2>1, <2>2, <3>1 DEF InHold, Unspent
  <2>4. CASE Settle(r, task[r].todo)
    BY <1>0, <1>4, <2>1, <2>2, <2>4 DEF InHold
  <2> QED
    BY <1>8, <2>3, <2>4 DEF Close
<1>9. CASE Advance(r)
  <2>1. task[r].pc = "advance" /\ (w # task[r].on => journal'[w] = journal[w])
    BY <1>0, <1>9 DEF Advance, At, Append1
  <2>2. w = task[r].on => InHold(r, w) /\ Unspent(r, w)
    BY <1>0, <2>1 DEF InHold, Unspent
  <2>3. CASE Settle(r, task[r].todo)
    BY <1>0, <1>4, <2>1, <2>2, <2>3 DEF InHold
  <2>4. CASE /\ task' = [task EXCEPT ![r].pc = "reevaluate", ![r].on = Parent[task[r].on]]
             /\ Parent[task[r].on] # NoWork
    <3>1. task'[r].pc = "reevaluate" /\ task'[r].on = Parent[task[r].on]
      BY <1>0, <2>4 DEF Grounds, Discipline, Shape, Tasks
    <3>2. Parent[task[r].on] \in Works /\ Depth[task[r].on] = Depth[Parent[task[r].on]] + 1
      BY <1>0, <2>4, JournalGuardsAssumption DEF Tree
    <3>3. /\ ~InHold(r, w)'
          /\ Unspent(r, w)' <=> Depth[w] <= Depth[Parent[task[r].on]]
          /\ Unspent(r, w) <=> Depth[w] <= Depth[task[r].on]
      BY <2>1, <3>1 DEF InHold, Unspent
    <3>4. Depth[w] <= Depth[Parent[task[r].on]] => Depth[w] <= Depth[task[r].on] /\ w # task[r].on
      BY <1>0, <3>2
    <3> QED
      BY <2>1, <2>2, <3>3, <3>4 DEF InHold
  <2> QED
    BY <1>9, <2>3, <2>4 DEF Advance
<1>10. CASE Reevaluate(r)
  <2>1. task[r].pc = "reevaluate" /\ journal' = journal
    BY <1>10 DEF Reevaluate, At
  <2>2. CASE task' = [task EXCEPT ![r].pc = "close", ![r].todo = <<task[r].on>> \o task[r].todo]
    <3>1. task'[r].pc = "close" /\ task'[r].on = task[r].on
      BY <1>0, <2>2 DEF Grounds, Discipline, Shape, Tasks
    <3> QED
      BY <2>1, <3>1 DEF InHold, Unspent
  <2>3. CASE Settle(r, <<task[r].on>> \o task[r].todo)
    BY <1>0, <1>4, <2>1, <2>3 DEF InHold
  <2> QED
    BY <1>10, <2>2, <2>3 DEF Reevaluate
<1>11. CASE Look(r) \/ Admit(r) \/ AskApply(r)
  <2>1. task[r].pc \in {"start", "admit", "again"} /\ journal' = journal
    BY <1>11 DEF Look, Admit, AskApply, Asks, At
  <2> QED
    BY <1>2, <1>3, <2>1
<1>12. CASE Raise(r)
  <2>1. task[r].pc = "append"
    BY <1>12 DEF Raise, At
  <2>2. CASE SameObservation(r)
    BY <1>0, <1>1, <1>3, <1>4, <1>12, <2>1, <2>2 DEF Raise
  <2>3. CASE ~SameObservation(r)
    BY <1>2, <1>3, <1>12, <2>1, <2>3 DEF Raise
  <2> QED
    BY <2>2, <2>3
<1>13. CASE Observe(r) \/ Decide(r) \/ Mint(r)
  <2>1. task[r].pc \in {"observe", "decide", "recheck"} /\ ~InHold(r, w)
    BY <1>13 DEF Observe, Decide, Mint, At, InHold
  <2>2. ~Unspent(r, w)'
    <3>1. CASE Goto(r, "observe") \/ Goto(r, "decide") \/ Goto(r, "recheck")
      <4>1. task'[r].pc \in {"observe", "decide", "recheck"}
        BY <3>1, Goes
      <4> QED
        BY <4>1 DEF Unspent
    <3>2. CASE Settle(r, Tail(task[r].todo))
      <4>1. task[r].todo # <<>>
        BY <2>1, GroundsFacts DEF Discipline, Orderly
      <4> QED
        BY <1>0, <1>4, <2>1, <3>2, <4>1
    <3> QED
      BY <1>13, <3>1, <3>2 DEF Observe, Decide, Mint, LosesLap
  <2>3. journal'[w] = journal[w] \/ (Mint(r) /\ task[r].on = w)
    BY <1>0, <1>13 DEF Observe, Decide, Mint, Append1
  <2> QED
    BY <2>1, <2>2, <2>3
<1>14. CASE Resolve(r) \/ Gather(r) \/ Judge(r)
  <2>1. task[r].pc \in {"resolve", "gather"} /\ journal' = journal
    BY <1>14 DEF Resolve, Gather, Judge, At
  <2> QED
    BY <1>2, <1>3, <2>1
<1>15. CASE Apply(r)
  <2>1. task[r].pc = "apply" /\ task'[r].pc = "reconcile"
    BY <1>15, Goes DEF Apply, At
  <2>2. ~Unspent(r, w)'
    BY <2>1 DEF Unspent
  <2> QED
    BY <1>1, <1>3, <2>1, <2>2
<1>16. CASE Reconcile(r) \/ Replay(r)
  <2>1. task[r].pc \in {"reconcile", "replay"} /\ journal' = journal
    BY <1>16 DEF Reconcile, Replay, At
  <2>2. ~Unspent(r, w)'
    <3>1. CASE Finish(r)
      BY <1>0, <1>4, <2>1, <3>1 DEF Finish
    <3>2. CASE ~Finish(r)
      <4>1. task'[r].pc = "replay"
        BY <1>0, <1>16, <2>1, <3>2 DEF Reconcile, Replay, At, Grounds, Discipline, Shape, Tasks
      <4> QED
        BY <4>1 DEF Unspent
    <3> QED
      BY <3>1, <3>2
  <2> QED
    BY <2>1, <2>2 DEF InHold
<1>17. CASE Inventory(r)
  <2>1. task[r].pc = "start" /\ journal' = journal
    BY <1>17 DEF Inventory, Asks, At
  <2> QED
    BY <1>2, <1>3, <2>1
<1>18. CASE CancelLooks(r) \/ CancelSeesChildren(r) \/ CancelWrites(r)
  <2>1. /\ task[r].pc \in {"start", "children", "cancel"} /\ task[r].doomed # <<>>
        /\ Tail(task[r].doomed) = <<>>
    BY <1>18, GroundsFacts DEF CancelLooks, CancelSeesChildren, CancelWrites, At, Discipline,
       Orderly, Condemned, Single
  <2>2. Unspent(r, w) /\ ~InHold(r, w)
    BY <1>3, <2>1
  <2>3. CASE Spared(r)
    <3>1. task'[r].pc = "done"
      BY <1>18, <2>1, <2>3, SparedMoves
    <3> QED
      BY <1>1, <2>2, <3>1 DEF Unspent
  <2>4. CASE ~Spared(r) /\ ~CancelWrites(r)
    <3>1. journal'[w] = journal[w]
      BY <1>18, <2>4 DEF CancelLooks, CancelSeesChildren
    <3> QED
      BY <1>2, <2>2, <3>1
  <2>5. CASE ~Spared(r) /\ CancelWrites(r)
    <3>1. /\ task'[r].pc = "reevaluate" /\ task'[r].on = Parent[task[r].on]
          /\ Parent[task[r].on] # NoWork
      BY <2>5, CancelMoves
    <3>2. Parent[task[r].on] \in Works /\ Depth[task[r].on] = Depth[Parent[task[r].on]] + 1
      BY <1>0, <3>1, JournalGuardsAssumption DEF Tree
    <3>3. CASE w = task[r].on
      <4>1. ~(Depth[w] <= Depth[Parent[task[r].on]])
        BY <1>0, <3>2, <3>3
      <4>2. ~Unspent(r, w)'
        BY <3>1, <4>1 DEF Unspent
      <4> QED
        BY <1>1, <2>2, <4>2
    <3>4. CASE w # task[r].on
      <4>1. journal'[w] = journal[w]
        BY <1>0, <2>5, <3>4 DEF CancelWrites, Append1
      <4> QED
        BY <1>2, <2>2, <4>1
    <3> QED
      BY <3>3, <3>4
  <2> QED
    BY <2>3, <2>4, <2>5
<1> QED
  BY <1>5, <1>6, <1>7, <1>8, <1>9, <1>10, <1>11, <1>12, <1>13, <1>14, <1>15, <1>16, <1>17, <1>18
     DEF Step

\* What a step writes, and of whose making what becomes ready is.
LEMMA ReadyGrows ==
  ASSUME Grounds, NEW r \in Request, Step(r), NEW w \in Works, Numbered(journal[w])
  PROVE  /\ Numbered(journal'[w])
         /\ \/ ReadyIn(journal'[w]) \subseteq ReadyIn(journal[w])
            \/ ClaimRecorded(r) /\ plan[r].work = w
            \/ Raise(r) /\ SameObservation(r) /\ plan[r].work = w
<1>0. journal \in [Works -> Seq(Event)]
  BY GroundsFacts
<1>1. ASSUME NEW v \in Works, NEW e \in Seq(Event), Writes(r, v, e), InTurn(journal[v], e),
             Claims(e) => ClaimRecorded(r) /\ v = plan[r].work,
             (\E i \in DOMAIN e : e[i].k = "raise") =>
               Raise(r) /\ SameObservation(r) /\ v = plan[r].work
      PROVE  /\ Numbered(journal'[w])
             /\ \/ ReadyIn(journal'[w]) \subseteq ReadyIn(journal[w])
                \/ ClaimRecorded(r) /\ plan[r].work = w
                \/ Raise(r) /\ SameObservation(r) /\ plan[r].work = w
  <2>1. CASE w # v
    BY <1>0, <1>1, <2>1 DEF Writes
  <2>2. CASE w = v
    <3>1. journal'[w] = journal[w] \o e /\ journal[w] \in Seq(Event)
      BY <1>0, <1>1, <2>2 DEF Writes
    <3>2. Numbered(journal[w] \o e)
      BY <1>1, <2>2, <3>1, TurnKeeps
    <3>3. CASE ~Claims(e) /\ \A i \in DOMAIN e : e[i].k # "raise"
      BY <1>1, <2>2, <3>1, <3>2, <3>3, ReadyShrinks
    <3> QED
      BY <1>1, <2>2, <3>1, <3>2, <3>3
  <2> QED
    BY <2>1, <2>2
<1>2. CASE journal' = journal
  BY <1>2
<1>3. CASE journal' # journal /\ Raise(r)
  <2>1. Writes(r, plan[r].work, <<TheFinding(r)>>) /\ TheFinding(r).k = "raise" /\ plan[r].work \in Works
    BY <1>3, RaiseWrites, GroundsFacts
  <2>2. <<TheFinding(r)>> \in Seq(Event) /\ SameObservation(r)
    BY <1>3, <2>1 DEF Writes, Raise
  <2>3. InTurn(journal[plan[r].work], <<TheFinding(r)>>) /\ ~Claims(<<TheFinding(r)>>)
    BY <2>1 DEF InTurn, Claims
  <2> QED
    BY <1>1, <1>3, <2>1, <2>2, <2>3
<1>4. CASE journal' # journal /\ Mint(r)
  <2> DEFINE e == Settlements(memo[r].ready)
  <2>1. /\ Writes(r, task[r].on, e) /\ task[r].on \in Works
        /\ memo[r].ready \in SUBSET Nat /\ IsFiniteSet(memo[r].ready)
    BY <1>4, MintWrites, GroundsFacts
  <2>2. e \in Seq(Event) /\ \A i \in DOMAIN e : \E f : e[i] = Settled(f)
    BY <2>1, SettlementsOf
  <2> HIDE DEF e
  <2>3. \A i \in DOMAIN e : e[i].k = "settle"
    <3>1. \A f : Settled(f).k = "settle"
      BY DEF Settled
    <3> QED
      BY <2>2, <3>1
  <2>4. InTurn(journal[task[r].on], e) /\ ~Claims(e)
    BY <2>3 DEF InTurn, Claims
  <2> QED
    BY <1>1, <2>1, <2>2, <2>3, <2>4
<1>5. CASE journal' # journal /\ Apply(r)
  <2> DEFINE x == Applied(memo[r].found, plan[r].work, plan[r].run, plan[r].from, plan[r].cite)
  <2>1. Writes(r, plan[r].other, <<x>>) /\ x.k = "apply" /\ plan[r].other \in Works
    BY <1>5, ApplyWrites, GroundsFacts DEF Applied
  <2> HIDE DEF x
  <2>2. /\ <<x>> \in Seq(Event) /\ InTurn(journal[plan[r].other], <<x>>) /\ ~Claims(<<x>>)
        /\ \A i \in DOMAIN <<x>> : <<x>>[i].k # "raise"
    BY <2>1 DEF InTurn, Claims, Writes
  <2> QED
    BY <1>1, <2>1, <2>2
<1>6. CASE \/ Write(r) \/ ClaimRefused(r) \/ ClaimRecorded(r) \/ Close(r) \/ Advance(r)
           \/ CancelWrites(r)
  <2>1. CASE \E v \in Works, e \in Seq(Event) :
               /\ Writes(r, v, e) /\ Plain(e) /\ InTurn(journal[v], e)
               /\ Claims(e) => ClaimRecorded(r) /\ v = plan[r].work
    <3>1. PICK v \in Works, e \in Seq(Event) :
               /\ Writes(r, v, e) /\ Plain(e) /\ InTurn(journal[v], e)
               /\ Claims(e) => ClaimRecorded(r) /\ v = plan[r].work
      BY <2>1
    <3>2. ~\E i \in DOMAIN e : e[i].k = "raise"
      BY <3>1 DEF Plain
    <3> QED
      BY <1>1, <3>1, <3>2
  <2> QED
    BY <1>2, <1>6, <2>1, PlainSteps
<1>7. CASE \/ CancelLooks(r) \/ CancelSeesChildren(r) \/ Reevaluate(r) \/ Look(r) \/ Admit(r)
           \/ AskSettle(r) \/ Observe(r) \/ Decide(r) \/ AskApply(r) \/ Resolve(r) \/ Gather(r)
           \/ Judge(r) \/ Reconcile(r) \/ Inventory(r) \/ Replay(r)
  BY <1>2, <1>7 DEF CancelLooks, CancelSeesChildren, Reevaluate, Look, Admit, AskSettle, Observe,
     Decide, AskApply, Resolve, Gather, Judge, Reconcile, Inventory, Replay
<1> QED
  BY <1>2, <1>3, <1>4, <1>5, <1>6, <1>7 DEF Step

\* A settlement that is appended leaves nothing ready.
LEMMA MintClears ==
  ASSUME Grounds, NEW r \in Request, Steady(r), Mint(r), SameObservation(r)
  PROVE  ReadyIn(journal'[task[r].on]) = {}
<1> DEFINE w == task[r].on
           j == journal[w]
           S == memo[r].ready
<1>1. /\ w \in Works /\ journal \in [Works -> Seq(Event)] /\ j \in Seq(Event) /\ Own(r) = j
      /\ task[r].pc = "recheck" /\ memo[r].seen = Len(j) /\ Founded(r) /\ S \in SUBSET Nat
  BY GroundsFacts DEF Mint, At, SameObservation, Own
<1>2. Prefix(j, Len(j)) = j
  BY <1>1, Observed
<1>3. ReadyIn(j) \subseteq S
  BY <1>1, <1>2 DEF Steady
<1>4. \A f \in S : f \in DOMAIN j
  BY <1>1, <1>2 DEF Founded, SettlesOn, Proposed, Findings
<1>5. IsFiniteSet(S)
  <2>1. S \in SUBSET (1..Len(j))
    BY <1>1, <1>4
  <2>2. Len(j) \in Nat
    BY <1>1
  <2>3. IsFiniteSet(1..Len(j))
    <3> HIDE DEF j
    <3> QED
      BY <2>2, FS_Interval
  <2> HIDE DEF S, j
  <2> QED
    BY <2>1, <2>3, FS_Subset
<1>6. journal'[w] = j \o Settlements(S)
  BY <1>1 DEF Mint, Append1
<1>7. /\ Settlements(S) \in Seq(Event)
      /\ \A i \in DOMAIN Settlements(S) : \E f \in S : Settlements(S)[i] = Settled(f)
      /\ \A f \in S : \E i \in DOMAIN Settlements(S) : Settlements(S)[i] = Settled(f)
  BY <1>1, <1>5, SettlementsOf, AllSettled
<1> DEFINE e == Settlements(S)
           k == j \o e
<1>8. \A f \in S : Says(k, Settled(f))
  <2> TAKE f \in S
  <2>1. PICK i \in DOMAIN e : e[i] = Settled(f)
    BY <1>7
  <2>2. j \in Seq(Event) /\ e \in Seq(Event) /\ Len(j) \in Nat
    <3>1. j \in Seq(Event) /\ e \in Seq(Event)
      BY <1>1, <1>7
    <3> HIDE DEF e, j
    <3> QED
      BY <3>1
  <2> HIDE DEF S, e, j
  <2>3. Len(j) + i \in DOMAIN k /\ k[Len(j) + i] = Settled(f)
    BY <2>1, <2>2
  <2> HIDE DEF k
  <2> QED
    BY <2>3 DEF Says
<1>9. ASSUME NEW f \in ReadyIn(k)
      PROVE  FALSE
  <2>1. \A i \in DOMAIN e : e[i].k = "settle"
    <3>1. \A g : Settled(g).k = "settle"
      BY DEF Settled
    <3>2. \A i \in DOMAIN e : \E g \in S : e[i] = Settled(g)
      BY <1>7
    <3> HIDE DEF e, S
    <3> QED
      BY <3>1, <3>2
  <2>2. f \notin S
    BY <1>8, <1>9 DEF ReadyIn, Proposed
  <2> HIDE DEF e, S
  <2>3. /\ e \in Seq(Event) /\ j \in Seq(Event) /\ Grown(j, k) /\ f \in DOMAIN k /\ k[f].k = "raise"
    BY <1>1, <1>7, <1>9, Appended DEF ReadyIn, Proposed, Findings, e
  <2> HIDE DEF j
  <2>4. \A i \in DOMAIN k : \/ i \in DOMAIN j /\ k[i] = j[i]
                            \/ \E h \in DOMAIN e : k[i] = e[h]
    BY <2>3, OldOrNew
  <2>5. f \in DOMAIN j /\ k[f] = j[f]
    BY <2>1, <2>3, <2>4
  <2>6. \A i \in Len(j) + 1 .. Len(k) : k[i].k \notin {"open", "claim"}
    <3>1. \A i \in Len(j) + 1 .. Len(k) : \E h \in DOMAIN e : k[i] = e[h]
      BY <2>3, Appended
    <3> QED
      BY <2>1, <3>1
  <2> HIDE DEF k
  <2>7. Latest(j, j[f].claim) <=> Latest(k, j[f].claim)
    BY <2>3, <2>6, SameRunsOf
  <2>8. Says(k, Claimed(j[f].claim)) => Says(j, Claimed(j[f].claim))
    <3>1. Claimed(j[f].claim).k = "claim"
      BY DEF Claimed
    <3>2. \A i \in DOMAIN k : k[i].k = "claim" => i \in DOMAIN j /\ k[i] = j[i]
      BY <2>1, <2>4
    <3> QED
      BY <3>1, <3>2 DEF Says
  <2>9. ~Says(j, Settled(f))
    BY <1>9, <2>3, StillSays DEF ReadyIn, Proposed
  <2>10. f \in ReadyIn(j)
    BY <1>9, <2>3, <2>5, <2>7, <2>8, <2>9 DEF ReadyIn, Proposed, Findings, ByClaim, DoneClaim
  <2> QED
    BY <1>3, <2>2, <2>10 DEF j, S
<1> QED
  BY <1>6, <1>9

\* The others that may still write are no more than before, and one fewer when
\* the request that stepped was one of them and is not any more.
LEMMA OthersFewer ==
  ASSUME Grounds, NEW r \in Request, Single(r), Step(r), NEW w \in Works, NEW x \in Request,
         IsFiniteSet(Request)
  PROVE  /\ Cardinality(Others(x, w)) \in Nat /\ Cardinality(Others(x, w)') \in Nat
         /\ Cardinality(Others(x, w)') <= Cardinality(Others(x, w))
         /\ x # r /\ Unspent(r, w) /\ ~Unspent(r, w)'
              => Cardinality(Others(x, w)') + 1 <= Cardinality(Others(x, w))
<1>1. \A q \in Request : Unspent(q, w)' => Unspent(q, w)
  <2> TAKE q \in Request
  <2>1. CASE q = r
    BY <2>1, SpendsOnce
  <2>2. CASE q # r
    <3>1. task'[q] = task[q]
      BY <2>2, OwnStep
    <3> QED
      BY <3>1 DEF Unspent
  <2> QED
    BY <2>1, <2>2
<1> DEFINE O == Others(x, w)
           N == {q \in Request \ {x} : Unspent(q, w)'}
<1>2. Others(x, w)' = N /\ N \subseteq O /\ O \subseteq Request
  BY <1>1 DEF Others
<1>3. x # r /\ Unspent(r, w) /\ ~Unspent(r, w)' => r \in O /\ N \subseteq O \ {r}
  BY <1>1 DEF Others
<1> HIDE DEF O, N
<1>4. /\ IsFiniteSet(O) /\ IsFiniteSet(N) /\ Cardinality(N) <= Cardinality(O)
      /\ Cardinality(O) \in Nat /\ Cardinality(N) \in Nat
  BY <1>2, FS_Subset, FS_CardinalityType
<1>5. r \in O /\ N \subseteq O \ {r} => Cardinality(N) + 1 <= Cardinality(O)
  <2> SUFFICES ASSUME r \in O, N \subseteq O \ {r}
               PROVE  Cardinality(N) + 1 <= Cardinality(O)
    OBVIOUS
  <2>1. IsFiniteSet(O \ {r}) /\ Cardinality(O \ {r}) = Cardinality(O) - 1
    BY <1>4, FS_RemoveElement
  <2>2. Cardinality(N) <= Cardinality(O \ {r})
    BY <2>1, FS_Subset
  <2> QED
    BY <1>4, <2>1, <2>2
<1> QED
  BY <1>2, <1>3, <1>4, <1>5 DEF O

\* Who is moved by the step of another, is moved by one that writes no more.
LEMMA OtherOwes ==
  ASSUME Grounds, NEW r \in Request, Single(r), Step(r), NEW w \in Works, NEW x \in Request \ {r},
         IsFiniteSet(Request), Owes(x, w),
         ~(Mint(r) /\ task[r].on = w /\ journal'[w] # journal[w])
  PROVE  Owes(x, w)'
<1>1. task'[x] = task[x] /\ memo'[x] = memo[x] /\ memo[x].lap \in Nat
  <2>1. memo[x].lap \in 0..Attempts - 1 /\ Attempts \in Nat
    BY GroundsFacts, JournalGuardsAssumption
  <2> QED
    BY <2>1, OwnStep
<1>2. Listed(x, w)' /\ Lost(x, w)' = Lost(x, w) /\ Lost(x, w) \in Nat
  BY <1>1 DEF Owes, Listed, Lost
<1>3. /\ Cardinality(Others(x, w)) \in Nat /\ Cardinality(Others(x, w)') \in Nat
      /\ Cardinality(Others(x, w)') <= Cardinality(Others(x, w))
      /\ Unspent(r, w) /\ ~Unspent(r, w)'
           => Cardinality(Others(x, w)') + 1 <= Cardinality(Others(x, w))
  BY OthersFewer
<1>4. Moved(x, w)' /\ ~Moved(x, w) => Unspent(r, w) /\ ~Unspent(r, w)'
  <2> SUFFICES ASSUME Moved(x, w)', ~Moved(x, w)
               PROVE  Unspent(r, w) /\ ~Unspent(r, w)'
    OBVIOUS
  <2>1. /\ task[x].pc \in {"decide", "recheck"} /\ task[x].on = w
        /\ Len(journal'[w]) # memo[x].seen /\ \A q \in Request : ~InHold(q, w)'
    BY <1>1 DEF Moved
  <2>2. CASE Len(journal[w]) = memo[x].seen
    <3>1. journal'[w] # journal[w]
      BY <2>1, <2>2
    <3> QED
      BY <2>1, <3>1, SpendsOnce
  <2>3. CASE Len(journal[w]) # memo[x].seen
    <3>1. PICK q \in Request : InHold(q, w)
      BY <2>1, <2>3 DEF Moved
    <3>2. q = r
      <4>1. q # r => task'[q] = task[q]
        BY OwnStep
      <4> QED
        BY <2>1, <3>1, <4>1 DEF InHold
    <3> QED
      BY <2>1, <3>1, <3>2, SpendsOnce
  <2> QED
    BY <2>2, <2>3
<1> DEFINE a == Lost(x, w)
           m == IF Moved(x, w) THEN 1 ELSE 0
           n == IF Moved(x, w)' THEN 1 ELSE 0
           c == Cardinality(Others(x, w))
           d == Cardinality(Others(x, w)')
<1>5. /\ a \in Nat /\ m \in {0, 1} /\ n \in {0, 1} /\ c \in Nat /\ d \in Nat
      /\ a + m + c <= Attempts - 1 /\ d <= c /\ (n = 1 /\ m = 0 => d + 1 <= c)
      /\ Attempts \in Nat
  BY <1>2, <1>3, <1>4, JournalGuardsAssumption DEF Owes
<1>6. a + n + d <= Attempts - 1
  <2> HIDE DEF a, m, n, c, d
  <2> QED
    BY <1>5
<1> QED
  BY <1>2, <1>6 DEF Owes

\* Who starts to owe, owes with all its attempts: the others are fewer.
LEMMA NewlyOwes ==
  ASSUME Grounds, NEW r \in Request, Step(r), NEW w \in Works,
         IsFiniteSet(Request), Cardinality(Request) <= Attempts,
         Listed(r, w)', Lost(r, w)' = 0, ~Moved(r, w)'
  PROVE  Owes(r, w)'
<1> DEFINE N == Others(r, w)'
<1>1. N \subseteq Request \ {r}
  BY DEF Others
<1>2. IsFiniteSet(Request \ {r}) /\ Cardinality(Request \ {r}) = Cardinality(Request) - 1
  BY FS_RemoveElement
<1>3. Cardinality(Request) \in Nat /\ Attempts \in Nat
  BY FS_CardinalityType, JournalGuardsAssumption
<1> HIDE DEF N
<1>4. IsFiniteSet(N) /\ Cardinality(N) <= Cardinality(Request) - 1
  BY <1>1, <1>2, FS_Subset
<1>5. Cardinality(N) \in Nat
  BY <1>4, FS_CardinalityType
<1>6. 0 + 0 + Cardinality(N) <= Attempts - 1
  BY <1>3, <1>4, <1>5
<1> QED
  BY <1>6 DEF Owes, N

\* A request that makes a Finding of w ready, or is asked to settle w, owes it.
LEMMA StartsToOwe ==
  ASSUME Grounds, NEW r \in Request, Steady(r), Single(r), Step(r), NEW w \in Works,
         plan[r].work = w,
         IsFiniteSet(Request), Cardinality(Request) <= Attempts,
         \/ Due(r, w)
         \/ Raise(r) /\ SameObservation(r)
  PROVE  Owes(r, w)'
<1>0. /\ task \in [Request -> Tasks] /\ task[r] \in Tasks /\ memo \in [Request -> Memos]
      /\ memo[r] \in Memos /\ <<w>> \in Seq(Works) /\ <<w>> # <<>>
  BY GroundsFacts DEF Grounds, Discipline, Shape, Records
<1>1. ASSUME Settle(r, <<w>>), memo'[r].lap = 0,
             task[r].pc \notin {"start", "children", "cancel"} \/ plan[r].op \notin Ends
      PROVE  Owes(r, w)'
  <2>1. task'[r].pc = "observe" /\ task'[r].todo = <<w>>
    BY <1>0, <1>1, Settles
  <2>2. Listed(r, w)' /\ ~Moved(r, w)' /\ Lost(r, w)' = 0
    BY <1>1, <2>1 DEF Listed, Moved, Lost
  <2> QED
    BY <2>2, NewlyOwes
<1>2. CASE Due(r, w)
  <2>1. /\ task[r].pc = "start" /\ plan[r].op \in {"claim", "settle"} /\ memo[r].lap = 0
        /\ plan[r].op \notin Ends
    BY <1>2 DEF Due, At, Steady, Ends
  <2>2. ClaimRefused(r) \/ ClaimRecorded(r) \/ AskSettle(r)
    BY <2>1 DEF Step, Write, CancelLooks, CancelSeesChildren, CancelWrites, ClaimRefused,
       ClaimRecorded, Close, Advance, Reevaluate, Look, Admit, Raise, AskSettle, Observe, Decide,
       Mint, AskApply, Resolve, Gather, Judge, Apply, Reconcile, Inventory, Replay, Asks, At
  <2>3. CASE ClaimRefused(r) \/ AskSettle(r)
    BY <1>1, <2>1, <2>3 DEF ClaimRefused, AskSettle
  <2>4. CASE ClaimRecorded(r)
    <3>1. /\ task'[r].pc \in {"close", "advance"} /\ task'[r].todo = <<w>>
      BY <1>0, <2>4 DEF ClaimRecorded, Tasks
    <3>2. Listed(r, w)' /\ ~Moved(r, w)' /\ Lost(r, w)' = 0
      BY <3>1 DEF Listed, Moved, Lost
    <3> QED
      BY <3>2, NewlyOwes
  <2> QED
    BY <2>2, <2>3, <2>4
<1>3. CASE Raise(r) /\ SameObservation(r)
  <2>1. Settle(r, <<w>>) /\ Reads(r, "lap", 0) /\ task[r].pc = "append"
    BY <1>3 DEF Raise, At
  <2>2. memo'[r].lap = 0
    BY <1>0, <2>1 DEF Reads, Memos
  <2> QED
    BY <1>1, <2>1, <2>2
<1> QED
  BY <1>2, <1>3

\* Who owes goes on owing until nothing of it is ready: it lists the Work, loses
\* an attempt only to a journal that moved, and has attempts enough.
LEMMA OwnerOwes ==
  ASSUME Grounds, NEW r \in Request, Steady(r), Single(r), Step(r), NEW w \in Works,
         IsFiniteSet(Request), Owes(r, w), ReadyIn(journal'[w]) # {}
  PROVE  Owes(r, w)'
<1> DEFINE t == task[r]
           lap == memo[r].lap
<1>0. /\ task \in [Request -> Tasks] /\ t \in Tasks /\ t.on \in Works /\ t.todo \in Seq(Works)
      /\ memo \in [Request -> Memos] /\ memo[r] \in Memos /\ lap \in Nat /\ memo[r].seen \in Nat
      /\ Attempts \in Nat /\ journal \in [Works -> Seq(Event)] /\ Listed(r, w)
  <2>1. memo[r].lap \in 0..Attempts - 1 /\ Attempts \in Nat
    BY GroundsFacts, JournalGuardsAssumption
  <2> QED
    BY <2>1, GroundsFacts, TaskTyped DEF Grounds, Discipline, Shape, Records, Owes
<1>1. PICK i \in DOMAIN t.todo : t.todo[i] = w
  BY <1>0 DEF Listed
<1>2. t.todo # <<>>
  BY <1>0, <1>1
\* Its debt is no greater, if what it lost or is about to lose is not.
<1>3. ASSUME NEW a \in Nat, NEW m \in {0, 1}, a = Lost(r, w)', m = (IF Moved(r, w)' THEN 1 ELSE 0),
             Listed(r, w)', a + m <= Lost(r, w) + (IF Moved(r, w) THEN 1 ELSE 0)
      PROVE  Owes(r, w)'
  <2> DEFINE b == Lost(r, w)
             n == IF Moved(r, w) THEN 1 ELSE 0
             c == Cardinality(Others(r, w))
             d == Cardinality(Others(r, w)')
  <2>1. b \in Nat /\ n \in {0, 1} /\ c \in Nat /\ d \in Nat /\ d <= c /\ b + n + c <= Attempts - 1
    BY <1>0, OthersFewer DEF Owes, Lost
  <2>2. a + m <= b + n
    BY <1>3
  <2> HIDE DEF b, n, c, d
  <2>3. a + m + d <= Attempts - 1
    BY <1>0, <1>3, <2>1, <2>2
  <2> QED
    BY <1>3, <2>3 DEF Owes, d
<1>4. ASSUME Listed(r, w)', Lost(r, w)' = 0, ~Moved(r, w)'
      PROVE  Owes(r, w)'
  <2>1. 0 + 0 <= Lost(r, w) + (IF Moved(r, w) THEN 1 ELSE 0)
    BY <1>0 DEF Lost
  <2> QED
    BY <1>3, <1>4, <2>1
\* To what is still on the list it comes with no attempt lost.
<1>5. ASSUME NEW todo \in Seq(Works), NEW k \in DOMAIN todo, todo[k] = w, Settle(r, todo), memo'[r].lap = 0
      PROVE  Owes(r, w)'
  <2>1. todo # <<>> /\ task[r].pc \notin {"start", "children", "cancel"}
    <3>1. todo # <<>>
      BY <1>5
    <3>2. Listed(r, w)
      BY <1>0
    <3> QED
      BY <3>1, <3>2 DEF Listed
  <2>2. task'[r].pc = "observe" /\ task'[r].todo = todo
    <3>1. Settle(r, todo)
      BY <1>5
    <3> QED
      BY <2>1, <3>1, Settles
  <2>3. Listed(r, w)' /\ ~Moved(r, w)' /\ Lost(r, w)' = 0
    BY <1>5, <2>2 DEF Listed, Moved, Lost
  <2> QED
    BY <1>4, <2>3
<1>6. ASSUME NEW k \in DOMAIN task'[r].todo, task'[r].todo[k] = w,
             task'[r].pc \in {"close", "advance", "reevaluate"}
      PROVE  Owes(r, w)'
  <2>1. Listed(r, w)' /\ ~Moved(r, w)' /\ Lost(r, w)' = 0
    BY <1>6 DEF Listed, Moved, Lost
  <2> QED
    BY <1>4, <2>1
<1>7. CASE t.pc \in {"close", "advance", "reevaluate"}
  <2>1. Close(r) \/ Advance(r) \/ Reevaluate(r)
    BY <1>7 DEF Step, Write, CancelLooks, CancelSeesChildren, CancelWrites, ClaimRefused,
       ClaimRecorded, Close, Advance, Reevaluate, Look, Admit, Raise, AskSettle, Observe, Decide,
       Mint, AskApply, Resolve, Gather, Judge, Apply, Reconcile, Inventory, Replay, Asks, At
  <2>2. memo' = memo /\ lap = 0
    BY <1>7, <2>1 DEF Close, Advance, Reevaluate, Steady
  <2>3. CASE Settle(r, t.todo)
    BY <1>0, <1>1, <1>5, <2>2, <2>3
  <2>4. CASE Goto(r, "advance")
    BY <1>1, <1>6, <2>4, Goes
  <2>5. CASE task' = [task EXCEPT ![r].pc = "reevaluate", ![r].on = Parent[task[r].on]]
    <3>1. task'[r].pc = "reevaluate" /\ task'[r].todo = t.todo
      BY <1>0, <2>5 DEF Tasks
    <3> QED
      BY <1>1, <1>6, <3>1
  <2>6. CASE Reevaluate(r)
    <3> DEFINE todo == <<task[r].on>> \o task[r].todo
    <3>1. todo \in Seq(Works) /\ i + 1 \in DOMAIN todo /\ todo[i + 1] = w
      <4>1. <<task[r].on>> \in Seq(Works) /\ Len(<<task[r].on>>) = 1
        BY <1>0
      <4> QED
        BY <1>0, <1>1, <4>1
    <3>2. CASE Settle(r, todo)
      <4> HIDE DEF todo
      <4> QED
        BY <1>5, <2>2, <3>1, <3>2
    <3>3. CASE task' = [task EXCEPT ![r].pc = "close", ![r].todo = todo]
      <4> HIDE DEF todo
      <4>1. task'[r].pc = "close" /\ task'[r].todo = todo
        BY <1>0, <3>3 DEF Tasks
      <4> QED
        BY <1>6, <3>1, <4>1
    <3> QED
      BY <2>6, <3>2, <3>3 DEF Reevaluate
  <2> QED
    BY <2>1, <2>3, <2>4, <2>5, <2>6 DEF Close, Advance
<1>8. CASE t.pc \in {"observe", "decide"}
  <2>1. Observe(r) \/ Decide(r)
    BY <1>8 DEF Step, Write, CancelLooks, CancelSeesChildren, CancelWrites, ClaimRefused,
       ClaimRecorded, Close, Advance, Reevaluate, Look, Admit, Raise, AskSettle, Observe, Decide,
       Mint, AskApply, Resolve, Gather, Judge, Apply, Reconcile, Inventory, Replay, Asks, At
  <2>2. /\ task'[r].on = t.on /\ task'[r].todo = t.todo /\ journal' = journal
        /\ task'[r].pc \in {"decide", "recheck"} /\ memo'[r].lap = lap
    <3>1. memo'[r].lap = lap /\ journal' = journal
      BY <1>0, <2>1 DEF Observe, Decide, Reads, Memos
    <3> QED
      BY <2>1, <3>1, Goes DEF Observe, Decide
  <2>3. Listed(r, w)' /\ Lost(r, w)' = Lost(r, w)
    BY <1>0, <1>8, <2>2 DEF Listed, Lost
  <2>4. Moved(r, w)' => Moved(r, w)
    <3> SUFFICES ASSUME Moved(r, w)'
                 PROVE  Moved(r, w)
      OBVIOUS
    <3>1. CASE Observe(r)
      <4>1. memo'[r].seen = Len(journal[t.on])
        BY <1>0, <3>1 DEF Observe, Reads, Memos, Own
      <4> QED
        BY <2>2, <4>1 DEF Moved
    <3>2. CASE Decide(r)
      <4>1. memo'[r].seen = memo[r].seen /\ t.pc = "decide"
        BY <1>0, <3>2 DEF Decide, Reads, Memos, At
      <4>2. \A q \in Request : ~InHold(q, w)
        <5>1. \A q \in Request \ {r} : task'[q] = task[q]
          BY OwnStep
        <5>2. ~InHold(r, w)
          BY <4>1 DEF InHold
        <5> QED
          BY <5>1, <5>2 DEF Moved, InHold
      <4> QED
        BY <2>2, <4>1, <4>2 DEF Moved
    <3> QED
      BY <2>1, <3>1, <3>2
  <2>5. Lost(r, w) \in Nat
    BY <1>0 DEF Lost
  <2> QED
    BY <1>3, <2>3, <2>4, <2>5
<1>9. CASE t.pc = "recheck"
  <2>1. Mint(r)
    BY <1>9 DEF Step, Write, CancelLooks, CancelSeesChildren, CancelWrites, ClaimRefused,
       ClaimRecorded, Close, Advance, Reevaluate, Look, Admit, Raise, AskSettle, Observe, Decide,
       Mint, AskApply, Resolve, Gather, Judge, Apply, Reconcile, Inventory, Replay, Asks, At
  <2>2. t.on = Head(t.todo) /\ Head(t.todo) = t.todo[1] /\ IsFree(t.on)
    BY <1>0, <1>2, <1>9, <2>1 DEF Steady, Mint
  <2>3. CASE t.on = w
    <3>1. ~SameObservation(r)
      BY <2>1, <2>3, MintClears
    <3>2. \A q \in Request : ~InHold(q, w)
      <4> SUFFICES ASSUME NEW q \in Request, InHold(q, w)
                   PROVE  FALSE
        OBVIOUS
      <4>1. Holds(q, w)
        BY GroundsFacts DEF InHold, Founded
      <4> QED
        BY <2>2, <2>3, <4>1, JournalGuardsAssumption DEF Holds, IsFree, Tree
    <3>3. Moved(r, w) /\ Lost(r, w) = lap
      BY <1>9, <2>3, <3>1, <3>2 DEF Moved, Lost, SameObservation, Own
    <3>4. ~(lap + 1 >= Attempts)
      <4>1. Cardinality(Others(r, w)) \in Nat
        BY OthersFewer
      <4>2. lap + 1 + Cardinality(Others(r, w)) <= Attempts - 1
        BY <3>3 DEF Owes
      <4> QED
        BY <1>0, <4>1, <4>2
    <3>5. Goto(r, "observe") /\ Reads(r, "lap", lap + 1)
      BY <2>1, <3>1, <3>4 DEF Mint, LosesLap
    <3>6. /\ task'[r].pc = "observe" /\ task'[r].on = t.on /\ task'[r].todo = t.todo
          /\ memo'[r].lap = lap + 1
      BY <1>0, <3>5, Goes DEF Reads, Memos
    <3>7. Listed(r, w)' /\ Lost(r, w)' = lap + 1 /\ ~Moved(r, w)'
      BY <1>1, <2>3, <3>6 DEF Listed, Lost, Moved
    <3> QED
      BY <1>0, <1>3, <3>3, <3>7
  <2>4. CASE t.on # w
    <3> DEFINE todo == Tail(t.todo)
    <3>1. todo \in Seq(Works) /\ i - 1 \in DOMAIN todo /\ todo[i - 1] = w
      <4>1. i # 1 /\ i \in 1..Len(t.todo)
        BY <1>0, <1>1, <2>2, <2>4
      <4>2. \A s \in Seq(Works) : \A k \in 1..Len(s) :
              k # 1 => Tail(s) \in Seq(Works) /\ k - 1 \in DOMAIN Tail(s) /\ Tail(s)[k - 1] = s[k]
        OBVIOUS
      <4> QED
        BY <1>0, <1>1, <4>1, <4>2
    <3>2. CASE Settle(r, todo) /\ Reads(r, "lap", 0)
      <4>1. memo'[r].lap = 0
        BY <1>0, <3>2 DEF Reads, Memos
      <4> HIDE DEF todo
      <4> QED
        BY <1>5, <3>1, <3>2, <4>1
    <3>3. CASE Goto(r, "observe")
      <4>1. task'[r].pc = "observe" /\ task'[r].on = t.on /\ task'[r].todo = t.todo
        BY <3>3, Goes
      <4>2. Listed(r, w)' /\ Lost(r, w)' = 0 /\ ~Moved(r, w)'
        BY <1>1, <2>4, <4>1 DEF Listed, Lost, Moved
      <4> QED
        BY <1>4, <4>2
    <3> QED
      BY <2>1, <3>2, <3>3 DEF Mint, LosesLap
  <2> QED
    BY <2>3, <2>4
<1> QED
  BY <1>0, <1>7, <1>8, <1>9 DEF Listed

LEMMA SteadyKeeps ==
  ASSUME Grounds, NEW r \in Request, Steady(r), Single(r), Step(r)
  PROVE  Steady(r)'
<1> DEFINE t == task[r]
<1>0. /\ task \in [Request -> Tasks] /\ t \in Tasks /\ t.on \in Works /\ t.todo \in Seq(Works)
      /\ memo \in [Request -> Memos] /\ memo[r] \in Memos /\ journal \in [Works -> Seq(Event)]
      /\ <<>> \in Seq(Works) /\ <<plan[r].work>> \in Seq(Works)
      /\ <<t.on>> \o t.todo \in Seq(Works)
      /\ t.todo # <<>> => Tail(t.todo) \in Seq(Works)
      /\ t.pc \in {"observe", "decide", "recheck"} => t.todo # <<>>
  BY GroundsFacts, TaskTyped DEF Grounds, Discipline, Shape, Records, Orderly
<1>1. ASSUME NEW todo \in Seq(Works), Settle(r, todo),
             task[r].pc \notin {"start", "children", "cancel"} \/ plan[r].op \notin Ends
      PROVE  Steady(r)'
  <2>1. CASE todo = <<>>
    BY <1>1, <2>1, Settles DEF Steady
  <2>2. CASE todo # <<>>
    BY <1>1, <2>2, Settles DEF Steady
  <2> QED
    BY <2>1, <2>2
<1>2. ASSUME task'[r].pc \in {"admit", "append", "again", "resolve", "gather", "apply", "reconcile",
                              "replay", "done"}
      PROVE  Steady(r)'
  BY <1>2 DEF Steady
<1>3. ASSUME task'[r].pc \in {"children", "cancel", "close", "advance", "reevaluate"}, memo' = memo,
             t.pc \in {"start", "children", "cancel", "close", "advance", "reevaluate"}
      PROVE  Steady(r)'
  BY <1>3 DEF Steady
<1>4. CASE Write(r) \/ ClaimRefused(r) \/ AskSettle(r) \/ Reconcile(r)
  BY <1>0, <1>1, <1>4 DEF Write, ClaimRefused, AskSettle, Reconcile, Finish, Asks, At, Ends
<1>5. CASE ClaimRecorded(r) \/ Close(r) \/ Advance(r) \/ Reevaluate(r)
  <2>1. memo' = memo /\ t.pc \in {"start", "close", "advance", "reevaluate"}
    BY <1>5 DEF ClaimRecorded, Close, Advance, Reevaluate, Asks, At
  <2>2. CASE t.pc # "start" /\ (Settle(r, t.todo) \/ Settle(r, <<t.on>> \o t.todo))
    BY <1>0, <1>1, <2>1, <2>2
  <2>3. CASE Goto(r, "advance")
    BY <1>3, <2>1, <2>3, Goes
  <2>4. CASE ClaimRecorded(r)
    <3>1. task'[r].pc \in {"close", "advance"}
      BY <1>0, <2>4 DEF ClaimRecorded, Tasks
    <3> QED
      BY <1>3, <2>1, <3>1
  <2>5. CASE task' = [task EXCEPT ![r].pc = "reevaluate", ![r].on = Parent[task[r].on]]
    <3>1. task'[r].pc = "reevaluate"
      BY <1>0, <2>5 DEF Tasks
    <3> QED
      BY <1>3, <2>1, <3>1
  <2>6. CASE task' = [task EXCEPT ![r].pc = "close", ![r].todo = <<task[r].on>> \o task[r].todo]
    <3>1. task'[r].pc = "close"
      BY <1>0, <2>6 DEF Tasks
    <3> QED
      BY <1>3, <2>1, <3>1
  <2> QED
    BY <1>5, <2>2, <2>3, <2>4, <2>5, <2>6 DEF Close, Advance, Reevaluate, At
<1>6. CASE Look(r) \/ Admit(r) \/ AskApply(r) \/ Judge(r) \/ Apply(r)
  <2>1. CASE \E pc \in {"admit", "append", "resolve", "apply", "reconcile"} : Goto(r, pc)
    BY <1>2, <2>1, Goes
  <2>2. CASE Finish(r)
    <3>1. task[r].pc \notin {"start", "children", "cancel"} \/ plan[r].op \notin Ends
      BY <1>6 DEF Look, Admit, AskApply, Judge, Apply, Asks, At, Ends
    <3> QED
      BY <1>0, <1>1, <2>2, <3>1 DEF Finish
  <2> QED
    BY <1>6, <2>1, <2>2 DEF Look, Admit, AskApply, Judge, Apply
<1>7. CASE Raise(r)
  <2>1. CASE Goto(r, "again")
    BY <1>2, <2>1, Goes
  <2> QED
    BY <1>0, <1>1, <1>7, <2>1 DEF Raise, LosesLap, At
<1>8. CASE Resolve(r) \/ Gather(r)
  <2>1. task'[r].pc = "gather"
    BY <1>0, <1>8 DEF Resolve, Gather, At, Tasks
  <2> QED
    BY <1>2, <2>1
<1>9. CASE Inventory(r) \/ Replay(r)
  <2>1. CASE Finish(r)
    <3>1. task[r].pc \notin {"start", "children", "cancel"} \/ plan[r].op \notin Ends
      BY <1>9 DEF Inventory, Replay, Asks, At, Ends
    <3> QED
      BY <1>0, <1>1, <2>1, <3>1 DEF Finish
  <2>2. CASE ~Finish(r)
    <3>1. task'[r].pc = "replay"
      BY <1>0, <1>9, <2>2 DEF Inventory, Replay, At, Tasks
    <3> QED
      BY <1>2, <3>1
  <2> QED
    BY <2>1, <2>2
<1>10. CASE Observe(r)
  <2>1. t.pc = "observe" /\ Goto(r, "decide")
    BY <1>10 DEF Observe, At
  <2>2. task'[r].pc = "decide" /\ task'[r].on = t.on /\ task'[r].todo = t.todo
    BY <2>1, Goes
  <2> QED
    BY <2>1, <2>2 DEF Steady
<1>11. CASE Decide(r)
  <2> DEFINE j == Prefix(Own(r), memo[r].seen)
  <2>1. /\ t.pc = "decide" /\ Goto(r, "recheck") /\ journal' = journal
        /\ memo'[r].seen = memo[r].seen
        /\ memo'[r].ready = {f \in Proposed(j) :
                          \/ ByClaim(j, f)
                          \/ \E c \in Children(task[r].on) :
                               j[f].child = c /\ ByChild(j, f, journal[c])}
    BY <1>0, <1>11 DEF Decide, At, Reads, Memos
  <2>2. task'[r].pc = "recheck" /\ task'[r].on = t.on /\ task'[r].todo = t.todo
    BY <2>1, Goes
  <2>3. Prefix(Own(r), memo[r].seen)' = j
    BY <2>1, <2>2 DEF Own
  <2>4. ReadyIn(j) \subseteq memo'[r].ready
    BY <2>1 DEF ReadyIn
  <2> HIDE DEF j
  <2> QED
    BY <2>1, <2>2, <2>3, <2>4 DEF Steady
<1>12. CASE Mint(r)
  <2>1. t.pc = "recheck"
    BY <1>12 DEF Mint, At
  <2>2. CASE Goto(r, "observe")
    <3>1. task'[r].pc = "observe" /\ task'[r].on = t.on /\ task'[r].todo = t.todo
      BY <2>2, Goes
    <3> QED
      BY <2>1, <3>1 DEF Steady
  <2> QED
    BY <1>0, <1>1, <1>12, <2>1, <2>2 DEF Mint, LosesLap
<1>13. CASE CancelLooks(r) \/ CancelSeesChildren(r) \/ CancelWrites(r)
  <2>1. memo' = memo /\ t.pc \in {"start", "children", "cancel"}
    BY <1>13 DEF CancelLooks, CancelSeesChildren, CancelWrites, At
  <2>2. task'[r].pc \in {"done", "children", "cancel", "reevaluate"}
    BY <1>13, SparedMoves, CancelMoves
  <2> QED
    BY <1>2, <1>3, <2>1, <2>2
<1> QED
  BY <1>4, <1>5, <1>6, <1>7, <1>8, <1>9, <1>10, <1>11, <1>12, <1>13 DEF Step

\* What is left to cancel is what there was, or less.
LEMMA SingleKeeps ==
  ASSUME Grounds, NEW r \in Request, Single(r), Step(r)
  PROVE  Single(r)'
<1> DEFINE t == task[r]
<1>0. /\ task \in [Request -> Tasks] /\ t \in Tasks /\ Condemned(r, t)
      /\ plan' = plan /\ plan[r].op # "cascade"
  BY GroundsFacts, OwnStep DEF Grounds, Discipline, Shape, Orderly, Single
\* No other request has anything to cancel, and none gets it.
<1>1. ASSUME task'[r].doomed = t.doomed,
             t.pc \notin {"start", "children", "cancel"} \/ plan[r].op \notin Ends
      PROVE  Single(r)'
  BY <1>0, <1>1 DEF Single, Condemned
<1>2. ASSUME NEW todo, Settle(r, todo)
      PROVE  task'[r].doomed = t.doomed
  <2>1. task'[r] = SettleNext(t, todo)
    BY <1>0, <1>2 DEF Settle
  <2> QED
    BY <1>0, <2>1 DEF SettleNext, Tasks
<1>3. ASSUME NEW pc, Goto(r, pc)
      PROVE  task'[r].doomed = t.doomed
  BY <1>3, Goes
<1>4. CASE Write(r) \/ ClaimRefused(r) \/ AskSettle(r)
  BY <1>1, <1>2, <1>4 DEF Write, ClaimRefused, AskSettle, Finish, Asks, Ends
<1>5. CASE ClaimRecorded(r)
  <2>1. task'[r].doomed = t.doomed
    BY <1>0, <1>5 DEF ClaimRecorded, Tasks
  <2> QED
    BY <1>1, <1>5, <2>1 DEF ClaimRecorded, Asks, Ends
<1>6. CASE Close(r) \/ Observe(r) \/ Decide(r) \/ Admit(r) \/ Judge(r) \/ Apply(r) \/ Reconcile(r)
  BY <1>1, <1>2, <1>3, <1>6 DEF Close, Observe, Decide, Admit, Judge, Apply, Reconcile, Finish, At
<1>7. CASE Advance(r) \/ Reevaluate(r)
  <2>1. task'[r].doomed = t.doomed
    <3>1. CASE \E todo : Settle(r, todo)
      BY <1>2, <3>1
    <3>2. CASE task' = [task EXCEPT ![r].pc = "reevaluate", ![r].on = Parent[task[r].on]]
      BY <1>0, <3>2 DEF Tasks
    <3>3. CASE task' = [task EXCEPT ![r].pc = "close", ![r].todo = <<task[r].on>> \o task[r].todo]
      BY <1>0, <3>3 DEF Tasks
    <3> QED
      BY <1>7, <3>1, <3>2, <3>3 DEF Advance, Reevaluate
  <2> QED
    BY <1>1, <1>7, <2>1 DEF Advance, Reevaluate, At
<1>8. CASE Look(r) \/ AskApply(r)
  BY <1>1, <1>2, <1>3, <1>8 DEF Look, AskApply, Finish, Asks, At, Ends
<1>9. CASE Raise(r) \/ Mint(r)
  BY <1>1, <1>2, <1>3, <1>9 DEF Raise, Mint, LosesLap, At
<1>10. CASE Resolve(r) \/ Gather(r)
  <2>1. task'[r].doomed = t.doomed
    BY <1>0, <1>10 DEF Resolve, Gather, Tasks
  <2> QED
    BY <1>1, <1>10, <2>1 DEF Resolve, Gather, At
<1>11. CASE Inventory(r) \/ Replay(r)
  <2>1. task'[r].doomed = t.doomed
    <3>1. CASE Finish(r)
      BY <1>2, <3>1 DEF Finish
    <3>2. CASE ~Finish(r)
      BY <1>0, <1>11, <3>2 DEF Inventory, Replay, Tasks
    <3> QED
      BY <3>1, <3>2
  <2> QED
    BY <1>1, <1>11, <2>1 DEF Inventory, Replay, Asks, At, Ends
<1>12. CASE CancelLooks(r) \/ CancelSeesChildren(r) \/ CancelWrites(r)
  <2>1. t.doomed # <<>> /\ Tail(t.doomed) = <<>> /\ plan[r].op = "cancel"
    BY <1>0, <1>12 DEF CancelLooks, CancelSeesChildren, CancelWrites, At, Condemned, Single, Ends
  <2>2. CASE Spared(r) \/ CancelWrites(r)
    <3>1. task'[r].doomed = <<>>
      BY <1>12, <2>1, <2>2, SparedMoves, CancelMoves
    <3> QED
      BY <1>0, <3>1 DEF Single
  <2>3. CASE CancelLooks(r) /\ ~Spared(r)
    <3>1. task'[r].doomed = t.doomed /\ task'[r].pc = "children"
      BY <2>3, CancelMoves
    <3> QED
      BY <1>0, <2>1, <3>1 DEF Single
  <2>4. CASE CancelSeesChildren(r) /\ ~Spared(r)
    <3>1. OpenChildren(t.on) = {}
      BY <2>1, <2>4 DEF CancelSeesChildren
    <3>2. PICK first \in Orders({}) : task'[r].doomed = first \o t.doomed
      BY <2>4, <3>1, CancelMoves
    <3>3. first = <<>>
      BY <3>2, FS_EmptySet DEF Orders
    <3>4. task'[r].doomed = t.doomed /\ task'[r].pc = "cancel"
      <4>1. t.doomed \in Seq(Works)
        BY <1>0 DEF Tasks
      <4> QED
        BY <2>4, <3>2, <3>3, <4>1, CancelMoves, ConcatEmptySeq
    <3> QED
      BY <1>0, <2>1, <3>4 DEF Single
  <2> QED
    BY <1>12, <2>2, <2>3, <2>4
<1> QED
  BY <1>4, <1>5, <1>6, <1>7, <1>8, <1>9, <1>10, <1>11, <1>12 DEF Step

LEMMA SteadyFrame ==
  ASSUME Grounds, NEW r \in Request, Step(r), NEW q \in Request \ {r}, Steady(q)
  PROVE  Steady(q)'
<1>1. task'[q] = task[q] /\ memo'[q] = memo[q] /\ task[q].on \in Works /\ memo[q].seen \in Nat
  BY OwnStep, GroundsFacts
<1>2. task[q].pc = "recheck" => Prefix(Own(q), memo[q].seen)' = Prefix(Own(q), memo[q].seen)
  <2> SUFFICES ASSUME task[q].pc = "recheck"
               PROVE  Prefix(Own(q), memo[q].seen)' = Prefix(Own(q), memo[q].seen)
    OBVIOUS
  <2>1. memo[q].seen <= Len(Own(q)) /\ Own(q) \in Seq(Event)
    BY GroundsFacts DEF Founded
  <2>2. Own(q)' = journal'[task[q].on] /\ Grown(Own(q), journal'[task[q].on])
    BY <1>1, JournalsGrow DEF Own
  <2>3. memo[q].seen \in 0..Len(Own(q))
    BY <1>1, <2>1
  <2>4. Prefix(journal'[task[q].on], memo[q].seen) = Prefix(Own(q), memo[q].seen)
    BY <2>2, <2>3, StillObserved
  <2> QED
    BY <1>1, <2>2, <2>4
<1> QED
  BY <1>1, <1>2 DEF Steady

LEMMA OwedKeeps ==
  ASSUME Reckoning, NEW r \in Request, Step(r), NEW w \in Works,
         IsFiniteSet(Request), Cardinality(Request) <= Attempts
  PROVE  Owed(w)'
<1>0. /\ Grounds /\ Numbered(journal[w]) /\ Owed(w) /\ Steady(r) /\ Single(r) /\ plan' = plan
      /\ \A q \in Request \ {r} : task'[q] = task[q]
      /\ plan[r].work \in Works
  BY OwnStep, GroundsFacts DEF Reckoning
<1> SUFFICES ASSUME ReadyIn(journal'[w]) # {}, Wanted(w)
             PROVE  (\E q \in Request : Due(q, w)') \/ (\E q \in Request : Owes(q, w)')
  BY <1>0 DEF Owed, Wanted
<1>1. CASE Due(r, w) \/ (Raise(r) /\ SameObservation(r) /\ plan[r].work = w)
  <2>1. plan[r].work = w
    BY <1>1 DEF Due
  <2> QED
    BY <1>0, <1>1, <2>1, StartsToOwe
<1>2. CASE ~Due(r, w) /\ ~(Raise(r) /\ SameObservation(r) /\ plan[r].work = w)
  <2>1. ~(ClaimRecorded(r) /\ plan[r].work = w)
    BY <1>2 DEF ClaimRecorded, Asks, Due
  <2>2. ReadyIn(journal[w]) # {}
    BY <1>0, <1>2, <2>1, ReadyGrows
  <2>3. CASE \E q \in Request : Due(q, w)
    <3>1. PICK q \in Request : Due(q, w)
      BY <2>3
    <3>2. q # r
      BY <1>2, <3>1
    <3> QED
      BY <1>0, <3>1, <3>2 DEF Due, At
  <2>4. CASE \E q \in Request : Owes(q, w)
    <3>1. PICK q \in Request : Owes(q, w)
      BY <2>4
    <3>2. CASE q = r
      BY <1>0, <3>1, <3>2, OwnerOwes
    <3>3. CASE q # r
      <4>1. ~(Mint(r) /\ task[r].on = w /\ journal'[w] # journal[w])
        <5> SUFFICES ASSUME Mint(r), task[r].on = w, journal'[w] # journal[w]
                     PROVE  FALSE
          OBVIOUS
        <5>1. SameObservation(r)
          BY DEF Mint
        <5> QED
          BY <1>0, <5>1, MintClears
      <4> QED
        BY <1>0, <3>1, <3>3, <4>1, OtherOwes
    <3> QED
      BY <3>2, <3>3
  <2> QED
    BY <1>0, <2>2, <2>3, <2>4 DEF Owed
<1> QED
  BY <1>1, <1>2

LEMMA ReckoningInit ==
  ASSUME \A mix \in Mixes : \A r \in Request : mix[r].op # "cascade"
  PROVE  Init /\ (\A w \in Works : Numbered(journal[w])) => Reckoning
<1> SUFFICES ASSUME Init, \A w \in Works : Numbered(journal[w])
             PROVE  Reckoning
  OBVIOUS
<1>1. \A r \in Request : task[r].pc = "start" /\ memo[r].lap = 0
  BY DEF Init, Blank
<1>2. \A w \in Works : Owed(w)
  BY <1>1 DEF Owed, Wanted, Due, At
<1>3. ASSUME NEW r \in Request
      PROVE  Single(r)
  <2>1. plan[r].op # "cascade" /\ task[r].pc = "start"
    BY <1>1 DEF Init
  <2>2. task[r].doomed \in {<<>>, <<plan[r].work>>}
    BY DEF Init
  <2>3. Tail(<<plan[r].work>>) = <<>>
    OBVIOUS
  <2> QED
    BY <2>1, <2>2, <2>3 DEF Single
<1> QED
  BY <1>1, <1>2, <1>3, GroundsInit DEF Reckoning, Steady

LEMMA ReckoningNext ==
  ASSUME IsFiniteSet(Request), Cardinality(Request) <= Attempts
  PROVE  Reckoning /\ [Next]_vars => Reckoning'
<1> SUFFICES ASSUME Reckoning, [Next]_vars
             PROVE  Reckoning'
  OBVIOUS
<1>0. Grounds /\ Grounds'
  BY GroundsNext DEF Reckoning
<1>1. ASSUME NEW r \in Request, Step(r)
      PROVE  Reckoning'
  <2>1. \A w \in Works : Numbered(journal'[w])
    BY <1>0, <1>1, ReadyGrows DEF Reckoning
  <2>2. \A w \in Works : Owed(w)'
    BY <1>1, OwedKeeps
  <2>3. \A q \in Request : Steady(q)' /\ Single(q)'
    <3>1. Steady(r)' /\ Single(r)'
      BY <1>0, <1>1, SteadyKeeps, SingleKeeps DEF Reckoning
    <3>2. ASSUME NEW q \in Request \ {r}
          PROVE  Steady(q)' /\ Single(q)'
      <4>1. plan' = plan /\ task'[q] = task[q]
        BY <1>0, <1>1, OwnStep
      <4> QED
        BY <1>0, <1>1, <4>1, SteadyFrame DEF Reckoning, Single
    <3> QED
      BY <3>1, <3>2
  <2> QED
    BY <1>0, <2>1, <2>2, <2>3 DEF Reckoning
<1>2. CASE UNCHANGED vars
  <2>1. plan' = plan /\ guard' = guard /\ task' = task /\ journal' = journal /\ memo' = memo
    BY <1>2 DEF vars
  <2>2. \A r \in Request : Steady(r)' /\ Single(r)'
    BY <2>1 DEF Reckoning, Steady, Single, Own
  <2>3. \A r \in Request, w \in Works : (Due(r, w)' <=> Due(r, w)) /\ (Owes(r, w)' <=> Owes(r, w))
    <3> SUFFICES ASSUME NEW r \in Request, NEW w \in Works
                 PROVE  (Due(r, w)' <=> Due(r, w)) /\ (Owes(r, w)' <=> Owes(r, w))
      OBVIOUS
    <3>1. /\ Others(r, w)' = Others(r, w) /\ Lost(r, w)' = Lost(r, w)
          /\ Listed(r, w)' <=> Listed(r, w)
          /\ Moved(r, w)' <=> Moved(r, w)
      BY <2>1 DEF Others, Unspent, Lost, Moved, InHold, Listed
    <3> QED
      BY <2>1, <3>1 DEF Due, At, Owes
  <2>4. \A w \in Works : Owed(w)'
    BY <2>1, <2>3 DEF Reckoning, Owed, Wanted
  <2> QED
    BY <1>0, <2>1, <2>2, <2>4 DEF Reckoning
<1> QED
  BY <1>1, <1>2 DEF Next, Answered

\* When everyone is answered nobody owes anything.
LEMMA AllSettledInTheEnd == Reckoning => NothingLeftReady
<1> SUFFICES ASSUME Reckoning, \A r \in Request : At(r, "done"), NEW w \in Works,
                    NEW f \in Proposed(journal[w]), Wanted(w), ByClaim(journal[w], f)
             PROVE  FALSE
  BY DEF NothingLeftReady, Wanted
<1>1. ReadyIn(journal[w]) # {}
  BY DEF ReadyIn
<1>2. \A r \in Request : ~Due(r, w) /\ ~Owes(r, w)
  BY DEF Due, At, Owes, Listed
<1> QED
  BY <1>1, <1>2 DEF Reckoning, Owed

-----------------------------------------------------------------------------
(* The theorems. *)

\* Every request holds, in each phase, what the lock discipline allows it there:
\* a guard is dropped before an ancestor's or an earlier one is taken.
THEOREM DisciplineHolds == Spec => []Discipline
<1>1. Init => Discipline
  BY DisciplineInit
<1>2. Discipline /\ [Next]_vars => Discipline'
  BY DisciplineNext
<1> QED
  BY <1>1, <1>2, PTL DEF Spec

\* No connections wait for each other in a circle, where no inventory of the
\* estate runs beside a Claim or a cancel and depths and ids of Works are bounded.
THEOREM NobodyWaitsInACircle ==
  ASSUME \A mix \in Mixes : ~Inverted(mix),
         NEW b \in Nat, \A w \in Works : Depth[w] <= b /\ Id[w] <= b
  PROVE  Spec => []NoCircularWait
<1> DEFINE Uninverted == ~Inverted(plan)
<1>1. Init => Uninverted
  BY DEF Init
<1>2. Uninverted /\ [Next]_vars => Uninverted'
  BY PlanStays DEF Inverted
<1>3. Discipline /\ Uninverted => NoCircularWait
  BY NobodyCircles
<1> HIDE DEF Uninverted
<1> QED
  BY <1>1, <1>2, <1>3, DisciplineHolds, PTL DEF Spec

\* An application is journaled only on facts that are so at that moment, for
\* every tree of Works and any requests: who judged it holds every journal the
\* facts are in.
THEOREM ApplicationsStand == Spec => ApplicationStands
<1>1. Grounds /\ [Next]_vars => [\A w \in Works : \A i \in Len(journal[w]) + 1 .. Len(journal'[w]) :
       LET e == journal'[w][i] IN
       e.k = "apply" =>
         /\ Producing(journal[e.by]) = e.run
         /\ e.cite # 0 => DoneClaim(journal[e.from], e.cite) /\ Latest(journal[e.from], e.cite)]_vars
  BY AppliesOnFacts DEF Next, Answered
<1> QED
  BY <1>1, GroundsHold, PTL DEF Spec, ApplicationStands

\* Every Finding was raised by the Run that was current, and every settlement
\* rests on facts that held when it was journaled, if that was so of the
\* journals the requests found: what is decided with no guard held is appended
\* only to the journal it was decided on.
THEOREM FindingsWereFounded ==
  Spec /\ RaisedByCurrentRun /\ SettlementStands
    => [](TypeOK /\ RaisedByCurrentRun /\ SettlementStands)
<1>1. Founding => TypeOK /\ RaisedByCurrentRun /\ SettlementStands
  BY GroundsTyped DEF Founding
<1> QED
  BY <1>1, FoundingInit, FoundingNext, PTL DEF Spec

\* What a Finding's journal says of it was decided on facts that held, and no
\* Finding that is ready is left for want of anyone to settle it: for every tree
\* of Works and any requests that are no more at once than settle_ready has
\* attempts, if the journals they found were in order and no cancel cascades: a
\* cascade may move the journal of its Work once for every child.
THEOREM FindingsAlwaysStand ==
  ASSUME IsFiniteSet(Request), Cardinality(Request) <= Attempts,
         \A mix \in Mixes : \A r \in Request : mix[r].op # "cascade"
  PROVE  Spec /\ (\A w \in Works : Numbered(journal[w])) /\ RaisedByCurrentRun /\ SettlementStands
           => []FindingsStand
<1> DEFINE Found == (\A w \in Works : Numbered(journal[w])) /\ RaisedByCurrentRun /\ SettlementStands
           Inv == Founding /\ Reckoning
<1>1. Init /\ Found => Inv
  BY FoundingInit, ReckoningInit
<1>2. Inv /\ [Next]_vars => Inv'
  BY FoundingNext, ReckoningNext
<1>3. Inv => FindingsStand
  BY GroundsTyped, AllSettledInTheEnd DEF Founding, FindingsStand
<1> HIDE DEF Found, Inv
<1>4. Spec /\ Found => []FindingsStand
  BY <1>1, <1>2, <1>3, PTL DEF Spec
<1> QED
  BY <1>4 DEF Found

=============================================================================
