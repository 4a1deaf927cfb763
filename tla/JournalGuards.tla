--------------------------- MODULE JournalGuards ----------------------------
(***************************************************************************)
(* The journal lock discipline of wirkd (ruling 0119): connections that    *)
(* read and write several Works' journals, one mutex per journal and one   *)
(* for the Atlas.                                                          *)
(*                                                                         *)
(* A raise and a settlement observe their own journal, decide with no guard*)
(* held, take the guard again and append only if the journal has not moved.*)
(* An application takes every guard it needs in one order.  A closure      *)
(* takes a declared child's guard under its parent's, and an advance takes *)
(* the Atlas under its Work's: after a Claim, and after the last Claim or  *)
(* the cancel of a child.  An inventory takes journals under the Atlas.    *)
(***************************************************************************)
EXTENDS Naturals, Sequences, FiniteSets

CONSTANTS
  Works, NoWork, Atlas,
  Parent,      \* ParentBinding of each Work, or NoWork
  Depth, Id,   \* journal_lock_order: distance from the root, then the WorkId
  Review,      \* Works whose second leaf freezes review targets
  Required,    \* children whose role their parent's container requires
  Request,     \* connections, one request each
  Free,        \* no holder
  Mixes,       \* the requests that may run together
  Starts,      \* the journals they may find
  Attempts     \* JOURNAL_OBSERVATION_ATTEMPTS

Leaves == 1..2   \* a route: leaf 1, in the container if there is one, and leaf 2

\* "cascade" is `work cancel --cascade'
Operations == {"claim", "fail", "retry", "cancel", "cascade", "raise", "assert",
               "settle", "apply", "inventory"}

\* `other' is the Work a raise reads, or the owner of an applied Finding; the
\* Claim a raise cites, or an application credits, is of Run `cite' of `from'.
Plan == [op : Operations, work : Works, run : Nat, other : Works, from : Works,
         cite : Nat]

Tree ==
  /\ Parent \in [Works -> Works \cup {NoWork}]
  /\ Depth \in [Works -> Nat] /\ Id \in [Works -> Nat]
  /\ \A w \in Works : Parent[w] # NoWork => Depth[w] = Depth[Parent[w]] + 1
  /\ \A v, w \in Works : Id[v] = Id[w] => v = w
  /\ \A w \in Works : IsFiniteSet({c \in Works : Parent[c] = w})
  /\ NoWork \notin Works /\ Atlas \notin Works /\ Free \notin Request

\* What a journal holds, as far as these requests write and read it.  A raise
\* names a Finding (`of') of a child by its place in the child's journal.  A Run
\* that is superseded is "retried"; a Claim that is turned down is journaled too.
\* A hold names what is missing: children, or the Work itself for its own leaf.
Event ==
  [k : {"open"}, run : Nat, leaf : Leaves]
  \cup [k : {"claim", "fail", "retried"}, run : Nat]
  \cup [k : {"refused", "cancel", "assert"}]
  \cup [k : {"held"}, missing : SUBSET Works]
  \cup [k : {"closed"}, receipts : SUBSET Works]
  \cup [k : {"raise"}, run : Nat, claim : Nat, child : Works, of : Nat]
  \cup [k : {"settle"}, f : Nat]
  \cup [k : {"apply"}, f : Nat, by : Works, run : Nat, from : Works, cite : Nat]

ASSUME JournalGuardsAssumption ==
  /\ Tree
  /\ Mixes \subseteq [Request -> Plan]
  /\ Starts \subseteq [Works -> Seq(Event)]
  /\ Attempts \in Nat \ {0}
  /\ Review \subseteq Works /\ Required \subseteq Works

VARIABLES
  plan,     \* what each request asks; never changes
  journal,  \* the events of each Work
  guard,    \* who holds each mutex
  task,     \* how far each request is, and the Works it still has to do: to
            \* settle (`todo'), to lock (`need'), to cancel (`doomed')
  memo      \* what it has read

vars == <<plan, journal, guard, task, memo>>

Locks == Works \cup {Atlas}

-----------------------------------------------------------------------------
(* What a journal says. *)

Open(n, leaf) == [k |-> "open", run |-> n, leaf |-> leaf]
Claimed(n) == [k |-> "claim", run |-> n]
Failed(n) == [k |-> "fail", run |-> n]
Retried(n) == [k |-> "retried", run |-> n]
Held(missing) == [k |-> "held", missing |-> missing]
Closed(receipts) == [k |-> "closed", receipts |-> receipts]
Mark(k) == [k |-> k]
Raised(n, claim, child, of) ==
  [k |-> "raise", run |-> n, claim |-> claim, child |-> child, of |-> of]
Settled(f) == [k |-> "settle", f |-> f]
Applied(f, by, run, from, cite) ==
  [k |-> "apply", f |-> f, by |-> by, run |-> run, from |-> from, cite |-> cite]

Has(j, k) == \E i \in DOMAIN j : j[i].k = k
LastOf(j, kinds, i) == \A h \in DOMAIN j : h > i => j[h].k \notin kinds
Says(j, e) == \E i \in DOMAIN j : j[i] = e
RunsOf(j) == {j[i].run : i \in {h \in DOMAIN j : j[h].k = "open"}}
LeafOf(j, n) == CHOOSE leaf \in Leaves : Says(j, Open(n, leaf))

\* latest_run_for_waypoint
Latest(j, n) == n \in RunsOf(j)
                /\ \A m \in RunsOf(j) : LeafOf(j, m) = LeafOf(j, n) => m <= n

DoneClaim(j, n) == Says(j, Claimed(n))
Running(j) == {n \in RunsOf(j) : ~\E e \in {Claimed(n), Failed(n), Retried(n)} : Says(j, e)}
Completed(j) == \E n \in RunsOf(j) : LeafOf(j, n) = 2 /\ DoneClaim(j, n)
Terminal(j) == Completed(j) \/ Has(j, "cancel")

\* The container's last outcome is a hold: nothing here reopens it.
HeldNow(j) == \E i \in DOMAIN j : j[i].k = "held" /\ LastOf(j, {"held", "closed"}, i)

\* What moves the state of the Work.
Words == {"open", "claim", "fail", "retried", "held", "closed", "cancel"}
\* WorkState::Waiting, on that hold
Waiting(j, missing) == \E i \in DOMAIN j : j[i] = Held(missing) /\ LastOf(j, Words, i)
\* WorkState::NeedsInput, and the Work still at that Run's leaf
NeedsInput(j, n) ==
  /\ \E i \in DOMAIN j : j[i] = Failed(n) /\ LastOf(j, Words, i)
  /\ \E i \in DOMAIN j : j[i] = Open(n, LeafOf(j, n)) /\ LastOf(j, {"open", "held"}, i)

\* current_producing_action: the open Run of a Work that is not terminal, or 0.
Producing(j) == IF Terminal(j) \/ Running(j) = {} THEN 0
                ELSE CHOOSE n \in Running(j) : \A m \in Running(j) : m <= n

Findings(j) == {i \in DOMAIN j : j[i].k = "raise"}
Proposed(j) == {f \in Findings(j) : ~Says(j, Settled(f))}

\* deterministic_verified_readiness: the Claim it cites is of the current Run.
ByClaim(j, f) == j[f].claim # 0 /\ DoneClaim(j, j[f].claim) /\ Latest(j, j[f].claim)

Receipted(j, c) == \E i \in DOMAIN j : j[i].k = "closed" /\ c \in j[i].receipts

\* child_investigation_ready, `told' being the child's journal.
ByChild(j, f, told) ==
  j[f].of # 0 /\ Receipted(j, j[f].child) /\ Says(told, Settled(j[f].of))

Children(w) == {c \in Works : Parent[c] = w}

Prefix(j, n) == SubSeq(j, 1, n)

-----------------------------------------------------------------------------
(* Guards. *)

\* ancestor first, ties broken by the WorkId
Lower(v, w) == Depth[v] < Depth[w] \/ (Depth[v] = Depth[w] /\ Id[v] < Id[w])
Least(S) == CHOOSE w \in S : \A v \in S \ {w} : Lower(w, v)

Blank == [seen |-> 0, lap |-> 0, found |-> 0, ready |-> {}]

Ends == {"cancel", "cascade"}

Init ==
  /\ plan \in Mixes
  /\ journal \in Starts
  /\ guard = [l \in Locks |-> Free]
  /\ task = [r \in Request |->
       [pc |-> "start", on |-> plan[r].work, todo |-> <<>>, need |-> {}, looked |-> {},
        doomed |-> IF plan[r].op \in Ends THEN <<plan[r].work>> ELSE <<>>]]
  /\ memo = [r \in Request |-> Blank]

At(r, pc) == task[r].pc = pc
Asks(r, op) == At(r, "start") /\ plan[r].op = op
Own(r) == journal[task[r].on]
IsFree(l) == guard[l] = Free
Holds(r, l) == guard[l] = r

Take(r, l) == guard' = [guard EXCEPT ![l] = r]
Drop(r) == guard' = [l \in Locks |-> IF Holds(r, l) THEN Free ELSE guard[l]]
Append1(w, events) == journal' = [journal EXCEPT ![w] = @ \o events]
Goto(r, pc) == task' = [task EXCEPT ![r].pc = pc]

\* A request that goes on to evaluate settlements, or to cancel, or is over.
SettleNext(t, todo) ==
  IF todo # <<>> THEN [t EXCEPT !.pc = "observe", !.on = Head(todo), !.todo = todo]
  ELSE IF t.doomed # <<>> THEN [t EXCEPT !.pc = "cancel", !.on = Head(t.doomed), !.todo = <<>>]
  ELSE [t EXCEPT !.pc = "done", !.todo = <<>>]
Settle(r, todo) == task' = [task EXCEPT ![r] = SettleNext(@, todo)]
Reads(r, field, value) == memo' = [memo EXCEPT ![r][field] = value]
Finish(r) == Settle(r, <<>>)

-----------------------------------------------------------------------------
(* One guard, one append: fail, retry, and an asserted judgement. *)

\* handle_retry: the current Run of the leaf that waits for an answer, or of one
\* inside the container the Work waits for, replaced by a Run of the same leaf.
MayRetry(j, n) ==
  /\ Latest(j, n)
  /\ ~Terminal(j)
  /\ \/ NeedsInput(j, n)
     \/ LeafOf(j, n) = 1 /\ \E missing \in SUBSET Works : Waiting(j, missing)

Next1(j) == Cardinality(RunsOf(j)) + 1

Write(r) ==
  LET w == plan[r].work
      j == journal[w]
      n == plan[r].run
  IN /\ IsFree(w)
     /\ \/ Asks(r, "fail") /\ Append1(w, IF n \in Running(j) /\ ~Terminal(j)
                                          THEN <<Failed(n)>> ELSE <<>>)
        \/ Asks(r, "retry") /\ Append1(w, IF MayRetry(j, n)
                                           THEN <<Retried(n), Open(Next1(j), LeafOf(j, n))>>
                                           ELSE <<>>)
        \/ Asks(r, "assert") /\ Append1(w, IF Findings(j) = {} THEN <<>> ELSE <<Mark("assert")>>)
     /\ Finish(r)
     /\ UNCHANGED <<plan, memo, guard>>

-----------------------------------------------------------------------------
(* handle_claim: the Claim, the closure under its guard, the advance. *)

\* validate_claim: a Run that failed may still be claimed, late; one that is
\* claimed or superseded may not.
MayClaim(j, n) == n \in RunsOf(j) /\ ~DoneClaim(j, n) /\ ~Says(j, Retried(n))

\* A Claim on a Work that is over leaves no trace, any other is journaled.
ClaimRefused(r) ==
  LET j == Own(r)
      n == plan[r].run
      over == n \in RunsOf(j) /\ Terminal(j)
  IN /\ Asks(r, "claim")
     /\ IsFree(task[r].on)
     /\ over \/ ~MayClaim(j, n)
     /\ Append1(task[r].on, IF over THEN <<>> ELSE <<Mark("refused")>>)
     /\ Settle(r, <<plan[r].work>>)
     /\ UNCHANGED <<plan, memo, guard>>

ClaimRecorded(r) ==
  /\ Asks(r, "claim")
  /\ IsFree(task[r].on)
  /\ MayClaim(Own(r), plan[r].run) /\ ~Terminal(Own(r))
  /\ Append1(task[r].on, <<Claimed(plan[r].run)>>)
  /\ Take(r, task[r].on)
  /\ task' = [task EXCEPT ![r].pc = IF LeafOf(Own(r), plan[r].run) = 1 THEN "close"
                                    ELSE "advance",
                          ![r].todo = <<plan[r].work>>]
  /\ UNCHANGED <<plan, memo>>

\* evaluate_closure and close_cascade, the parent's guard held: it reads the
\* declared children's journals under their guards.  A child that Run 1 spawned
\* counts no more when that Run is superseded.
Receipts(j, w) == {c \in Children(w) : Completed(journal[c]) /\ Latest(j, 1)}
LeafDone(j) == \E n \in RunsOf(j) : Latest(j, n) /\ LeafOf(j, n) = 1 /\ DoneClaim(j, n)
Missing(j, w) == ((Children(w) \cap Required) \ Receipts(j, w))
                 \cup (IF LeafDone(j) THEN {} ELSE {w})

\* The same hold again is no news while the Work waits on it.
Close(r) ==
  /\ At(r, "close")
  /\ \A c \in Children(task[r].on) : IsFree(c)
  /\ LET w == task[r].on
         missing == Missing(Own(r), w)
     IN IF missing = {}
        THEN /\ Append1(w, IF Children(w) = {} THEN <<>> ELSE <<Closed(Receipts(Own(r), w))>>)
             /\ Goto(r, "advance")
             /\ UNCHANGED guard
        ELSE /\ Append1(w, IF Waiting(Own(r), missing) THEN <<>> ELSE <<Held(missing)>>)
             /\ Settle(r, task[r].todo)
             /\ Drop(r)
  /\ UNCHANGED <<plan, memo>>

\* reserve_next_leaf, the Work's guard held, or the end of the Work: then its
\* parent is evaluated, this guard dropped first.
Advance(r) ==
  /\ At(r, "advance")
  /\ LET w == task[r].on IN
     IF Completed(Own(r))
     THEN /\ IF Parent[w] = NoWork THEN Settle(r, task[r].todo)
             ELSE task' = [task EXCEPT ![r].pc = "reevaluate", ![r].on = Parent[w]]
          /\ UNCHANGED journal
     ELSE /\ w \in Review => IsFree(Atlas)   \* freeze_review_targets
          /\ Append1(w, <<Open(Next1(Own(r)), 2)>>)
          /\ Settle(r, task[r].todo)
  /\ Drop(r)
  /\ UNCHANGED <<plan, memo>>

\* reevaluate_parent: only a held container is looked at; settle_ready of the
\* parent follows, before that of a child that was claimed.
Reevaluate(r) ==
  /\ At(r, "reevaluate")
  /\ IsFree(task[r].on)
  /\ LET todo == <<task[r].on>> \o task[r].todo IN
     IF HeldNow(Own(r)) /\ ~Terminal(Own(r))
     THEN /\ task' = [task EXCEPT ![r].pc = "close", ![r].todo = todo]
          /\ Take(r, task[r].on)
     ELSE Settle(r, todo) /\ UNCHANGED guard
  /\ UNCHANGED <<plan, memo, journal>>

-----------------------------------------------------------------------------
(* cancel_work: the Work's journal and its children's are read, each under its  *)
(* own guard and none held, the open children cancelled first (or the cancel    *)
(* refused), the Work then, and its parent looked at.                           *)

\* On to what is left to cancel, the head of `doomed' done with.
Spared(r) ==
  LET rest == [task[r] EXCEPT !.doomed = Tail(@)]
  IN task' = [task EXCEPT ![r] = SettleNext(rest, <<>>)]

CancelLooks(r) ==
  /\ \/ At(r, "start") /\ plan[r].op \in Ends
     \/ At(r, "cancel") /\ task[r].on \notin task[r].looked
  /\ IsFree(task[r].on)
  /\ IF Terminal(Own(r)) THEN Spared(r) ELSE Goto(r, "children")
  /\ UNCHANGED <<plan, memo, journal, guard>>

OpenChildren(w) == {c \in Children(w) : ~Terminal(journal[c])}
Orders(S) == {s \in [1..Cardinality(S) -> S] : \A x \in S : \E i \in DOMAIN s : s[i] = x}

CancelSeesChildren(r) ==
  /\ At(r, "children")
  /\ \A c \in Children(task[r].on) : IsFree(c)
  /\ LET open == OpenChildren(task[r].on) IN
     IF open # {} /\ plan[r].op = "cancel"
     THEN Spared(r)   \* OpenChild
     ELSE \E first \in Orders(open) :
            task' = [task EXCEPT ![r].pc = "cancel",
                                 ![r].on = Head(first \o task[r].doomed),
                                 ![r].looked = @ \cup {task[r].on},
                                 ![r].doomed = first \o @]
  /\ UNCHANGED <<plan, memo, journal, guard>>

CancelWrites(r) ==
  /\ At(r, "cancel") /\ task[r].on \in task[r].looked
  /\ IsFree(task[r].on)
  /\ LET w == task[r].on IN
     IF Terminal(Own(r))
     THEN Spared(r) /\ UNCHANGED journal
     ELSE /\ Append1(w, <<Mark("cancel")>>)
          /\ IF Parent[w] = NoWork THEN Spared(r)
             ELSE task' = [task EXCEPT ![r].pc = "reevaluate", ![r].on = Parent[w],
                                       ![r].doomed = Tail(@)]
  /\ UNCHANGED <<plan, memo, guard>>

-----------------------------------------------------------------------------
(* handle_finding_raise. *)

MayRaise(j, n) == n \in RunsOf(j) /\ Latest(j, n) /\ ~Terminal(j)

Look(r) ==
  /\ Asks(r, "raise") \/ At(r, "again")
  /\ IsFree(plan[r].work)
  /\ IF MayRaise(Own(r), plan[r].run)
     THEN Goto(r, "admit") /\ Reads(r, "seen", Len(Own(r)))
     ELSE Finish(r) /\ UNCHANGED memo
  /\ UNCHANGED <<plan, journal, guard>>

\* admit_evidence reads the journal it cites with no guard held.
Admit(r) ==
  /\ At(r, "admit")
  /\ IsFree(plan[r].other)
  /\ LET cited == Findings(journal[plan[r].other]) IN
     Reads(r, "found", IF plan[r].other \in Children(plan[r].work) /\ cited # {}
                       THEN CHOOSE f \in cited : \A g \in cited : f <= g
                       ELSE 0)
  /\ Goto(r, "append")
  /\ UNCHANGED <<plan, journal, guard>>

SameObservationAssumed(r) == TRUE   \* mutant: the decision is not re-checked
\* the journal is append-only, so its length says whether it moved
SameObservation(r) == Len(Own(r)) = memo[r].seen

TheFinding(r) ==
  LET j == Prefix(Own(r), memo[r].seen)
      n == plan[r].cite
  IN Raised(plan[r].run, IF DoneClaim(j, n) THEN n ELSE 0, plan[r].other, memo[r].found)

LosesLap(r, pc, todo) ==
  IF memo[r].lap + 1 >= Attempts THEN Settle(r, todo) /\ Reads(r, "lap", 0)
  ELSE Goto(r, pc) /\ Reads(r, "lap", memo[r].lap + 1)

Raise(r) ==
  /\ At(r, "append")
  /\ IsFree(plan[r].work)
  /\ IF SameObservation(r)
     THEN /\ Append1(plan[r].work, <<TheFinding(r)>>)
          /\ Settle(r, <<plan[r].work>>) /\ Reads(r, "lap", 0)
     ELSE LosesLap(r, "again", <<>>) /\ UNCHANGED journal
  /\ UNCHANGED <<plan, guard>>

-----------------------------------------------------------------------------
(* settle_ready, for the Work at the head of `todo'. *)

AskSettle(r) ==
  /\ Asks(r, "settle")
  /\ Settle(r, <<plan[r].work>>)
  /\ UNCHANGED <<plan, memo, journal, guard>>

Observe(r) ==
  /\ At(r, "observe")
  /\ IsFree(task[r].on)
  /\ Goto(r, "decide") /\ Reads(r, "seen", Len(Own(r)))
  /\ UNCHANGED <<plan, journal, guard>>

\* settlement_candidates: a child's journal is read with no guard held.
Decide(r) ==
  /\ At(r, "decide")
  /\ \A c \in Children(task[r].on) : IsFree(c)
  /\ LET j == Prefix(Own(r), memo[r].seen) IN
     Reads(r, "ready", {f \in Proposed(j) :
                          \/ ByClaim(j, f)
                          \/ \E c \in Children(task[r].on) :
                               j[f].child = c /\ ByChild(j, f, journal[c])})
  /\ Goto(r, "recheck")
  /\ UNCHANGED <<plan, journal, guard>>

Settlements(S) == [i \in 1..Cardinality(S) |->
                     Settled(CHOOSE f \in S : Cardinality({g \in S : g < f}) = i - 1)]

Mint(r) ==
  /\ At(r, "recheck")
  /\ IsFree(task[r].on)
  /\ IF SameObservation(r)
     THEN /\ Append1(task[r].on, Settlements(memo[r].ready))
          /\ Settle(r, Tail(task[r].todo)) /\ Reads(r, "lap", 0)
     ELSE LosesLap(r, "observe", Tail(task[r].todo)) /\ UNCHANGED journal
  /\ UNCHANGED <<plan, guard>>

-----------------------------------------------------------------------------
(* handle_finding_applied: the producer `work', the owner `other', a Claim.  *)

AskApply(r) ==
  /\ Asks(r, "apply")
  /\ IsFree(plan[r].work)
  /\ IF /\ Producing(journal[plan[r].work]) = plan[r].run
        /\ Findings(journal[plan[r].other]) # {}
     THEN /\ Goto(r, "resolve")
          /\ Reads(r, "found", CHOOSE f \in Findings(journal[plan[r].other]) : TRUE)
     ELSE Finish(r) /\ UNCHANGED memo
  /\ UNCHANGED <<plan, journal, guard>>

\* The source is resolved under the Atlas, released before any journal is taken.
OwnerOnly(r) == {plan[r].other}   \* mutant: only the journal that is written
Needed(r) == {plan[r].work, plan[r].other, plan[r].from}

Resolve(r) ==
  /\ At(r, "resolve")
  /\ IsFree(Atlas)
  /\ task' = [task EXCEPT ![r].pc = "gather", ![r].need = Needed(r)]
  /\ UNCHANGED <<plan, memo, journal, guard>>

NextAsNamed(r) ==   \* mutant: in the order the request names them
  IF plan[r].other \in task[r].need THEN plan[r].other
  ELSE IF plan[r].work \in task[r].need THEN plan[r].work ELSE plan[r].from
NextGuard(r) == Least(task[r].need)

Gather(r) ==
  /\ At(r, "gather")
  /\ task[r].need # {}
  /\ IsFree(NextGuard(r))
  /\ Take(r, NextGuard(r))
  /\ task' = [task EXCEPT ![r].need = @ \ {NextGuard(r)}]
  /\ UNCHANGED <<plan, memo, journal>>

StillProducing(r) == Producing(journal[plan[r].work]) = plan[r].run

\* resolve_claim_attribution
Credited(r) == LET j == journal[plan[r].from] IN
  plan[r].cite = 0 \/ (Latest(j, plan[r].cite) /\ DoneClaim(j, plan[r].cite))

\* Every guard it needs held: the facts are read again,
Judge(r) ==
  /\ At(r, "gather")
  /\ task[r].need = {}
  /\ IF StillProducing(r) /\ Credited(r)
     THEN Goto(r, "apply") /\ UNCHANGED guard
     ELSE Finish(r) /\ Drop(r)
  /\ UNCHANGED <<plan, memo, journal>>

\* and the application is journaled, the guards still held.
Apply(r) ==
  /\ At(r, "apply")
  /\ Append1(plan[r].other, <<Applied(memo[r].found, plan[r].work, plan[r].run,
                                      plan[r].from, plan[r].cite)>>)
  /\ Goto(r, "reconcile")
  /\ Drop(r)
  /\ UNCHANGED <<plan, memo>>

Reconcile(r) ==   \* reconcile_findings_index takes the Atlas
  /\ At(r, "reconcile")
  /\ IsFree(Atlas)
  /\ Finish(r)
  /\ UNCHANGED <<plan, memo, journal, guard>>

-----------------------------------------------------------------------------
(* handle_estate_storage: derive_retention replays every journal under the   *)
(* Atlas, which is only tried.                                               *)

Inventory(r) ==
  /\ Asks(r, "inventory")
  /\ IF IsFree(Atlas)
     THEN Take(r, Atlas) /\ task' = [task EXCEPT ![r].pc = "replay", ![r].need = Works]
     ELSE Finish(r) /\ UNCHANGED guard
  /\ UNCHANGED <<plan, memo, journal>>

NextById(r) == CHOOSE w \in task[r].need : \A v \in task[r].need : Id[w] <= Id[v]

Replay(r) ==
  /\ At(r, "replay")
  /\ IF task[r].need = {}
     THEN Drop(r) /\ Finish(r)
     ELSE /\ IsFree(NextById(r))
          /\ task' = [task EXCEPT ![r].need = @ \ {NextById(r)}]
          /\ UNCHANGED guard
  /\ UNCHANGED <<plan, memo, journal>>

-----------------------------------------------------------------------------
Step(r) ==
  \/ Write(r) \/ CancelLooks(r) \/ CancelSeesChildren(r) \/ CancelWrites(r)
  \/ ClaimRefused(r) \/ ClaimRecorded(r) \/ Close(r) \/ Advance(r) \/ Reevaluate(r)
  \/ Look(r) \/ Admit(r) \/ Raise(r)
  \/ AskSettle(r) \/ Observe(r) \/ Decide(r) \/ Mint(r)
  \/ AskApply(r) \/ Resolve(r) \/ Gather(r) \/ Judge(r) \/ Apply(r) \/ Reconcile(r)
  \/ Inventory(r) \/ Replay(r)

\* Every request has been answered.
Answered == (\A r \in Request : At(r, "done")) /\ UNCHANGED vars

Next == (\E r \in Request : Step(r)) \/ Answered

Spec == Init /\ [][Next]_vars

-----------------------------------------------------------------------------
(* Properties. *)

Phases == {"start", "children", "cancel", "admit", "append", "again", "close",
           "advance", "reevaluate", "observe", "decide", "recheck", "resolve",
           "gather", "apply", "reconcile", "replay", "done"}

\* The type of the state, and that a request that is answered holds nothing.
TypeOK ==
  /\ plan \in Mixes
  /\ guard \in [Locks -> Request \cup {Free}]
  /\ \A r \in Request :
       /\ task[r].pc \in Phases
       /\ task[r].on \in Works /\ task[r].need \subseteq Works
       /\ memo[r].lap \in 0..Attempts - 1
       /\ At(r, "done") => \A l \in Locks : ~Holds(r, l)

\* The mutexes a request cannot go on without.
WaitsFor(r) ==
  LET t == task[r] IN
  CASE t.pc = "start" -> IF plan[r].op \in {"settle", "inventory"} THEN {} ELSE {t.on}
    [] t.pc \in {"cancel", "append", "again", "reevaluate", "observe", "recheck"} -> {t.on}
    [] t.pc = "admit" -> {plan[r].other}
    [] t.pc \in {"close", "children", "decide"} -> Children(t.on)
    [] t.pc = "advance" -> IF t.on \in Review /\ ~Completed(Own(r)) THEN {Atlas} ELSE {}
    [] t.pc \in {"resolve", "reconcile"} -> {Atlas}
    [] t.pc = "gather" -> IF t.need = {} THEN {} ELSE {NextGuard(r)}
    [] t.pc = "replay" -> IF t.need = {} THEN {} ELSE {NextById(r)}
    [] t.pc \in {"apply", "done"} -> {}

\* No connections wait for each other in a circle: what the lock discipline
\* and journal_lock_order are for.
Blocked(r, S) == \E l \in WaitsFor(r) : guard[l] \in S
NoCircularWait ==
  \A S \in SUBSET Request : S # {} => \E r \in S : ~Blocked(r, S)

\* A Finding stands in the journal only where its Run was the current one of
\* its waypoint and the Work had not ended, however the raise raced a retry
\* or a cancel.
RaisedByCurrentRun ==
  \A w \in Works : \A i \in Findings(journal[w]) :
    MayRaise(Prefix(journal[w], i - 1), journal[w][i].run)

\* A settlement rests on facts that still held when it was journaled: the cited
\* Claim is of the current Run, or the container closed and the child's Finding
\* is settled; and a Finding is settled once.
SettlementStands ==
  \A w \in Works : LET j == journal[w] IN
    \A i \in {h \in DOMAIN j : j[h].k = "settle"} :
      LET before == Prefix(j, i - 1)
          f == j[i].f
      IN /\ f \in Proposed(before)
         /\ \/ ByClaim(before, f)
            \/ \E c \in Children(w) : j[f].child = c /\ ByChild(before, f, journal[c])

\* An application is journaled only while its producer's Run is producing and
\* the Claim it credits is current, in whichever journals those facts are.
ApplicationStands ==
  [][\A w \in Works : \A i \in Len(journal[w]) + 1 .. Len(journal'[w]) :
       LET e == journal'[w][i] IN
       e.k = "apply" =>
         /\ Producing(journal[e.by]) = e.run
         /\ e.cite # 0 => DoneClaim(journal[e.from], e.cite) /\ Latest(journal[e.from], e.cite)]_vars

\* When everyone is answered, no Finding whose own journal makes it ready is
\* left proposed: the settlements nobody else triggers are not lost.
NothingLeftReady ==
  (\A r \in Request : At(r, "done")) =>
    \A w \in Works : \A f \in Proposed(journal[w]) :
      (\E r \in Request : plan[r].op \in {"claim", "settle"} /\ plan[r].work = w)
        => ~ByClaim(journal[w], f)

\* What a Finding's journal says of it was decided on facts that held.
FindingsStand == TypeOK /\ RaisedByCurrentRun /\ SettlementStands /\ NothingLeftReady
=============================================================================
