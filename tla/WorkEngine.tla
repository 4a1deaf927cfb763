----------------------------- MODULE WorkEngine -----------------------------
(***************************************************************************)
(* wirkd's handlers over one Work (src/wirk/src/wirkd/server.rs): claiming, *)
(* failing, retrying, giving up and canceling, the advance to the next     *)
(* leaf, the closing of containers, the child Works a container waits for, *)
(* a crash of the daemon and the sweep at its restart.                     *)
(*                                                                         *)
(* Every handler holds the Work's journal guard from its first read to its *)
(* last append.  A handler that appends more than one line is cut at its   *)
(* appends: `step` is what the holder of the guard still has to do, so no  *)
(* other handler of this Work runs until it is Idle again, but a crash or  *)
(* a failed append may end it there.  Three paths drop the guard and take  *)
(* it again; what they carry across is `apart` (an orienting advance),     *)
(* `failing` (a permanent refusal still to be recorded) and `reeval` (a    *)
(* reevaluate_parent call another Work's thread still has to make).        *)
(*                                                                         *)
(* Child Works are environment here: a child exists, ends in some way, and *)
(* its end makes its thread re-evaluate the container it served.           *)
(***************************************************************************)
EXTENDS WorkFold, FiniteSets

CONSTANTS
  FirstLeaf,     \* first_dfs_leaf of a container
  Output,        \* names of artifacts
  LeafNeeds,     \* a leaf's required declared outputs
  Needs,         \* a container's required declared outputs
  Role,          \* names of child roles
  NeedsRole,     \* a container's required_child_outcomes
  Child,         \* child Works that may be submitted
  Orienting,     \* leaves that declare an orient block
  Incompatible,  \* leaves whose reservation is refused for good
  MaxRuns,       \* bound: Runs the Work may open
  MaxCrashes,    \* bound: crashes of the daemon
  MaxFaults,     \* bound: appends or reservations that fail in passing
  LoseClaims     \* may the append of a ClaimRecorded be one of them

ASSUME EngineAssumption ==
  /\ FirstLeaf \in [Container -> Leaf]
  /\ LeafNeeds \in [Leaf -> SUBSET Output]
  /\ Needs \in [Container -> SUBSET Output]
  /\ NeedsRole \in [Container -> SUBSET Role]
  /\ Orienting \subseteq Leaf
  /\ Incompatible \subseteq Leaf \ {LeafOrder[1]}
  /\ MaxRuns \in Nat \ {0}
  /\ MaxCrashes \in Nat
  /\ MaxFaults \in Nat
  /\ LoseClaims \in BOOLEAN

VARIABLES
  work,      \* the folded Work
  runs,      \* the Runs, in the order they were opened
  opened,    \* how many have been
  outcome,   \* each container's last StageHeld or StageClosed
  child,     \* the child Works: ChildWorkSpawned, and the child's own journal
  step,      \* what the holder of the journal guard still has to do
  apart,     \* orienting advances between dropping and retaking the guard
  failing,   \* a record_transition_failure still to take the guard
  reeval,    \* reevaluate_parent calls still to be made
  cancel,    \* a cancel between its read and its write
  daemon,    \* "up", "down", or "sweep" while reevaluate_waiting_works runs
  crashes,
  faults

journalVars == <<work, runs, opened, outcome>>
flightVars  == <<step, apart, failing, reeval, cancel>>
daemonVars  == <<daemon, crashes, faults>>
vars == <<journalVars, child, flightVars, daemonVars>>

RunId == 1..MaxRuns

RunStatus == {"None", "Open", "Claimed", "Failed", "Vanished", "Retried"}

NoRun == [waypoint |-> NoWaypoint, status |-> "None", arts |-> {},
          auto |-> FALSE]

NoOutcome == [kind |-> "none", attempt |-> 0, missing |-> {}, produced |-> {},
              credit |-> {}]

NoChild == [status |-> "None", container |-> NoWaypoint, role |-> "none",
            attempt |-> 0, run |-> 0]

Idle == [op |-> "idle", at |-> NoWaypoint, leaf |-> NoWaypoint, run |-> 0,
         todo |-> {}, from |-> "none", split |-> FALSE]

NoCancel == [phase |-> "idle", todo |-> {}]

-----------------------------------------------------------------------------
(* What a handler reads in the journal. *)

Opened == 1..opened

\* latest_run_for_waypoint(run.waypoint) = run
IsLatest(r) ==
  \A q \in Opened : q > r => runs[q].waypoint # runs[r].waypoint

LatestClaimed(l) ==
  \E r \in Opened : /\ runs[r].waypoint = l
                    /\ IsLatest(r)
                    /\ runs[r].status = "Claimed"

\* A Claim on such a Run can still validate; one on a Claimed Run or on a
\* Run a retry superseded is refused AlreadyClaimed.
ClaimableOnceRetried(r) ==   \* mutant: a retried Run is one more Failed Run
  runs[r].status \in {"Open", "Failed", "Vanished", "Retried"}

Claimable(r) == runs[r].status \in {"Open", "Failed", "Vanished"}

Live == work.state \notin Terminal

\* container_attempt
Attempt(c) == IF work.activation[c] = 0 THEN 1 ELSE work.activation[c]

\* current_stage_outcome
ClosedNow(c) == outcome[c].kind = "closed" /\ outcome[c].attempt = Attempt(c)
HeldNow(c)   == outcome[c].kind = "held" /\ outcome[c].attempt = Attempt(c)

\* entering_ancestors
Entering(l) == {c \in Ancestors(l) : FirstLeaf[c] = l}

Direct(c) == {n \in Waypoint : Chain[n] # <<>> /\ Chain[n][1] = c}

\* The last of flatten_leaves(c).
IsLastLeafOf(l, c) ==
  /\ c \in Ancestors(l)
  /\ \A m \in Leaf : c \in Ancestors(m) => Position(m) <= Position(l)

LastLeafOf(c) == CHOOSE l \in Leaf : IsLastLeafOf(l, c)

\* validate_tree refuses a container that groups no leaf.
ASSUME NoEmptyContainer ==
  \A c \in Container : \E l \in Leaf : IsLastLeafOf(l, c)

\* The last leaf of n's subtree, which is n where n is a leaf.
Ends(n, l) == IF n \in Leaf THEN n = l ELSE IsLastLeafOf(l, n)

\* The Route is a tree, and its leaves stand in depth-first order.
ASSUME TreeAssumption ==
  /\ \A n \in Waypoint : \A i \in 1..Len(Chain[n]) :
       Chain[Chain[n][i]] = SubSeq(Chain[n], i + 1, Len(Chain[n]))
  /\ \A c \in Container :
       /\ c \in Ancestors(FirstLeaf[c])
       /\ \A l \in Leaf : c \in Ancestors(l) => Position(FirstLeaf[c]) <= Position(l)
       /\ \A k, l, m \in Leaf :
            /\ c \in Ancestors(k) \cap Ancestors(m)
            /\ Position(k) <= Position(l) /\ Position(l) <= Position(m)
            => c \in Ancestors(l)
       /\ LastChild[c] \in Direct(c)
       /\ \A l \in Leaf : IsLastLeafOf(l, c) => Ends(LastChild[c], l)
  /\ Chain[TopLast] = <<>> /\ Ends(TopLast, LastLeaf)

-----------------------------------------------------------------------------
(* evaluate_closure. *)

\* valid_child_receipt: a spawn for this role and this generation, whose
\* requesting Run nothing has superseded, and whose child completed.
CreditedChildren(c, role) ==
  {k \in Child : /\ child[k].status = "Completed"
                 /\ child[k].container = c
                 /\ child[k].role = role
                 /\ child[k].attempt = Attempt(c)
                 /\ IsLatest(child[k].run)}

CreditedRuns(c) ==
  {r \in Opened : /\ runs[r].waypoint \in Direct(c)
                  /\ IsLatest(r)
                  /\ runs[r].status = "Claimed"}

\* collect_names
Produced(c) ==
  (UNION {runs[r].arts : r \in CreditedRuns(c)})
    \cup (UNION {outcome[d].produced :
                   d \in {e \in Direct(c) \cap Container : ClosedNow(e)}})

Missing(c) ==
  {n \in Direct(c) : IF n \in Container THEN ~ClosedNow(n)
                                        ELSE ~LatestClaimed(n)}
    \cup (Needs[c] \ Produced(c))
    \cup {role \in NeedsRole[c] : CreditedChildren(c, role) = {}}

-----------------------------------------------------------------------------
(* The steps a handler may leave for itself. *)

Reserving(l, from, split) ==
  [Idle EXCEPT !.op = "reserve", !.at = l, !.todo = Entering(l),
               !.from = from, !.split = split]

Cascading(c, l, from) ==
  [Idle EXCEPT !.op = "cascade", !.at = c, !.leaf = l, !.from = from]

RetryingNoReopen(r) ==   \* mutant: the closed ancestors stay closed
  [Idle EXCEPT !.op = "retryReserve", !.at = runs[r].waypoint, !.run = r]

RetryingReopenAll(r) ==   \* mutant: held ancestors are reopened too
  [Idle EXCEPT !.op = "retryReserve", !.at = runs[r].waypoint, !.run = r,
               !.todo = Ancestors(runs[r].waypoint)]

\* A retry reopens every ancestor that is closed in its current generation.
Retrying(r) ==
  [Idle EXCEPT !.op = "retryReserve", !.at = runs[r].waypoint, !.run = r,
               !.todo = {c \in Ancestors(runs[r].waypoint) : ClosedNow(c)}]

\* The advance past leaf l: nothing after the last leaf; an orienting leaf is
\* assembled with the guard dropped; any other is reserved under the guard.
Advance(l, from) ==
  IF l = LastLeaf
  THEN step' = Idle /\ UNCHANGED apart
  ELSE IF LeafAfter(l) \in Orienting
       THEN step' = Idle /\ apart' = apart \cup {[after |-> l, from |-> from]}
       ELSE step' = Reserving(LeafAfter(l), from, FALSE) /\ UNCHANGED apart

\* innermost_closing_container, then the advance.
CloseOrAdvance(l) ==
  IF Chain[l] # <<>> /\ LastChild[Chain[l][1]] = l
  THEN step' = Cascading(Chain[l][1], l, "claim") /\ UNCHANGED apart
  ELSE Advance(l, "claim")

-----------------------------------------------------------------------------
(* Initially handle_submit has appended WorkSubmitted and is about to      *)
(* reserve the first leaf.                                                 *)

Init ==
  /\ work = OnWorkSubmitted
  /\ runs = [r \in RunId |-> NoRun]
  /\ opened = 0
  /\ outcome = [c \in Container |-> NoOutcome]
  /\ child = [k \in Child |-> NoChild]
  /\ step = Reserving(LeafOrder[1], "submit", FALSE)
  /\ apart = {}
  /\ failing = FALSE
  /\ reeval = {}
  /\ cancel = NoCancel
  /\ daemon = "up"
  /\ crashes = 0
  /\ faults = 0

\* A request takes the journal guard.
Serving == daemon = "up" /\ step = Idle

-----------------------------------------------------------------------------
(* handle_claim.  The checks of the checkout and of the staged outputs are *)
(* the choice between the four actions; a Claim that is refused without    *)
(* moving the Work is not a step.                                          *)

ValidDoneAnyOrigin(r, arts, auto) ==   \* mutant: no QuestionOutstanding
  /\ Serving
  /\ Live
  /\ r \in Opened
  /\ Claimable(r)
  /\ LeafNeeds[runs[r].waypoint] \subseteq arts

ValidDone(r, arts, auto) ==
  /\ Serving
  /\ Live
  /\ r \in Opened
  /\ Claimable(r)
  /\ LeafNeeds[runs[r].waypoint] \subseteq arts
  \* QuestionOutstanding
  /\ ~(auto /\ work.state = "NeedsInput" /\ work.cause = Cause(r, "question"))

FileDone(r, arts, auto) ==
  /\ ValidDone(r, arts, auto)
  /\ runs' = [runs EXCEPT ![r] = [@ EXCEPT !.status = "Claimed",
                                           !.arts = arts, !.auto = auto]]
  /\ work' = OnDone(work, runs[r].waypoint)
  /\ CloseOrAdvance(runs[r].waypoint)
  /\ UNCHANGED <<opened, outcome, child, failing, reeval, cancel, daemonVars>>

\* The append of ClaimRecorded fails.  record_and_reply builds an error
\* reply, but the handler still holds its Validated verdict and goes on to
\* the cascade and the advance.
FileDoneUnrecorded(r, arts, auto) ==
  /\ LoseClaims
  /\ faults < MaxFaults
  /\ ValidDone(r, arts, auto)
  /\ faults' = faults + 1
  /\ CloseOrAdvance(runs[r].waypoint)
  /\ UNCHANGED <<journalVars, child, failing, reeval, cancel, daemon, crashes>>

FileQuestion(r) ==
  /\ Serving
  /\ Live
  /\ r \in Opened
  /\ Claimable(r)
  /\ work' = OnQuestion(work, r)
  /\ UNCHANGED <<runs, opened, outcome, child, flightVars, daemonVars>>

\* An undeclared managed output refuses OutOfBoundary whatever else the
\* verdict was, so the Run may be one no Claim can validate against.
FileOutOfBoundary(r) ==
  /\ Serving
  /\ Live
  /\ r \in Opened
  /\ work' = OnOutOfBoundary(work, r, runs[r].waypoint, IsLatest(r))
  /\ UNCHANGED <<runs, opened, outcome, child, flightVars, daemonVars>>

-----------------------------------------------------------------------------
(* close_cascade: one container a step. *)

CloseContainer ==
  LET c == step.at IN
  /\ step.op = "cascade"
  /\ Missing(c) = {}
  /\ outcome' = [outcome EXCEPT ![c] =
       [kind |-> "closed", attempt |-> Attempt(c), missing |-> {},
        produced |-> Produced(c), credit |-> CreditedRuns(c)]]
  /\ work' = OnStageClosed(work, c, Attempt(c))
  /\ IF Chain[c] # <<>> /\ LastChild[Chain[c][1]] = c
     THEN /\ step' = [step EXCEPT !.at = Chain[c][1]]
          /\ UNCHANGED apart
     ELSE Advance(step.leaf, step.from)
  /\ UNCHANGED <<runs, opened, child, failing, reeval, cancel, daemonVars>>

\* An unchanged hold on a Work already Waiting for it is not journaled again.
HoldContainer ==
  LET c == step.at
      hold == [waypoint |-> c, attempt |-> Attempt(c), missing |-> Missing(c)]
  IN
  /\ step.op = "cascade"
  /\ Missing(c) # {}
  /\ IF /\ HeldNow(c)
        /\ outcome[c].missing = Missing(c)
        /\ work.state = "Waiting"
        /\ work.held = hold
     THEN UNCHANGED <<work, outcome>>
     ELSE /\ outcome' = [outcome EXCEPT ![c] =
               [kind |-> "held", attempt |-> Attempt(c),
                missing |-> Missing(c), produced |-> {}, credit |-> {}]]
          /\ work' = OnStageHeld(work, c, Attempt(c), Missing(c))
  /\ step' = Idle
  /\ UNCHANGED <<runs, opened, child, apart, failing, reeval, cancel, daemonVars>>

-----------------------------------------------------------------------------
(* reserve_next_leaf, and the same two appends at the end of submit.       *)

\* One ContainerActivated, outermost first; retries do the same.
ActivateContainer(c) ==
  /\ step.op \in {"reserve", "retryReserve"}
  /\ step.op = "reserve" => step.at \notin Incompatible
  /\ opened < MaxRuns
  /\ c \in step.todo
  /\ step.todo \cap Ancestors(c) = {}
  /\ work' = OnActivated(work, c)
  /\ step' = [step EXCEPT !.todo = @ \ {c}]
  /\ UNCHANGED <<runs, opened, outcome, child, apart, failing, reeval, cancel,
                 daemonVars>>

ReserveLeaf ==
  /\ step.op = "reserve"
  /\ step.todo = {}
  /\ step.at \notin Incompatible
  /\ opened < MaxRuns
  /\ work' = OnWaypointReserved(work, step.at)
  /\ step' = [step EXCEPT !.op = "open"]
  /\ UNCHANGED <<runs, opened, outcome, child, apart, failing, reeval, cancel,
                 daemonVars>>

OpenRun(l) ==
  /\ opened' = opened + 1
  /\ runs' = [runs EXCEPT ![opened + 1] = [NoRun EXCEPT !.waypoint = l,
                                                       !.status = "Open"]]
  /\ work' = OnRunOpened(work)
  /\ step' = Idle
  /\ UNCHANGED <<outcome, child, apart, failing, reeval, cancel, daemonVars>>

OpenReserved ==
  /\ step.op = "open"
  /\ OpenRun(step.at)

RefuseReservationQuietly ==   \* mutant: split advances are only logged too
  /\ step.op = "reserve"
  /\ step.at \in Incompatible
  /\ step' = Idle
  /\ work' = IF step.from = "claim" /\ ~step.split THEN OnWorkFailed(work) ELSE work
  /\ UNCHANGED <<runs, opened, outcome, child, apart, failing, reeval, cancel,
                 daemonVars>>

\* IncompatibleSourceBasis, which depends on nothing an attempt changes.  The
\* claim path records it as the Work's terminal failure, under the guard it
\* holds or, having dropped it, under a new one; reevaluate_parent only logs it.
RefuseReservation ==
  /\ step.op = "reserve"
  /\ step.at \in Incompatible
  /\ step' = Idle
  /\ work' = IF step.from = "claim" /\ ~step.split THEN OnWorkFailed(work) ELSE work
  /\ failing' = (failing \/ (step.from = "claim" /\ step.split))
  /\ UNCHANGED <<runs, opened, outcome, child, apart, reeval, cancel, daemonVars>>

\* advance_to_next_leaf, once the projection is assembled.
RetakeGuard(d) ==
  /\ daemon # "down"
  /\ step = Idle
  /\ d \in apart
  /\ apart' = apart \ {d}
  /\ step' = Reserving(LeafAfter(d.after), d.from, TRUE)
  /\ UNCHANGED <<journalVars, child, failing, reeval, cancel, daemonVars>>

RecordTransitionFailure ==
  /\ Serving
  /\ failing
  /\ failing' = FALSE
  /\ work' = OnWorkFailed(work)
  /\ UNCHANGED <<runs, opened, outcome, child, step, apart, reeval, cancel,
                 daemonVars>>

-----------------------------------------------------------------------------
(* What a Run's driver records: handle_fail and handle_record. *)

Driven(r) ==
  /\ Serving
  /\ Live
  /\ r \in Opened
  /\ runs[r].status = "Open"
  /\ IsLatest(r)

RunFails(r) ==
  /\ Driven(r)
  /\ runs' = [runs EXCEPT ![r].status = "Failed"]
  /\ work' = OnRunFailed(work, r)
  /\ UNCHANGED <<opened, outcome, child, flightVars, daemonVars>>

RunVanishes(r) ==
  /\ Driven(r)
  /\ runs' = [runs EXCEPT ![r].status = "Vanished"]
  /\ work' = OnRunVanished(work, r)
  /\ UNCHANGED <<opened, outcome, child, flightVars, daemonVars>>

Observe(r) ==
  /\ Driven(r)
  /\ work' \in {OnBlocked(work, r), OnNoProgress(work, r), OnTurnSeen(work, r)}
  /\ UNCHANGED <<runs, opened, outcome, child, flightVars, daemonVars>>

-----------------------------------------------------------------------------
(* handle_retry: reopen the closed ancestors, reserve, supersede, open. *)

RetryAccepted(r) ==
  /\ IsLatest(r)
  /\ \/ /\ work.state = "NeedsInput"
        /\ work.cause.run = r
        /\ work.current = runs[r].waypoint
     \/ /\ work.state = "Waiting"
        /\ work.held # NoHold
        /\ work.held.waypoint \in Ancestors(runs[r].waypoint)

\* Bound: a retry leaves room for a Run of every leaf after its own.
RoomFor(r) == opened + 1 + Len(LeafOrder) <= MaxRuns + Position(runs[r].waypoint)

Retry(r) ==
  /\ Serving
  /\ r \in Opened
  /\ RoomFor(r)
  /\ RetryAccepted(r)
  /\ step' = Retrying(r)
  /\ UNCHANGED <<journalVars, child, apart, failing, reeval, cancel, daemonVars>>

RetryReserve ==
  /\ step.op = "retryReserve"
  /\ step.todo = {}
  /\ work' = OnWaypointReserved(work, step.at)
  /\ step' = [step EXCEPT !.op = "retrySupersede"]
  /\ UNCHANGED <<runs, opened, outcome, child, apart, failing, reeval, cancel,
                 daemonVars>>

RetrySupersede ==
  /\ step.op = "retrySupersede"
  /\ runs' = [runs EXCEPT ![step.run].status = "Retried"]
  /\ work' = OnRunFailed(work, step.run)
  /\ step' = [step EXCEPT !.op = "retryOpen"]
  /\ UNCHANGED <<opened, outcome, child, apart, failing, reeval, cancel,
                 daemonVars>>

RetryOpen ==
  /\ step.op = "retryOpen"
  /\ OpenRun(step.at)

\* handle_workfail
GiveUp ==
  /\ Serving
  /\ work.state = "NeedsInput"
  /\ work' = OnWorkFailed(work)
  /\ UNCHANGED <<runs, opened, outcome, child, flightVars, daemonVars>>

-----------------------------------------------------------------------------
(* Child Works. *)

\* spawn_child_on_parent: ChildWorkSpawned, before the child has a journal.
SpawnChild(k, r, c, role) ==
  /\ Serving
  /\ Live
  /\ child[k].status = "None"
  /\ role \in NeedsRole[c]
  /\ r \in Opened
  /\ c \in Ancestors(runs[r].waypoint)
  /\ IsLatest(r)
  /\ child' = [child EXCEPT ![k] =
       [status |-> "Spawned", container |-> c, role |-> role,
        attempt |-> Attempt(c), run |-> r]]
  /\ UNCHANGED <<journalVars, flightVars, daemonVars>>

\* The rest of the child's own submit, in another journal.
SubmitChild(k) ==
  /\ daemon = "up"
  /\ child[k].status = "Spawned"
  /\ child' = [child EXCEPT ![k].status = "Open"]
  /\ UNCHANGED <<journalVars, flightVars, daemonVars>>

\* The child's last Claim or its cancel re-evaluates the parent from the same
\* thread, after the child's guard is dropped; its failure does not.
EndChild(k, how) ==
  /\ daemon = "up"
  /\ child[k].status = "Open"
  /\ child' = [child EXCEPT ![k].status = how]
  /\ reeval' = IF how = "Failed" THEN reeval
               ELSE reeval \cup {[at |-> child[k].container, by |-> "child"]}
  /\ UNCHANGED <<journalVars, step, apart, failing, cancel, daemonVars>>

\* reevaluate_parent: nothing to do unless the container is held right now.
Reevaluate(t) ==
  /\ daemon # "down"
  /\ step = Idle
  /\ t \in reeval
  /\ reeval' = reeval \ {t}
  /\ step' = IF Live /\ HeldNow(t.at)
             THEN Cascading(t.at, LastLeafOf(t.at), "reevaluate")
             ELSE Idle
  /\ UNCHANGED <<journalVars, child, apart, failing, cancel, daemonVars>>

-----------------------------------------------------------------------------
(* cancel_work: read, cancel the open children, then look again and write. *)

OpenChildren == {k \in Child : child[k].status = "Open"}

CancelRead(cascade) ==
  /\ Serving
  /\ Live
  /\ cancel.phase = "idle"
  /\ OpenChildren = {} \/ cascade
  /\ cancel' = [phase |-> "children", todo |-> OpenChildren]
  /\ UNCHANGED <<journalVars, child, step, apart, failing, reeval, daemonVars>>

CancelChild(k) ==
  /\ daemon = "up"
  /\ cancel.phase = "children"
  /\ k \in cancel.todo
  /\ cancel' = [cancel EXCEPT !.todo = @ \ {k}]
  /\ IF child[k].status = "Open"
     THEN /\ child' = [child EXCEPT ![k].status = "Canceled"]
          /\ reeval' = reeval \cup {[at |-> child[k].container, by |-> "cancel"]}
     ELSE UNCHANGED <<child, reeval>>
  /\ UNCHANGED <<journalVars, step, apart, failing, daemonVars>>

CancelWriteBlind ==   \* mutant: terminality is not looked at again
  /\ Serving
  /\ cancel.phase = "children"
  /\ cancel.todo = {}
  /\ \A t \in reeval : t.by # "cancel"
  /\ cancel' = NoCancel
  /\ work' = OnWorkCanceled(work)
  /\ UNCHANGED <<runs, opened, outcome, child, step, apart, failing, reeval,
                 daemonVars>>

CancelWrite ==
  /\ Serving
  /\ cancel.phase = "children"
  /\ cancel.todo = {}
  /\ \A t \in reeval : t.by # "cancel"
  /\ cancel' = NoCancel
  /\ work' = IF Live THEN OnWorkCanceled(work) ELSE work
  /\ UNCHANGED <<runs, opened, outcome, child, step, apart, failing, reeval,
                 daemonVars>>

-----------------------------------------------------------------------------
(* Failures. *)

\* A passing failure ends the handler where it stands: its appends so far
\* are in the journal and the caller gets an error.
Falter ==
  /\ faults < MaxFaults
  /\ step # Idle
  /\ step' = Idle
  /\ faults' = faults + 1
  /\ UNCHANGED <<journalVars, child, apart, failing, reeval, cancel, daemon,
                 crashes>>

Crash ==
  /\ daemon # "down"
  /\ crashes < MaxCrashes
  /\ crashes' = crashes + 1
  /\ daemon' = "down"
  /\ step' = Idle
  /\ apart' = {}
  /\ failing' = FALSE
  /\ reeval' = {}
  /\ cancel' = NoCancel
  /\ UNCHANGED <<journalVars, child, faults>>

RestartNoSweep ==   \* mutant: no reevaluate_waiting_works
  /\ daemon = "down"
  /\ daemon' = "sweep"
  /\ UNCHANGED <<journalVars, child, flightVars, crashes, faults>>

\* reevaluate_waiting_works, before the socket is served.
Restart ==
  /\ daemon = "down"
  /\ daemon' = "sweep"
  /\ reeval' = IF work.state = "Waiting" /\ work.held # NoHold
               THEN {[at |-> work.held.waypoint, by |-> "sweep"]} ELSE {}
  /\ UNCHANGED <<journalVars, child, step, apart, failing, cancel, crashes, faults>>

Serve ==
  /\ daemon = "sweep"
  /\ step = Idle
  /\ reeval = {}
  /\ apart = {}
  /\ daemon' = "up"
  /\ UNCHANGED <<journalVars, child, flightVars, crashes, faults>>

-----------------------------------------------------------------------------
(* The specification.                                                      *)

Claim == \E r \in RunId :
  \/ \E arts \in SUBSET Output, auto \in BOOLEAN :
       FileDone(r, arts, auto) \/ FileDoneUnrecorded(r, arts, auto)
  \/ FileQuestion(r)
  \/ FileOutOfBoundary(r)

Driver == \E r \in RunId : RunFails(r) \/ RunVanishes(r) \/ Observe(r)

Operator ==
  \/ \E r \in RunId : Retry(r)
  \/ GiveUp
  \/ \E cascade \in BOOLEAN : CancelRead(cascade)

Children == \E k \in Child :
  \/ \E r \in RunId, c \in Container, role \in Role : SpawnChild(k, r, c, role)
  \/ SubmitChild(k)
  \/ \E how \in {"Completed", "Canceled", "Failed"} : EndChild(k, how)

\* What the daemon does with no further request.
Internal ==
  \/ CloseContainer
  \/ HoldContainer
  \/ \E c \in step.todo : ActivateContainer(c)
  \/ ReserveLeaf
  \/ OpenReserved
  \/ RefuseReservation
  \/ \E d \in apart : RetakeGuard(d)
  \/ RecordTransitionFailure
  \/ RetryReserve
  \/ RetrySupersede
  \/ RetryOpen
  \/ \E t \in reeval : Reevaluate(t)
  \/ \E k \in Child : CancelChild(k)
  \/ CancelWrite
  \/ Restart
  \/ Serve

Next == Claim \/ Driver \/ Operator \/ Children \/ Internal \/ Falter \/ Crash

Spec == Init /\ [][Next]_vars

\* A guard is released when its handler returns and threads are scheduled, so
\* what the daemon has begun goes on.  Clients and failures promise nothing.
FairSpec ==
  /\ Spec
  /\ WF_vars(Internal)
  /\ \A c \in Container, by \in {"child", "cancel", "sweep"} :
       WF_vars(Reevaluate([at |-> c, by |-> by]))

-----------------------------------------------------------------------------
(* Types. *)

StepOp == {"idle", "cascade", "reserve", "open", "retryReserve",
           "retrySupersede", "retryOpen"}

HoldType ==
  [waypoint : Container, attempt : Nat,
   missing : SUBSET (Waypoint \cup Output \cup Role)]

WorkType ==
  [state : WorkState,
   current : Waypoint \cup {NoWaypoint},
   cause : [run : {0} \cup RunId, reason : Reason \cup {"none"}],
   held : {NoHold} \cup HoldType,
   activation : [Container -> Nat]]

RunType ==
  [waypoint : Leaf \cup {NoWaypoint}, status : RunStatus,
   arts : SUBSET Output, auto : BOOLEAN]

OutcomeType ==
  [kind : {"none", "held", "closed"}, attempt : Nat,
   missing : SUBSET (Waypoint \cup Output \cup Role),
   produced : SUBSET Output, credit : SUBSET RunId]

ChildType ==
  [status : {"None", "Spawned", "Open", "Completed", "Failed", "Canceled"},
   container : Container \cup {NoWaypoint}, role : Role \cup {"none"},
   attempt : Nat, run : {0} \cup RunId]

StepType ==
  [op : StepOp, at : Waypoint \cup {NoWaypoint}, leaf : Leaf \cup {NoWaypoint},
   run : {0} \cup RunId, todo : SUBSET Container,
   from : {"none", "submit", "claim", "reevaluate"}, split : BOOLEAN]

\* What a handler still has to do names what it will do it to, and a Run it
\* is to open has room.
StepFits ==
  /\ step.op = "cascade" =>
       step.at \in Container /\ step.leaf \in Leaf
       /\ step.from \in {"claim", "reevaluate"}
  /\ step.op \notin {"idle", "cascade"} => step.at \in Leaf
  /\ step.op \in {"retryReserve", "retrySupersede", "retryOpen"} =>
       step.run \in RunId
  /\ step.op \notin {"idle", "cascade", "reserve"} => opened < MaxRuns

\* Every variable of the daemon and of the journal stays in its range, what
\* is open names its waypoint, and no advance is left to make past the end.
TypeOK ==
  /\ work \in WorkType
  /\ runs \in [RunId -> RunType]
  /\ opened \in 0..MaxRuns
  /\ outcome \in [Container -> OutcomeType]
  /\ child \in [Child -> ChildType]
  /\ step \in StepType
  /\ StepFits
  /\ \A r \in Opened : runs[r].waypoint \in Leaf
  /\ \A k \in Child : child[k].status # "None" => child[k].container \in Container
  /\ apart \subseteq [after : Leaf \ {LastLeaf},
                      from : {"claim", "reevaluate"}]
  /\ failing \in BOOLEAN
  /\ reeval \subseteq [at : Container, by : {"child", "cancel", "sweep"}]
  /\ cancel \in [phase : {"idle", "children"}, todo : SUBSET Child]
  /\ daemon \in {"up", "down", "sweep"}
  /\ crashes \in 0..MaxCrashes
  /\ faults \in 0..MaxFaults

-----------------------------------------------------------------------------
(* Safety: invariants. *)

\* A Work the journal leaves Waiting says which container it waits for, in
\* that container's current generation, and the container's own last outcome
\* is that hold with that list: reevaluate_parent and the sweep at a restart
\* find the Work again only through these (reevaluate_waiting_works,
\* current_stage_outcome).
WaitingIsRecoverable ==
  work.state = "Waiting" =>
    /\ work.held # NoHold
    /\ work.held.attempt = Attempt(work.held.waypoint)
    /\ HeldNow(work.held.waypoint)
    /\ outcome[work.held.waypoint].missing = work.held.missing

\* A container closed in its current generation still has everything it
\* requires: its leaves' latest Runs are Claimed, its sub-containers closed,
\* its outputs and its children credited.  A retry that reopens it must reach
\* every ancestor before it replaces anything they were closed on.
ClosureHolds == \A c \in Container : ClosedNow(c) => Missing(c) = {}

\* A Completed Work has every leaf's latest Run Claimed and every container
\* closed: nothing was skipped, and no replaced Run counted.
CompletedIsComplete ==
  work.state = "Completed" =>
    /\ \A l \in Leaf : LatestClaimed(l)
    /\ \A c \in Container : ClosedNow(c)

\* No Run that a newer Run of its leaf has superseded can still have a Done
\* validated: its late Claim would re-trigger the advance past a leaf that the
\* newer Run carries forward (validate_claim).
SupersededIsRefused == \A r \in Opened : ~IsLatest(r) => ~Claimable(r)

\* Besides, at most one Run of the Work can: a second one would drive a second
\* advance through the leaves after it (validate_claim, handle_retry).
OneLiveLine ==
  /\ \A q, r \in Opened : Claimable(q) /\ Claimable(r) => q = r
  /\ SupersededIsRefused

\* When the Work asks for a human, retry accepts the Run the question names:
\* the human is never pointed at a Run that handle_retry refuses.
NeedsInputIsAnswerable ==
  (step = Idle /\ work.state = "NeedsInput") =>
    \E r \in Opened : work.cause.run = r /\ RetryAccepted(r)

\* The advance is atomic with the claim: whatever the daemon reserves after a
\* Claim, the leaf before it is Claimed in the journal (handle_claim).
AdvanceFollowsClaim ==
  (step.op \in {"reserve", "open"} /\ step.from = "claim") =>
    LatestClaimed(LeafOrder[Position(step.at) - 1])

\* With the daemon at rest, an Active Work has a Run that can still be claimed:
\* otherwise claim, retry and fail all refuse it and only a cancel is left
\* (transition_is_permanent: a transient refusal must not destroy work a retry
\* would have finished; reserve_next_leaf: "nothing to claim, nothing to retry").
AtRest == daemon = "up" /\ step = Idle /\ apart = {} /\ ~failing /\ reeval = {}

NeverStranded ==
  (AtRest /\ work.state = "Active" /\ opened > 0) => \E r \in Opened : Claimable(r)

\* Only a failure or a crash between two appends strands a Work: with none,
\* and no leaf refused for good, whoever closes a container, opens a Run or
\* ends the Work leaves something to claim.
OnlyFailureStrands == (crashes = 0 /\ faults = 0) => NeverStranded

-----------------------------------------------------------------------------
(* Safety: what a step may never do. *)

\* A terminal Work never moves again and opens no further Run (is_terminal:
\* each terminal event leads there from a non-terminal state).
TerminalStays == [][~Live => work'.state = work.state /\ opened' = opened]_vars

\* A Run a retry replaced stays replaced: no late Claim, failure or restart
\* makes it claimable again (validate_claim).
RetriedStays ==
  [][\A r \in RunId : runs[r].status = "Retried" => runs'[r].status = "Retried"]_vars

\* A standing question is left only by a Done the asking Run's actor filed
\* itself, by a retry's new Run, or by the end of the Work: never by an
\* automatic Claim (ruling 0257) nor by another Run.
Asked == work.state = "NeedsInput" /\ work.cause.reason = "question"

QuestionLeftByDecision ==
  [][(Asked /\ work'.state # "NeedsInput") =>
       \/ work'.state \in {"Failed", "Canceled"}
       \/ opened' = opened + 1
       \/ /\ runs'[work.cause.run].status = "Claimed"
          /\ ~runs'[work.cause.run].auto]_vars

-----------------------------------------------------------------------------
(* Liveness. *)

\* A Work waiting for a container that lacks nothing does not wait for ever:
\* the thread that ended the last child re-evaluates it, and when a crash
\* takes that thread the sweep of the next start does.
WaitIsAnswered ==
  (work.state = "Waiting" /\ Missing(work.held.waypoint) = {})
    ~> (work.state # "Waiting")

=============================================================================
