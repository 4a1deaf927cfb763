-------------------------- MODULE WorkEngineProofs --------------------------
(***************************************************************************)
(* Theorems of WorkEngine, for every Route and every bound.                *)
(***************************************************************************)
EXTENDS WorkEngine, SequenceTheorems, TLAPS

-----------------------------------------------------------------------------
(* The Route. *)

\* Every leaf stands at its position in the flattened order.
LEMMA PositionType ==
  ASSUME NEW l \in Leaf
  PROVE  /\ Position(l) \in 1..Len(LeafOrder)
         /\ LeafOrder[Position(l)] = l
BY RouteAssumption DEF Position

\* Only the last leaf has no leaf after it.
LEMMA LeafAfterType ==
  ASSUME NEW l \in Leaf, l # LastLeaf
  PROVE  LeafAfter(l) \in Leaf
<1>1. Len(LeafOrder) \in Nat
  BY RouteAssumption
<1>2. Position(l) \in 1..Len(LeafOrder) /\ Position(l) # Len(LeafOrder)
  BY PositionType DEF LastLeaf
<1>3. Position(l) + 1 \in 1..Len(LeafOrder)
  BY <1>1, <1>2
<1>4. QED
  BY <1>3, RouteAssumption DEF LeafAfter

LEMMA LastLeafInLeaf == LastLeaf \in Leaf
BY RouteAssumption DEF LastLeaf

\* A container has a last leaf (NoEmptyContainer).
LEMMA LastLeafOfType ==
  ASSUME NEW c \in Container
  PROVE  LastLeafOf(c) \in Leaf
BY NoEmptyContainer DEF LastLeafOf

\* The containers around a waypoint are containers.
LEMMA AncestorsType ==
  ASSUME NEW n \in Waypoint
  PROVE  Ancestors(n) \subseteq Container
BY RouteAssumption DEF Ancestors

LEMMA ParentType ==
  ASSUME NEW n \in Waypoint, Chain[n] # <<>>
  PROVE  Chain[n][1] \in Container
<1>1. Chain[n] \in Seq(Container)
  BY RouteAssumption
<1>2. QED
  BY <1>1

-----------------------------------------------------------------------------
(* The arms of fold keep a Work a Work. *)

LEMMA AskHumanType ==
  ASSUME NEW w \in WorkType, NEW r \in RunId, NEW why \in Reason
  PROVE  AskHuman(w, r, why) \in WorkType
BY DEF AskHuman, Cause, WorkType, WorkState

LEMMA SettledType ==
  ASSUME NEW w \in WorkType
  PROVE  Settled(w) \in WorkType
BY DEF Settled, NoCause, WorkType

LEMMA RunArmsType ==
  ASSUME NEW w \in WorkType, NEW r \in RunId, NEW l \in Leaf, NEW latest \in BOOLEAN
  PROVE  /\ OnBlocked(w, r) \in WorkType
         /\ OnNoProgress(w, r) \in WorkType
         /\ OnTurnSeen(w, r) \in WorkType
         /\ OnQuestion(w, r) \in WorkType
         /\ OnOutOfBoundary(w, r, l, latest) \in WorkType
         /\ OnRunFailed(w, r) \in WorkType
         /\ OnRunVanished(w, r) \in WorkType
         /\ OnRunOpened(w) \in WorkType
<1>1. {"blocked", "no_observable_progress", "question", "out_of_boundary",
       "run_failed", "run_vanished"} \subseteq Reason
  BY DEF Reason
<1>2. OnTurnSeen(w, r) \in WorkType
  BY DEF OnTurnSeen, NoCause, WorkType, WorkState
<1>3. OnRunOpened(w) \in WorkType
  BY DEF OnRunOpened, NoCause, WorkType, WorkState
<1>4. QED
  BY <1>1, <1>2, <1>3, AskHumanType
     DEF OnBlocked, OnNoProgress, OnQuestion, OnOutOfBoundary, OnRunFailed,
         OnRunVanished

LEMMA WorkArmsType ==
  ASSUME NEW w \in WorkType, NEW l \in Leaf
  PROVE  /\ OnWaypointReserved(w, l) \in WorkType
         /\ OnDone(w, l) \in WorkType
         /\ OnWorkFailed(w) \in WorkType
         /\ OnWorkCanceled(w) \in WorkType
<1>1. \A s \in WorkState : [w EXCEPT !.state = s] \in WorkType
  BY DEF WorkType
<1>2. {"Active", "Completed", "Failed", "Canceled"} \subseteq WorkState
  BY DEF WorkState
<1>3. OnWaypointReserved(w, l) \in WorkType
  BY DEF OnWaypointReserved, WorkType, WorkState, Waypoint
<1>4. QED
  BY <1>1, <1>2, <1>3, SettledType DEF OnDone, OnWorkFailed, OnWorkCanceled

LEMMA ContainerArmsType ==
  ASSUME NEW w \in WorkType, NEW c \in Container, NEW n \in Nat,
         NEW missing \in SUBSET (Waypoint \cup Output \cup Role)
  PROVE  /\ OnActivated(w, c) \in WorkType
         /\ OnStageHeld(w, c, n, missing) \in WorkType
         /\ OnStageClosed(w, c, n) \in WorkType
<1>1. OnActivated(w, c) \in WorkType
  <2>1. w.activation[c] + 1 \in Nat
    BY DEF WorkType
  <2>2. ASSUME NEW h \in {NoHold, w.held}
        PROVE  [w EXCEPT !.activation[c] = @ + 1, !.held = h] \in WorkType
    BY <2>1 DEF WorkType
  <2>3. QED
    BY <2>2 DEF OnActivated
<1>2. OnStageHeld(w, c, n, missing) \in WorkType
  <2>1. [w EXCEPT !.state = "Waiting", !.current = c,
                  !.held = [waypoint |-> c, attempt |-> n, missing |-> missing]]
          \in WorkType
    BY DEF WorkType, WorkState, HoldType, Waypoint
  <2>2. QED
    BY <2>1, SettledType DEF OnStageHeld
<1>3. OnStageClosed(w, c, n) \in WorkType
  <2>1. ASSUME NEW h \in {NoHold, w.held}, NEW s \in {"Completed", "Active"}
        PROVE  [w EXCEPT !.held = h, !.state = s] \in WorkType
    BY DEF WorkType, WorkState
  <2>2. QED
    BY <2>1, SettledType DEF OnStageClosed
<1>4. QED
  BY <1>1, <1>2, <1>3

-----------------------------------------------------------------------------
(* What a handler reads, and what it leaves itself to do. *)

LEMMA AttemptType ==
  ASSUME work \in WorkType, NEW c \in Container
  PROVE  Attempt(c) \in Nat
BY DEF Attempt, WorkType

LEMMA MissingType ==
  ASSUME NEW c \in Container
  PROVE  Missing(c) \subseteq Waypoint \cup Output \cup Role
BY EngineAssumption DEF Missing, Direct

LEMMA ProducedType ==
  ASSUME TypeOK, NEW c \in Container
  PROVE  Produced(c) \subseteq Output
<1>1. \A r \in Opened : runs[r].arts \subseteq Output
  BY EngineAssumption DEF TypeOK, RunType, Opened, RunId
<1>2. \A e \in Container : outcome[e].produced \subseteq Output
  BY DEF TypeOK, OutcomeType
<1> DEFINE ofRuns == UNION {runs[r].arts : r \in CreditedRuns(c)}
           ofStages == UNION {outcome[e].produced :
                         e \in {d \in Direct(c) \cap Container : ClosedNow(d)}}
<1>3. ofRuns \subseteq Output
  <2>1. CreditedRuns(c) \subseteq Opened
    BY DEF CreditedRuns
  <2>2. QED
    BY <1>1, <2>1
<1>4. ofStages \subseteq Output
  BY <1>2
<1>5. Produced(c) = ofRuns \cup ofStages
  BY DEF Produced
<1> HIDE DEF ofRuns, ofStages
<1>6. QED
  BY <1>3, <1>4, <1>5

LEMMA ReservingType ==
  ASSUME NEW l \in Leaf, NEW from \in {"submit", "claim", "reevaluate"},
         NEW split \in BOOLEAN
  PROVE  /\ Reserving(l, from, split) \in StepType
         /\ Reserving(l, from, split).op = "reserve"
         /\ Reserving(l, from, split).at = l
<1>1. Entering(l) \subseteq Container
  BY AncestorsType DEF Entering, Waypoint
<1>2. QED
  BY <1>1 DEF Reserving, Idle, StepType, StepOp, Waypoint

LEMMA CascadingType ==
  ASSUME NEW c \in Container, NEW l \in Leaf, NEW from \in {"claim", "reevaluate"}
  PROVE  /\ Cascading(c, l, from) \in StepType
         /\ Cascading(c, l, from).op = "cascade"
         /\ Cascading(c, l, from).at = c
         /\ Cascading(c, l, from).leaf = l
         /\ Cascading(c, l, from).from = from
BY DEF Cascading, Idle, StepType, StepOp, Waypoint

LEMMA IdleType == Idle \in StepType /\ Idle.op = "idle"
BY DEF Idle, StepType, StepOp

\* What TypeOK says of the two variables an advance leaves behind.
StepTyped  == step \in StepType /\ StepFits
ApartTyped == apart \subseteq [after : Leaf \ {LastLeaf},
                               from : {"claim", "reevaluate"}]

LEMMA AdvanceType ==
  ASSUME TypeOK, NEW l \in Leaf, NEW from \in {"claim", "reevaluate"},
         Advance(l, from)
  PROVE  StepTyped' /\ ApartTyped'
<1>1. CASE l = LastLeaf
  BY <1>1, IdleType DEF Advance, StepTyped, ApartTyped, StepFits, TypeOK
<1>2. CASE l # LastLeaf
  <2>1. LeafAfter(l) \in Leaf
    BY <1>2, LeafAfterType
  <2>2. CASE LeafAfter(l) \in Orienting
    <3>1. /\ step' = Idle
          /\ apart' = apart \cup {[after |-> l, from |-> from]}
      BY <1>2, <2>2 DEF Advance
    <3>2. StepTyped'
      BY <3>1, IdleType DEF StepTyped, StepFits
    <3>3. ApartTyped'
      BY <1>2, <3>1 DEF ApartTyped, TypeOK
    <3>4. QED
      BY <3>2, <3>3
  <2>3. CASE LeafAfter(l) \notin Orienting
    <3>1. step' = Reserving(LeafAfter(l), from, FALSE) /\ UNCHANGED apart
      BY <1>2, <2>3 DEF Advance
    <3>2. /\ step' \in StepType
          /\ step'.op = "reserve"
          /\ step'.at \in Leaf
      <4>1. from \in {"submit", "claim", "reevaluate"}
        OBVIOUS
      <4>2. QED
        BY <2>1, <3>1, <4>1, ReservingType, Zenon
    <3>3. StepTyped'
      BY <3>2 DEF StepTyped, StepFits
    <3>4. QED
      BY <3>1, <3>3 DEF ApartTyped, TypeOK
  <2>4. QED
    BY <2>2, <2>3
<1>3. QED
  BY <1>1, <1>2

LEMMA CloseOrAdvanceType ==
  ASSUME TypeOK, NEW l \in Leaf, CloseOrAdvance(l)
  PROVE  StepTyped' /\ ApartTyped'
<1>1. CASE Chain[l] # <<>> /\ LastChild[Chain[l][1]] = l
  <2>1. Chain[l][1] \in Container
    BY <1>1, ParentType DEF Waypoint
  <2>2. step' = Cascading(Chain[l][1], l, "claim") /\ UNCHANGED apart
    BY <1>1 DEF CloseOrAdvance
  <2>3. QED
    BY <2>1, <2>2, CascadingType DEF StepTyped, ApartTyped, StepFits, TypeOK
<1>2. CASE ~(Chain[l] # <<>> /\ LastChild[Chain[l][1]] = l)
  <2>1. Advance(l, "claim")
    BY <1>2 DEF CloseOrAdvance
  <2>2. QED
    BY <2>1, AdvanceType
<1>3. QED
  BY <1>1, <1>2

-----------------------------------------------------------------------------
(* Every action keeps the types. *)

LEMMA InitType == Init => TypeOK
<1> SUFFICES ASSUME Init PROVE TypeOK
  OBVIOUS
<1>1. OnWorkSubmitted \in WorkType
  BY DEF OnWorkSubmitted, WorkType, WorkState, NoCause
<1>2. LeafOrder[1] \in Leaf
  BY RouteAssumption
<1>3. StepTyped
  BY <1>2, ReservingType DEF Init, StepTyped, StepFits
<1>4. NoRun \in RunType /\ NoOutcome \in OutcomeType /\ NoChild \in ChildType
  BY DEF NoRun, RunType, RunStatus, NoOutcome, OutcomeType, NoChild, ChildType
<1>5. NoCancel \in [phase : {"idle", "children"}, todo : SUBSET Child]
  BY DEF NoCancel
<1>6. /\ work \in WorkType
      /\ runs \in [RunId -> RunType]
      /\ outcome \in [Container -> OutcomeType]
      /\ child \in [Child -> ChildType]
  BY <1>1, <1>4 DEF Init
<1>7. /\ opened \in 0..MaxRuns
      /\ crashes \in 0..MaxCrashes
      /\ faults \in 0..MaxFaults
      /\ \A r \in Opened : runs[r].waypoint \in Leaf
  BY EngineAssumption DEF Init, Opened
<1>8. \A k \in Child : child[k].status = "None"
  BY DEF Init, NoChild
<1>9. QED
  BY <1>3, <1>5, <1>6, <1>7, <1>8 DEF Init, TypeOK, StepTyped

LEMMA FileDoneType ==
  ASSUME TypeOK, NEW r \in RunId, NEW arts \in SUBSET Output, NEW auto \in BOOLEAN,
         FileDone(r, arts, auto)
  PROVE  TypeOK'
<1>1. runs[r].waypoint \in Leaf
  BY DEF FileDone, ValidDone, TypeOK
<1>2. work' \in WorkType
  BY <1>1, WorkArmsType DEF FileDone, TypeOK
<1>3. StepTyped' /\ ApartTyped'
  BY <1>1, CloseOrAdvanceType DEF FileDone
<1>4. runs' \in [RunId -> RunType] /\ \A q \in Opened : runs'[q].waypoint \in Leaf
  <2> DEFINE claimed == [runs[r] EXCEPT !.status = "Claimed",
                                        !.arts = arts, !.auto = auto]
  <2>1. claimed \in RunType /\ claimed.waypoint = runs[r].waypoint
    BY DEF TypeOK, RunType, RunStatus
  <2>2. runs' = [runs EXCEPT ![r] = claimed]
    BY DEF FileDone
  <2> HIDE DEF claimed
  <2>3. QED
    BY <1>1, <2>1, <2>2 DEF TypeOK
<1>5. QED
  BY <1>2, <1>3, <1>4
     DEF FileDone, TypeOK, StepTyped, ApartTyped, daemonVars, Opened

LEMMA FileDoneUnrecordedType ==
  ASSUME TypeOK, NEW r \in RunId, NEW arts \in SUBSET Output, NEW auto \in BOOLEAN,
         FileDoneUnrecorded(r, arts, auto)
  PROVE  TypeOK'
<1>1. runs[r].waypoint \in Leaf
  BY DEF FileDoneUnrecorded, ValidDone, TypeOK
<1>2. StepTyped' /\ ApartTyped'
  BY <1>1, CloseOrAdvanceType DEF FileDoneUnrecorded
<1>3. faults' \in 0..MaxFaults
  BY EngineAssumption DEF FileDoneUnrecorded, TypeOK
<1>4. QED
  BY <1>2, <1>3
     DEF FileDoneUnrecorded, TypeOK, StepTyped, ApartTyped, journalVars, Opened

\* What the steps that only move the Work keep.
LEMMA WorkOnlyType ==
  ASSUME TypeOK, work' \in WorkType,
         UNCHANGED <<runs, opened, outcome, child, flightVars, daemonVars>>
  PROVE  TypeOK'
BY DEF TypeOK, StepFits, flightVars, daemonVars, Opened

LEMMA FileQuestionType ==
  ASSUME TypeOK, NEW r \in RunId, FileQuestion(r)
  PROVE  TypeOK'
BY WorkOnlyType, RunArmsType, LastLeafInLeaf DEF FileQuestion, TypeOK

LEMMA FileOutOfBoundaryType ==
  ASSUME TypeOK, NEW r \in RunId, FileOutOfBoundary(r)
  PROVE  TypeOK'
<1>1. runs[r].waypoint \in Leaf /\ IsLatest(r) \in BOOLEAN
  BY DEF FileOutOfBoundary, TypeOK, IsLatest
<1>2. work' \in WorkType
  BY <1>1, RunArmsType DEF FileOutOfBoundary, TypeOK
<1>3. QED
  BY <1>2, WorkOnlyType DEF FileOutOfBoundary

LEMMA ObserveType ==
  ASSUME TypeOK, NEW r \in RunId, Observe(r)
  PROVE  TypeOK'
BY WorkOnlyType, RunArmsType, LastLeafInLeaf DEF Observe, TypeOK

LEMMA GiveUpType == ASSUME TypeOK, GiveUp PROVE TypeOK'
BY WorkOnlyType, WorkArmsType, LastLeafInLeaf DEF GiveUp, TypeOK

LEMMA RunStatusType ==
  ASSUME TypeOK, NEW r \in RunId, NEW s \in RunStatus,
         runs' = [runs EXCEPT ![r].status = s]
  PROVE  runs' \in [RunId -> RunType] /\ \A q \in Opened : runs'[q].waypoint \in Leaf
BY DEF TypeOK, RunType, Opened, RunId

LEMMA RunFailsType ==
  ASSUME TypeOK, NEW r \in RunId, RunFails(r)
  PROVE  TypeOK'
<1>1. work' \in WorkType
  BY RunArmsType, LastLeafInLeaf DEF RunFails, TypeOK
<1>2. runs' \in [RunId -> RunType] /\ \A q \in Opened : runs'[q].waypoint \in Leaf
  BY RunStatusType DEF RunFails, RunStatus
<1>3. QED
  BY <1>1, <1>2 DEF RunFails, TypeOK, StepFits, flightVars, daemonVars, Opened

LEMMA RunVanishesType ==
  ASSUME TypeOK, NEW r \in RunId, RunVanishes(r)
  PROVE  TypeOK'
<1>1. work' \in WorkType
  BY RunArmsType, LastLeafInLeaf DEF RunVanishes, TypeOK
<1>2. runs' \in [RunId -> RunType] /\ \A q \in Opened : runs'[q].waypoint \in Leaf
  BY RunStatusType DEF RunVanishes, RunStatus
<1>3. QED
  BY <1>1, <1>2 DEF RunVanishes, TypeOK, StepFits, flightVars, daemonVars, Opened

LEMMA CloseContainerType == ASSUME TypeOK, CloseContainer PROVE TypeOK'
<1> DEFINE c == step.at
           closed == [kind |-> "closed", attempt |-> Attempt(c), missing |-> {},
                      produced |-> Produced(c), credit |-> CreditedRuns(c)]
<1>1. c \in Container /\ step.leaf \in Leaf /\ step.from \in {"claim", "reevaluate"}
  BY DEF CloseContainer, TypeOK, StepFits
<1>2. Attempt(c) \in Nat
  BY <1>1, AttemptType DEF TypeOK
<1>3. closed \in OutcomeType
  <2>1. CreditedRuns(c) \subseteq RunId
    BY EngineAssumption DEF CreditedRuns, Opened, RunId, TypeOK
  <2>2. Produced(c) \subseteq Output
    BY <1>1, ProducedType
  <2>3. QED
    BY <1>2, <2>1, <2>2 DEF OutcomeType
<1>4. outcome' \in [Container -> OutcomeType]
  BY <1>3 DEF CloseContainer, TypeOK
<1>5. work' \in WorkType
  BY <1>1, <1>2, ContainerArmsType DEF CloseContainer, TypeOK
<1>6. StepTyped' /\ ApartTyped'
  <2>1. CASE Chain[c] # <<>> /\ LastChild[Chain[c][1]] = c
    <3>1. Chain[c][1] \in Container
      BY <1>1, <2>1, ParentType DEF Waypoint
    <3>2. step' = [step EXCEPT !.at = Chain[c][1]] /\ UNCHANGED apart
      BY <2>1 DEF CloseContainer
    <3>3. step.op = "cascade"
      BY DEF CloseContainer
    <3>4. QED
      BY <1>1, <3>1, <3>2, <3>3
         DEF StepTyped, ApartTyped, StepFits, StepType, TypeOK, Waypoint
  <2>2. CASE ~(Chain[c] # <<>> /\ LastChild[Chain[c][1]] = c)
    <3>1. Advance(step.leaf, step.from)
      BY <2>2 DEF CloseContainer
    <3>2. QED
      BY <1>1, <3>1, AdvanceType
  <2>3. QED
    BY <2>1, <2>2
<1>7. UNCHANGED <<runs, opened, child, failing, reeval, cancel, daemonVars>>
  BY DEF CloseContainer
<1>8. QED
  BY <1>4, <1>5, <1>6, <1>7 DEF TypeOK, StepTyped, ApartTyped, daemonVars, Opened

LEMMA HoldContainerType == ASSUME TypeOK, HoldContainer PROVE TypeOK'
<1> DEFINE c == step.at
           held == [kind |-> "held", attempt |-> Attempt(c),
                    missing |-> Missing(c), produced |-> {}, credit |-> {}]
<1>1. c \in Container
  BY DEF HoldContainer, TypeOK, StepFits
<1>2. /\ Attempt(c) \in Nat
      /\ Missing(c) \in SUBSET (Waypoint \cup Output \cup Role)
  BY <1>1, AttemptType, MissingType DEF TypeOK
<1>3. held \in OutcomeType
  BY <1>2 DEF OutcomeType
<1>4. OnStageHeld(work, c, Attempt(c), Missing(c)) \in WorkType
  BY <1>1, <1>2, ContainerArmsType DEF TypeOK
<1>5. \/ UNCHANGED <<work, outcome>>
      \/ /\ outcome' = [outcome EXCEPT ![c] = held]
         /\ work' = OnStageHeld(work, c, Attempt(c), Missing(c))
  BY Zenon DEF HoldContainer
<1>6. work' \in WorkType /\ outcome' \in [Container -> OutcomeType]
  <2>1. work \in WorkType /\ outcome \in [Container -> OutcomeType]
    BY DEF TypeOK
  <2> HIDE DEF c, held
  <2>2. QED
    BY <1>3, <1>4, <1>5, <2>1
<1>7. StepTyped'
  BY IdleType DEF HoldContainer, StepTyped, StepFits
<1>8. UNCHANGED <<runs, opened, child, apart, failing, reeval, cancel, daemonVars>>
  BY DEF HoldContainer
<1>9. QED
  BY <1>6, <1>7, <1>8 DEF TypeOK, StepTyped, daemonVars, Opened

\* What the steps keep that only move the Work and the handler's own step.
LEMMA WorkStepType ==
  ASSUME TypeOK, work' \in WorkType, StepTyped',
         UNCHANGED <<runs, opened, outcome, child, apart, failing, reeval, cancel,
                     daemonVars>>
  PROVE  TypeOK'
BY DEF TypeOK, StepTyped, daemonVars, Opened

LEMMA ActivateContainerType ==
  ASSUME TypeOK, NEW c \in step.todo, ActivateContainer(c)
  PROVE  TypeOK'
<1>1. c \in Container
  BY DEF TypeOK, StepType
<1>2. work' \in WorkType
  BY <1>1, ContainerArmsType DEF ActivateContainer, TypeOK
<1>3. StepTyped'
  BY DEF ActivateContainer, StepTyped, StepFits, StepType, TypeOK
<1>4. QED
  BY <1>2, <1>3, WorkStepType DEF ActivateContainer

LEMMA ReserveLeafType == ASSUME TypeOK, ReserveLeaf PROVE TypeOK'
<1>1. step.at \in Leaf
  BY DEF ReserveLeaf, TypeOK, StepFits
<1>2. work' \in WorkType
  BY <1>1, WorkArmsType DEF ReserveLeaf, TypeOK
<1>3. StepTyped'
  BY <1>1 DEF ReserveLeaf, StepTyped, StepFits, StepType, StepOp, TypeOK
<1>4. QED
  BY <1>2, <1>3, WorkStepType DEF ReserveLeaf

LEMMA OpenRunType ==
  ASSUME TypeOK, NEW l \in Leaf, opened < MaxRuns, OpenRun(l)
  PROVE  TypeOK'
<1> DEFINE new == [NoRun EXCEPT !.waypoint = l, !.status = "Open"]
<1>1. new \in RunType /\ new.waypoint = l
  BY DEF NoRun, RunType, RunStatus
<1>2. opened' \in 0..MaxRuns /\ opened' = opened + 1 /\ opened + 1 \in RunId
  BY EngineAssumption DEF OpenRun, TypeOK, RunId
<1>3. runs' = [runs EXCEPT ![opened + 1] = new]
  BY DEF OpenRun
<1> HIDE DEF new
<1>4. runs' \in [RunId -> RunType]
  BY <1>1, <1>3 DEF TypeOK
<1>5. \A r \in 1..opened' : runs'[r].waypoint \in Leaf
  <2> TAKE r \in 1..opened'
  <2>1. r \in 1..opened \/ r = opened + 1
    BY <1>2 DEF TypeOK
  <2>2. QED
    BY <1>1, <1>2, <1>3, <2>1 DEF TypeOK, Opened, RunId
<1>6. work' \in WorkType
  BY RunArmsType, LastLeafInLeaf, <1>2 DEF OpenRun, TypeOK
<1>7. StepTyped'
  BY IdleType DEF OpenRun, StepTyped, StepFits
<1>8. UNCHANGED <<outcome, child, apart, failing, reeval, cancel, daemonVars>>
  BY DEF OpenRun
<1>9. QED
  BY <1>2, <1>4, <1>5, <1>6, <1>7, <1>8 DEF TypeOK, StepTyped, daemonVars, Opened

LEMMA OpenReservedType == ASSUME TypeOK, OpenReserved PROVE TypeOK'
BY OpenRunType DEF OpenReserved, TypeOK, StepFits

LEMMA RetryOpenType == ASSUME TypeOK, RetryOpen PROVE TypeOK'
BY OpenRunType DEF RetryOpen, TypeOK, StepFits

LEMMA RefuseReservationType == ASSUME TypeOK, RefuseReservation PROVE TypeOK'
<1>1. work' \in WorkType
  BY WorkArmsType, LastLeafInLeaf DEF RefuseReservation, TypeOK
<1>2. StepTyped'
  BY IdleType DEF RefuseReservation, StepTyped, StepFits
<1>3. failing' \in BOOLEAN
  BY DEF RefuseReservation, TypeOK
<1>4. UNCHANGED <<runs, opened, outcome, child, apart, reeval, cancel, daemonVars>>
  BY DEF RefuseReservation
<1>5. QED
  BY <1>1, <1>2, <1>3, <1>4 DEF TypeOK, StepTyped, daemonVars, Opened

LEMMA RetakeGuardType ==
  ASSUME TypeOK, NEW d \in apart, RetakeGuard(d)
  PROVE  TypeOK'
<1>1. d.after \in Leaf /\ d.after # LastLeaf /\ d.from \in {"submit", "claim", "reevaluate"}
  BY DEF TypeOK
<1>2. LeafAfter(d.after) \in Leaf
  BY <1>1, LeafAfterType
<1>3. /\ step' \in StepType
      /\ step'.op = "reserve"
      /\ step'.at \in Leaf
  BY <1>1, <1>2, ReservingType DEF RetakeGuard
<1>4. StepTyped'
  BY <1>3 DEF StepTyped, StepFits
<1>5. QED
  BY <1>4 DEF RetakeGuard, TypeOK, StepTyped, journalVars, daemonVars, Opened

LEMMA RecordTransitionFailureType ==
  ASSUME TypeOK, RecordTransitionFailure
  PROVE  TypeOK'
<1>1. work' \in WorkType
  BY WorkArmsType, LastLeafInLeaf DEF RecordTransitionFailure, TypeOK
<1>2. QED
  BY <1>1 DEF RecordTransitionFailure, TypeOK, StepFits, daemonVars, Opened

LEMMA RetryType ==
  ASSUME TypeOK, NEW r \in RunId, Retry(r)
  PROVE  TypeOK'
<1>1. runs[r].waypoint \in Leaf
  BY DEF Retry, TypeOK
<1>2. opened < MaxRuns
  <2> DEFINE l == runs[r].waypoint
  <2>1. Position(l) \in 1..Len(LeafOrder)
    BY <1>1, PositionType
  <2>. Len(LeafOrder) \in Nat
    BY RouteAssumption
  <2>2. opened + 1 + Len(LeafOrder) <= MaxRuns + Position(runs[r].waypoint)
    BY DEF Retry, RoomFor
  <2>3. QED
    BY <2>1, <2>2, EngineAssumption DEF TypeOK
<1>3. Ancestors(runs[r].waypoint) \subseteq Container
  BY <1>1, AncestorsType DEF Waypoint
<1>4. /\ Retrying(r) \in StepType
      /\ Retrying(r).op = "retryReserve"
      /\ Retrying(r).at = runs[r].waypoint
      /\ Retrying(r).run = r
  BY <1>1, <1>3 DEF Retrying, Idle, StepType, StepOp, Waypoint
<1>5. StepTyped'
  BY <1>1, <1>2, <1>4 DEF Retry, StepTyped, StepFits, journalVars
<1>6. QED
  BY <1>5, WorkStepType DEF Retry, TypeOK, journalVars

LEMMA RetryReserveType == ASSUME TypeOK, RetryReserve PROVE TypeOK'
<1>1. step.at \in Leaf
  BY DEF RetryReserve, TypeOK, StepFits
<1>2. work' \in WorkType
  BY <1>1, WorkArmsType DEF RetryReserve, TypeOK
<1>3. StepTyped'
  BY <1>1 DEF RetryReserve, StepTyped, StepFits, StepType, StepOp, TypeOK
<1>4. QED
  BY <1>2, <1>3, WorkStepType DEF RetryReserve

LEMMA RetrySupersedeType == ASSUME TypeOK, RetrySupersede PROVE TypeOK'
<1>1. step.run \in RunId /\ step.at \in Leaf
  BY DEF RetrySupersede, TypeOK, StepFits
<1>2. work' \in WorkType
  BY <1>1, RunArmsType DEF RetrySupersede, TypeOK
<1>3. StepTyped'
  BY <1>1 DEF RetrySupersede, StepTyped, StepFits, StepType, StepOp, TypeOK
<1>4. runs' \in [RunId -> RunType] /\ \A q \in Opened : runs'[q].waypoint \in Leaf
  BY <1>1, RunStatusType DEF RetrySupersede, RunStatus
<1>5. QED
  BY <1>2, <1>3, <1>4 DEF RetrySupersede, TypeOK, StepTyped, daemonVars, Opened

\* What the steps of child Works keep.
LEMMA ChildStepType ==
  ASSUME TypeOK, child' \in [Child -> ChildType],
         \A k \in Child : child'[k].status # "None" => child'[k].container \in Container,
         reeval' \subseteq [at : Container, by : {"child", "cancel", "sweep"}],
         cancel' \in [phase : {"idle", "children"}, todo : SUBSET Child],
         UNCHANGED <<journalVars, step, apart, failing, daemonVars>>
  PROVE  TypeOK'
BY DEF TypeOK, StepFits, journalVars, daemonVars, Opened

LEMMA SpawnChildType ==
  ASSUME TypeOK, NEW k \in Child, NEW r \in RunId, NEW c \in Container,
         NEW role \in Role, SpawnChild(k, r, c, role)
  PROVE  TypeOK'
<1> DEFINE spawned == [status |-> "Spawned", container |-> c, role |-> role,
                       attempt |-> Attempt(c), run |-> r]
<1>1. spawned \in ChildType /\ spawned.container = c
  BY AttemptType DEF ChildType, TypeOK
<1>2. child' = [child EXCEPT ![k] = spawned]
  BY DEF SpawnChild
<1>3. UNCHANGED <<journalVars, step, apart, failing, reeval, cancel, daemonVars>>
  BY DEF SpawnChild, flightVars
<1> HIDE DEF spawned
<1>4. QED
  BY <1>1, <1>2, <1>3, ChildStepType DEF TypeOK

LEMMA ChildStatusType ==
  ASSUME TypeOK, NEW k \in Child, child[k].status # "None",
         NEW s \in {"Open", "Completed", "Failed", "Canceled"},
         child' = [child EXCEPT ![k].status = s]
  PROVE  /\ child' \in [Child -> ChildType]
         /\ \A j \in Child : child'[j].status # "None" => child'[j].container \in Container
BY DEF TypeOK, ChildType

LEMMA SubmitChildType ==
  ASSUME TypeOK, NEW k \in Child, SubmitChild(k)
  PROVE  TypeOK'
<1>1. UNCHANGED <<journalVars, step, apart, failing, reeval, cancel, daemonVars>>
  BY DEF SubmitChild, flightVars
<1>2. QED
  BY <1>1, ChildStatusType, ChildStepType DEF SubmitChild, TypeOK

LEMMA EndChildType ==
  ASSUME TypeOK, NEW k \in Child, NEW how \in {"Completed", "Canceled", "Failed"},
         EndChild(k, how)
  PROVE  TypeOK'
<1>1. /\ child' \in [Child -> ChildType]
      /\ \A j \in Child : child'[j].status # "None" => child'[j].container \in Container
  BY ChildStatusType DEF EndChild
<1>2. reeval' \subseteq [at : Container, by : {"child", "cancel", "sweep"}]
  BY DEF EndChild, TypeOK
<1>3. QED
  BY <1>1, <1>2, ChildStepType DEF EndChild, TypeOK

LEMMA CancelChildType ==
  ASSUME TypeOK, NEW k \in Child, CancelChild(k)
  PROVE  TypeOK'
<1>1. cancel' \in [phase : {"idle", "children"}, todo : SUBSET Child]
  BY DEF CancelChild, TypeOK
<1>2. CASE child[k].status = "Open"
  <2>1. /\ child' \in [Child -> ChildType]
        /\ \A j \in Child : child'[j].status # "None" => child'[j].container \in Container
    BY <1>2, ChildStatusType DEF CancelChild
  <2>2. reeval' \subseteq [at : Container, by : {"child", "cancel", "sweep"}]
    BY <1>2 DEF CancelChild, TypeOK
  <2>3. QED
    BY <1>1, <2>1, <2>2, ChildStepType DEF CancelChild
<1>3. CASE child[k].status # "Open"
  BY <1>1, <1>3, ChildStepType DEF CancelChild, TypeOK
<1>4. QED
  BY <1>2, <1>3

LEMMA ReevaluateType ==
  ASSUME TypeOK, NEW t \in reeval, Reevaluate(t)
  PROVE  TypeOK'
<1>1. t.at \in Container
  BY DEF TypeOK
<1>2. LastLeafOf(t.at) \in Leaf
  BY <1>1, LastLeafOfType
<1>3. StepTyped'
  <2>1. CASE step' = Idle
    BY <2>1, IdleType DEF StepTyped, StepFits
  <2>2. CASE step' = Cascading(t.at, LastLeafOf(t.at), "reevaluate")
    BY <1>1, <1>2, <2>2, CascadingType DEF StepTyped, StepFits
  <2>3. QED
    BY <2>1, <2>2 DEF Reevaluate
<1>4. reeval' \subseteq reeval
  BY DEF Reevaluate
<1>5. QED
  BY <1>3, <1>4 DEF Reevaluate, TypeOK, StepTyped, journalVars, daemonVars, Opened

LEMMA CancelReadType ==
  ASSUME TypeOK, NEW cascade \in BOOLEAN, CancelRead(cascade)
  PROVE  TypeOK'
<1>1. cancel' \in [phase : {"idle", "children"}, todo : SUBSET Child]
  BY DEF CancelRead, OpenChildren
<1>2. QED
  BY <1>1, ChildStepType DEF CancelRead, TypeOK

LEMMA CancelWriteType == ASSUME TypeOK, CancelWrite PROVE TypeOK'
<1>1. work' \in WorkType
  BY WorkArmsType, LastLeafInLeaf DEF CancelWrite, TypeOK
<1>2. NoCancel \in [phase : {"idle", "children"}, todo : SUBSET Child]
  BY DEF NoCancel
<1>3. QED
  BY <1>1, <1>2 DEF CancelWrite, TypeOK, StepFits, daemonVars, Opened

LEMMA FalterType == ASSUME TypeOK, Falter PROVE TypeOK'
<1>1. faults' \in 0..MaxFaults
  BY EngineAssumption DEF Falter, TypeOK
<1>2. StepTyped'
  BY IdleType DEF Falter, StepTyped, StepFits
<1>3. QED
  BY <1>1, <1>2 DEF Falter, TypeOK, StepTyped, journalVars, Opened

LEMMA CrashType == ASSUME TypeOK, Crash PROVE TypeOK'
<1>1. crashes' \in 0..MaxCrashes
  BY EngineAssumption DEF Crash, TypeOK
<1>2. StepTyped'
  BY IdleType DEF Crash, StepTyped, StepFits
<1>3. NoCancel \in [phase : {"idle", "children"}, todo : SUBSET Child]
  BY DEF NoCancel
<1>4. QED
  BY <1>1, <1>2, <1>3 DEF Crash, TypeOK, StepTyped, journalVars, Opened

LEMMA RestartType == ASSUME TypeOK, Restart PROVE TypeOK'
<1>1. work.held # NoHold => work.held.waypoint \in Container
  BY DEF TypeOK, WorkType, HoldType
<1>2. reeval' \subseteq [at : Container, by : {"child", "cancel", "sweep"}]
  BY <1>1 DEF Restart
<1>3. QED
  BY <1>2 DEF Restart, TypeOK, StepFits, journalVars, Opened

LEMMA ServeType == ASSUME TypeOK, Serve PROVE TypeOK'
BY DEF Serve, TypeOK, StepFits, journalVars, flightVars, Opened

LEMMA NextType == ASSUME TypeOK, [Next]_vars PROVE TypeOK'
<1>1. CASE Claim
  BY <1>1, FileDoneType, FileDoneUnrecordedType, FileQuestionType,
     FileOutOfBoundaryType DEF Claim
<1>2. CASE Driver
  BY <1>2, RunFailsType, RunVanishesType, ObserveType DEF Driver
<1>3. CASE Operator
  BY <1>3, RetryType, GiveUpType, CancelReadType DEF Operator
<1>4. CASE Children
  BY <1>4, SpawnChildType, SubmitChildType, EndChildType DEF Children
<1>5. CASE Internal
  BY <1>5, CloseContainerType, HoldContainerType, ActivateContainerType,
     ReserveLeafType, OpenReservedType, RefuseReservationType, RetakeGuardType,
     RecordTransitionFailureType, RetryReserveType, RetrySupersedeType,
     RetryOpenType, ReevaluateType, CancelChildType, CancelWriteType,
     RestartType, ServeType DEF Internal
<1>6. CASE Falter \/ Crash
  BY <1>6, FalterType, CrashType
<1>7. CASE UNCHANGED vars
  BY <1>7 DEF vars, journalVars, flightVars, daemonVars, TypeOK, StepFits, Opened
<1>8. QED
  BY <1>1, <1>2, <1>3, <1>4, <1>5, <1>6, <1>7 DEF Next

\* Type correctness: for every Route load_route accepts and every bound, the
\* journal's fold and the daemon's own state keep their types.
THEOREM TypeCorrect == Spec => []TypeOK
BY InitType, NextType, PTL DEF Spec

-----------------------------------------------------------------------------
(***************************************************************************)
(* A replaced Run stays replaced, for every Route and every bound.         *)
(*                                                                         *)
(* The argument: a Run's status changes in three ways only.  A Claim or a  *)
(* driver's report moves a Run that nothing has replaced; the retry that   *)
(* replaces a Run names one that is open already; and a new Run takes an   *)
(* identifier no Run has had.  The last needs an invariant, RunsFit.       *)
(***************************************************************************)

(* The invariant. *)

\* Nothing stands at an identifier not yet given out, and a retry at work
\* replaces a Run that was opened.
RunsFit ==
  /\ \A r \in RunId : r > opened => runs[r] = NoRun
  /\ step.op \in {"retryReserve", "retrySupersede"} => step.run \in Opened

\* Where an advance leaves the handler.
LEMMA AdvanceStep ==
  ASSUME TypeOK, NEW l \in Leaf, NEW from \in {"claim", "reevaluate"},
         Advance(l, from)
  PROVE  step'.op \in {"idle", "reserve"}
<1>1. step' = Idle \/ step' = Reserving(LeafAfter(l), from, FALSE)
  BY DEF Advance
<1>2. Reserving(LeafAfter(l), from, FALSE).op = "reserve"
  BY DEF Reserving, Idle
<1>3. QED
  BY <1>1, <1>2, IdleType

LEMMA CloseOrAdvanceStep ==
  ASSUME TypeOK, NEW l \in Leaf, CloseOrAdvance(l)
  PROVE  /\ step'.op \in {"idle", "reserve", "cascade"}
         /\ step'.op = "cascade" => Chain[l] # <<>>
<1>1. CASE Chain[l] # <<>> /\ LastChild[Chain[l][1]] = l
  <2>1. step' = Cascading(Chain[l][1], l, "claim")
    BY <1>1 DEF CloseOrAdvance
  <2>2. QED
    BY <1>1, <2>1 DEF Cascading, Idle
<1>2. CASE ~(Chain[l] # <<>> /\ LastChild[Chain[l][1]] = l)
  <2>1. Advance(l, "claim")
    BY <1>2 DEF CloseOrAdvance
  <2>2. QED
    BY <2>1, AdvanceStep
<1>3. QED
  BY <1>1, <1>2

-----------------------------------------------------------------------------
(* How a step may change the Runs. *)

SameRuns == UNCHANGED <<runs, opened>>

\* One Run, already open, moves on, and not out of Retried.
OneRunMoves ==
  \E r \in Opened, new \in RunType :
    /\ runs' = [runs EXCEPT ![r] = new]
    /\ opened' = opened
    /\ runs[r].status = "Retried" => new.status = "Retried"

NewRun == \E l \in Leaf : opened < MaxRuns /\ OpenRun(l)

\* What each action leaves the handler to do.
Onward ==
  \/ step' = step
  \/ step'.op \in {"idle", "reserve", "cascade", "open", "retryOpen"}
  \/ step'.op \in {"retryReserve", "retrySupersede"} /\ step'.run \in Opened

LEMMA StatusMove ==
  ASSUME TypeOK, NEW r \in Opened, NEW s \in RunStatus,
         runs' = [runs EXCEPT ![r].status = s], opened' = opened,
         runs[r].status = "Retried" => s = "Retried"
  PROVE  OneRunMoves
<1> DEFINE new == [runs[r] EXCEPT !.status = s]
<1>1. r \in RunId
  BY EngineAssumption DEF TypeOK, Opened, RunId
<1>2. new \in RunType /\ new.status = s
  BY <1>1 DEF TypeOK, RunType
<1>3. runs' = [runs EXCEPT ![r] = new]
  OBVIOUS
<1> HIDE DEF new
<1>4. QED
  BY <1>2, <1>3 DEF OneRunMoves

LEMMA ClaimRuns ==
  ASSUME TypeOK, RunsFit, Claim
  PROVE  (SameRuns \/ OneRunMoves) /\ Onward
<1>1. ASSUME NEW r \in RunId, NEW arts \in SUBSET Output, NEW auto \in BOOLEAN,
             FileDone(r, arts, auto)
      PROVE  OneRunMoves /\ Onward
  <2>1. r \in Opened /\ runs[r].status # "Retried" /\ runs[r].waypoint \in Leaf
    BY <1>1 DEF FileDone, ValidDone, Claimable, TypeOK
  <2> DEFINE new == [runs[r] EXCEPT !.status = "Claimed", !.arts = arts,
                                    !.auto = auto]
  <2>2. new \in RunType
    <3>1. runs[r] \in RunType
      BY DEF TypeOK
    <3>2. QED
      BY <3>1 DEF RunType, RunStatus
  <2>3. runs' = [runs EXCEPT ![r] = new] /\ opened' = opened
    BY <1>1 DEF FileDone
  <2> HIDE DEF new
  <2>4. OneRunMoves
    BY <2>1, <2>2, <2>3 DEF OneRunMoves
  <2>5. Onward
    BY <1>1, <2>1, CloseOrAdvanceStep DEF FileDone, Onward
  <2>6. QED
    BY <2>4, <2>5
<1>2. ASSUME NEW r \in RunId, NEW arts \in SUBSET Output, NEW auto \in BOOLEAN,
             FileDoneUnrecorded(r, arts, auto)
      PROVE  SameRuns /\ Onward
  <2>1. runs[r].waypoint \in Leaf
    BY <1>2 DEF FileDoneUnrecorded, ValidDone, TypeOK
  <2>2. QED
    BY <1>2, <2>1, CloseOrAdvanceStep
       DEF FileDoneUnrecorded, journalVars, SameRuns, Onward
<1>3. ASSUME NEW r \in RunId, FileQuestion(r) \/ FileOutOfBoundary(r)
      PROVE  SameRuns /\ Onward
  BY <1>3 DEF FileQuestion, FileOutOfBoundary, flightVars, SameRuns, Onward
<1>4. QED
  BY <1>1, <1>2, <1>3 DEF Claim

LEMMA DriverRuns ==
  ASSUME TypeOK, Driver
  PROVE  (SameRuns \/ OneRunMoves) /\ Onward
<1>1. ASSUME NEW r \in RunId, RunFails(r)
      PROVE  OneRunMoves /\ Onward
  BY <1>1, StatusMove DEF RunFails, Driven, RunStatus, flightVars, Onward
<1>2. ASSUME NEW r \in RunId, RunVanishes(r)
      PROVE  OneRunMoves /\ Onward
  BY <1>2, StatusMove DEF RunVanishes, Driven, RunStatus, flightVars, Onward
<1>3. ASSUME NEW r \in RunId, Observe(r)
      PROVE  SameRuns /\ Onward
  BY <1>3 DEF Observe, flightVars, SameRuns, Onward
<1>4. QED
  BY <1>1, <1>2, <1>3 DEF Driver

LEMMA RequestRuns ==
  ASSUME TypeOK, Operator \/ Children
  PROVE  SameRuns /\ Onward
<1>1. ASSUME NEW r \in RunId, Retry(r)
      PROVE  SameRuns /\ Onward
  BY <1>1 DEF Retry, Retrying, Idle, journalVars, SameRuns, Onward
<1>2. ASSUME GiveUp \/ \E cascade \in BOOLEAN : CancelRead(cascade)
      PROVE  SameRuns /\ Onward
  BY <1>2 DEF GiveUp, CancelRead, flightVars, journalVars, SameRuns, Onward
<1>3. ASSUME Children
      PROVE  SameRuns /\ Onward
  BY <1>3 DEF Children, SpawnChild, SubmitChild, EndChild, flightVars,
              journalVars, SameRuns, Onward
<1>4. QED
  BY <1>1, <1>2, <1>3 DEF Operator

LEMMA InternalRuns ==
  ASSUME TypeOK, RunsFit, Internal
  PROVE  (SameRuns \/ OneRunMoves \/ NewRun) /\ Onward
<1>1. ASSUME CloseContainer
      PROVE  SameRuns /\ Onward
  <2>1. step.op = "cascade" /\ step.leaf \in Leaf
        /\ step.from \in {"claim", "reevaluate"}
    BY <1>1 DEF CloseContainer, TypeOK, StepFits
  <2>2. \/ step' = [step EXCEPT !.at = Chain[step.at][1]]
        \/ Advance(step.leaf, step.from)
    BY <1>1 DEF CloseContainer
  <2>3. step'.op \in {"idle", "reserve", "cascade"}
    BY <2>1, <2>2, AdvanceStep DEF TypeOK, StepType
  <2>4. QED
    BY <1>1, <2>3 DEF CloseContainer, SameRuns, Onward
<1>2. ASSUME HoldContainer \/ ReserveLeaf \/ RefuseReservation
      PROVE  SameRuns /\ Onward
  BY <1>2, IdleType DEF HoldContainer, ReserveLeaf, RefuseReservation, TypeOK,
                       StepType, SameRuns, Onward
<1>3. ASSUME NEW c \in step.todo, ActivateContainer(c)
      PROVE  SameRuns /\ Onward
  BY <1>3 DEF ActivateContainer, RunsFit, TypeOK, StepType, SameRuns, Onward
<1>4. ASSUME OpenReserved
      PROVE  NewRun /\ Onward
  <2>1. step.at \in Leaf /\ opened < MaxRuns
    BY <1>4 DEF OpenReserved, TypeOK, StepFits
  <2>2. step' = Idle
    BY <1>4 DEF OpenReserved, OpenRun
  <2>3. QED
    BY <1>4, <2>1, <2>2, IdleType DEF OpenReserved, NewRun, Onward
<1>5. ASSUME RetryOpen
      PROVE  NewRun /\ Onward
  <2>1. step.at \in Leaf /\ opened < MaxRuns
    BY <1>5 DEF RetryOpen, TypeOK, StepFits
  <2>2. step' = Idle
    BY <1>5 DEF RetryOpen, OpenRun
  <2>3. QED
    BY <1>5, <2>1, <2>2, IdleType DEF RetryOpen, NewRun, Onward
<1>6. ASSUME RetryReserve
      PROVE  SameRuns /\ Onward
  BY <1>6 DEF RetryReserve, RunsFit, TypeOK, StepType, SameRuns, Onward
<1>7. ASSUME RetrySupersede
      PROVE  OneRunMoves /\ Onward
  <2>1. step.run \in Opened
    BY <1>7 DEF RetrySupersede, RunsFit
  <2>2. OneRunMoves
    BY <1>7, <2>1, StatusMove DEF RetrySupersede, RunStatus
  <2>3. QED
    BY <1>7, <2>2 DEF RetrySupersede, TypeOK, StepType, Onward
<1>8. ASSUME NEW d \in apart, RetakeGuard(d)
      PROVE  SameRuns /\ Onward
  BY <1>8 DEF RetakeGuard, Reserving, Idle, journalVars, SameRuns, Onward
<1>9. ASSUME NEW t \in reeval, Reevaluate(t)
      PROVE  SameRuns /\ Onward
  BY <1>9 DEF Reevaluate, Cascading, Idle, journalVars, SameRuns, Onward
<1>10. ASSUME RecordTransitionFailure \/ CancelWrite \/ Restart \/ Serve
              \/ \E k \in Child : CancelChild(k)
       PROVE  SameRuns /\ Onward
  BY <1>10 DEF RecordTransitionFailure, CancelWrite, Restart, Serve, CancelChild,
               flightVars, journalVars, SameRuns, Onward
<1>11. QED
  BY <1>1, <1>2, <1>3, <1>4, <1>5, <1>6, <1>7, <1>8, <1>9, <1>10 DEF Internal

\* Every step changes the Runs in one of the three ways, or not at all.
LEMMA RunsChange ==
  ASSUME TypeOK, RunsFit, [Next]_vars
  PROVE  (SameRuns \/ OneRunMoves \/ NewRun) /\ Onward
<1>1. ASSUME Falter \/ Crash
      PROVE  SameRuns /\ Onward
  BY <1>1, IdleType DEF Falter, Crash, journalVars, SameRuns, Onward
<1>2. ASSUME UNCHANGED vars
      PROVE  SameRuns /\ Onward
  BY <1>2 DEF vars, journalVars, flightVars, SameRuns, Onward
<1>3. QED
  BY <1>1, <1>2, ClaimRuns, DriverRuns, RequestRuns, InternalRuns DEF Next

-----------------------------------------------------------------------------
(* The invariant is inductive. *)

LEMMA InitRunsFit == Init => RunsFit
BY DEF Init, RunsFit, Reserving, Idle

LEMMA OpenRunFits ==
  ASSUME TypeOK, NewRun
  PROVE  /\ opened' = opened + 1
         /\ \A r \in RunId : r # opened + 1 => runs'[r] = runs[r]
BY DEF TypeOK, NewRun, OpenRun

LEMMA NextRunsFit ==
  ASSUME TypeOK, RunsFit, [Next]_vars
  PROVE  RunsFit'
<1>1. (SameRuns \/ OneRunMoves \/ NewRun) /\ Onward
  BY RunsChange
<1>2. opened \in Nat /\ opened' \in Nat /\ opened <= opened'
  BY <1>1, OpenRunFits DEF SameRuns, OneRunMoves, TypeOK
<1>3. ASSUME NEW r \in RunId, r > opened'
      PROVE  runs'[r] = NoRun
  <2>1. r \in Nat /\ r > opened
    BY <1>2, <1>3, EngineAssumption DEF RunId
  <2>2. runs[r] = NoRun
    BY <2>1 DEF RunsFit
  <2>3. runs'[r] = runs[r]
    <3>1. CASE SameRuns
      BY <3>1 DEF SameRuns
    <3>2. CASE OneRunMoves
      BY <2>1, <3>2 DEF OneRunMoves, Opened, TypeOK
    <3>3. CASE NewRun
      BY <1>3, <2>1, <3>3, OpenRunFits
    <3>4. QED
      BY <1>1, <3>1, <3>2, <3>3
  <2>4. QED
    BY <2>2, <2>3
<1>4. ASSUME step'.op \in {"retryReserve", "retrySupersede"}
      PROVE  step'.run \in Opened'
  <2>1. step'.run \in Opened
    BY <1>1, <1>4 DEF Onward, RunsFit
  <2>2. QED
    BY <1>2, <2>1 DEF Opened
<1>5. QED
  BY <1>3, <1>4 DEF RunsFit

-----------------------------------------------------------------------------

LEMMA RetriedStep ==
  ASSUME TypeOK, RunsFit, [Next]_vars
  PROVE  \A r \in RunId : runs[r].status = "Retried" => runs'[r].status = "Retried"
<1> SUFFICES ASSUME NEW r \in RunId, runs[r].status = "Retried"
             PROVE  runs'[r].status = "Retried"
  OBVIOUS
<1>1. CASE SameRuns
  BY <1>1 DEF SameRuns
<1>2. CASE OneRunMoves
  BY <1>2 DEF OneRunMoves, TypeOK
<1>3. CASE NewRun
  <2>1. opened + 1 > opened /\ opened \in Nat
    BY DEF TypeOK
  <2>2. r # opened + 1
    BY <2>1 DEF RunsFit, NoRun
  <2>3. QED
    BY <1>3, <2>2, OpenRunFits
<1>4. QED
  BY <1>1, <1>2, <1>3, RunsChange

\* For every Route and every bound, no step of any handler, driver, crash or
\* restart takes a Run that a retry replaced out of Retried (validate_claim).
THEOREM RetriedForGood == Spec => RetriedStays
<1>1. Init => TypeOK /\ RunsFit
  BY InitType, InitRunsFit
<1>2. TypeOK /\ RunsFit /\ [Next]_vars => (TypeOK /\ RunsFit)'
  BY NextType, NextRunsFit
<1>3. TypeOK /\ RunsFit /\ [Next]_vars
        => [\A r \in RunId : runs[r].status = "Retried"
                               => runs'[r].status = "Retried"]_vars
  BY RetriedStep
<1>4. QED
  BY <1>1, <1>2, <1>3, PTL DEF Spec, RetriedStays

-----------------------------------------------------------------------------
(***************************************************************************)
(* A Work left Waiting can be found again, for every Route, every bound    *)
(* and every crash, as long as no advance gives up the journal guard (no   *)
(* leaf orients) and no Claim goes unrecorded.  Without the first the      *)
(* property is false: an advance resumed after the guard was dropped       *)
(* reopens the container a Waiting Work is held at.                        *)
(*                                                                         *)
(* The argument: a hold always is its container's last outcome, in the     *)
(* container's current generation.  Reopening a container is what could    *)
(* break that, so the invariant says who reopens: a reservation, on a Work *)
(* that is not Waiting, and a retry, only containers that are closed.      *)
(***************************************************************************)

(* The invariant. *)

HoldIsCurrent ==
  \A c \in Container : work.held.waypoint = c =>
    /\ work.held.attempt = Attempt(c)
    /\ HeldNow(c)
    /\ outcome[c].missing = work.held.missing

WaitingHasHold == work.state = "Waiting" => work.held # NoHold

\* Nobody reserves a leaf of a Waiting Work but a retry, which reopens closed
\* containers only; and a cascade runs on a Work that is not over.
StepIsSafe ==
  /\ step.op \in {"reserve", "open"} => work.state # "Waiting"
  /\ step.op = "cascade" => Live
  /\ step.op = "retryReserve" => \A c \in step.todo : outcome[c].kind = "closed"

WaitInv ==
  /\ TypeOK
  /\ HoldIsCurrent
  /\ WaitingHasHold
  /\ StepIsSafe
  /\ apart = {}

\* A hold names a container, and only the absent hold does not.
LEMMA HoldNames ==
  ASSUME TypeOK
  PROVE  /\ work.held # NoHold => work.held.waypoint \in Container
         /\ NoHold.waypoint \notin Container
BY RouteAssumption DEF TypeOK, WorkType, HoldType, NoHold, Waypoint

-----------------------------------------------------------------------------
(* Arms that neither hold, close nor reopen a container. *)

Calm(w, v) ==
  /\ v.held = w.held
  /\ v.activation = w.activation
  /\ v.state = w.state \/ v.state # "Waiting"

LEMMA CalmArms ==
  ASSUME NEW w \in WorkType, NEW r \in RunId, NEW l \in Leaf,
         NEW latest \in BOOLEAN, NEW why \in Reason
  PROVE  /\ Calm(w, AskHuman(w, r, why))
         /\ Calm(w, OnTurnSeen(w, r))
         /\ Calm(w, OnOutOfBoundary(w, r, l, latest))
         /\ Calm(w, OnDone(w, l))
         /\ Calm(w, OnRunOpened(w))
         /\ Calm(w, OnWorkFailed(w))
         /\ Calm(w, OnWorkCanceled(w))
<1>1. Calm(w, AskHuman(w, r, why)) /\ Calm(w, w)
  BY DEF Calm, AskHuman, WorkType
<1>2. Calm(w, OnTurnSeen(w, r)) /\ Calm(w, OnRunOpened(w))
  BY DEF Calm, OnTurnSeen, OnRunOpened, WorkType
<1>3. ASSUME NEW s \in {"Active", "Completed", "Failed", "Canceled"}
      PROVE  Calm(w, Settled([w EXCEPT !.state = s]))
  BY <1>3 DEF Calm, Settled, WorkType
<1>4. Calm(w, OnOutOfBoundary(w, r, l, latest))
  <2>1. Calm(w, AskHuman(w, r, "out_of_boundary"))
    BY DEF Calm, AskHuman, WorkType
  <2>2. QED
    BY <1>1, <2>1 DEF OnOutOfBoundary
<1>5. QED
  BY <1>1, <1>2, <1>3, <1>4 DEF OnDone, OnWorkFailed, OnWorkCanceled

\* A calm step of the Work keeps what is said of its hold.
LEMMA CalmStep ==
  ASSUME WaitInv, TypeOK', Calm(work, work'), UNCHANGED outcome
  PROVE  HoldIsCurrent' /\ WaitingHasHold'
<1>1. HoldIsCurrent'
  BY DEF WaitInv, HoldIsCurrent, Calm, HeldNow, Attempt
<1>2. WaitingHasHold'
  BY DEF WaitInv, WaitingHasHold, Calm
<1>3. QED
  BY <1>1, <1>2

\* A handler that returns leaves nothing to be unsafe.
LEMMA IdleIsSafe == ASSUME step' = Idle PROVE StepIsSafe'
BY IdleType DEF StepIsSafe

LEMMA CalmReturn ==
  ASSUME WaitInv, TypeOK', Calm(work, work'), UNCHANGED <<outcome, apart>>,
         step' = Idle
  PROVE  WaitInv'
BY CalmStep, IdleIsSafe DEF WaitInv

\* Steps that touch neither the Work nor the handler.
LEMMA Untouched ==
  ASSUME WaitInv, TypeOK', UNCHANGED <<work, outcome, apart, step>>
  PROVE  WaitInv'
BY DEF WaitInv, HoldIsCurrent, WaitingHasHold, StepIsSafe, HeldNow, Attempt, Live

-----------------------------------------------------------------------------
(* Claims and what a Run's driver records. *)

LEMMA AdvanceKeepsGuard ==
  ASSUME Orienting = {}, NEW l, NEW from, Advance(l, from)
  PROVE  UNCHANGED apart
BY DEF Advance

LEMMA FileDoneWaits ==
  ASSUME Orienting = {}, WaitInv, TypeOK', NEW r \in RunId,
         NEW arts \in SUBSET Output, NEW auto \in BOOLEAN, FileDone(r, arts, auto)
  PROVE  WaitInv'
<1> DEFINE l == runs[r].waypoint
<1>1. l \in Leaf /\ Live /\ work \in WorkType /\ work' = OnDone(work, l)
  BY DEF FileDone, ValidDone, WaitInv, TypeOK
<1>2. HoldIsCurrent' /\ WaitingHasHold'
  <2>1. Calm(work, OnDone(work, l))
    BY <1>1, CalmArms DEF Reason
  <2>2. UNCHANGED outcome
    BY DEF FileDone
  <2>3. Calm(work, work')
    BY <1>1, <2>1
  <2>4. QED
    BY <2>2, <2>3, CalmStep
<1>3. work'.state \in {"Active", "Completed"}
  BY <1>1 DEF OnDone, Settled, Live, WorkType
<1>4. Chain[l] # <<>> => work'.state = "Active"
  BY <1>1 DEF OnDone, Settled, Live, WorkType
<1>5. CloseOrAdvance(l)
  BY DEF FileDone
<1>6. StepIsSafe'
  <2>1. /\ step'.op \in {"idle", "reserve", "cascade"}
        /\ step'.op = "cascade" => Chain[l] # <<>>
    BY <1>1, <1>5, CloseOrAdvanceStep DEF WaitInv
  <2>2. QED
    BY <1>3, <1>4, <2>1 DEF StepIsSafe, Live, Terminal
<1>7. apart' = {}
  BY <1>5, AdvanceKeepsGuard DEF CloseOrAdvance, WaitInv
<1>8. QED
  BY <1>2, <1>6, <1>7 DEF WaitInv

LEMMA ClaimWaits ==
  ASSUME Orienting = {}, LoseClaims = FALSE, WaitInv, TypeOK', Claim
  PROVE  WaitInv'
<1>1. ASSUME NEW r \in RunId, FileQuestion(r)
      PROVE  WaitInv'
  <2>1. Calm(work, work')
    BY <1>1, CalmArms, LastLeafInLeaf DEF FileQuestion, OnQuestion, Reason, WaitInv, TypeOK
  <2>2. QED
    BY <1>1, <2>1, CalmReturn DEF FileQuestion, Serving, flightVars
<1>2. ASSUME NEW r \in RunId, FileOutOfBoundary(r)
      PROVE  WaitInv'
  <2>1. runs[r].waypoint \in Leaf /\ IsLatest(r) \in BOOLEAN
    BY <1>2 DEF FileOutOfBoundary, IsLatest, WaitInv, TypeOK
  <2>2. Calm(work, work')
    BY <1>2, <2>1, CalmArms DEF FileOutOfBoundary, Reason, WaitInv, TypeOK
  <2>3. QED
    BY <1>2, <2>2, CalmReturn DEF FileOutOfBoundary, Serving, flightVars
<1>3. ~ \E r \in RunId, arts \in SUBSET Output, auto \in BOOLEAN :
          FileDoneUnrecorded(r, arts, auto)
  BY DEF FileDoneUnrecorded
<1>4. QED
  BY <1>1, <1>2, <1>3, FileDoneWaits DEF Claim

LEMMA DriverWaits ==
  ASSUME WaitInv, TypeOK', Driver
  PROVE  WaitInv'
<1>1. ASSUME NEW r \in RunId, RunFails(r) \/ RunVanishes(r) \/ Observe(r)
      PROVE  Calm(work, work')
  BY <1>1, CalmArms, LastLeafInLeaf
     DEF RunFails, RunVanishes, Observe, OnRunFailed, OnRunVanished, OnBlocked,
         OnNoProgress, Reason, WaitInv, TypeOK
<1>2. ASSUME NEW r \in RunId, RunFails(r) \/ RunVanishes(r) \/ Observe(r)
      PROVE  UNCHANGED <<outcome, apart>> /\ step' = Idle
  BY <1>2 DEF RunFails, RunVanishes, Observe, Driven, Serving, flightVars
<1>3. QED
  BY <1>1, <1>2, CalmReturn DEF Driver

-----------------------------------------------------------------------------
(* Requests of the operator and of child Works. *)

LEMMA OperatorWaits ==
  ASSUME WaitInv, TypeOK', Operator
  PROVE  WaitInv'
<1>1. ASSUME NEW r \in RunId, Retry(r)
      PROVE  WaitInv'
  <2>1. UNCHANGED <<work, outcome, apart>> /\ step' = Retrying(r)
    BY <1>1 DEF Retry, journalVars
  <2>2. /\ Retrying(r).op = "retryReserve"
        /\ \A c \in Retrying(r).todo : outcome[c].kind = "closed"
    BY DEF Retrying, Idle, ClosedNow
  <2>3. StepIsSafe'
    BY <2>1, <2>2 DEF StepIsSafe
  <2>4. Calm(work, work')
    BY <2>1 DEF Calm
  <2>5. QED
    BY <2>1, <2>3, <2>4, CalmStep DEF WaitInv
<1>2. ASSUME GiveUp
      PROVE  WaitInv'
  <2>1. Calm(work, work')
    BY <1>2, CalmArms, LastLeafInLeaf, EngineAssumption
       DEF GiveUp, Reason, RunId, WaitInv, TypeOK
  <2>2. QED
    BY <1>2, <2>1, CalmReturn DEF GiveUp, Serving, flightVars
<1>3. ASSUME NEW cascade \in BOOLEAN, CancelRead(cascade)
      PROVE  WaitInv'
  BY <1>3, Untouched DEF CancelRead, journalVars
<1>4. QED
  BY <1>1, <1>2, <1>3 DEF Operator

LEMMA ChildrenWait ==
  ASSUME WaitInv, TypeOK', Children
  PROVE  WaitInv'
<1>1. UNCHANGED <<work, outcome, apart, step>>
  BY DEF Children, SpawnChild, SubmitChild, EndChild, journalVars, flightVars
<1>2. QED
  BY <1>1, Untouched

-----------------------------------------------------------------------------
(* Containers: closing, holding and reopening. *)

LEMMA CloseContainerWaits ==
  ASSUME Orienting = {}, WaitInv, TypeOK', CloseContainer
  PROVE  WaitInv'
<1> DEFINE c == step.at
<1>1. /\ c \in Container
      /\ step.op = "cascade"
      /\ step.leaf \in Leaf
      /\ step.from \in {"claim", "reevaluate"}
      /\ Live
      /\ work \in WorkType
      /\ outcome \in [Container -> OutcomeType]
  BY DEF CloseContainer, WaitInv, TypeOK, StepFits, StepIsSafe
<1>2. /\ work' = OnStageClosed(work, c, Attempt(c))
      /\ \A e \in Container : e # c => outcome'[e] = outcome[e]
  BY <1>1 DEF CloseContainer
<1>3. /\ work'.activation = work.activation
      /\ work'.state = IF Chain[c] = <<>> /\ TopLast = c THEN "Completed" ELSE "Active"
      /\ work'.held = IF work.held.waypoint = c /\ work.held.attempt = Attempt(c)
                      THEN NoHold ELSE work.held
  BY <1>1, <1>2 DEF OnStageClosed, Settled, Live, WorkType
<1>4. HoldIsCurrent'
  <2> SUFFICES ASSUME NEW e \in Container, work'.held.waypoint = e
               PROVE  /\ work'.held.attempt = Attempt(e)'
                      /\ HeldNow(e)'
                      /\ outcome'[e].missing = work'.held.missing
    BY DEF HoldIsCurrent
  <2>1. work'.held = work.held
    BY <1>3, HoldNames DEF WaitInv
  <2>2. /\ work.held.attempt = Attempt(e)
        /\ HeldNow(e)
        /\ outcome[e].missing = work.held.missing
    BY <2>1 DEF HoldIsCurrent, WaitInv
  <2>3. e # c
    BY <1>3, <2>1, <2>2, HoldNames DEF WaitInv
  <2>4. outcome'[e] = outcome[e] /\ Attempt(e)' = Attempt(e)
    BY <1>2, <1>3, <2>3 DEF Attempt
  <2>5. QED
    BY <2>1, <2>2, <2>4 DEF HeldNow
<1>5. WaitingHasHold'
  BY <1>3 DEF WaitingHasHold
<1>6. StepIsSafe' /\ apart' = {}
  <2>1. CASE Chain[c] # <<>> /\ LastChild[Chain[c][1]] = c
    <3>1. step' = [step EXCEPT !.at = Chain[c][1]] /\ UNCHANGED apart
      BY <2>1 DEF CloseContainer
    <3>2. step'.op = "cascade" /\ work'.state = "Active"
      BY <1>1, <1>3, <2>1, <3>1 DEF WaitInv, TypeOK, StepType
    <3>3. QED
      BY <3>1, <3>2 DEF StepIsSafe, Live, Terminal, WaitInv
  <2>2. CASE ~(Chain[c] # <<>> /\ LastChild[Chain[c][1]] = c)
    <3>1. Advance(step.leaf, step.from)
      BY <2>2 DEF CloseContainer
    <3>2. step'.op \in {"idle", "reserve"} /\ UNCHANGED apart
      BY <1>1, <3>1, AdvanceStep, AdvanceKeepsGuard DEF WaitInv
    <3>3. QED
      BY <1>3, <3>2 DEF StepIsSafe, WaitInv
  <2>3. QED
    BY <2>1, <2>2
<1>7. QED
  BY <1>4, <1>5, <1>6 DEF WaitInv

LEMMA HoldContainerWaits ==
  ASSUME WaitInv, TypeOK', HoldContainer
  PROVE  WaitInv'
<1> DEFINE c == step.at
           hold == [waypoint |-> c, attempt |-> Attempt(c), missing |-> Missing(c)]
           held == [kind |-> "held", attempt |-> Attempt(c),
                    missing |-> Missing(c), produced |-> {}, credit |-> {}]
<1>1. /\ c \in Container
      /\ Live
      /\ work \in WorkType
      /\ outcome \in [Container -> OutcomeType]
  BY DEF HoldContainer, WaitInv, TypeOK, StepFits, StepIsSafe
<1>2. step' = Idle /\ UNCHANGED apart
  BY DEF HoldContainer
<1>3. CASE UNCHANGED <<work, outcome>>
  <2>1. Calm(work, work')
    BY <1>3 DEF Calm
  <2>2. QED
    BY <1>2, <1>3, <2>1, CalmReturn
<1>4. CASE /\ outcome' = [outcome EXCEPT ![c] = held]
           /\ work' = OnStageHeld(work, c, Attempt(c), Missing(c))
  <2>1. work'.held = hold /\ work'.activation = work.activation
    BY <1>1, <1>4 DEF OnStageHeld, Settled, Live, WorkType
  <2>2. outcome'[c] = held
    BY <1>1, <1>4
  <2>3. \A e \in Container : Attempt(e)' = Attempt(e)
    BY <2>1 DEF Attempt
  <2>4. HoldIsCurrent'
    <3> SUFFICES ASSUME NEW e \in Container, work'.held.waypoint = e
                 PROVE  /\ work'.held.attempt = Attempt(e)'
                        /\ HeldNow(e)'
                        /\ outcome'[e].missing = work'.held.missing
      BY DEF HoldIsCurrent
    <3>1. e = c
      BY <2>1
    <3>2. outcome'[e] = held /\ held.attempt = Attempt(e) /\ Attempt(e)' = Attempt(e)
      BY <2>2, <2>3, <3>1
    <3>3. QED
      BY <2>1, <3>1, <3>2 DEF HeldNow
  <2>5. hold # NoHold
    BY <1>1, RouteAssumption DEF NoHold, Waypoint
  <2>6. WaitingHasHold'
    BY <2>1, <2>5 DEF WaitingHasHold
  <2>7. QED
    BY <1>2, <2>4, <2>6, IdleIsSafe DEF WaitInv
<1>5. QED
  BY <1>3, <1>4, Zenon DEF HoldContainer

\* Reopening c drops a hold of an older generation of c, and no other.
LEMMA ActivateContainerWaits ==
  ASSUME WaitInv, TypeOK', NEW c \in step.todo, ActivateContainer(c)
  PROVE  WaitInv'
<1>1. /\ c \in Container
      /\ work \in WorkType
      /\ work' = OnActivated(work, c)
      /\ step' = [step EXCEPT !.todo = @ \ {c}]
      /\ step.op \in {"reserve", "retryReserve"}
      /\ UNCHANGED <<outcome, apart>>
  BY DEF ActivateContainer, WaitInv, TypeOK, StepType
<1>2. /\ work'.state = work.state
      /\ work'.activation = [work.activation EXCEPT ![c] = @ + 1]
      /\ work'.held = IF work.held.waypoint = c
                         /\ work.held.attempt < work.activation[c] + 1
                      THEN NoHold ELSE work.held
  BY <1>1 DEF OnActivated, WorkType
<1>3. \A e \in Container : work.held.waypoint = e =>
        /\ work.held.attempt = Attempt(e)
        /\ HeldNow(e)
        /\ outcome[e].missing = work.held.missing
  BY DEF WaitInv, HoldIsCurrent
<1>4. ASSUME NEW e \in Container, work'.held.waypoint = e
      PROVE  work'.held = work.held /\ Attempt(e)' = Attempt(e)
  <2>1. work'.held = work.held
    BY <1>2, <1>4, HoldNames DEF WaitInv
  <2>2. CASE e # c
    BY <1>1, <1>2, <2>1, <2>2 DEF Attempt, WorkType
  <2>3. CASE e = c
    <3>1. ~(work.held.attempt < work.activation[c] + 1)
      BY <1>2, <1>4, <2>1, <2>3, HoldNames DEF WaitInv
    <3>2. work.held.attempt = Attempt(c)
      BY <1>3, <1>4, <2>1, <2>3
    <3>3. work.activation[c] \in Nat
      BY <1>1 DEF WorkType
    <3>4. work.activation[c] = 0
      BY <3>1, <3>2, <3>3 DEF Attempt
    <3>5. work'.activation[c] = 1
      BY <1>1, <1>2, <3>4 DEF WorkType
    <3>6. QED
      BY <2>1, <2>3, <3>4, <3>5 DEF Attempt
  <2>4. QED
    BY <2>2, <2>3
<1>5. HoldIsCurrent'
  BY <1>1, <1>3, <1>4 DEF HoldIsCurrent, HeldNow
<1>6. WaitingHasHold'
  <2> SUFFICES ASSUME work'.state = "Waiting" PROVE work'.held # NoHold
    BY DEF WaitingHasHold
  <2>1. step.op = "retryReserve" /\ work.held # NoHold
    BY <1>1, <1>2 DEF WaitInv, StepIsSafe, WaitingHasHold
  <2>2. outcome[c].kind = "closed"
    BY <2>1 DEF WaitInv, StepIsSafe
  <2>3. work.held.waypoint # c
    BY <1>3, <2>1, <2>2, HoldNames DEF HeldNow, WaitInv
  <2>4. QED
    BY <1>2, <2>1, <2>3
<1>7. StepIsSafe'
  <2>1. step'.op = step.op /\ step'.todo \subseteq step.todo
    BY <1>1 DEF WaitInv, TypeOK, StepType
  <2>2. QED
    BY <1>1, <1>2, <2>1 DEF WaitInv, StepIsSafe
<1>8. QED
  BY <1>1, <1>5, <1>6, <1>7 DEF WaitInv

-----------------------------------------------------------------------------
(* Reservations and retries. *)

\* Reserving a leaf of a Waiting Work takes it out of the wait.
LEMMA ReservedWaits ==
  ASSUME WaitInv, TypeOK', NEW l \in Leaf, work' = OnWaypointReserved(work, l),
         UNCHANGED outcome
  PROVE  HoldIsCurrent' /\ WaitingHasHold' /\ work'.state # "Waiting"
<1>1. work \in WorkType
  BY DEF WaitInv, TypeOK
<1>2. CASE work.state \in {"Pending", "Waiting"}
  <2>1. work'.held = NoHold /\ work'.state = "Active"
    BY <1>1, <1>2 DEF OnWaypointReserved, Terminal, WorkType
  <2>2. QED
    BY <2>1, HoldNames DEF HoldIsCurrent, WaitingHasHold, WaitInv
<1>3. CASE work.state \notin {"Pending", "Waiting"}
  <2>1. Calm(work, work') /\ work'.state = work.state
    BY <1>1, <1>3 DEF OnWaypointReserved, Calm, WorkType
  <2>2. QED
    BY <1>3, <2>1, CalmStep
<1>4. QED
  BY <1>2, <1>3

LEMMA ReserveLeafWaits ==
  ASSUME WaitInv, TypeOK', ReserveLeaf
  PROVE  WaitInv'
<1>1. /\ step.at \in Leaf
      /\ step'.op = "open"
      /\ UNCHANGED <<outcome, apart>>
  BY DEF ReserveLeaf, WaitInv, TypeOK, StepFits, StepType
<1>2. HoldIsCurrent' /\ WaitingHasHold' /\ work'.state # "Waiting"
  BY <1>1, ReservedWaits DEF ReserveLeaf
<1>3. QED
  BY <1>1, <1>2 DEF WaitInv, StepIsSafe

LEMMA RetryReserveWaits ==
  ASSUME WaitInv, TypeOK', RetryReserve
  PROVE  WaitInv'
<1>1. /\ step.at \in Leaf
      /\ step'.op = "retrySupersede"
      /\ UNCHANGED <<outcome, apart>>
  BY DEF RetryReserve, WaitInv, TypeOK, StepFits, StepType
<1>2. HoldIsCurrent' /\ WaitingHasHold'
  BY <1>1, ReservedWaits DEF RetryReserve
<1>3. QED
  BY <1>1, <1>2 DEF WaitInv, StepIsSafe

LEMMA RetrySupersedeWaits ==
  ASSUME WaitInv, TypeOK', RetrySupersede
  PROVE  WaitInv'
<1>1. /\ step.run \in RunId
      /\ step'.op = "retryOpen"
      /\ UNCHANGED <<outcome, apart>>
  BY DEF RetrySupersede, WaitInv, TypeOK, StepFits, StepType
<1>2. Calm(work, work')
  BY <1>1, CalmArms, LastLeafInLeaf
     DEF RetrySupersede, OnRunFailed, Reason, WaitInv, TypeOK
<1>3. QED
  BY <1>1, <1>2, CalmStep DEF WaitInv, StepIsSafe

LEMMA OpenRunWaits ==
  ASSUME WaitInv, TypeOK', OpenReserved \/ RetryOpen
  PROVE  WaitInv'
<1>1. /\ work' = OnRunOpened(work)
      /\ step' = Idle
      /\ UNCHANGED <<outcome, apart>>
  BY DEF OpenReserved, RetryOpen, OpenRun
<1>2. Calm(work, work')
  BY <1>1, CalmArms, LastLeafInLeaf, EngineAssumption
     DEF Reason, RunId, WaitInv, TypeOK
<1>3. QED
  BY <1>1, <1>2, CalmReturn

-----------------------------------------------------------------------------
(* The rest of the daemon's own steps. *)

LEMMA WorkFailedCalm ==
  ASSUME WaitInv
  PROVE  /\ Calm(work, OnWorkFailed(work))
         /\ Calm(work, OnWorkCanceled(work))
         /\ Calm(work, work)
<1>1. 1 \in RunId
  BY EngineAssumption DEF RunId
<1>2. QED
  BY <1>1, CalmArms, LastLeafInLeaf DEF Reason, Calm, WaitInv, TypeOK

LEMMA EndingWaits ==
  ASSUME WaitInv, TypeOK', RefuseReservation \/ RecordTransitionFailure \/ CancelWrite
  PROVE  WaitInv'
<1>1. work' \in {work, OnWorkFailed(work), OnWorkCanceled(work)}
  BY DEF RefuseReservation, RecordTransitionFailure, CancelWrite
<1>2. step' = Idle /\ UNCHANGED <<outcome, apart>>
  BY DEF RefuseReservation, RecordTransitionFailure, CancelWrite, Serving
<1>3. QED
  BY <1>1, <1>2, WorkFailedCalm, CalmReturn

LEMMA ReevaluateWaits ==
  ASSUME WaitInv, TypeOK', NEW t \in reeval, Reevaluate(t)
  PROVE  WaitInv'
<1>1. UNCHANGED <<work, outcome, apart>>
  BY DEF Reevaluate, journalVars
<1>2. step'.op = "idle" \/ (step'.op = "cascade" /\ Live)
  BY DEF Reevaluate, Cascading, Idle
<1>3. Calm(work, work')
  BY <1>1 DEF Calm
<1>4. StepIsSafe'
  BY <1>1, <1>2 DEF StepIsSafe, Live
<1>5. QED
  BY <1>1, <1>3, <1>4, CalmStep DEF WaitInv

LEMMA InternalWaits ==
  ASSUME Orienting = {}, WaitInv, TypeOK', Internal
  PROVE  WaitInv'
<1>1. ~ \E d \in apart : RetakeGuard(d)
  BY DEF WaitInv
<1>2. ASSUME Restart \/ Serve \/ \E k \in Child : CancelChild(k)
      PROVE  WaitInv'
  BY <1>2, Untouched DEF Restart, Serve, CancelChild, journalVars, flightVars
<1>3. QED
  BY <1>1, <1>2, CloseContainerWaits, HoldContainerWaits, ActivateContainerWaits,
     ReserveLeafWaits, OpenRunWaits, EndingWaits, RetryReserveWaits,
     RetrySupersedeWaits, ReevaluateWaits
     DEF Internal

LEMMA FailureWaits ==
  ASSUME WaitInv, TypeOK', Falter \/ Crash
  PROVE  WaitInv'
<1>1. UNCHANGED <<work, outcome>> /\ step' = Idle /\ apart' = {}
  BY DEF Falter, Crash, journalVars, WaitInv
<1>2. Calm(work, work')
  BY <1>1 DEF Calm
<1>3. QED
  BY <1>1, <1>2, CalmReturn DEF WaitInv

-----------------------------------------------------------------------------

LEMMA InitWaits == Init => WaitInv
<1> SUFFICES ASSUME Init PROVE WaitInv
  OBVIOUS
<1>1. TypeOK
  BY InitType
<1>2. work.state = "Pending" /\ work.held = NoHold
  BY DEF Init, OnWorkSubmitted
<1>3. step.op = "reserve" /\ apart = {}
  BY DEF Init, Reserving, Idle
<1>4. QED
  BY <1>1, <1>2, <1>3, HoldNames
     DEF WaitInv, HoldIsCurrent, WaitingHasHold, StepIsSafe

LEMMA NextWaits ==
  ASSUME Orienting = {}, LoseClaims = FALSE, WaitInv, [Next]_vars
  PROVE  WaitInv'
<1>1. TypeOK'
  BY NextType DEF WaitInv
<1>2. CASE UNCHANGED vars
  BY <1>1, <1>2, Untouched DEF vars, journalVars, flightVars
<1>3. QED
  BY <1>1, <1>2, ClaimWaits, DriverWaits, OperatorWaits, ChildrenWait,
     InternalWaits, FailureWaits DEF Next

LEMMA WaitInvRecovers == WaitInv => WaitingIsRecoverable
BY HoldNames DEF WaitInv, WaitingHasHold, HoldIsCurrent, WaitingIsRecoverable

\* On every Route without orienting leaves, whatever crashes between two
\* appends, a Work the journal leaves Waiting names a container whose last
\* outcome, in its current generation, is that very hold.
THEOREM WaitRecoverable ==
  ASSUME Orienting = {}, LoseClaims = FALSE
  PROVE  Spec => []WaitingIsRecoverable
<1>1. Init => WaitInv
  BY InitWaits
<1>2. WaitInv /\ [Next]_vars => WaitInv'
  BY NextWaits
<1>3. WaitInv => WaitingIsRecoverable
  BY WaitInvRecovers
<1>4. QED
  BY <1>1, <1>2, <1>3, PTL DEF Spec

-----------------------------------------------------------------------------
(***************************************************************************)
(* One line of Runs, for every Route without orienting leaves or child     *)
(* Works, when every Claim is recorded.                                    *)
(*                                                                         *)
(* The argument: a Run that can be claimed is the only one, of the leaf    *)
(* the Work stands at, and while there is one no handler advances the Work *)
(* (RunsLine).  A handler advances past the leaf that has just been        *)
(* claimed, and a retry supersedes the Run it names before it opens another*)
(* (StepLine).  First come lemmas about the tree (TreeAssumption): which   *)
(* container the end of a leaf closes, and which leaf comes next.          *)
(***************************************************************************)

(* The Route is a tree. *)

\* The chain of an ancestor is the rest of the waypoint's own chain.
LEMMA ChainRest ==
  ASSUME NEW n \in Waypoint, NEW i \in 1..Len(Chain[n])
  PROVE  /\ Chain[n][i] \in Container
         /\ Chain[n][i] \in Ancestors(n)
         /\ Len(Chain[Chain[n][i]]) = Len(Chain[n]) - i
         /\ \A k \in 1..Len(Chain[Chain[n][i]]) : Chain[Chain[n][i]][k] = Chain[n][i + k]
<1>1. Chain[n] \in Seq(Container)
  BY RouteAssumption
<1>2. Chain[Chain[n][i]] = SubSeq(Chain[n], i + 1, Len(Chain[n]))
  BY TreeAssumption
<1>3. Len(Chain[n]) \in Nat /\ \A k \in i + 1 .. Len(Chain[n]) : Chain[n][k] \in Container
  BY <1>1
<1>4. /\ Len(SubSeq(Chain[n], i + 1, Len(Chain[n]))) =
           IF i + 1 <= Len(Chain[n]) THEN Len(Chain[n]) - (i + 1) + 1 ELSE 0
      /\ \A k \in 1 .. Len(Chain[n]) - (i + 1) + 1 :
           SubSeq(Chain[n], i + 1, Len(Chain[n]))[k] = Chain[n][i + 1 + k - 1]
  BY <1>1, <1>3, SubSeqProperties, i + 1 \in Int, Len(Chain[n]) \in Int
<1>5. Chain[n][i] \in Container /\ Chain[n][i] \in Ancestors(n)
  BY <1>1 DEF Ancestors
<1> QED
  BY <1>2, <1>3, <1>4, <1>5

LEMMA AncestorsNest ==
  ASSUME NEW n \in Waypoint, NEW c \in Ancestors(n)
  PROVE  c \in Container /\ c \in Waypoint /\ Ancestors(c) \subseteq Ancestors(n) /\ c \notin Ancestors(c)
<1>1. PICK i \in 1..Len(Chain[n]) : c = Chain[n][i]
  BY DEF Ancestors
<1>2. /\ c \in Container
      /\ Len(Chain[c]) = Len(Chain[n]) - i
      /\ \A k \in 1..Len(Chain[c]) : Chain[c][k] = Chain[n][i + k]
  BY <1>1, ChainRest
<1>3. Len(Chain[n]) \in Nat /\ Len(Chain[c]) \in Nat
  BY <1>2, RouteAssumption DEF Waypoint
<1>4. \A k \in 1..Len(Chain[c]) : i + k \in 1..Len(Chain[n])
  BY <1>2, <1>3
<1>5. Ancestors(c) \subseteq Ancestors(n)
  BY <1>2, <1>4 DEF Ancestors
<1>6. ASSUME c \in Ancestors(c) PROVE FALSE
  <2>1. PICK j \in 1..Len(Chain[c]) : c = Chain[c][j]
    BY <1>6 DEF Ancestors
  <2>2. Len(Chain[c]) = Len(Chain[c]) - j
    BY <1>2, <2>1, ChainRest DEF Waypoint
  <2> QED
    BY <1>3, <2>2
<1> QED
  BY <1>2, <1>5, <1>6 DEF Waypoint

\* Of two containers around a waypoint one is around the other.
LEMMA AncestorsCompare ==
  ASSUME NEW n \in Waypoint, NEW c \in Ancestors(n), NEW d \in Ancestors(n)
  PROVE  c = d \/ c \in Ancestors(d) \/ d \in Ancestors(c)
<1>1. PICK i \in 1..Len(Chain[n]) : c = Chain[n][i]
  BY DEF Ancestors
<1>2. PICK j \in 1..Len(Chain[n]) : d = Chain[n][j]
  BY DEF Ancestors
<1>3. Len(Chain[n]) \in Nat
  BY RouteAssumption
<1>4. ASSUME NEW p \in 1..Len(Chain[n]), NEW q \in 1..Len(Chain[n]), p < q
      PROVE  Chain[n][q] \in Ancestors(Chain[n][p])
  <2>1. Len(Chain[Chain[n][p]]) = Len(Chain[n]) - p
    BY ChainRest
  <2>2. q - p \in 1..Len(Chain[Chain[n][p]])
    BY <1>3, <1>4, <2>1
  <2>3. Chain[Chain[n][p]][q - p] = Chain[n][p + (q - p)]
    BY <2>2, ChainRest
  <2>4. p + (q - p) = q
    BY <1>3
  <2> QED
    BY <2>3, <2>4, <2>2 DEF Ancestors
<1>5. i < j \/ i = j \/ j < i
  BY <1>3
<1> QED
  BY <1>1, <1>2, <1>4, <1>5

\* The immediate parent stands between a waypoint and its other ancestors.
LEMMA ParentFirst ==
  ASSUME NEW n \in Waypoint, Chain[n] # <<>>
  PROVE  /\ Chain[n][1] \in Container
         /\ Ancestors(n) = {Chain[n][1]} \cup Ancestors(Chain[n][1])
<1> DEFINE p == Chain[n][1]
<1>1. Len(Chain[n]) \in Nat /\ 1 \in 1..Len(Chain[n])
  BY RouteAssumption
<1>2. /\ p \in Container /\ p \in Ancestors(n) /\ p \in Waypoint
      /\ Len(Chain[p]) = Len(Chain[n]) - 1
      /\ \A k \in 1..Len(Chain[p]) : Chain[p][k] = Chain[n][1 + k]
  BY <1>1, ChainRest DEF Waypoint
<1>3. Ancestors(p) \subseteq Ancestors(n)
  BY <1>2, AncestorsNest
<1>4. ASSUME NEW c \in Ancestors(n), c # p
      PROVE  c \in Ancestors(p)
  <2>1. PICK i \in 1..Len(Chain[n]) : c = Chain[n][i]
    BY DEF Ancestors
  <2>2. i - 1 \in 1..Len(Chain[p]) /\ 1 + (i - 1) = i
    BY <1>1, <1>2, <1>4, <2>1
  <2> QED
    BY <1>2, <2>1, <2>2 DEF Ancestors
<1> QED
  BY <1>2, <1>3, <1>4

LEMMA NoParent ==
  ASSUME NEW n \in Waypoint
  PROVE  Chain[n] = <<>> <=> Ancestors(n) = {}
<1>1. Chain[n] \in Seq(Container) /\ Len(Chain[n]) \in Nat
  BY RouteAssumption
<1>2. Chain[n] # <<>> => 1 \in 1..Len(Chain[n])
  BY <1>1
<1> QED
  BY <1>1, <1>2 DEF Ancestors

\* Every waypoint stands in one element of the top level.
LEMMA TopElement ==
  ASSUME NEW n \in Waypoint, Chain[n] # <<>>
  PROVE  \E t \in Ancestors(n) : Chain[t] = <<>>
<1>1. Chain[n] \in Seq(Container) /\ Len(Chain[n]) \in Nat /\ Len(Chain[n]) \in 1..Len(Chain[n])
  BY RouteAssumption
<1> DEFINE t == Chain[n][Len(Chain[n])]
<1>2. t \in Container /\ t \in Ancestors(n) /\ Len(Chain[t]) = Len(Chain[n]) - Len(Chain[n])
  BY <1>1, ChainRest
<1>3. Chain[t] \in Seq(Container)
  BY <1>2, RouteAssumption DEF Waypoint
<1>4. Chain[t] = <<>>
  BY <1>1, <1>2, <1>3
<1> QED
  BY <1>2, <1>4

\* A waypoint inside a container is its direct child, or inside one.
LEMMA PathDown ==
  ASSUME NEW n \in Waypoint, NEW c \in Ancestors(n)
  PROVE  n \in Direct(c) \/ \E d \in Direct(c) : d \in Ancestors(n)
<1>1. PICK i \in 1..Len(Chain[n]) : c = Chain[n][i]
  BY DEF Ancestors
<1>2. Len(Chain[n]) \in Nat /\ Chain[n] \in Seq(Container)
  BY RouteAssumption
<1>3. CASE i = 1
  BY <1>1, <1>2, <1>3 DEF Direct
<1>4. CASE i # 1
  <2> DEFINE d == Chain[n][i - 1]
  <2>1. i - 1 \in 1..Len(Chain[n])
    BY <1>2, <1>4
  <2>2. /\ d \in Container /\ d \in Ancestors(n)
        /\ Len(Chain[d]) = Len(Chain[n]) - (i - 1)
        /\ \A k \in 1..Len(Chain[d]) : Chain[d][k] = Chain[n][(i - 1) + k]
    BY <2>1, ChainRest
  <2>3. 1 \in 1..Len(Chain[d]) /\ (i - 1) + 1 = i
    BY <1>2, <2>2
  <2>4. Chain[d][1] = c
    BY <1>1, <2>2, <2>3
  <2>5. Chain[d] # <<>>
    BY <2>3
  <2> QED
    BY <2>2, <2>4, <2>5 DEF Direct, Waypoint
<1> QED
  BY <1>3, <1>4

\* Two direct children of a container have no leaf in common.
LEMMA DirectApart ==
  ASSUME NEW p \in Container, NEW c \in Direct(p), NEW d \in Direct(p), NEW n \in Waypoint,
         c = n \/ c \in Ancestors(n), d = n \/ d \in Ancestors(n)
  PROVE  c = d
<1>1. ASSUME NEW e \in Direct(p)
      PROVE  e \in Waypoint /\ Ancestors(e) = {p} \cup Ancestors(p)
  BY ParentFirst DEF Direct
<1>2. p \notin Ancestors(p)
  BY <1>1, AncestorsNest
<1>3. ASSUME NEW e \in Direct(p), NEW f \in Direct(p)
      PROVE  e \notin Ancestors(f)
  <2> SUFFICES ASSUME e \in Ancestors(f) PROVE FALSE
    OBVIOUS
  <2>1. e = p \/ e \in Ancestors(p)
    BY <1>1
  <2>2. p \in Ancestors(e)
    BY <1>1
  <2>3. p \in Waypoint
    BY DEF Waypoint
  <2>4. Ancestors(e) \subseteq Ancestors(p)
    BY <2>1, <2>3, AncestorsNest
  <2> QED
    BY <1>2, <2>2, <2>4
<1> QED
  BY <1>3, AncestorsCompare

-----------------------------------------------------------------------------
(* Where a subtree ends, and what the next leaf enters. *)

LEMMA Positions ==
  /\ \A l, m \in Leaf : Position(l) = Position(m) => l = m
  /\ Position(LeafOrder[1]) = 1 /\ LeafOrder[1] \in Leaf
  /\ Position(LastLeaf) = Len(LeafOrder)
  /\ Len(LeafOrder) \in Nat
<1>1. Len(LeafOrder) \in Nat /\ 1 \in 1..Len(LeafOrder) /\ Len(LeafOrder) \in 1..Len(LeafOrder)
  BY RouteAssumption
<1>2. LeafOrder[1] \in Leaf
  BY RouteAssumption
<1>3. \A l \in Leaf : Position(l) \in 1..Len(LeafOrder) /\ LeafOrder[Position(l)] = l
  BY PositionType
<1>4. Position(LeafOrder[1]) = 1
  BY <1>1, <1>2, <1>3, RouteAssumption
<1>5. Position(LastLeaf) = Len(LeafOrder)
  BY <1>1, <1>3, LastLeafInLeaf, RouteAssumption DEF LastLeaf
<1> QED
  BY <1>1, <1>2, <1>3, <1>4, <1>5

LEMMA NextPosition ==
  ASSUME NEW l \in Leaf, l # LastLeaf
  PROVE  LeafAfter(l) \in Leaf /\ Position(LeafAfter(l)) = Position(l) + 1
         /\ LeafOrder[Position(LeafAfter(l)) - 1] = l
<1>1. Len(LeafOrder) \in Nat /\ LeafAfter(l) \in Leaf
  BY LeafAfterType, Positions
<1>2. Position(l) \in 1..Len(LeafOrder) /\ LeafOrder[Position(l)] = l
  BY PositionType
<1>3. Position(l) # Len(LeafOrder)
  BY <1>2 DEF LastLeaf
<1>4. Position(l) + 1 \in 1..Len(LeafOrder)
  BY <1>1, <1>2, <1>3
<1>5. Position(LeafAfter(l)) \in 1..Len(LeafOrder)
      /\ LeafOrder[Position(LeafAfter(l))] = LeafAfter(l)
  BY <1>1, PositionType
<1>6. Position(LeafAfter(l)) = Position(l) + 1
  BY <1>4, <1>5, RouteAssumption DEF LeafAfter
<1> QED
  BY <1>1, <1>2, <1>6

\* A subtree has one last leaf.
LEMMA EndsOnce ==
  ASSUME NEW n \in Waypoint
  PROVE  /\ \E l \in Leaf : Ends(n, l)
         /\ \A l, m \in Leaf : Ends(n, l) /\ Ends(n, m) => l = m
<1>1. \E l \in Leaf : Ends(n, l)
  BY NoEmptyContainer DEF Ends, Waypoint
<1>2. ASSUME NEW l \in Leaf, NEW m \in Leaf, IsLastLeafOf(l, n), IsLastLeafOf(m, n)
      PROVE  l = m
  <2>1. Position(l) <= Position(m) /\ Position(m) <= Position(l)
    BY <1>2 DEF IsLastLeafOf
  <2>2. Position(l) \in Nat /\ Position(m) \in Nat
    BY PositionType, Positions
  <2> QED
    BY <2>1, <2>2, Positions
<1> QED
  BY <1>1, <1>2 DEF Ends

\* A container ends where its last child ends.
LEMMA LastChildEnds ==
  ASSUME NEW c \in Container
  PROVE  /\ LastChild[c] \in Direct(c)
         /\ \A l \in Leaf : IsLastLeafOf(l, c) <=> Ends(LastChild[c], l)
         /\ IsLastLeafOf(LastLeafOf(c), c)
         /\ \A l \in Leaf : IsLastLeafOf(l, c) => l = LastLeafOf(c)
<1>1. LastChild[c] \in Direct(c) /\ LastChild[c] \in Waypoint
  BY TreeAssumption, RouteAssumption
<1>2. IsLastLeafOf(LastLeafOf(c), c) /\ LastLeafOf(c) \in Leaf
  BY NoEmptyContainer DEF LastLeafOf
<1>3. c \in Waypoint /\ c \notin Leaf
  BY RouteAssumption DEF Waypoint
<1>4. \A l \in Leaf : IsLastLeafOf(l, c) => l = LastLeafOf(c)
  BY <1>2, <1>3, EndsOnce DEF Ends
<1>5. Ends(LastChild[c], LastLeafOf(c))
  BY <1>2, TreeAssumption
<1>6. \A l \in Leaf : Ends(LastChild[c], l) => l = LastLeafOf(c)
  BY <1>1, <1>2, <1>5, EndsOnce
<1> QED
  BY <1>1, <1>2, <1>4, <1>6, TreeAssumption

\* The last element of the top level ends with the last leaf.
LEMMA TopLastEnds ==
  ASSUME NEW l \in Leaf, Ends(TopLast, l)
  PROVE  l = LastLeaf
BY TreeAssumption, RouteAssumption, EndsOnce, LastLeafInLeaf

\* What the next leaf does not enter is around the leaf before it as well, and
\* does not end with it.
LEMMA EntersRest ==
  ASSUME NEW l \in Leaf, l # LastLeaf, NEW c \in Ancestors(LeafAfter(l))
  PROVE  /\ ~IsLastLeafOf(l, c)
         /\ c \notin Entering(LeafAfter(l)) => c \in Ancestors(l)
<1> DEFINE m == LeafAfter(l)
<1>1. m \in Leaf /\ Position(m) = Position(l) + 1 /\ Position(l) \in Nat
  BY NextPosition, PositionType, Positions
<1>2. ~IsLastLeafOf(l, c)
  BY <1>1 DEF IsLastLeafOf
<1>3. ASSUME FirstLeaf[c] # m
      PROVE  c \in Ancestors(l)
  <2> DEFINE f == FirstLeaf[c]
  <2>1. c \in Container /\ f \in Leaf /\ Position(f) \in Nat
    BY <1>1, AncestorsType, EngineAssumption, PositionType, Positions DEF Waypoint
  <2>2. c \in Ancestors(f) /\ Position(f) <= Position(m)
    BY <1>1, <2>1, TreeAssumption
  <2>3. Position(f) # Position(m)
    BY <1>1, <1>3, <2>1, Positions
  <2>4. Position(f) <= Position(l) /\ Position(l) <= Position(m)
    BY <1>1, <2>1, <2>2, <2>3
  <2> HIDE DEF m, f
  <2> QED
    BY <1>1, <2>1, <2>2, <2>4, TreeAssumption DEF m
<1> QED
  BY <1>2, <1>3 DEF Entering

LEMMA FirstEnters == Entering(LeafOrder[1]) = Ancestors(LeafOrder[1])
<1> DEFINE m == LeafOrder[1]
<1>1. m \in Leaf /\ Position(m) = 1
  BY Positions
<1>2. ASSUME NEW c \in Ancestors(m)
      PROVE  FirstLeaf[c] = m
  <2> DEFINE f == FirstLeaf[c]
  <2>1. c \in Container /\ f \in Leaf /\ Position(f) \in 1..Len(LeafOrder)
    BY <1>1, <1>2, AncestorsType, EngineAssumption, PositionType DEF Waypoint
  <2>2. Position(f) <= Position(m)
    BY <1>1, <1>2, <2>1, TreeAssumption
  <2>3. Position(f) = Position(m)
    BY <1>1, <2>1, <2>2, Positions
  <2> QED
    BY <1>1, <2>1, <2>3, Positions
<1> QED
  BY <1>2 DEF Entering

-----------------------------------------------------------------------------
(* A handler that still has something to do has a Work that is not over, and *)
(* a cascade stands at a container its leaf is the last of.                  *)

Going ==
  /\ TypeOK
  /\ apart = {} /\ ~failing /\ ~step.split
  /\ step.op # "idle" => Live
  /\ step.op = "cascade" => IsLastLeafOf(step.leaf, step.at)

\* The steps that leave the handler with nothing to do, or as it was.
LEMMA GoingRests ==
  ASSUME Going, TypeOK', apart' = {}, ~failing',
         step' = Idle \/ (step' = step /\ work' = work)
  PROVE  Going'
<1>1. CASE step' = Idle
  BY <1>1 DEF Going, Idle
<1>2. CASE step' = step /\ work' = work
  BY <1>2 DEF Going, Live
<1> QED
  BY <1>1, <1>2

\* Where an advance goes when no leaf orients.
LEMMA AdvanceGoes ==
  ASSUME Orienting = {}, NEW l \in Leaf, NEW from, Advance(l, from)
  PROVE  /\ UNCHANGED apart
         /\ \/ step' = Idle /\ l = LastLeaf
            \/ /\ step' = Reserving(LeafAfter(l), from, FALSE)
               /\ step'.op = "reserve" /\ step'.at = LeafAfter(l) /\ l # LastLeaf
               /\ step'.todo = Entering(LeafAfter(l)) /\ step'.from = from /\ ~step'.split
BY DEF Advance, Reserving, Idle

LEMMA CloseOrAdvanceEnds ==
  ASSUME NEW l \in Leaf, CloseOrAdvance(l)
  PROVE  \/ /\ step' = Cascading(Chain[l][1], l, "claim") /\ UNCHANGED apart
            /\ Chain[l] # <<>> /\ Chain[l][1] \in Container
            /\ step'.op = "cascade" /\ step'.at = Chain[l][1] /\ step'.leaf = l
            /\ step'.from = "claim" /\ ~step'.split
            /\ IsLastLeafOf(l, Chain[l][1])
         \/ Advance(l, "claim") /\ (Chain[l] # <<>> => ~IsLastLeafOf(l, Chain[l][1]))
<1>1. l \in Waypoint
  BY DEF Waypoint
<1>2. CASE Chain[l] # <<>> /\ LastChild[Chain[l][1]] = l
  <2>1. Chain[l][1] \in Container /\ step' = Cascading(Chain[l][1], l, "claim") /\ UNCHANGED apart
    BY <1>1, <1>2, ParentType DEF CloseOrAdvance
  <2>2. IsLastLeafOf(l, Chain[l][1])
    BY <1>2, <2>1, LastChildEnds DEF Ends
  <2> QED
    BY <1>2, <2>1, <2>2 DEF Cascading, Idle
<1>3. CASE ~(Chain[l] # <<>> /\ LastChild[Chain[l][1]] = l)
  <2>1. Advance(l, "claim")
    BY <1>3 DEF CloseOrAdvance
  <2>2. ASSUME Chain[l] # <<>>, IsLastLeafOf(l, Chain[l][1])
        PROVE  FALSE
    <3> DEFINE p == Chain[l][1]
    <3>1. p \in Container /\ l \in Direct(p)
      BY <1>1, <2>2, ParentType DEF Direct
    <3>2. LastChild[p] \in Direct(p) /\ Ends(LastChild[p], l)
      BY <2>2, <3>1, LastChildEnds
    <3>3. LastChild[p] = l \/ LastChild[p] \in Ancestors(l)
      BY <3>2 DEF Ends, IsLastLeafOf
    <3>4. LastChild[p] = l
      BY <1>1, <3>1, <3>2, <3>3, DirectApart
    <3> QED
      BY <1>3, <2>2, <3>4
  <2> QED
    BY <2>1, <2>2
<1> QED
  BY <1>2, <1>3

LEMMA CloseOrAdvanceGoes ==
  ASSUME Orienting = {}, NEW l \in Leaf, CloseOrAdvance(l)
  PROVE  /\ UNCHANGED apart
         /\ \/ /\ step' = Cascading(Chain[l][1], l, "claim")
               /\ Chain[l] # <<>> /\ Chain[l][1] \in Container
               /\ step'.op = "cascade" /\ step'.at = Chain[l][1] /\ step'.leaf = l
               /\ step'.from = "claim" /\ ~step'.split
               /\ IsLastLeafOf(l, Chain[l][1])
            \/ Advance(l, "claim") /\ (Chain[l] # <<>> => ~IsLastLeafOf(l, Chain[l][1]))
BY CloseOrAdvanceEnds, AdvanceKeepsGuard

\* What a closed container leaves the cascade to do.
LEMMA CloseEnds ==
  ASSUME TypeOK, step.op = "cascade" => IsLastLeafOf(step.leaf, step.at), CloseContainer
  PROVE  LET c == step.at
             l == step.leaf
         IN /\ c \in Container /\ c \in Ancestors(l) /\ l \in Leaf /\ IsLastLeafOf(l, c)
            /\ step.from \in {"claim", "reevaluate"}
            /\ \/ /\ Chain[c] # <<>> /\ Chain[c][1] \in Container /\ UNCHANGED apart
                  /\ step' = [step EXCEPT !.at = Chain[c][1]]
                  /\ step'.op = "cascade" /\ step'.at = Chain[c][1] /\ step'.leaf = l
                  /\ step'.from = step.from /\ step'.split = step.split
                  /\ IsLastLeafOf(l, Chain[c][1])
               \/ /\ Advance(l, step.from)
                  /\ Chain[c] # <<>> => ~IsLastLeafOf(l, Chain[c][1])
<1> DEFINE c == step.at
           l == step.leaf
<1>1. /\ c \in Container /\ l \in Leaf /\ step \in StepType
      /\ step.from \in {"claim", "reevaluate"} /\ step.op = "cascade"
      /\ IsLastLeafOf(l, c)
  BY DEF CloseContainer, TypeOK, StepFits
<1>2. c \in Ancestors(l) /\ c \in Waypoint /\ l \in Waypoint /\ c \notin Leaf
  BY <1>1, RouteAssumption DEF IsLastLeafOf, Waypoint
<1>3. CASE Chain[c] # <<>> /\ LastChild[Chain[c][1]] = c
  <2>1. Chain[c][1] \in Container /\ step' = [step EXCEPT !.at = Chain[c][1]] /\ UNCHANGED apart
    BY <1>2, <1>3, ParentType DEF CloseContainer
  <2>2. IsLastLeafOf(l, Chain[c][1])
    BY <1>1, <1>2, <1>3, <2>1, LastChildEnds DEF Ends
  <2>3. /\ step'.op = "cascade" /\ step'.at = Chain[c][1] /\ step'.leaf = l
        /\ step'.from = step.from /\ step'.split = step.split
    BY <1>1, <2>1 DEF StepType
  <2> QED
    BY <1>1, <1>2, <1>3, <2>1, <2>2, <2>3
<1>4. CASE ~(Chain[c] # <<>> /\ LastChild[Chain[c][1]] = c)
  <2>1. Advance(l, step.from)
    BY <1>4 DEF CloseContainer
  <2>2. ASSUME Chain[c] # <<>>, IsLastLeafOf(l, Chain[c][1])
        PROVE  FALSE
    <3> DEFINE p == Chain[c][1]
    <3>1. p \in Container /\ c \in Direct(p)
      BY <1>2, <2>2, ParentType DEF Direct
    <3>2. LastChild[p] \in Direct(p) /\ Ends(LastChild[p], l)
      BY <1>1, <2>2, <3>1, LastChildEnds
    <3>3. LastChild[p] = l \/ LastChild[p] \in Ancestors(l)
      BY <3>2 DEF Ends, IsLastLeafOf
    <3>4. LastChild[p] = c
      BY <1>2, <3>1, <3>2, <3>3, DirectApart
    <3> QED
      BY <1>4, <2>2, <3>4
  <2> QED
    BY <1>1, <1>2, <2>1, <2>2
<1> QED
  BY <1>3, <1>4

LEMMA CloseGoes ==
  ASSUME Orienting = {}, Going, CloseContainer
  PROVE  LET c == step.at
             l == step.leaf
         IN /\ UNCHANGED apart
            /\ c \in Container /\ c \in Ancestors(l) /\ l \in Leaf /\ IsLastLeafOf(l, c)
            /\ step.from \in {"claim", "reevaluate"}
            /\ \/ /\ Chain[c] # <<>> /\ Chain[c][1] \in Container
                  /\ step' = [step EXCEPT !.at = Chain[c][1]]
                  /\ step'.op = "cascade" /\ step'.at = Chain[c][1] /\ step'.leaf = l
                  /\ step'.from = step.from /\ ~step'.split
                  /\ IsLastLeafOf(l, Chain[c][1])
               \/ /\ Advance(l, step.from)
                  /\ Chain[c] # <<>> => ~IsLastLeafOf(l, Chain[c][1])
BY CloseEnds, AdvanceKeepsGuard DEF Going

LEMMA GoingInit == Init => Going
BY InitType DEF Init, Going, Live, Terminal, OnWorkSubmitted, Reserving, Idle

LEMMA FileDoneGoing ==
  ASSUME Orienting = {}, Going, TypeOK', NEW r \in RunId, NEW arts \in SUBSET Output,
         NEW auto \in BOOLEAN, FileDone(r, arts, auto)
  PROVE  Going'
<1> DEFINE l == runs[r].waypoint
<1>1. l \in Leaf /\ Live /\ work \in WorkType /\ work' = OnDone(work, l) /\ ~failing'
  BY DEF FileDone, ValidDone, Going, TypeOK
<1>2. l # LastLeaf \/ Chain[l] # <<>> => work'.state = "Active"
  BY <1>1 DEF OnDone, Settled, Live, WorkType
<1>3. CloseOrAdvance(l)
  BY DEF FileDone
<1>4. CASE Advance(l, "claim")
  <2>1. apart' = {}
    BY <1>1, <1>4, AdvanceGoes DEF Going
  <2>2. CASE step' = Idle
    BY <1>1, <2>1, <2>2, GoingRests
  <2>3. CASE step' # Idle
    <3>1. step'.op = "reserve" /\ ~step'.split /\ l # LastLeaf
      BY <1>1, <1>4, <2>3, AdvanceGoes
    <3> QED
      BY <1>1, <1>2, <2>1, <3>1 DEF Going, Live, Terminal
  <2> QED
    BY <2>2, <2>3
<1>5. CASE ~Advance(l, "claim")
  BY <1>1, <1>2, <1>3, <1>5, CloseOrAdvanceGoes DEF Going, Live, Terminal
<1> QED
  BY <1>4, <1>5

LEMMA CloseContainerGoing ==
  ASSUME Orienting = {}, Going, TypeOK', CloseContainer
  PROVE  Going'
<1> DEFINE c == step.at
           l == step.leaf
<1>1. Live /\ work \in WorkType /\ work' = OnStageClosed(work, c, Attempt(c)) /\ ~failing'
  BY DEF CloseContainer, Going, TypeOK
<1>2. work'.state = IF Chain[c] = <<>> /\ TopLast = c THEN "Completed" ELSE "Active"
  BY <1>1 DEF OnStageClosed, Settled, Live, WorkType
<1>3. CASE Advance(l, step.from)
  <2>1. l \in Leaf /\ IsLastLeafOf(l, c) /\ c \notin Leaf
    BY CloseGoes, RouteAssumption
  <2>2. l # LastLeaf => work'.state = "Active"
    BY <1>2, <2>1, TopLastEnds DEF Ends
  <2>3. apart' = {}
    BY <1>3, <2>1, AdvanceGoes DEF Going
  <2>4. CASE step' = Idle
    BY <1>1, <2>3, <2>4, GoingRests
  <2>5. CASE step' # Idle
    <3>1. step'.op = "reserve" /\ ~step'.split /\ l # LastLeaf
      BY <1>3, <2>1, <2>5, AdvanceGoes
    <3> QED
      BY <1>1, <2>2, <2>3, <3>1 DEF Going, Live, Terminal
  <2> QED
    BY <2>4, <2>5
<1>4. CASE ~Advance(l, step.from)
  BY <1>1, <1>2, <1>4, CloseGoes DEF Going, Live, Terminal
<1> QED
  BY <1>3, <1>4

LEMMA GoingNext ==
  ASSUME Orienting = {}, LoseClaims = FALSE, Going, [Next]_vars
  PROVE  Going'
<1>1. TypeOK'
  BY NextType DEF Going
<1>2. CASE Claim
  <2>1. ASSUME NEW r \in RunId, FileQuestion(r) \/ FileOutOfBoundary(r)
        PROVE  Going'
    BY <1>1, <2>1, GoingRests DEF FileQuestion, FileOutOfBoundary, Serving, flightVars, Going
  <2> QED
    BY <1>1, <1>2, <2>1, FileDoneGoing DEF Claim, FileDoneUnrecorded
<1>3. CASE Driver \/ GiveUp
  BY <1>1, <1>3, GoingRests
     DEF Driver, RunFails, RunVanishes, Observe, Driven, GiveUp, Serving, flightVars, Going
<1>4. ASSUME NEW r \in RunId, Retry(r)
      PROVE  Going'
  <2>1. /\ step'.op = "retryReserve" /\ ~step'.split
        /\ UNCHANGED <<work, apart, failing>>
    BY <1>4 DEF Retry, Retrying, Idle, journalVars
  <2>2. Live
    BY <1>4 DEF Retry, RetryAccepted, Live, Terminal
  <2>3. Live'
    BY <2>1, <2>2 DEF Live
  <2>4. apart' = {} /\ ~failing'
    BY <2>1 DEF Going
  <2> QED
    BY <1>1, <2>1, <2>3, <2>4 DEF Going
<1>5. CASE Children \/ \E cascade \in BOOLEAN : CancelRead(cascade)
  BY <1>1, <1>5, GoingRests
     DEF Children, SpawnChild, SubmitChild, EndChild, CancelRead, journalVars, flightVars, Going
<1>6. CASE HoldContainer \/ OpenReserved \/ RetryOpen \/ RefuseReservation \/ CancelWrite
  <2>1. step' = Idle /\ apart' = {}
    BY <1>6 DEF HoldContainer, OpenReserved, RetryOpen, OpenRun, RefuseReservation, CancelWrite,
                Serving, Going
  <2>2. ~failing'
    BY <1>6 DEF HoldContainer, OpenReserved, RetryOpen, OpenRun, RefuseReservation, CancelWrite,
                Going
  <2> QED
    BY <1>1, <2>1, <2>2, GoingRests
<1>7. ASSUME NEW c \in step.todo, ActivateContainer(c)
      PROVE  Going'
  <2>1. step \in StepType /\ work \in WorkType
    BY DEF Going, TypeOK
  <2>2. /\ step'.op = step.op /\ step'.split = step.split /\ step.op # "cascade" /\ step.op # "idle"
        /\ work'.state = work.state /\ UNCHANGED <<apart, failing>>
    BY <1>7, <2>1 DEF ActivateContainer, OnActivated, StepType, WorkType
  <2> QED
    BY <1>1, <2>2 DEF Going, Live
<1>8. CASE ReserveLeaf \/ RetryReserve \/ RetrySupersede
  <2>1. step \in StepType /\ work \in WorkType /\ Live
    BY <1>8 DEF ReserveLeaf, RetryReserve, RetrySupersede, Going, TypeOK
  <2>2. step'.op \in {"open", "retrySupersede", "retryOpen"} /\ step'.split = step.split
        /\ UNCHANGED <<apart, failing>>
    BY <1>8, <2>1 DEF ReserveLeaf, RetryReserve, RetrySupersede, StepType
  <2>3. Live'
    BY <1>8, <2>1 DEF ReserveLeaf, RetryReserve, RetrySupersede, OnWaypointReserved, OnRunFailed,
                      AskHuman, Live, Terminal, WorkType
  <2> QED
    BY <1>1, <2>2, <2>3 DEF Going
<1>9. ASSUME NEW t \in reeval, Reevaluate(t)
      PROVE  Going'
  <2>1. t.at \in Container /\ IsLastLeafOf(LastLeafOf(t.at), t.at)
    BY LastChildEnds DEF Going, TypeOK
  <2>2. UNCHANGED <<work, apart, failing>>
    BY <1>9 DEF Reevaluate, journalVars
  <2> QED
    BY <1>1, <1>9, <2>1, <2>2, GoingRests DEF Reevaluate, Cascading, Idle, Live, Going
<1>10. CASE Restart \/ Serve \/ \E k \in Child : CancelChild(k)
  BY <1>1, <1>10, GoingRests DEF Restart, Serve, CancelChild, journalVars, flightVars, Going
<1>11. CASE Falter \/ Crash
  BY <1>1, <1>11, GoingRests DEF Falter, Crash, Going
<1>12. CASE UNCHANGED vars
  BY <1>1, <1>12, GoingRests DEF vars, journalVars, flightVars, Going
<1>13. ~ RecordTransitionFailure /\ ~ \E d \in apart : RetakeGuard(d)
  BY DEF RecordTransitionFailure, Going
<1> QED
  BY <1>1, <1>2, <1>3, <1>4, <1>5, <1>6, <1>7, <1>8, <1>9, <1>10, <1>11, <1>12, <1>13,
     CloseContainerGoing DEF Next, Operator, Internal

LEMMA TerminalRests ==
  ASSUME Going, [Next]_vars, ~Live
  PROVE  work'.state = work.state /\ opened' = opened
<1>1. step.op = "idle" /\ work.state \in Terminal /\ work \in WorkType
  BY DEF Going, Live, TypeOK
<1>2. CASE Claim
  BY <1>1, <1>2 DEF Claim, FileDone, FileDoneUnrecorded, FileQuestion, FileOutOfBoundary,
                    ValidDone, OnOutOfBoundary, AskHuman
<1>3. CASE Driver \/ Operator \/ Children
  BY <1>1, <1>3 DEF Driver, RunFails, RunVanishes, Observe, Driven, Operator, Retry, GiveUp,
                    CancelRead, RetryAccepted, Children, SpawnChild, SubmitChild, EndChild,
                    journalVars, Terminal
<1>4. CASE Internal
  <2>1. ~RecordTransitionFailure
    BY DEF RecordTransitionFailure, Going
  <2>2. ASSUME CloseContainer \/ HoldContainer \/ (\E c \in step.todo : ActivateContainer(c))
               \/ ReserveLeaf \/ OpenReserved \/ RefuseReservation \/ RetryReserve
               \/ RetrySupersede \/ RetryOpen
        PROVE  FALSE
    BY <1>1, <2>2 DEF CloseContainer, HoldContainer, ActivateContainer, ReserveLeaf, OpenReserved,
                      RefuseReservation, RetryReserve, RetrySupersede, RetryOpen
  <2>3. ASSUME NEW d \in apart, RetakeGuard(d)
        PROVE  FALSE
    BY DEF Going
  <2>4. ASSUME NEW t \in reeval, Reevaluate(t)
        PROVE  UNCHANGED journalVars
    BY <2>4 DEF Reevaluate
  <2>5. CASE CancelWrite
    BY <1>1, <2>5 DEF CancelWrite
  <2>6. CASE Restart \/ Serve \/ \E k \in Child : CancelChild(k)
    BY <2>6 DEF Restart, Serve, CancelChild, journalVars
  <2> QED
    BY <1>4, <2>1, <2>2, <2>3, <2>4, <2>5, <2>6 DEF Internal, journalVars
<1>5. CASE Falter \/ Crash \/ UNCHANGED vars
  BY <1>5 DEF Falter, Crash, vars, journalVars
<1> QED
  BY <1>2, <1>3, <1>4, <1>5 DEF Next

\* On every Route without orienting leaves, with or without child Works, a
\* Work that is Completed, Failed or Canceled stays so and opens no further
\* Run, whatever requests, crashes and restarts follow (is_terminal).
THEOREM TerminalForGood ==
  ASSUME Orienting = {}, LoseClaims = FALSE
  PROVE  Spec => TerminalStays
<1>1. Init => Going
  BY GoingInit
<1>2. Going /\ [Next]_vars => Going'
  BY GoingNext
<1>3. Going /\ [Next]_vars
        => [~Live => work'.state = work.state /\ opened' = opened]_vars
  BY TerminalRests
<1> QED
  BY <1>1, <1>2, <1>3, PTL DEF Spec, TerminalStays

-----------------------------------------------------------------------------
(* One line of Runs, where no container requires a child Work.  With children *)
(* it is not so: a child's end may hold a container anew while a Run inside it *)
(* is open, and a held container lets any leaf inside be retried.             *)

NoChildWorks == \A c \in Container : NeedsRole[c] = {}

NoneClaimable == \A r \in Opened : ~Claimable(r)

Retries == {"retryReserve", "retrySupersede", "retryOpen"}
Advances == {"cascade", "reserve", "open"}

\* A Run that can be claimed is the only one, the latest of its leaf, and of
\* the leaf the Work stands at; a question names such a Run.
RunsLine ==
  /\ OneLiveLine
  /\ \A r \in Opened : Claimable(r) /\ Live => work.current = runs[r].waypoint
  /\ work.state = "Waiting" => NoneClaimable /\ work.current \notin Leaf
  /\ work.state = "NeedsInput" =>
       /\ work.cause.run \in Opened
       /\ IsLatest(work.cause.run)
       /\ work.current = runs[work.cause.run].waypoint

\* Who advances left nothing to claim; who retries replaces what there is.
StepLine ==
  /\ step.op \in Advances => NoneClaimable /\ work.state # "NeedsInput"
  /\ step.op \in Retries =>
       /\ step.run \in Opened /\ IsLatest(step.run) /\ step.at = runs[step.run].waypoint
       /\ \A r \in Opened : Claimable(r) => r = step.run
       /\ work.state = "NeedsInput" => work.cause.run = step.run
  /\ step.op = "retryOpen" => NoneClaimable
  /\ step.op \in {"open", "retrySupersede", "retryOpen"} =>
       work.current = step.at /\ work.state # "Waiting"
  /\ step.op = "cascade" /\ step.from = "claim" => LatestClaimed(step.leaf)
  /\ AdvanceFollowsClaim

\* Only the sweep of a restart evaluates a container anew.
SweepLine ==
  /\ \A k \in Child : child[k].status = "None"
  /\ daemon = "down" => step = Idle
  /\ reeval # {} =>
       /\ daemon = "sweep" /\ step = Idle /\ work.state = "Waiting"
       /\ reeval = {[at |-> work.held.waypoint, by |-> "sweep"]}

OneLine == Going /\ RunsLine /\ StepLine /\ SweepLine

-----------------------------------------------------------------------------
(* What a step does to the Runs it does not touch. *)

LEMMA RunsFrame ==
  ASSUME UNCHANGED <<runs, opened>>
  PROVE  /\ Opened' = Opened
         /\ \A r : Claimable(r)' = Claimable(r) /\ IsLatest(r)' = IsLatest(r)
         /\ \A l : LatestClaimed(l)' = LatestClaimed(l)
         /\ NoneClaimable' = NoneClaimable /\ OneLiveLine' = OneLiveLine
BY DEF Opened, Claimable, IsLatest, LatestClaimed, NoneClaimable, OneLiveLine, SupersededIsRefused

\* A Run that moves on keeps its leaf.
LEMMA MoveFrame ==
  ASSUME TypeOK, NEW r \in Opened, NEW new \in RunType, new.waypoint = runs[r].waypoint,
         runs' = [runs EXCEPT ![r] = new], opened' = opened
  PROVE  /\ r \in RunId /\ runs'[r] = new /\ Opened' = Opened
         /\ \A q \in Opened : q # r => runs'[q] = runs[q]
         /\ \A q \in Opened : runs'[q].waypoint = runs[q].waypoint
         /\ \A q \in Opened : IsLatest(q)' <=> IsLatest(q)
         /\ \A q \in Opened : q # r => (Claimable(q)' <=> Claimable(q))
<1>1. Opened \subseteq RunId /\ runs \in [RunId -> RunType]
  BY EngineAssumption DEF TypeOK, Opened, RunId
<1>2. r \in RunId /\ runs'[r] = new /\ Opened' = Opened
      /\ \A q \in Opened : q # r => runs'[q] = runs[q]
  BY <1>1 DEF Opened
<1>3. \A q \in Opened : runs'[q].waypoint = runs[q].waypoint
  BY <1>2
<1>4. \A q \in Opened : IsLatest(q)' <=> IsLatest(q)
  BY <1>2, <1>3 DEF IsLatest
<1> QED
  BY <1>2, <1>3, <1>4 DEF Claimable

LEMMA StatusFrame ==
  ASSUME TypeOK, NEW r \in Opened, NEW s \in RunStatus,
         runs' = [runs EXCEPT ![r].status = s], opened' = opened
  PROVE  /\ r \in RunId /\ runs'[r].status = s /\ Opened' = Opened
         /\ \A q \in Opened : q # r => runs'[q] = runs[q]
         /\ \A q \in Opened : runs'[q].waypoint = runs[q].waypoint
         /\ \A q \in Opened : IsLatest(q)' <=> IsLatest(q)
         /\ \A q \in Opened : q # r => (Claimable(q)' <=> Claimable(q))
<1> DEFINE new == [runs[r] EXCEPT !.status = s]
<1>1. runs[r] \in RunType
  BY EngineAssumption DEF TypeOK, Opened, RunId
<1>2. new \in RunType /\ new.waypoint = runs[r].waypoint /\ new.status = s
  BY <1>1 DEF RunType
<1>3. runs' = [runs EXCEPT ![r] = new]
  OBVIOUS
<1> HIDE DEF new
<1> QED
  BY <1>2, <1>3, MoveFrame

\* What asks for a human asks about a Run that can be answered.
LEMMA Asks ==
  ASSUME OneLine, TypeOK', NEW r \in Opened', NEW why \in Reason, IsLatest(r)',
         work.current = runs'[r].waypoint, OneLiveLine',
         \A q \in Opened' : Claimable(q)' => work.current = runs'[q].waypoint,
         work.state # "Waiting", Live, work' = AskHuman(work, r, why)
  PROVE  RunsLine' /\ work'.current = work.current /\ work'.state = "NeedsInput"
<1>1. work \in WorkType
  BY DEF OneLine, Going, TypeOK
<1>2. work'.state = "NeedsInput" /\ work'.current = work.current /\ work'.cause.run = r
  BY <1>1 DEF AskHuman, Live, Cause, WorkType
<1> QED
  BY <1>2 DEF RunsLine

\* A handler that returns, or one request that only moves the Work.
LEMMA LineRests ==
  ASSUME OneLine, Going', RunsLine', step' = Idle, child' = child,
         \/ daemon' = daemon /\ reeval' = reeval /\ daemon = "up"
         \/ reeval' = {}
  PROVE  OneLine'
<1>1. StepLine'
  BY DEF StepLine, Advances, Retries, AdvanceFollowsClaim, Idle
<1>2. SweepLine'
  BY DEF OneLine, SweepLine
<1> QED
  BY <1>1, <1>2 DEF OneLine

\* A Run that can be claimed is where the Work stands.
LEMMA OneClaimable ==
  ASSUME OneLine, NEW r \in Opened, Claimable(r)
  PROVE  /\ IsLatest(r) /\ work.state # "Waiting" /\ step.op \notin Advances
         /\ \A q \in Opened : Claimable(q) => q = r
         /\ Live => work.current = runs[r].waypoint
         /\ work.state = "NeedsInput" => work.cause.run = r
<1>1. /\ IsLatest(r) /\ work.state # "Waiting" /\ step.op \notin Advances
      /\ \A q \in Opened : Claimable(q) => q = r
      /\ Live => work.current = runs[r].waypoint
  BY DEF OneLine, RunsLine, StepLine, OneLiveLine, SupersededIsRefused, NoneClaimable
<1>2. ASSUME work.state = "NeedsInput"
      PROVE  work.cause.run = r
  <2> DEFINE q == work.cause.run
  <2>1. q \in Opened /\ IsLatest(q) /\ runs[q].waypoint = runs[r].waypoint
    BY <1>1, <1>2 DEF OneLine, RunsLine, Live, Terminal
  <2>2. q \in Nat /\ r \in Nat
    BY <2>1 DEF Opened
  <2>3. ~(q > r) /\ ~(r > q)
    BY <1>1, <2>1 DEF IsLatest
  <2> QED
    BY <2>2, <2>3
<1> QED
  BY <1>1, <1>2

LEMMA SweepRests ==
  ASSUME SweepLine, child' = child, daemon' = daemon, reeval' = reeval,
         step # Idle \/ daemon = "up"
  PROVE  SweepLine' /\ reeval = {} /\ daemon # "down"
BY DEF SweepLine

\* What the Runs' line says depends on the Runs and on where the Work stands.
LEMMA RunsLineFrame ==
  ASSUME RunsLine, UNCHANGED <<runs, opened>>,
         work'.state = work.state, work'.current = work.current, work'.cause = work.cause
  PROVE  RunsLine'
<1>1. /\ Opened' = Opened /\ NoneClaimable' = NoneClaimable /\ OneLiveLine' = OneLiveLine
      /\ \A r : Claimable(r)' = Claimable(r) /\ IsLatest(r)' = IsLatest(r)
  BY RunsFrame
<1> QED
  BY <1>1 DEF RunsLine, Live

\* With nothing to claim and nothing asked, the Runs' line holds.
LEMMA NoneLine ==
  ASSUME NoneClaimable, work.state # "NeedsInput",
         work.state = "Waiting" => work.current \notin Leaf
  PROVE  RunsLine
BY DEF RunsLine, NoneClaimable, OneLiveLine, SupersededIsRefused

LEMMA AdvanceLine ==
  ASSUME Orienting = {}, NEW l \in Leaf, NEW from, Advance(l, from),
         NoneClaimable', work'.state # "NeedsInput", from = "claim" => LatestClaimed(l)'
  PROVE  StepLine'
<1>1. CASE step' = Idle
  <2>1. step'.op = "idle"
    BY <1>1 DEF Idle
  <2> QED
    BY <2>1 DEF StepLine, Advances, Retries, AdvanceFollowsClaim
<1>2. CASE step' # Idle
  <2>1. step'.op = "reserve" /\ step'.at = LeafAfter(l) /\ l # LastLeaf /\ step'.from = from
    BY <1>2, AdvanceGoes
  <2>2. LeafOrder[Position(LeafAfter(l)) - 1] = l
    BY <2>1, NextPosition
  <2>3. AdvanceFollowsClaim'
    BY <2>1, <2>2 DEF AdvanceFollowsClaim
  <2> QED
    BY <2>1, <2>3 DEF StepLine, Advances, Retries
<1> QED
  BY <1>1, <1>2

-----------------------------------------------------------------------------
(* The line is kept by every step. *)

LEMMA OneLineInit == Init => OneLine
<1> SUFFICES ASSUME Init PROVE OneLine
  OBVIOUS
<1>1. Going /\ Opened = {}
  BY GoingInit DEF Init, Opened
<1>2. step.op = "reserve" /\ step.from = "submit" /\ work.state = "Pending"
      /\ daemon = "up" /\ reeval = {} /\ \A k \in Child : child[k].status = "None"
  BY DEF Init, Reserving, Idle, OnWorkSubmitted, NoChild
<1>3. NoneClaimable
  BY <1>1 DEF NoneClaimable
<1>4. RunsLine
  BY <1>2, <1>3, NoneLine
<1>5. StepLine
  BY <1>2, <1>3 DEF StepLine, Advances, Retries, AdvanceFollowsClaim
<1>6. SweepLine
  BY <1>2 DEF SweepLine
<1> QED
  BY <1>1, <1>4, <1>5, <1>6 DEF OneLine

\* What a validated Done leaves: nothing to claim, and its leaf Claimed.
LEMMA DoneClaims ==
  ASSUME OneLine, NEW r \in RunId, NEW arts \in SUBSET Output,
         NEW auto \in BOOLEAN, FileDone(r, arts, auto), NEW l, l = runs[r].waypoint
  PROVE  /\ r \in Opened /\ l \in Leaf /\ Live /\ IsLatest(r) /\ work.current = l
         /\ NoneClaimable' /\ LatestClaimed(l)' /\ Opened' = Opened
         /\ \A q \in Opened : /\ IsLatest(q)' <=> IsLatest(q)
                              /\ runs'[q].waypoint = runs[q].waypoint
                              /\ q # r => runs'[q] = runs[q]
         /\ runs'[r].status = "Claimed" /\ runs'[r].auto = auto
         /\ work'.state = (IF l = LastLeaf /\ Chain[l] = <<>> THEN "Completed" ELSE "Active")
         /\ work'.current = l /\ work'.held = work.held
         /\ work'.activation = work.activation
         /\ CloseOrAdvance(l)
<1> DEFINE new == [runs[r] EXCEPT !.status = "Claimed", !.arts = arts, !.auto = auto]
<1>1. r \in Opened /\ Claimable(r) /\ l \in Leaf /\ Live /\ TypeOK /\ work \in WorkType
      /\ runs[r] \in RunType
  BY DEF FileDone, ValidDone, OneLine, Going, TypeOK
<1>2. IsLatest(r) /\ work.current = l /\ \A q \in Opened : Claimable(q) => q = r
  BY <1>1, OneClaimable
<1>3. new \in RunType /\ new.waypoint = l /\ new.status = "Claimed" /\ new.auto = auto
  BY <1>1 DEF RunType, RunStatus
<1>4. runs' = [runs EXCEPT ![r] = new] /\ opened' = opened
  BY DEF FileDone
<1> HIDE DEF new
<1>5. /\ runs'[r] = new /\ Opened' = Opened
      /\ \A q \in Opened : q # r => runs'[q] = runs[q]
      /\ \A q \in Opened : runs'[q].waypoint = runs[q].waypoint
      /\ \A q \in Opened : IsLatest(q)' <=> IsLatest(q)
      /\ \A q \in Opened : q # r => (Claimable(q)' <=> Claimable(q))
  BY <1>1, <1>3, <1>4, MoveFrame
<1>6. ~Claimable(r)'
  BY <1>3, <1>5 DEF Claimable
<1>7. NoneClaimable'
  BY <1>2, <1>5, <1>6 DEF NoneClaimable
<1>8. LatestClaimed(l)'
  BY <1>1, <1>2, <1>3, <1>5 DEF LatestClaimed
<1>9. /\ work'.state = (IF l = LastLeaf /\ Chain[l] = <<>> THEN "Completed" ELSE "Active")
      /\ work'.current = l /\ work'.held = work.held /\ work'.activation = work.activation
  BY <1>1, <1>2 DEF FileDone, OnDone, Settled, Live, WorkType
<1> QED
  BY <1>1, <1>2, <1>3, <1>5, <1>7, <1>8, <1>9 DEF FileDone

LEMMA FileDoneLine ==
  ASSUME Orienting = {}, OneLine, Going', NEW r \in RunId, NEW arts \in SUBSET Output,
         NEW auto \in BOOLEAN, FileDone(r, arts, auto)
  PROVE  OneLine'
<1> SUFFICES ASSUME NEW l, l = runs[r].waypoint
             PROVE  OneLine'
  OBVIOUS
<1>1. /\ l \in Leaf /\ NoneClaimable' /\ LatestClaimed(l)' /\ work'.state \in {"Active", "Completed"}
      /\ CloseOrAdvance(l)
  BY DoneClaims
<1>2. RunsLine'
  BY <1>1 DEF RunsLine, NoneClaimable, OneLiveLine, SupersededIsRefused
<1>3. StepLine'
  <2>1. CASE Advance(l, "claim")
    BY <1>1, <2>1, AdvanceLine
  <2>2. CASE ~Advance(l, "claim")
    <3>1. step'.op = "cascade" /\ step'.leaf = l
      BY <1>1, <2>2, CloseOrAdvanceGoes
    <3> QED
      BY <1>1, <3>1 DEF StepLine, Advances, Retries, AdvanceFollowsClaim
  <2> QED
    BY <2>1, <2>2
<1>4. SweepLine'
  BY SweepRests DEF OneLine, FileDone, ValidDone, Serving, daemonVars
<1> QED
  BY <1>2, <1>3, <1>4 DEF OneLine

\* A request that leaves the handler idle.
LEMMA RequestRests ==
  ASSUME OneLine, Going', RunsLine', Serving, UNCHANGED <<child, step, reeval, daemon>>
  PROVE  OneLine'
BY LineRests DEF Serving

LEMMA AskLine ==
  ASSUME OneLine, Going', NEW r \in RunId, FileQuestion(r) \/ FileOutOfBoundary(r)
  PROVE  OneLine'
<1>1. /\ r \in Opened /\ Live /\ Serving /\ UNCHANGED <<runs, opened, child, step, reeval, daemon>>
      /\ Opened' = Opened /\ OneLiveLine' /\ runs[r].waypoint \in Leaf /\ TypeOK /\ TypeOK'
      /\ \A q : Claimable(q)' = Claimable(q) /\ IsLatest(q)' = IsLatest(q)
  BY RunsFrame DEF FileQuestion, FileOutOfBoundary, flightVars, daemonVars, OneLine, RunsLine,
                   Going, TypeOK
<1>2. \A q \in Opened' : Claimable(q)' => work.current = runs'[q].waypoint
  BY <1>1 DEF OneLine, RunsLine
<1>3. CASE work' = work
  BY <1>1, <1>3, RunsLineFrame, RequestRests DEF OneLine
<1>4. CASE work' # work
  <2>1. PICK why \in Reason : work' = AskHuman(work, r, why)
    BY <1>4 DEF FileQuestion, FileOutOfBoundary, OnQuestion, OnOutOfBoundary, Reason
  <2>2. IsLatest(r) /\ work.current = runs[r].waypoint /\ work.state # "Waiting"
    <3>1. CASE FileQuestion(r)
      BY <1>1, <3>1, OneClaimable DEF FileQuestion
    <3>2. CASE FileOutOfBoundary(r)
      <4>1. IsLatest(r) /\ work.current = runs[r].waypoint
        BY <1>4, <3>2 DEF FileOutOfBoundary, OnOutOfBoundary
      <4> QED
        BY <1>1, <4>1 DEF OneLine, RunsLine
    <3> QED
      BY <3>1, <3>2
  <2>3. RunsLine'
    BY <1>1, <1>2, <2>1, <2>2, Asks
  <2> QED
    BY <1>1, <2>3, RequestRests
<1> QED
  BY <1>3, <1>4

LEMMA DriverLine ==
  ASSUME OneLine, Going', NEW r \in RunId, RunFails(r) \/ RunVanishes(r) \/ Observe(r)
  PROVE  OneLine'
<1>1. /\ r \in Opened /\ Live /\ Serving /\ UNCHANGED <<opened, child, step, reeval, daemon>>
      /\ Claimable(r) /\ TypeOK /\ TypeOK' /\ work \in WorkType
  BY DEF RunFails, RunVanishes, Observe, Driven, Claimable, flightVars, daemonVars, OneLine,
         Going, TypeOK
<1>2. IsLatest(r) /\ work.state # "Waiting" /\ work.current = runs[r].waypoint
      /\ \A q \in Opened : Claimable(q) => q = r
  BY <1>1, OneClaimable
<1>3. /\ Opened' = Opened /\ IsLatest(r)'
      /\ runs'[r].waypoint = runs[r].waypoint
      /\ \A q \in Opened : Claimable(q)' => q = r
  <2>1. CASE Observe(r)
    BY <1>1, <1>2, <2>1, RunsFrame DEF Observe
  <2>2. CASE RunFails(r) \/ RunVanishes(r)
    <3>1. PICK s \in RunStatus : runs' = [runs EXCEPT ![r].status = s]
      BY <2>2 DEF RunFails, RunVanishes, RunStatus
    <3> QED
      BY <1>1, <1>2, <3>1, StatusFrame
  <2> QED
    BY <2>1, <2>2
<1>4. OneLiveLine'
  BY <1>3 DEF OneLiveLine, SupersededIsRefused
<1>5. CASE \E why \in Reason : work' = AskHuman(work, r, why)
  <2>1. RunsLine'
    BY <1>1, <1>2, <1>3, <1>4, <1>5, Asks
  <2> QED
    BY <1>1, <2>1, RequestRests
<1>6. CASE Observe(r) /\ work' = OnTurnSeen(work, r)
  <2>1. /\ work'.current = work.current
        /\ \/ work'.state = work.state /\ work'.cause = work.cause
           \/ work'.state = "Active"
    BY <1>1, <1>6 DEF OnTurnSeen, WorkType
  <2>2. CASE work'.state = work.state /\ work'.cause = work.cause
    BY <1>1, <1>6, <2>1, <2>2, RunsLineFrame, RequestRests DEF Observe, OneLine
  <2>3. CASE work'.state = "Active"
    <3>1. RunsLine'
      BY <1>2, <1>3, <1>4, <2>1, <2>3 DEF RunsLine
    <3> QED
      BY <1>1, <3>1, RequestRests
  <2> QED
    BY <2>1, <2>2, <2>3
<1> QED
  BY <1>5, <1>6 DEF RunFails, RunVanishes, Observe, OnRunFailed, OnRunVanished, OnBlocked,
                    OnNoProgress, Reason

LEMMA CloseContainerLine ==
  ASSUME Orienting = {}, OneLine, Going', CloseContainer
  PROVE  OneLine'
<1> SUFFICES ASSUME NEW c, c = step.at, NEW l, l = step.leaf, NEW from, from = step.from
             PROVE  OneLine'
  OBVIOUS
<1>1. /\ Going /\ step.op = "cascade" /\ Live /\ work \in WorkType /\ l \in Leaf
      /\ UNCHANGED <<runs, opened, child, daemon, reeval>>
      /\ work' = OnStageClosed(work, c, Attempt(c))
      /\ NoneClaimable /\ from = "claim" => LatestClaimed(l)
  BY CloseGoes DEF CloseContainer, OneLine, StepLine, Advances, daemonVars, Going, TypeOK
<1>2. NoneClaimable' /\ LatestClaimed(l)' = LatestClaimed(l) /\ NoneClaimable
  BY <1>1, RunsFrame DEF OneLine, StepLine, Advances
<1>3. work'.state \in {"Active", "Completed"}
  BY <1>1 DEF OnStageClosed, Settled, Live, WorkType
<1>4. RunsLine'
  BY <1>2, <1>3 DEF RunsLine, NoneClaimable, OneLiveLine, SupersededIsRefused
<1>5. StepLine'
  <2>1. CASE Advance(l, from)
    BY <1>1, <1>2, <1>3, <2>1, AdvanceLine
  <2>2. CASE ~Advance(l, from)
    <3>1. step'.op = "cascade" /\ step'.leaf = l /\ step'.from = from
      BY <1>1, <2>2, CloseGoes
    <3> QED
      BY <1>1, <1>2, <1>3, <3>1 DEF StepLine, Advances, Retries, AdvanceFollowsClaim
  <2> QED
    BY <2>1, <2>2
<1>6. SweepLine'
  BY <1>1, SweepRests DEF OneLine, Idle
<1> QED
  BY <1>4, <1>5, <1>6 DEF OneLine

\* The handler returns.
LEMMA ReturnLine ==
  ASSUME OneLine, Going', RunsLine', step.op # "idle", step' = Idle,
         UNCHANGED <<child, reeval, daemon>>
  PROVE  OneLine'
<1>1. SweepLine'
  BY SweepRests DEF OneLine, Idle
<1>2. step'.op = "idle"
  BY DEF Idle
<1>3. StepLine'
  BY <1>2 DEF StepLine, Advances, Retries, AdvanceFollowsClaim
<1> QED
  BY <1>1, <1>3 DEF OneLine

LEMMA HoldContainerLine ==
  ASSUME OneLine, Going', HoldContainer
  PROVE  OneLine'
<1>1. /\ step.op = "cascade" /\ Live /\ work \in WorkType /\ step.at \in Container /\ NoneClaimable
      /\ UNCHANGED <<runs, opened, child, reeval, daemon>> /\ step' = Idle /\ RunsLine
  BY DEF HoldContainer, OneLine, StepLine, Advances, Going, TypeOK, StepFits, daemonVars
<1>2. NoneClaimable'
  BY <1>1, RunsFrame
<1>3. work' = work \/ work' = OnStageHeld(work, step.at, Attempt(step.at), Missing(step.at))
  BY DEF HoldContainer
<1>4. CASE work' = work
  BY <1>1, <1>4, RunsLineFrame, ReturnLine
<1>5. CASE work' = OnStageHeld(work, step.at, Attempt(step.at), Missing(step.at))
  <2>1. work'.state = "Waiting" /\ work'.current = step.at
    BY <1>1, <1>5 DEF OnStageHeld, Settled, Live, WorkType
  <2>2. work'.current \notin Leaf
    BY <1>1, <2>1, RouteAssumption
  <2>3. RunsLine'
    BY <1>2, <2>1, <2>2 DEF RunsLine, NoneClaimable, OneLiveLine, SupersededIsRefused
  <2> QED
    BY <1>1, <2>3, ReturnLine
<1> QED
  BY <1>3, <1>4, <1>5

\* What is reserved stays behind the same Claim.
LEMMA FollowFrame ==
  ASSUME UNCHANGED <<runs, opened>>, AdvanceFollowsClaim, step'.at = step.at,
         step'.from = step.from, step'.op \in {"reserve", "open"} => step.op \in {"reserve", "open"}
  PROVE  AdvanceFollowsClaim'
<1> SUFFICES ASSUME step'.op \in {"reserve", "open"}, step'.from = "claim"
             PROVE  LatestClaimed(LeafOrder[Position(step.at) - 1])'
  BY DEF AdvanceFollowsClaim
<1>1. LatestClaimed(LeafOrder[Position(step.at) - 1])
  BY DEF AdvanceFollowsClaim
<1> QED
  BY <1>1 DEF LatestClaimed, IsLatest, Opened

LEMMA ActivateContainerLine ==
  ASSUME OneLine, Going', NEW c \in step.todo, ActivateContainer(c)
  PROVE  OneLine'
<1>1. /\ step.op \in {"reserve", "retryReserve"} /\ work \in WorkType /\ step \in StepType
      /\ UNCHANGED <<runs, opened, child, daemon, reeval>>
      /\ work' = OnActivated(work, c) /\ step' = [step EXCEPT !.todo = @ \ {c}]
  BY DEF ActivateContainer, OneLine, Going, TypeOK, daemonVars
<1>2. work'.state = work.state /\ work'.current = work.current /\ work'.cause = work.cause
  BY <1>1 DEF OnActivated, WorkType
<1>3. /\ step'.op = step.op /\ step'.at = step.at /\ step'.run = step.run /\ step'.from = step.from
  BY <1>1 DEF StepType
<1>4. RunsLine'
  BY <1>1, <1>2, RunsLineFrame DEF OneLine
<1>5. /\ Opened' = Opened /\ NoneClaimable' = NoneClaimable
      /\ \A r : Claimable(r)' = Claimable(r) /\ IsLatest(r)' = IsLatest(r)
      /\ \A l : LatestClaimed(l)' = LatestClaimed(l)
  BY <1>1, RunsFrame
<1>6. AdvanceFollowsClaim'
  BY <1>1, <1>3, FollowFrame DEF OneLine, StepLine
<1>7. StepLine'
  <2>1. CASE step.op = "reserve"
    BY <1>1, <1>2, <1>3, <1>5, <1>6, <2>1 DEF OneLine, StepLine, Advances, Retries
  <2>2. CASE step.op = "retryReserve"
    BY <1>1, <1>2, <1>3, <1>5, <1>6, <2>2 DEF OneLine, StepLine, Advances, Retries
  <2> QED
    BY <1>1, <2>1, <2>2
<1>8. SweepLine'
  BY <1>1, SweepRests DEF OneLine, Idle
<1> QED
  BY <1>4, <1>7, <1>8 DEF OneLine

LEMMA ReserveLeafLine ==
  ASSUME OneLine, Going', ReserveLeaf
  PROVE  OneLine'
<1>1. /\ step.op = "reserve" /\ work \in WorkType /\ step \in StepType /\ Live /\ NoneClaimable
      /\ UNCHANGED <<runs, opened, child, daemon, reeval>> /\ work.state # "NeedsInput"
      /\ work' = OnWaypointReserved(work, step.at) /\ step' = [step EXCEPT !.op = "open"]
  BY DEF ReserveLeaf, OneLine, Going, TypeOK, daemonVars, StepLine, Advances
<1>2. work'.state \notin {"NeedsInput", "Waiting"} /\ work'.current = step.at
  BY <1>1 DEF OnWaypointReserved, WorkType, Live
<1>3. /\ step'.op = "open" /\ step'.at = step.at /\ step'.from = step.from
  BY <1>1 DEF StepType
<1>4. NoneClaimable' /\ \A l : LatestClaimed(l)' = LatestClaimed(l)
  BY <1>1, RunsFrame
<1>5. RunsLine'
  BY <1>2, <1>4 DEF RunsLine, NoneClaimable, OneLiveLine, SupersededIsRefused
<1>6. AdvanceFollowsClaim'
  BY <1>1, <1>3, FollowFrame DEF OneLine, StepLine
<1>7. StepLine'
  BY <1>2, <1>3, <1>4, <1>6 DEF StepLine, Advances, Retries
<1>8. SweepLine'
  BY <1>1, SweepRests DEF OneLine, Idle
<1> QED
  BY <1>5, <1>7, <1>8 DEF OneLine

LEMMA OpenRunLine ==
  ASSUME OneLine, Going', OpenReserved \/ RetryOpen
  PROVE  /\ OneLine'
         /\ opened' = opened + 1 /\ opened \in Nat
         /\ \A r \in Opened' : r # opened + 1 => r \in Opened /\ runs'[r] = runs[r]
         /\ runs'[opened + 1].waypoint = step.at /\ opened + 1 \in Opened'
<1> SUFFICES ASSUME NEW n, n = opened + 1
             PROVE  /\ OneLine' /\ opened' = n /\ opened \in Nat
                    /\ \A r \in Opened' : r # n => r \in Opened /\ runs'[r] = runs[r]
                    /\ runs'[n].waypoint = step.at /\ n \in Opened'
  OBVIOUS
<1> DEFINE new == [NoRun EXCEPT !.waypoint = step.at, !.status = "Open"]
<1>1. /\ step.op \in {"open", "retryOpen"} /\ work \in WorkType /\ NoneClaimable /\ opened \in Nat
      /\ opened < MaxRuns /\ step.at = work.current /\ work.state # "Waiting"
      /\ runs \in [RunId -> RunType]
  BY DEF OpenReserved, RetryOpen, OneLine, Going, TypeOK, StepLine, Advances, StepFits
<1>2. /\ opened' = n /\ runs' = [runs EXCEPT ![n] = new] /\ work' = OnRunOpened(work)
      /\ step' = Idle /\ UNCHANGED <<child, reeval, daemon>>
  BY DEF OpenReserved, RetryOpen, OpenRun, daemonVars
<1>3. n \in RunId /\ new.waypoint = step.at /\ new.status = "Open"
  BY <1>1, EngineAssumption DEF RunId, NoRun
<1> HIDE DEF new
<1>4. runs'[n] = new /\ \A r \in RunId : r # n => runs'[r] = runs[r]
  BY <1>1, <1>2, <1>3
<1>5. \A r \in Opened' : r # n => r \in Opened /\ r \in RunId /\ runs'[r] = runs[r]
  BY <1>1, <1>2, <1>3, <1>4, EngineAssumption DEF Opened, RunId
<1>6. n \in Opened' /\ \A r \in Opened' : ~(r > n)
  BY <1>1, <1>2 DEF Opened
<1>7. IsLatest(n)' /\ Claimable(n)'
  <2>1. Claimable(n)'
    BY <1>2, <1>3, <1>4 DEF Claimable
  <2>2. IsLatest(n)'
    BY <1>2, <1>6 DEF IsLatest
  <2> QED
    BY <2>1, <2>2
<1>8. \A r \in Opened' : Claimable(r)' => r = n
  BY <1>1, <1>5 DEF NoneClaimable, Claimable
<1>9. OneLiveLine'
  BY <1>7, <1>8 DEF OneLiveLine, SupersededIsRefused
<1>10. work'.state \notin {"NeedsInput", "Waiting"} /\ work'.current = work.current
  BY <1>1, <1>2 DEF OnRunOpened, WorkType
<1>11. RunsLine'
  BY <1>1, <1>3, <1>4, <1>8, <1>9, <1>10 DEF RunsLine
<1> QED
  BY <1>1, <1>2, <1>3, <1>4, <1>5, <1>6, <1>7, <1>11, ReturnLine

LEMMA RefuseReservationLine ==
  ASSUME OneLine, Going', RefuseReservation
  PROVE  OneLine'
<1>1. /\ step.op = "reserve" /\ work \in WorkType /\ NoneClaimable /\ RunsLine
      /\ UNCHANGED <<runs, opened, child, daemon, reeval>> /\ step' = Idle
      /\ work' = work \/ work' = OnWorkFailed(work)
  BY DEF RefuseReservation, OneLine, Going, TypeOK, daemonVars, StepLine, Advances
<1>2. NoneClaimable'
  BY <1>1, RunsFrame
<1>3. CASE work' = work
  BY <1>1, <1>3, RunsLineFrame, ReturnLine
<1>4. CASE work' = OnWorkFailed(work)
  <2>1. work'.state = "Failed"
    BY <1>1, <1>4 DEF OnWorkFailed, Settled, WorkType
  <2>2. RunsLine'
    BY <1>2, <2>1 DEF RunsLine, NoneClaimable, OneLiveLine, SupersededIsRefused
  <2> QED
    BY <1>1, <2>2, ReturnLine
<1> QED
  BY <1>1, <1>3, <1>4

\* GiveUp and CancelWrite end the Work.
LEMMA EndLine ==
  ASSUME OneLine, Going', GiveUp \/ CancelWrite
  PROVE  OneLine'
<1>1. /\ Serving /\ UNCHANGED <<runs, opened, child, step, reeval, daemon>> /\ work \in WorkType
      /\ work' = work \/ work' = OnWorkFailed(work) \/ work' = OnWorkCanceled(work)
      /\ RunsLine
  BY DEF GiveUp, CancelWrite, OneLine, Going, TypeOK, flightVars, daemonVars
<1>2. CASE work' = work
  BY <1>1, <1>2, RunsLineFrame, RequestRests DEF OneLine
<1>3. CASE work' # work
  <2>1. work'.state \in {"Failed", "Canceled"}
    BY <1>1, <1>3 DEF OnWorkFailed, OnWorkCanceled, Settled, WorkType
  <2>2. OneLiveLine' /\ ~Live'
    BY <1>1, <2>1, RunsFrame DEF OneLine, RunsLine, Live, Terminal
  <2>3. RunsLine'
    BY <2>1, <2>2 DEF RunsLine
  <2> QED
    BY <1>1, <2>3, RequestRests
<1> QED
  BY <1>2, <1>3

LEMMA RetryLine ==
  ASSUME OneLine, Going', NEW r \in RunId, Retry(r)
  PROVE  OneLine'
<1>1. /\ daemon = "up" /\ r \in Opened /\ IsLatest(r) /\ RunsLine
      /\ UNCHANGED <<runs, opened, work, child, daemon, reeval>>
      /\ \/ work.state = "NeedsInput" /\ work.cause.run = r
         \/ work.state = "Waiting"
  BY DEF Retry, RetryAccepted, Serving, OneLine, journalVars, daemonVars
<1>2. step'.op = "retryReserve" /\ step'.at = runs[r].waypoint /\ step'.run = r
  BY DEF Retry, Retrying, Idle
<1>3. /\ Opened' = Opened
      /\ \A q : Claimable(q)' = Claimable(q) /\ IsLatest(q)' = IsLatest(q)
  BY <1>1, RunsFrame
<1>4. RunsLine'
  BY <1>1, RunsLineFrame
<1>5. \A q \in Opened : Claimable(q) => q = r
  BY <1>1, OneClaimable
<1>6. step'.run \in Opened' /\ IsLatest(step.run)' /\ step'.at = runs'[step'.run].waypoint
  BY <1>1, <1>2, <1>3 DEF IsLatest
<1>7. StepLine'
  BY <1>1, <1>2, <1>3, <1>5, <1>6 DEF StepLine, Advances, Retries, AdvanceFollowsClaim
<1>8. SweepLine'
  BY <1>1, SweepRests DEF OneLine
<1> QED
  BY <1>4, <1>7, <1>8 DEF OneLine

LEMMA RetryReserveLine ==
  ASSUME OneLine, Going', RetryReserve
  PROVE  OneLine'
<1>1. /\ step.op = "retryReserve" /\ work \in WorkType /\ step \in StepType /\ Live
      /\ UNCHANGED <<runs, opened, child, daemon, reeval>>
      /\ work' = OnWaypointReserved(work, step.at) /\ step' = [step EXCEPT !.op = "retrySupersede"]
  BY DEF RetryReserve, OneLine, Going, TypeOK, daemonVars
<1>2. /\ step.run \in Opened /\ IsLatest(step.run) /\ step.at = runs[step.run].waypoint
      /\ \A r \in Opened : Claimable(r) => r = step.run
      /\ work.state = "NeedsInput" => work.cause.run = step.run
      /\ OneLiveLine
  BY <1>1 DEF OneLine, StepLine, Retries, RunsLine
<1>3. /\ work'.state # "Waiting" /\ work'.current = step.at /\ work'.cause = work.cause
      /\ work'.state = "NeedsInput" => work.state = "NeedsInput"
  BY <1>1 DEF OnWaypointReserved, WorkType, Live
<1>4. /\ step'.op = "retrySupersede" /\ step'.at = step.at /\ step'.run = step.run
  BY <1>1 DEF StepType
<1>5. /\ Opened' = Opened /\ OneLiveLine' = OneLiveLine
      /\ \A q : Claimable(q)' = Claimable(q) /\ IsLatest(q)' = IsLatest(q)
  BY <1>1, RunsFrame
<1>6. IsLatest(step.run)' /\ IsLatest(work.cause.run)' = IsLatest(work.cause.run)
  BY <1>1, <1>2, <1>3, <1>4 DEF IsLatest, Opened
<1>7. RunsLine'
  BY <1>1, <1>2, <1>3, <1>5, <1>6 DEF RunsLine
<1>8. StepLine'
  BY <1>1, <1>2, <1>3, <1>4, <1>5, <1>6 DEF StepLine, Advances, Retries, AdvanceFollowsClaim
<1>9. SweepLine'
  BY <1>1, SweepRests DEF OneLine, Idle
<1> QED
  BY <1>7, <1>8, <1>9 DEF OneLine

LEMMA RetrySupersedeLine ==
  ASSUME OneLine, Going', RetrySupersede
  PROVE  OneLine'
<1> SUFFICES ASSUME NEW r, r = step.run PROVE OneLine'
  OBVIOUS
<1>1. /\ step.op = "retrySupersede" /\ work \in WorkType /\ step \in StepType /\ Live /\ TypeOK
      /\ UNCHANGED <<opened, child, daemon, reeval>>
      /\ work' = AskHuman(work, r, "run_failed") /\ step' = [step EXCEPT !.op = "retryOpen"]
      /\ runs' = [runs EXCEPT ![r].status = "Retried"]
  BY DEF RetrySupersede, OneLine, Going, TypeOK, daemonVars, OnRunFailed
<1>2. /\ r \in Opened /\ IsLatest(r) /\ step.at = runs[r].waypoint
      /\ \A q \in Opened : Claimable(q) => q = r
      /\ work.current = step.at
  BY <1>1 DEF OneLine, StepLine, Retries
<1>3. /\ work'.state = "NeedsInput" /\ work'.current = work.current /\ work'.cause.run = r
  BY <1>1 DEF AskHuman, Live, Cause, WorkType
<1>4. /\ step'.op = "retryOpen" /\ step'.at = step.at /\ step'.run = r
  BY <1>1 DEF StepType
<1>5. /\ runs'[r].status = "Retried" /\ Opened' = Opened
      /\ \A q \in Opened : runs'[q].waypoint = runs[q].waypoint
      /\ \A q \in Opened : IsLatest(q)' <=> IsLatest(q)
      /\ \A q \in Opened : q # r => (Claimable(q)' <=> Claimable(q))
  BY <1>1, <1>2, StatusFrame DEF RunStatus
<1>6. NoneClaimable'
  BY <1>2, <1>5 DEF NoneClaimable, Claimable
<1>7. IsLatest(r)' /\ r \in Opened'
  BY <1>2, <1>5
<1>8. RunsLine'
  BY <1>2, <1>3, <1>5, <1>6, <1>7 DEF RunsLine, NoneClaimable, OneLiveLine, SupersededIsRefused
<1>9. StepLine'
  BY <1>2, <1>3, <1>4, <1>5, <1>6, <1>7
     DEF StepLine, Advances, Retries, AdvanceFollowsClaim, NoneClaimable
<1>10. SweepLine'
  BY <1>1, SweepRests DEF OneLine, Idle
<1> QED
  BY <1>8, <1>9, <1>10 DEF OneLine

\* Only the sweep gets here, and the Work waits.
LEMMA ReevaluateLine ==
  ASSUME OneLine, Going', NEW t \in reeval, Reevaluate(t)
  PROVE  OneLine'
<1>1. /\ reeval = {t} /\ daemon = "sweep" /\ work.state = "Waiting" /\ NoneClaimable
      /\ UNCHANGED <<runs, opened, work, child, daemon>> /\ reeval' = {}
  BY DEF Reevaluate, OneLine, SweepLine, RunsLine, journalVars, daemonVars
<1>2. RunsLine'
  BY <1>1, RunsLineFrame DEF OneLine
<1>3. NoneClaimable'
  BY <1>1, RunsFrame
<1>4. \/ step'.op = "idle"
      \/ step'.op = "cascade" /\ step'.from = "reevaluate"
  BY DEF Reevaluate, Cascading, Idle
<1>5. StepLine'
  BY <1>1, <1>3, <1>4 DEF StepLine, Advances, Retries, AdvanceFollowsClaim
<1>6. SweepLine'
  BY <1>1 DEF OneLine, SweepLine
<1> QED
  BY <1>2, <1>5, <1>6 DEF OneLine

\* Whatever leaves Runs, Work and handler as they are.
LEMMA StillLine ==
  ASSUME OneLine, Going', SweepLine', UNCHANGED <<work, runs, opened, step>>
  PROVE  OneLine'
<1>1. RunsLine'
  BY RunsLineFrame DEF OneLine
<1>2. /\ Opened' = Opened /\ NoneClaimable' = NoneClaimable
      /\ \A r : Claimable(r)' = Claimable(r) /\ IsLatest(r)' = IsLatest(r)
      /\ \A l : LatestClaimed(l)' = LatestClaimed(l)
  BY RunsFrame
<1>3. AdvanceFollowsClaim'
  BY FollowFrame DEF OneLine, StepLine
<1>4. StepLine'
  <2>1. CASE step.op \notin Retries
    BY <1>2, <1>3, <2>1 DEF OneLine, StepLine, Advances, Retries
  <2>2. CASE step.op \in Retries
    BY <1>2, <1>3, <2>2 DEF OneLine, StepLine, Advances, Retries
  <2> QED
    BY <2>1, <2>2
<1> QED
  BY <1>1, <1>4 DEF OneLine

LEMMA AsideLine ==
  ASSUME NoChildWorks, OneLine, Going',
         \/ Children \/ (\E k \in Child : CancelChild(k))
         \/ (\E cascade \in BOOLEAN : CancelRead(cascade)) \/ Restart \/ Serve
         \/ UNCHANGED vars
  PROVE  OneLine'
<1>1. UNCHANGED <<work, runs, opened, step>>
  BY DEF Children, SpawnChild, SubmitChild, EndChild, CancelChild, CancelRead, Restart, Serve,
         vars, journalVars, flightVars
<1>2. \A k \in Child : child[k].status = "None"
  BY DEF OneLine, SweepLine
<1>3. ~Children
  BY <1>2 DEF Children, SpawnChild, SubmitChild, EndChild, NoChildWorks
<1>4. CASE \E k \in Child : CancelChild(k)
  <2>1. UNCHANGED <<child, reeval, daemon>> /\ daemon = "up"
    BY <1>2, <1>4 DEF CancelChild, daemonVars
  <2> QED
    BY <1>1, <2>1, StillLine, SweepRests DEF OneLine
<1>5. CASE \E cascade \in BOOLEAN : CancelRead(cascade)
  <2>1. UNCHANGED <<child, reeval, daemon>> /\ daemon = "up"
    BY <1>5 DEF CancelRead, Serving, daemonVars
  <2> QED
    BY <1>1, <2>1, StillLine, SweepRests DEF OneLine
<1>6. CASE Restart \/ Serve \/ UNCHANGED vars
  <2>1. SweepLine'
    BY <1>6 DEF OneLine, SweepLine, Restart, Serve, vars, flightVars, daemonVars, journalVars
  <2> QED
    BY <1>1, <2>1, StillLine
<1> QED
  BY <1>3, <1>4, <1>5, <1>6

LEMMA FailureLine ==
  ASSUME OneLine, Going', Falter \/ Crash
  PROVE  OneLine'
<1>1. UNCHANGED <<work, runs, opened, child>> /\ step' = Idle /\ step'.op = "idle"
  BY DEF Falter, Crash, journalVars, Idle
<1>2. RunsLine'
  BY <1>1, RunsLineFrame DEF OneLine
<1>3. StepLine'
  BY <1>1 DEF StepLine, Advances, Retries, AdvanceFollowsClaim
<1>4. SweepLine'
  BY <1>1 DEF Falter, Crash, OneLine, SweepLine
<1> QED
  BY <1>2, <1>3, <1>4 DEF OneLine

LEMMA OneLineNext ==
  ASSUME NoChildWorks, Orienting = {}, LoseClaims = FALSE, OneLine, [Next]_vars
  PROVE  OneLine'
<1>1. Going'
  BY GoingNext DEF OneLine
<1>2. CASE Claim
  BY <1>1, <1>2, FileDoneLine, AskLine DEF Claim, FileDoneUnrecorded
<1>3. CASE Driver
  BY <1>1, <1>3, DriverLine DEF Driver
<1>4. CASE Operator
  BY <1>1, <1>4, RetryLine, EndLine, AsideLine DEF Operator
<1>5. CASE Internal
  <2>1. ~ RecordTransitionFailure /\ ~ \E d \in apart : RetakeGuard(d)
    BY DEF RecordTransitionFailure, OneLine, Going
  <2> QED
    BY <1>1, <1>5, <2>1, CloseContainerLine, HoldContainerLine, ActivateContainerLine,
       ReserveLeafLine, OpenRunLine, RefuseReservationLine, RetryReserveLine,
       RetrySupersedeLine, ReevaluateLine, EndLine, AsideLine DEF Internal
<1>6. CASE Children \/ UNCHANGED vars
  BY <1>1, <1>6, AsideLine
<1>7. CASE Falter \/ Crash
  BY <1>1, <1>7, FailureLine
<1> QED
  BY <1>2, <1>3, <1>4, <1>5, <1>6, <1>7 DEF Next

-----------------------------------------------------------------------------
(* What the line gives. *)

\* On every Route without orienting leaves whose containers require no child
\* Work, at most one Run can still have a Done validated, and it is the latest
\* of its leaf, whatever is claimed, retried, canceled or cut by a crash
\* (validate_claim, handle_retry).
THEOREM OneLineOnly ==
  ASSUME NoChildWorks, Orienting = {}, LoseClaims = FALSE
  PROVE  Spec => []OneLiveLine
<1>1. Init => OneLine
  BY OneLineInit
<1>2. OneLine /\ [Next]_vars => OneLine'
  BY OneLineNext
<1>3. OneLine => OneLiveLine
  BY DEF OneLine, RunsLine
<1> QED
  BY <1>1, <1>2, <1>3, PTL DEF Spec

\* On the same Routes a Work that asks for a human names a Run that retry
\* accepts (handle_retry).
THEOREM QuestionAnswerable ==
  ASSUME NoChildWorks, Orienting = {}, LoseClaims = FALSE
  PROVE  Spec => []NeedsInputIsAnswerable
<1>1. Init => OneLine
  BY OneLineInit
<1>2. OneLine /\ [Next]_vars => OneLine'
  BY OneLineNext
<1>3. OneLine => NeedsInputIsAnswerable
  BY DEF OneLine, RunsLine, NeedsInputIsAnswerable, RetryAccepted
<1> QED
  BY <1>1, <1>2, <1>3, PTL DEF Spec

\* On the same Routes whatever the daemon reserves after a Claim, the leaf
\* before it is Claimed in the journal (handle_claim).
THEOREM ClaimBeforeAdvance ==
  ASSUME NoChildWorks, Orienting = {}, LoseClaims = FALSE
  PROVE  Spec => []AdvanceFollowsClaim
<1>1. Init => OneLine
  BY OneLineInit
<1>2. OneLine /\ [Next]_vars => OneLine'
  BY OneLineNext
<1>3. OneLine => AdvanceFollowsClaim
  BY DEF OneLine, StepLine
<1> QED
  BY <1>1, <1>2, <1>3, PTL DEF Spec

\* A question is left by a Done of its own actor, a new Run, or the end.
LEMMA QuestionStep ==
  ASSUME NoChildWorks, Orienting = {}, LoseClaims = FALSE, OneLine, [Next]_vars,
         Asked, work'.state # "NeedsInput"
  PROVE  \/ work'.state \in {"Failed", "Canceled"}
         \/ opened' = opened + 1
         \/ /\ runs'[work.cause.run].status = "Claimed"
            /\ ~runs'[work.cause.run].auto
<1>1. Going' /\ work \in WorkType /\ work.state = "NeedsInput" /\ work.cause.reason = "question"
      /\ Live /\ step.op \notin Advances
  BY OneLineNext DEF OneLine, Going, TypeOK, Asked, StepLine, Live, Terminal
<1>2. ASSUME NEW r \in RunId, NEW arts \in SUBSET Output, NEW auto \in BOOLEAN,
             FileDone(r, arts, auto)
      PROVE  /\ runs'[work.cause.run].status = "Claimed"
             /\ ~runs'[work.cause.run].auto
  <2>1. r \in Opened /\ Claimable(r) /\ ~(auto /\ work.cause = Cause(r, "question"))
    BY <1>1, <1>2 DEF FileDone, ValidDone
  <2>2. work.cause.run = r
    BY <1>1, <2>1, OneClaimable
  <2>3. work.cause = Cause(r, "question")
    BY <1>1, <2>2 DEF Cause, WorkType
  <2>4. runs'[r].status = "Claimed" /\ runs'[r].auto = auto
    BY <1>2, DoneClaims
  <2>5. ~auto
    BY <2>1, <2>3
  <2> QED
    BY <2>2, <2>4, <2>5
<1>3. ASSUME NEW r \in RunId, FileQuestion(r) \/ FileOutOfBoundary(r)
      PROVE  FALSE
  BY <1>1, <1>3 DEF FileQuestion, FileOutOfBoundary, OnQuestion, OnOutOfBoundary, AskHuman,
                    WorkType, Asked
<1>4. ~Driver
  <2> SUFFICES ASSUME NEW r \in RunId, RunFails(r) \/ RunVanishes(r) \/ Observe(r)
               PROVE  FALSE
    BY DEF Driver
  <2>1. \A why : AskHuman(work, r, why).state = "NeedsInput"
    BY <1>1 DEF AskHuman, WorkType
  <2>2. OnTurnSeen(work, r) = work
    BY <1>1 DEF OnTurnSeen, Cause
  <2> QED
    BY <1>1, <2>1, <2>2 DEF RunFails, RunVanishes, Observe, OnRunFailed, OnRunVanished, OnBlocked,
                            OnNoProgress
<1>5. ASSUME UNCHANGED work
      PROVE  FALSE
  BY <1>5 DEF Asked
<1>6. CASE Operator
  <2>1. \A r \in RunId : ~Retry(r)
    BY <1>5 DEF Retry, journalVars
  <2>2. \A cascade \in BOOLEAN : ~CancelRead(cascade)
    BY <1>5 DEF CancelRead, journalVars
  <2>3. GiveUp
    BY <1>6, <2>1, <2>2 DEF Operator
  <2> QED
    BY <1>1, <2>3 DEF GiveUp, OnWorkFailed, Settled, WorkType
<1>7. ~Children
  BY <1>5 DEF Children, SpawnChild, SubmitChild, EndChild, journalVars
<1>8. CASE Internal
  <2>1. ~ RecordTransitionFailure /\ ~ \E d \in apart : RetakeGuard(d)
    BY DEF RecordTransitionFailure, OneLine, Going
  <2>2. ~CloseContainer /\ ~HoldContainer /\ ~ReserveLeaf /\ ~RefuseReservation
    BY <1>1 DEF CloseContainer, HoldContainer, ReserveLeaf, RefuseReservation, Advances
  <2>3. ASSUME NEW c \in step.todo, ActivateContainer(c)
        PROVE  FALSE
    BY <1>1, <2>3 DEF ActivateContainer, OnActivated, WorkType
  <2>4. ~RetryReserve /\ ~RetrySupersede
    BY <1>1 DEF RetryReserve, RetrySupersede, OnWaypointReserved, OnRunFailed, AskHuman, Live,
                WorkType
  <2>5. ~(\E t \in reeval : Reevaluate(t)) /\ ~(\E k \in Child : CancelChild(k)) /\ ~Restart /\ ~Serve
    BY <1>5 DEF Reevaluate, CancelChild, Restart, Serve, journalVars
  <2>6. CASE OpenReserved \/ RetryOpen
    BY <2>6 DEF OpenReserved, RetryOpen, OpenRun
  <2>7. CASE CancelWrite
    BY <1>1, <2>7 DEF CancelWrite, OnWorkCanceled, Settled, WorkType
  <2> QED
    BY <1>8, <2>1, <2>2, <2>3, <2>4, <2>5, <2>6, <2>7 DEF Internal
<1>9. CASE Falter \/ Crash \/ UNCHANGED vars
  BY <1>5, <1>9 DEF Falter, Crash, vars, journalVars
<1> QED
  BY <1>2, <1>3, <1>4, <1>6, <1>7, <1>8, <1>9 DEF Next, Claim, FileDoneUnrecorded

\* On the same Routes an automatic Claim never takes away a standing question,
\* and no other Run's Claim does (ruling 0257; validate_claim).
THEOREM QuestionKept ==
  ASSUME NoChildWorks, Orienting = {}, LoseClaims = FALSE
  PROVE  Spec => QuestionLeftByDecision
<1>1. Init => OneLine
  BY OneLineInit
<1>2. OneLine /\ [Next]_vars => OneLine'
  BY OneLineNext
<1>3. OneLine /\ [Next]_vars
        => [(Asked /\ work'.state # "NeedsInput") =>
              \/ work'.state \in {"Failed", "Canceled"}
              \/ opened' = opened + 1
              \/ /\ runs'[work.cause.run].status = "Claimed"
                 /\ ~runs'[work.cause.run].auto]_vars
  BY QuestionStep
<1> QED
  BY <1>1, <1>2, <1>3, PTL DEF Spec, QuestionLeftByDecision

-----------------------------------------------------------------------------
(***************************************************************************)
(* A closed container holds, and a Completed Work is complete, for every   *)
(* Route without orienting leaves whose containers require no child Work.  *)
(*                                                                         *)
(* The argument: only the Runs of one leaf change in a step, and that leaf *)
(* is inside no closed container, because whoever reserves a leaf has      *)
(* activated every closed container around it first, outermost first.      *)
(* A Work completes at its last top-level element, and by then every one   *)
(* before it is finished.                                                  *)
(***************************************************************************)

(* The invariant. *)

Finished(n) == IF n \in Container THEN ClosedNow(n) ELSE LatestClaimed(n)

\* Everything a closed container requires is there, at every depth.
Shut(c) ==
  /\ Missing(c) = {}
  /\ \A n \in Waypoint : c \in Ancestors(n) => Finished(n)

Closed ==
  /\ \A c \in Container : ClosedNow(c) => Shut(c)
  /\ \A c \in Container : outcome[c].kind # "none" =>
       work.activation[c] >= 1 /\ outcome[c].attempt <= work.activation[c]

\* The cascade stands at the outermost container that can be closed now.
Apex(c, l) ==
  /\ \E r \in Opened : runs[r].waypoint = l
  /\ \A p \in Ancestors(c) : ~ClosedNow(p)

\* Every element of the top level that ends before l is finished.
TopBefore(l) ==
  \A n \in Waypoint, m \in Leaf :
    Chain[n] = <<>> /\ Ends(n, m) /\ Position(m) < Position(l) => Finished(n)

\* A sweep may take up the cascade again at c.
Reached(c) == Apex(c, LastLeafOf(c)) /\ TopBefore(LastLeafOf(c))

\* A Run was opened inside containers that had been activated, and one that
\* can be claimed is inside no closed one.
RunsAround ==
  \A r \in Opened : \A c \in Ancestors(runs[r].waypoint) :
    work.activation[c] >= 1 /\ (Claimable(r) => ~ClosedNow(c))

WorkAround ==
  /\ work.state = "Waiting" => Reached(work.held.waypoint)
  /\ work.current \in Leaf => TopBefore(work.current)
  /\ work.state = "Completed" =>
       \A n \in Waypoint : Chain[n] = <<>> => Finished(n)

\* The containers around l that a reservation has still to activate are in todo.
ToEnter(l, todo) ==
  /\ todo \subseteq Ancestors(l)
  /\ \A c \in Ancestors(l) : ClosedNow(c) \/ work.activation[c] = 0 => c \in todo

StepAround ==
  /\ step.op = "cascade" =>
       /\ Apex(step.at, step.leaf) /\ TopBefore(step.leaf)
       /\ work.current \in Leaf => work.current = step.leaf
  /\ step.op = "reserve" /\ work.current \in Leaf =>
       Position(work.current) < Position(step.at)
  /\ step.op \in {"reserve", "retryReserve"} => ToEnter(step.at, step.todo)
  /\ step.op \in {"open", "retrySupersede", "retryOpen"} => ToEnter(step.at, {})
  /\ step.op \in {"reserve", "open"} \cup Retries => TopBefore(step.at)
  /\ step.op = "retryReserve" =>
       \/ work.state = "NeedsInput"
       \/ work.state = "Waiting" /\ work.held.waypoint \in Ancestors(step.at)

Closing ==
  OneLine /\ WaitInv /\ Closed /\ RunsAround /\ WorkAround /\ StepAround

-----------------------------------------------------------------------------
(* What a container's closure depends on. *)

LEMMA InsideWaypoint ==
  ASSUME NEW c \in Container
  PROVE  /\ c \in Waypoint /\ c \notin Leaf
         /\ \A n \in Direct(c) : n \in Waypoint /\ c \in Ancestors(n)
         /\ c \notin Direct(c)
<1>1. c \in Waypoint /\ c \notin Leaf
  BY RouteAssumption DEF Waypoint
<1>2. ASSUME NEW n \in Direct(c)
      PROVE  n \in Waypoint /\ c \in Ancestors(n)
  BY ParentFirst DEF Direct
<1>3. c \notin Direct(c)
  BY <1>1, <1>2, AncestorsNest
<1> QED
  BY <1>1, <1>2, <1>3

LEMMA MissingIs ==
  ASSUME NoChildWorks, NEW c \in Container
  PROVE  /\ Missing(c) = {n \in Direct(c) : ~Finished(n)} \cup (Needs[c] \ Produced(c))
         /\ Missing(c)' = {n \in Direct(c) : ~Finished(n)'} \cup (Needs[c] \ Produced(c)')
BY DEF Missing, Finished, NoChildWorks

LEMMA ProducedFrame ==
  ASSUME NEW c \in Container, CreditedRuns(c)' = CreditedRuns(c),
         \A r \in CreditedRuns(c) : runs'[r].arts = runs[r].arts,
         \A d \in Container : d \in Direct(c) =>
            (ClosedNow(d)' <=> ClosedNow(d)) /\ outcome'[d] = outcome[d]
  PROVE  Produced(c)' = Produced(c)
<1>1. {runs'[r].arts : r \in CreditedRuns(c)'} = {runs[r].arts : r \in CreditedRuns(c)}
  OBVIOUS
<1>2. {e \in Direct(c) \cap Container : ClosedNow(e)'} = {e \in Direct(c) \cap Container : ClosedNow(e)}
  OBVIOUS
<1>3. {outcome'[d].produced : d \in {e \in Direct(c) \cap Container : ClosedNow(e)'}}
        = {outcome[d].produced : d \in {e \in Direct(c) \cap Container : ClosedNow(e)}}
  BY <1>2
<1> QED
  BY <1>1, <1>3 DEF Produced

\* A container that nothing inside has changed stays as it is.
LEMMA ShutFrame ==
  ASSUME NoChildWorks, NEW c \in Container,
         CreditedRuns(c)' = CreditedRuns(c),
         \A r \in CreditedRuns(c) : runs'[r].arts = runs[r].arts,
         \A d \in Container : c \in Ancestors(d) =>
            (ClosedNow(d)' <=> ClosedNow(d)) /\ outcome'[d] = outcome[d],
         \A l \in Leaf : c \in Ancestors(l) => (LatestClaimed(l)' <=> LatestClaimed(l))
  PROVE  Missing(c)' = Missing(c) /\ (Shut(c)' <=> Shut(c))
<1>1. \A n \in Waypoint : c \in Ancestors(n) => (Finished(n)' <=> Finished(n))
  BY DEF Finished, Waypoint
<1>2. \A n \in Direct(c) : Finished(n)' <=> Finished(n)
  BY <1>1, InsideWaypoint
<1>3. Produced(c)' = Produced(c)
  BY ProducedFrame, InsideWaypoint
<1>4. Missing(c)' = Missing(c)
  BY <1>2, <1>3, MissingIs
<1> QED
  BY <1>1, <1>4 DEF Shut

\* Only the Runs of leaf l have changed.
OnlyAt(l) ==
  /\ \A m \in Leaf : m # l => (LatestClaimed(m)' <=> LatestClaimed(m))
  /\ \A c \in Container : c \notin Ancestors(l) =>
       /\ CreditedRuns(c)' = CreditedRuns(c)
       /\ \A r \in CreditedRuns(c) : runs'[r].arts = runs[r].arts

LEMMA MovesAt ==
  ASSUME TypeOK, NEW r \in Opened, NEW l \in Leaf, l = runs[r].waypoint,
         NEW new \in RunType, new.waypoint = l,
         runs' = [runs EXCEPT ![r] = new], opened' = opened
  PROVE  OnlyAt(l)
<1>1. /\ Opened' = Opened
      /\ \A q \in Opened : q # r => runs'[q] = runs[q]
      /\ \A q \in Opened : runs'[q].waypoint = runs[q].waypoint
      /\ \A q \in Opened : IsLatest(q)' <=> IsLatest(q)
  BY MoveFrame
<1>2. \A m \in Leaf : m # l => (LatestClaimed(m)' <=> LatestClaimed(m))
  BY <1>1 DEF LatestClaimed
<1>3. ASSUME NEW c \in Container, c \notin Ancestors(l)
      PROVE  /\ CreditedRuns(c)' = CreditedRuns(c)
             /\ \A q \in CreditedRuns(c) : runs'[q].arts = runs[q].arts
  <2>1. l \notin Direct(c)
    BY <1>3, InsideWaypoint
  <2>2. \A q \in Opened : runs[q].waypoint \in Direct(c) => runs'[q] = runs[q]
    BY <1>1, <2>1
  <2>3. CreditedRuns(c)' = CreditedRuns(c)
    BY <1>1, <2>2 DEF CreditedRuns
  <2> QED
    BY <2>2, <2>3 DEF CreditedRuns
<1> QED
  BY <1>2, <1>3 DEF OnlyAt

LEMMA OpensAt ==
  ASSUME NEW l \in Leaf, NEW n \in Nat, n = opened + 1, opened \in Nat, opened' = n,
         runs'[n].waypoint = l, runs'[n].status = "Open",
         \A q \in Opened' : q # n => q \in Opened /\ runs'[q] = runs[q]
  PROVE  OnlyAt(l)
<1>1. Opened' = Opened \cup {n} /\ n \notin Opened
  BY DEF Opened
<1>2. \A q \in Opened : q \in Opened' /\ q # n /\ runs'[q] = runs[q]
  BY <1>1
<1>3. \A q \in Opened : runs[q].waypoint # l => (IsLatest(q)' <=> IsLatest(q))
  BY <1>1, <1>2 DEF IsLatest
<1>4. ASSUME NEW m \in Leaf, m # l
      PROVE  LatestClaimed(m)' <=> LatestClaimed(m)
  BY <1>1, <1>2, <1>3, <1>4 DEF LatestClaimed
<1>5. ASSUME NEW c \in Container, c \notin Ancestors(l)
      PROVE  /\ CreditedRuns(c)' = CreditedRuns(c)
             /\ \A q \in CreditedRuns(c) : runs'[q].arts = runs[q].arts
  <2>1. l \notin Direct(c)
    BY <1>5, InsideWaypoint
  <2>2. CreditedRuns(c)' = CreditedRuns(c)
    BY <1>1, <1>2, <1>3, <2>1 DEF CreditedRuns
  <2> QED
    BY <1>2, <2>2 DEF CreditedRuns
<1> QED
  BY <1>4, <1>5 DEF OnlyAt

-----------------------------------------------------------------------------
(* Steps that move no Run and close or reopen no container. *)

LEMMA StillKeeps ==
  ASSUME NoChildWorks, Closed, RunsAround, UNCHANGED <<runs, opened, outcome>>,
         work'.activation = work.activation
  PROVE  /\ Closed' /\ RunsAround'
         /\ \A c \in Container : ClosedNow(c)' <=> ClosedNow(c)
         /\ \A l : TopBefore(l)' <=> TopBefore(l)
         /\ \A c \in Waypoint : \A l : Apex(c, l)' <=> Apex(c, l)
         /\ \A c \in Container : Reached(c)' <=> Reached(c)
         /\ \A l \in Leaf : \A todo : ToEnter(l, todo)' <=> ToEnter(l, todo)
         /\ (\A n \in Waypoint : Chain[n] = <<>> => Finished(n))
              => (\A n \in Waypoint : Chain[n] = <<>> => Finished(n))'
<1>1. /\ Opened' = Opened
      /\ \A r : Claimable(r)' = Claimable(r) /\ IsLatest(r)' = IsLatest(r)
      /\ \A l : LatestClaimed(l)' = LatestClaimed(l)
  BY RunsFrame
<1>2. \A c : ClosedNow(c)' <=> ClosedNow(c)
  BY DEF ClosedNow, Attempt
<1>3. \A c \in Container : CreditedRuns(c)' = CreditedRuns(c)
  BY <1>1 DEF CreditedRuns
<1>4. \A c \in Container : Shut(c)' <=> Shut(c)
  BY <1>1, <1>2, <1>3, ShutFrame
<1>5. Closed'
  BY <1>2, <1>4 DEF Closed
<1>6. \A n \in Waypoint : Ancestors(n) \subseteq Container
  BY AncestorsType
<1>7. \A n \in Waypoint : Finished(n)' <=> Finished(n)
  BY <1>1, <1>2 DEF Finished
<1>8. \A l : TopBefore(l)' <=> TopBefore(l)
  BY <1>7 DEF TopBefore
<1>9. \A c \in Waypoint : \A l : Apex(c, l)' <=> Apex(c, l)
  BY <1>1, <1>2, <1>6 DEF Apex
<1>10. \A c \in Container : Reached(c)' <=> Reached(c)
  BY <1>8, <1>9, InsideWaypoint DEF Reached
<1>11. \A l \in Leaf : \A todo : ToEnter(l, todo)' <=> ToEnter(l, todo)
  BY <1>2, <1>6 DEF ToEnter, Waypoint
<1>12. RunsAround'
  BY <1>1, <1>2 DEF RunsAround
<1> QED
  BY <1>2, <1>5, <1>7, <1>8, <1>9, <1>10, <1>11, <1>12

LEMMA TopBeforeDown ==
  ASSUME NEW k \in Leaf, NEW l \in Leaf, TopBefore(k), Position(l) <= Position(k)
  PROVE  TopBefore(l)
<1>1. \A m \in Leaf : Position(m) \in Nat
  BY PositionType, Positions
<1> QED
  BY <1>1 DEF TopBefore

LEMMA HeldContainer ==
  ASSUME WaitInv, work.state = "Waiting"
  PROVE  work.held.waypoint \in Container
BY DEF WaitInv, WaitingHasHold, TypeOK, WorkType, HoldType

LEMMA StillWork ==
  ASSUME NoChildWorks, Closing, UNCHANGED <<runs, opened, outcome>>,
         work'.activation = work.activation,
         work'.state = "Waiting" => work.state = "Waiting" /\ work'.held = work.held,
         work'.state = "Completed" => work.state = "Completed",
         work'.current \in Leaf => TopBefore(work'.current)
  PROVE  Closed' /\ RunsAround' /\ WorkAround'
<1>1. /\ Closed' /\ RunsAround'
      /\ \A l : TopBefore(l)' <=> TopBefore(l)
      /\ \A c \in Container : Reached(c)' <=> Reached(c)
      /\ (\A n \in Waypoint : Chain[n] = <<>> => Finished(n))
              => (\A n \in Waypoint : Chain[n] = <<>> => Finished(n))'
  BY StillKeeps DEF Closing
<1>2. ASSUME work'.state = "Waiting"
      PROVE  Reached(work.held.waypoint)'
  <2> SUFFICES ASSUME NEW h, h = work.held.waypoint, h = work'.held.waypoint
               PROVE  Reached(h)'
    BY <1>2
  <2>1. h \in Container /\ Reached(h)
    BY <1>2, HeldContainer DEF Closing, WorkAround
  <2> QED
    BY <1>1, <2>1
<1>3. ASSUME work'.current \in Leaf
      PROVE  TopBefore(work.current)'
  BY <1>1, <1>3
<1>4. ASSUME work'.state = "Completed"
      PROVE  (\A n \in Waypoint : Chain[n] = <<>> => Finished(n))'
  BY <1>1, <1>4 DEF Closing, WorkAround
<1> QED
  BY <1>1, <1>2, <1>3, <1>4 DEF WorkAround

LEMMA StepIdle ==
  ASSUME step'.op = "idle"
  PROVE  StepAround'
BY DEF StepAround, Retries

LEMMA StillRests ==
  ASSUME NoChildWorks, Closing, OneLine', WaitInv', UNCHANGED <<runs, opened, outcome>>,
         work'.activation = work.activation, work'.current = work.current,
         work'.state = "Waiting" => work.state = "Waiting" /\ work'.held = work.held,
         work'.state = "Completed" => work.state = "Completed",
         step'.op = "idle"
  PROVE  Closing'
<1>1. Closed' /\ RunsAround' /\ WorkAround'
  BY StillWork DEF Closing, WorkAround
<1> QED
  BY <1>1, StepIdle DEF Closing

\* Whatever leaves the journal and the handler as they are.
LEMMA StillStays ==
  ASSUME NoChildWorks, Closing, OneLine', WaitInv', UNCHANGED <<journalVars, step>>
  PROVE  Closing'
<1>1. UNCHANGED <<runs, opened, outcome, work>>
  BY DEF journalVars
<1>2. Closed' /\ RunsAround' /\ WorkAround'
  BY <1>1, StillWork DEF Closing, WorkAround
<1>3. CASE step.op = "idle"
  BY <1>2, <1>3, StepIdle DEF Closing
<1>4. CASE step.op # "idle"
  <2>1. /\ step.op = "cascade" => step.at \in Container
        /\ step.op # "cascade" => step.at \in Leaf
    BY <1>4 DEF Closing, WaitInv, TypeOK, StepFits
  <2>2. /\ \A l : TopBefore(l)' <=> TopBefore(l)
        /\ \A c \in Container : \A l : Apex(c, l)' <=> Apex(c, l)
        /\ \A l \in Leaf : \A todo : ToEnter(l, todo)' <=> ToEnter(l, todo)
    BY <1>1, StillKeeps DEF Closing, Waypoint
  <2>3. StepAround'
    <3> SUFFICES ASSUME NEW at, at = step.at, NEW l, l = step.leaf, NEW todo, todo = step.todo
                 PROVE  StepAround'
      OBVIOUS
    <3>1. step'.op = step.op /\ step'.at = at /\ step'.leaf = l /\ step'.todo = todo /\ work' = work
      BY <1>1
    <3>2. TopBefore(l)' <=> TopBefore(l)
      BY <2>2
    <3>3. TopBefore(at)' <=> TopBefore(at)
      BY <2>2
    <3>4. at \in Container => (Apex(at, l)' <=> Apex(at, l))
      BY <2>2
    <3>5. at \in Leaf => (ToEnter(at, todo)' <=> ToEnter(at, todo)) /\ (ToEnter(at, {})' <=> ToEnter(at, {}))
      BY <2>2
    <3> QED
      BY <2>1, <3>1, <3>2, <3>3, <3>4, <3>5 DEF Closing, StepAround, Retries
  <2> QED
    BY <1>2, <2>3 DEF Closing
<1> QED
  BY <1>3, <1>4

-----------------------------------------------------------------------------
(* Requests, and handlers that return. *)

LEMMA AskClosing ==
  ASSUME NoChildWorks, Closing, OneLine', WaitInv', NEW r \in RunId,
         FileQuestion(r) \/ FileOutOfBoundary(r) \/ Observe(r)
  PROVE  Closing'
<1>1. /\ UNCHANGED <<runs, opened, outcome, step>> /\ step.op = "idle" /\ Live /\ work \in WorkType
  BY DEF FileQuestion, FileOutOfBoundary, Observe, Driven, Serving, Idle, flightVars, Closing,
         WaitInv, TypeOK
<1>2. \/ work' = work
      \/ \E why : work' = AskHuman(work, r, why)
      \/ work' = OnTurnSeen(work, r)
  BY DEF FileQuestion, FileOutOfBoundary, Observe, OnQuestion, OnOutOfBoundary, OnBlocked, OnNoProgress
<1>3. /\ work'.activation = work.activation /\ work'.current = work.current /\ work'.held = work.held
      /\ work'.state \in {work.state, "NeedsInput", "Active"}
  BY <1>1, <1>2 DEF AskHuman, OnTurnSeen, WorkType
<1> QED
  BY <1>1, <1>3, StillRests

LEMMA EndClosing ==
  ASSUME NoChildWorks, Closing, OneLine', WaitInv', GiveUp \/ CancelWrite \/ RefuseReservation
  PROVE  Closing'
<1>1. /\ UNCHANGED <<runs, opened, outcome>> /\ step'.op = "idle" /\ work \in WorkType
  BY DEF GiveUp, CancelWrite, RefuseReservation, Serving, Idle, flightVars, Closing,
         WaitInv, TypeOK
<1>2. work' = work \/ work' = OnWorkFailed(work) \/ work' = OnWorkCanceled(work)
  BY DEF GiveUp, CancelWrite, RefuseReservation
<1>3. /\ work'.activation = work.activation /\ work'.current = work.current /\ work'.held = work.held
      /\ work'.state \in {work.state, "Failed", "Canceled"}
  BY <1>1, <1>2 DEF OnWorkFailed, OnWorkCanceled, Settled, WorkType
<1> QED
  BY <1>1, <1>3, StillRests

LEMMA FailureClosing ==
  ASSUME NoChildWorks, Closing, OneLine', WaitInv', Falter \/ Crash
  PROVE  Closing'
<1>1. UNCHANGED <<runs, opened, outcome, work>> /\ step'.op = "idle"
  BY DEF Falter, Crash, journalVars, Idle
<1> QED
  BY <1>1, StillRests

LEMMA AsideClosing ==
  ASSUME NoChildWorks, Closing, OneLine', WaitInv',
         \/ Children \/ (\E k \in Child : CancelChild(k))
         \/ (\E cascade \in BOOLEAN : CancelRead(cascade)) \/ Restart \/ Serve
         \/ UNCHANGED vars
  PROVE  Closing'
<1>1. UNCHANGED <<journalVars, step>>
  BY DEF Children, SpawnChild, SubmitChild, EndChild, CancelChild, CancelRead, Restart, Serve,
         vars, flightVars
<1> QED
  BY <1>1, StillStays

LEMMA ReevaluateClosing ==
  ASSUME NoChildWorks, Closing, OneLine', WaitInv', NEW t \in reeval, Reevaluate(t)
  PROVE  Closing'
<1> SUFFICES ASSUME NEW h, h = t.at
             PROVE  Closing'
  OBVIOUS
<1>1. /\ UNCHANGED <<runs, opened, outcome, work>> /\ work.state = "Waiting"
      /\ h = work.held.waypoint /\ work.current \notin Leaf
  BY DEF Reevaluate, journalVars, Closing, OneLine, SweepLine, RunsLine
<1>2. CASE step' = Idle
  <2>1. step'.op = "idle"
    BY <1>2 DEF Idle
  <2> QED
    BY <1>1, <2>1, StillRests
<1>3. CASE step' = Cascading(h, LastLeafOf(h), "reevaluate")
  <2>1. step'.op = "cascade" /\ step'.at = h /\ step'.leaf = LastLeafOf(h)
    BY <1>3 DEF Cascading, Idle
  <2>2. h \in Container /\ Reached(h)
    BY <1>1, HeldContainer DEF Closing, WorkAround
  <2>3. Reached(h)' /\ Closed' /\ RunsAround' /\ WorkAround'
    BY <1>1, <2>2, StillWork, StillKeeps DEF Closing, WorkAround
  <2>4. StepAround'
    BY <1>1, <2>1, <2>3 DEF StepAround, Reached, Retries
  <2> QED
    BY <2>3, <2>4 DEF Closing
<1> QED
  BY <1>2, <1>3 DEF Reevaluate

-----------------------------------------------------------------------------
(* Reservations that change no closure. *)

LEMMA RetryClosing ==
  ASSUME NoChildWorks, Closing, OneLine', WaitInv', NEW r \in RunId, Retry(r)
  PROVE  Closing'
<1> SUFFICES ASSUME NEW l, l = runs[r].waypoint, NEW todo, todo = {c \in Ancestors(l) : ClosedNow(c)}
             PROVE  Closing'
  OBVIOUS
<1>1. /\ UNCHANGED <<runs, opened, outcome, work>> /\ r \in Opened /\ l \in Leaf
      /\ RetryAccepted(r)
  BY DEF Retry, journalVars, Closing, WaitInv, TypeOK
<1>2. step'.op = "retryReserve" /\ step'.at = l /\ step'.todo = todo
  BY DEF Retry, Retrying, Idle
<1>3. TopBefore(l) /\ (work.state = "NeedsInput"
                       \/ (work.state = "Waiting" /\ work.held.waypoint \in Ancestors(l)))
  <2>1. CASE work.state = "NeedsInput"
    <3>1. work.current = l
      BY <1>1, <2>1 DEF RetryAccepted
    <3> QED
      BY <1>1, <2>1, <3>1 DEF Closing, WorkAround
  <2>2. CASE work.state = "Waiting"
    <3> DEFINE h == work.held.waypoint
    <3>1. h \in Container /\ Reached(h) /\ h \in Ancestors(l)
      BY <1>1, <2>2, HeldContainer DEF Closing, WorkAround, RetryAccepted
    <3>2. IsLastLeafOf(LastLeafOf(h), h) /\ LastLeafOf(h) \in Leaf
      BY <3>1, LastChildEnds, LastLeafOfType
    <3>3. Position(l) <= Position(LastLeafOf(h)) /\ TopBefore(LastLeafOf(h))
      BY <1>1, <3>1, <3>2 DEF IsLastLeafOf, Reached
    <3>4. TopBefore(l)
      BY <1>1, <3>2, <3>3, TopBeforeDown
    <3> QED
      BY <2>2, <3>1, <3>4
  <2> QED
    BY <1>1, <2>1, <2>2 DEF RetryAccepted
<1>4. ToEnter(l, todo)
  <2>1. \A c \in Ancestors(l) : work.activation[c] >= 1
    BY <1>1 DEF Closing, RunsAround
  <2>2. \A c \in Ancestors(l) : work.activation[c] # 0
    BY <2>1
  <2> QED
    BY <2>2 DEF ToEnter
<1>5. /\ Closed' /\ RunsAround' /\ WorkAround'
      /\ TopBefore(l)' /\ ToEnter(l, todo)'
  BY <1>1, <1>3, <1>4, StillWork, StillKeeps DEF Closing, WorkAround
<1>6. StepAround'
  BY <1>1, <1>2, <1>3, <1>5 DEF StepAround, Retries
<1> QED
  BY <1>5, <1>6 DEF Closing

LEMMA ReserveClosing ==
  ASSUME NoChildWorks, Closing, OneLine', WaitInv', ReserveLeaf \/ RetryReserve
  PROVE  Closing'
<1> SUFFICES ASSUME NEW l, l = step.at PROVE Closing'
  OBVIOUS
<1>1. /\ UNCHANGED <<runs, opened, outcome>> /\ l \in Leaf /\ Live /\ work \in WorkType
      /\ step \in StepType /\ step.op \in {"reserve", "retryReserve"} /\ step.todo = {}
      /\ work' = OnWaypointReserved(work, l)
  BY DEF ReserveLeaf, RetryReserve, Closing, WaitInv, TypeOK, StepFits, OneLine, Going
<1>2. step'.op \in {"open", "retrySupersede"} /\ step'.at = l
  BY <1>1 DEF ReserveLeaf, RetryReserve, StepType
<1>3. TopBefore(l) /\ ToEnter(l, {})
  BY <1>1 DEF Closing, StepAround, Retries
<1>4. /\ work'.activation = work.activation /\ work'.current = l
      /\ work'.state \in {work.state, "Active"} /\ work'.state # "Waiting"
  BY <1>1 DEF OnWaypointReserved, WorkType, Live
<1>5. /\ Closed' /\ RunsAround' /\ WorkAround' /\ TopBefore(l)' /\ ToEnter(l, {})'
  BY <1>1, <1>3, <1>4, StillWork, StillKeeps DEF Closing
<1>6. StepAround'
  BY <1>2, <1>5 DEF StepAround, Retries
<1> QED
  BY <1>5, <1>6 DEF Closing

-----------------------------------------------------------------------------
(* Steps that change the Runs of one leaf, inside no closed container. *)

LEMMA RunsAtKeep ==
  ASSUME NoChildWorks, Closed, NEW l \in Leaf, OnlyAt(l), UNCHANGED outcome,
         work'.activation = work.activation, \A c \in Ancestors(l) : ~ClosedNow(c)
  PROVE  /\ Closed'
         /\ \A c : ClosedNow(c)' <=> ClosedNow(c)
         /\ \A n \in Waypoint : n # l => (Finished(n)' <=> Finished(n))
         /\ \A k \in Leaf : /\ TopBefore(k)
                            /\ Position(k) <= Position(l) \/ (LatestClaimed(l) => LatestClaimed(l)')
                            => TopBefore(k)'
<1>1. \A c : ClosedNow(c)' <=> ClosedNow(c)
  BY DEF ClosedNow, Attempt
<1>2. \A n \in Waypoint : n # l => (Finished(n)' <=> Finished(n))
  BY <1>1 DEF Finished, OnlyAt, Waypoint
<1>3. ASSUME NEW c \in Container, ClosedNow(c)
      PROVE  Shut(c)'
  <2>1. c \notin Ancestors(l) /\ Shut(c)
    BY <1>3 DEF Closed
  <2>2. \A m \in Leaf : c \in Ancestors(m) => (LatestClaimed(m)' <=> LatestClaimed(m))
    BY <2>1 DEF OnlyAt
  <2>3. /\ CreditedRuns(c)' = CreditedRuns(c)
        /\ \A r \in CreditedRuns(c) : runs'[r].arts = runs[r].arts
    BY <2>1 DEF OnlyAt
  <2> QED
    BY <1>1, <2>1, <2>2, <2>3, ShutFrame
<1>4. Closed'
  BY <1>1, <1>3 DEF Closed
<1>5. ASSUME NEW k \in Leaf, TopBefore(k),
             Position(k) <= Position(l) \/ (LatestClaimed(l) => LatestClaimed(l)')
      PROVE  TopBefore(k)'
  <2> SUFFICES ASSUME NEW n \in Waypoint, NEW m \in Leaf,
                      Chain[n] = <<>>, Ends(n, m), Position(m) < Position(k)
               PROVE  Finished(n)'
    BY DEF TopBefore
  <2>1. Finished(n)
    BY <1>5 DEF TopBefore
  <2>2. CASE n # l
    BY <1>2, <2>1, <2>2
  <2>3. CASE n = l
    <3>1. m = l /\ l \notin Container /\ Position(l) \in Nat /\ Position(k) \in Nat
      BY <2>3, RouteAssumption, PositionType, Positions DEF Ends
    <3> QED
      BY <1>5, <2>1, <2>3, <3>1 DEF Finished
  <2> QED
    BY <2>2, <2>3
<1> QED
  BY <1>1, <1>2, <1>4, <1>5

\* A leaf last in a container is last in every container between the two.
LEMMA LastInside ==
  ASSUME NEW n \in Container, NEW p \in Container, n \in Ancestors(p),
         NEW l \in Leaf, p \in Ancestors(l), IsLastLeafOf(l, n)
  PROVE  IsLastLeafOf(l, p)
<1>1. ASSUME NEW m \in Leaf, p \in Ancestors(m)
      PROVE  n \in Ancestors(m)
  BY <1>1, AncestorsNest DEF Waypoint
<1> QED
  BY <1>1 DEF IsLastLeafOf

LEMMA TopOfLeaf ==
  ASSUME NEW l \in Leaf, Chain[l] # <<>> => ~IsLastLeafOf(l, Chain[l][1]),
         NEW n \in Waypoint, Chain[n] = <<>>, Ends(n, l)
  PROVE  n = l
<1>1. CASE n \in Leaf
  BY <1>1 DEF Ends
<1>2. CASE n \notin Leaf
  <2>1. n \in Container /\ n \in Ancestors(l) /\ IsLastLeafOf(l, n) /\ l \in Waypoint
    BY <1>2 DEF Ends, Waypoint, IsLastLeafOf
  <2>2. Chain[l] # <<>>
    BY <2>1, NoParent
  <2>3. /\ Chain[l][1] \in Container /\ Chain[l][1] \in Ancestors(l)
        /\ n = Chain[l][1] \/ n \in Ancestors(Chain[l][1])
    BY <2>1, <2>2, ParentFirst
  <2> QED
    BY <2>1, <2>2, <2>3, LastInside
<1> QED
  BY <1>1, <1>2

LEMMA TopOfContainer ==
  ASSUME NEW l \in Leaf, NEW c \in Ancestors(l),
         Chain[c] # <<>> => ~IsLastLeafOf(l, Chain[c][1]),
         NEW n \in Waypoint, Chain[n] = <<>>, Ends(n, l)
  PROVE  n = c
<1>1. l \in Waypoint /\ c \in Container /\ c \in Waypoint /\ Ancestors(n) = {} /\ Ancestors(l) # {}
      /\ Ancestors(c) \subseteq Ancestors(l)
  BY AncestorsNest, NoParent DEF Waypoint
<1>2. n \in Container /\ n \in Ancestors(l) /\ IsLastLeafOf(l, n)
  BY <1>1 DEF Ends, Waypoint, IsLastLeafOf
<1>3. n = c \/ n \in Ancestors(c)
  BY <1>1, <1>2, AncestorsCompare
<1>4. ASSUME n \in Ancestors(c)
      PROVE  FALSE
  <2>1. Chain[c] # <<>>
    BY <1>1, <1>4, NoParent
  <2>2. /\ Chain[c][1] \in Container /\ Chain[c][1] \in Ancestors(c)
        /\ n = Chain[c][1] \/ n \in Ancestors(Chain[c][1])
    BY <1>1, <1>4, <2>1, ParentFirst
  <2> QED
    BY <1>1, <1>2, <2>1, <2>2, LastInside
<1> QED
  BY <1>3, <1>4

\* What an advance past l finds: everything up to l is finished, and what the
\* next leaf does not enter is open.
LEMMA AdvanceEnters ==
  ASSUME NEW l \in Leaf, l # LastLeaf,
         \A c \in Ancestors(l) : ~IsLastLeafOf(l, c) => ~ClosedNow(c)' /\ work'.activation[c] >= 1,
         TopBefore(l)', \A n \in Waypoint : Chain[n] = <<>> /\ Ends(n, l) => Finished(n)'
  PROVE  /\ ToEnter(LeafAfter(l), Entering(LeafAfter(l)))'
         /\ TopBefore(LeafAfter(l))'
         /\ Position(l) < Position(LeafAfter(l)) /\ LeafAfter(l) \in Leaf
<1> SUFFICES ASSUME NEW m, m = LeafAfter(l)
             PROVE  ToEnter(m, Entering(m))' /\ TopBefore(m)' /\ Position(l) < Position(m) /\ m \in Leaf
  OBVIOUS
<1>1. m \in Leaf /\ Position(m) = Position(l) + 1 /\ \A k \in Leaf : Position(k) \in Nat
  BY NextPosition, PositionType, Positions
<1>2. ASSUME NEW c \in Ancestors(m), c \notin Entering(m)
      PROVE  ~ClosedNow(c)' /\ work'.activation[c] # 0
  <2>1. c \in Ancestors(l) /\ ~IsLastLeafOf(l, c)
    BY <1>2, EntersRest
  <2> QED
    BY <2>1
<1>3. ToEnter(m, Entering(m))'
  BY <1>2 DEF ToEnter, Entering
<1>4. TopBefore(m)'
  <2> SUFFICES ASSUME NEW n \in Waypoint, NEW k \in Leaf,
                      Chain[n] = <<>>, Ends(n, k), Position(k) < Position(m)
               PROVE  Finished(n)'
    BY DEF TopBefore
  <2>1. Position(k) < Position(l) \/ k = l
    BY <1>1, Positions
  <2> QED
    BY <2>1 DEF TopBefore
<1> QED
  BY <1>1, <1>3, <1>4

LEMMA FileDoneClosing ==
  ASSUME NoChildWorks, Orienting = {}, Closing, OneLine', WaitInv', NEW r \in RunId,
         NEW arts \in SUBSET Output, NEW auto \in BOOLEAN, FileDone(r, arts, auto)
  PROVE  Closing'
<1> SUFFICES ASSUME NEW l, l = runs[r].waypoint
             PROVE  Closing'
  OBVIOUS
<1> DEFINE new == [runs[r] EXCEPT !.status = "Claimed", !.arts = arts, !.auto = auto]
<1>1. /\ r \in Opened /\ l \in Leaf /\ Live /\ work.current = l
      /\ NoneClaimable' /\ LatestClaimed(l)' /\ Opened' = Opened
      /\ \A q \in Opened : runs'[q].waypoint = runs[q].waypoint
      /\ work'.state = (IF l = LastLeaf /\ Chain[l] = <<>> THEN "Completed" ELSE "Active")
      /\ work'.current = l /\ work'.held = work.held
      /\ work'.activation = work.activation
      /\ CloseOrAdvance(l)
  BY DoneClaims DEF Closing
<1>2. TypeOK /\ runs[r] \in RunType /\ Claimable(r) /\ UNCHANGED outcome
  BY DEF FileDone, ValidDone, Closing, WaitInv, TypeOK
<1>3. new \in RunType /\ new.waypoint = l
  BY <1>2 DEF RunType, RunStatus
<1>4. runs' = [runs EXCEPT ![r] = new] /\ opened' = opened
  BY DEF FileDone
<1> HIDE DEF new
<1>5. OnlyAt(l)
  BY <1>1, <1>2, <1>3, <1>4, MovesAt
<1>6. \A c \in Ancestors(l) : ~ClosedNow(c) /\ work.activation[c] >= 1
  BY <1>1, <1>2 DEF Closing, RunsAround
<1>7. /\ Closed' /\ TopBefore(l)'
      /\ \A c : ClosedNow(c)' <=> ClosedNow(c)
      /\ \A n \in Waypoint : n # l => (Finished(n)' <=> Finished(n))
  <2>1. TopBefore(l)
    BY <1>1 DEF Closing, WorkAround
  <2> QED
    BY <1>1, <1>2, <1>5, <1>6, <2>1, RunsAtKeep DEF Closing
<1>8. Finished(l)'
  BY <1>1, RouteAssumption DEF Finished
<1>9. RunsAround'
  BY <1>1 DEF Closing, RunsAround, NoneClaimable
<1>10. WorkAround'
  <2>1. ASSUME work'.state = "Completed", NEW n \in Waypoint, Chain[n] = <<>>
        PROVE  Finished(n)'
    <3>1. l = LastLeaf /\ Chain[l] = <<>>
      BY <1>1, <2>1
    <3>2. PICK m \in Leaf : Ends(n, m)
      BY EndsOnce
    <3>3. Position(m) \in 1..Len(LeafOrder) /\ Position(l) = Len(LeafOrder) /\ Len(LeafOrder) \in Nat
      BY <3>1, PositionType, Positions
    <3>4. CASE Position(m) < Position(l)
      BY <1>7, <2>1, <3>2, <3>4 DEF TopBefore
    <3>5. CASE Position(m) = Position(l)
      <4>1. m = l
        BY <1>1, <3>5, Positions
      <4>2. n = l
        BY <1>1, <2>1, <3>1, <3>2, <4>1, TopOfLeaf
      <4> QED
        BY <1>8, <4>2
    <3> QED
      BY <3>3, <3>4, <3>5
  <2>2. work'.state # "Waiting"
    BY <1>1
  <2>3. work'.current \in Leaf => TopBefore(work.current)'
    BY <1>1, <1>7
  <2> QED
    BY <2>1, <2>2, <2>3 DEF WorkAround
<1>11. StepAround'
  <2>1. CASE Advance(l, "claim") /\ (Chain[l] # <<>> => ~IsLastLeafOf(l, Chain[l][1]))
    <3>1. CASE step' = Idle
      <4>1. step'.op = "idle"
        BY <3>1 DEF Idle
      <4> QED
        BY <4>1, StepIdle
    <3>2. CASE step' # Idle
      <4> SUFFICES ASSUME NEW m, m = LeafAfter(l), NEW todo, todo = Entering(m)
                   PROVE  StepAround'
        OBVIOUS
      <4>1. l # LastLeaf /\ step'.op = "reserve" /\ step'.at = m /\ step'.todo = todo
        BY <1>1, <2>1, <3>2, AdvanceGoes
      <4>2. \A c \in Ancestors(l) : ~ClosedNow(c)' /\ work'.activation[c] >= 1
        BY <1>1, <1>6, <1>7
      <4>3. \A n \in Waypoint : Chain[n] = <<>> /\ Ends(n, l) => Finished(n)'
        BY <1>1, <1>8, <2>1, TopOfLeaf
      <4>4. /\ ToEnter(LeafAfter(l), Entering(LeafAfter(l)))' /\ TopBefore(LeafAfter(l))'
            /\ Position(l) < Position(LeafAfter(l))
        BY <1>1, <1>7, <4>1, <4>2, <4>3, AdvanceEnters
      <4>5. ToEnter(m, todo)' /\ TopBefore(m)' /\ Position(l) < Position(m)
        BY <4>4
      <4> QED
        BY <1>1, <4>1, <4>5 DEF StepAround, Retries
    <3> QED
      BY <3>1, <3>2
  <2>2. CASE ~(Advance(l, "claim") /\ (Chain[l] # <<>> => ~IsLastLeafOf(l, Chain[l][1])))
    <3> SUFFICES ASSUME NEW c, c = Chain[l][1]
                 PROVE  StepAround'
      OBVIOUS
    <3>1. step'.op = "cascade" /\ step'.at = c /\ step'.leaf = l /\ Chain[l] # <<>> /\ c \in Container
      BY <1>1, <2>2, CloseOrAdvanceGoes
    <3>2. Ancestors(c) \subseteq Ancestors(l)
      BY <1>1, <3>1, ParentFirst DEF Waypoint
    <3>3. Apex(c, l)'
      BY <1>1, <1>6, <1>7, <3>2 DEF Apex
    <3> QED
      BY <1>1, <1>7, <3>1, <3>3 DEF StepAround, Retries
  <2> QED
    BY <2>1, <2>2
<1> QED
  BY <1>7, <1>9, <1>10, <1>11 DEF Closing

LEMMA NotClaimedLatest ==
  ASSUME NEW r \in Opened, IsLatest(r), runs[r].status # "Claimed"
  PROVE  ~LatestClaimed(runs[r].waypoint)
<1>1. ASSUME NEW q \in Opened, runs[q].waypoint = runs[r].waypoint, IsLatest(q)
      PROVE  q = r
  <2>1. q \in Nat /\ r \in Nat /\ ~(q > r) /\ ~(r > q)
    BY <1>1 DEF IsLatest, Opened
  <2> QED
    BY <2>1
<1> QED
  BY <1>1 DEF LatestClaimed

LEMMA FailsClosing ==
  ASSUME NoChildWorks, Closing, OneLine', WaitInv', NEW r \in RunId,
         RunFails(r) \/ RunVanishes(r)
  PROVE  Closing'
<1> SUFFICES ASSUME NEW l, l = runs[r].waypoint
             PROVE  Closing'
  OBVIOUS
<1>1. /\ r \in Opened /\ l \in Leaf /\ Live /\ runs[r].status = "Open" /\ IsLatest(r) /\ TypeOK
      /\ work \in WorkType /\ runs[r] \in RunType /\ UNCHANGED <<opened, outcome, step>>
      /\ step.op = "idle"
  BY DEF RunFails, RunVanishes, Driven, Serving, Idle, flightVars, Closing, WaitInv, TypeOK
<1>2. PICK s \in RunStatus : runs' = [runs EXCEPT ![r].status = s]
  BY DEF RunFails, RunVanishes, RunStatus
<1>3. PICK why : work' = AskHuman(work, r, why)
  BY DEF RunFails, RunVanishes, OnRunFailed, OnRunVanished
<1>4. /\ work'.state = "NeedsInput" /\ work'.current = work.current
      /\ work'.activation = work.activation
  BY <1>1, <1>3 DEF AskHuman, Live, WorkType
<1> DEFINE new == [runs[r] EXCEPT !.status = s]
<1>5. new \in RunType /\ new.waypoint = l /\ runs' = [runs EXCEPT ![r] = new]
  BY <1>1, <1>2 DEF RunType
<1> HIDE DEF new
<1>6. OnlyAt(l) /\ Opened' = Opened
      /\ \A q \in Opened : /\ runs'[q].waypoint = runs[q].waypoint
                           /\ q # r => (Claimable(q)' <=> Claimable(q))
  BY <1>1, <1>5, MovesAt, MoveFrame
<1>7. Claimable(r) /\ ~LatestClaimed(l)
  BY <1>1, NotClaimedLatest DEF Claimable
<1>8. \A c \in Ancestors(l) : ~ClosedNow(c)
  BY <1>1, <1>7 DEF Closing, RunsAround
<1>9. /\ Closed' /\ \A c : ClosedNow(c)' <=> ClosedNow(c)
      /\ \A k \in Leaf : TopBefore(k) => TopBefore(k)'
  BY <1>1, <1>4, <1>6, <1>7, <1>8, RunsAtKeep DEF Closing
<1>10. RunsAround'
  BY <1>1, <1>4, <1>6, <1>7, <1>9 DEF Closing, RunsAround
<1>11. WorkAround'
  <2>1. work'.current \in Leaf => TopBefore(work.current)'
    BY <1>4, <1>9 DEF Closing, WorkAround
  <2> QED
    BY <1>4, <2>1 DEF WorkAround
<1> QED
  BY <1>1, <1>9, <1>10, <1>11, StepIdle DEF Closing

LEMMA RetrySupersedeClosing ==
  ASSUME NoChildWorks, Closing, OneLine', WaitInv', RetrySupersede
  PROVE  Closing'
<1> SUFFICES ASSUME NEW l, l = step.at, NEW r, r = step.run
             PROVE  Closing'
  OBVIOUS
<1>1. /\ step.op = "retrySupersede" /\ l \in Leaf /\ Live /\ TypeOK /\ work \in WorkType
      /\ step \in StepType /\ UNCHANGED <<opened, outcome>>
      /\ runs' = [runs EXCEPT ![r].status = "Retried"]
      /\ work' = AskHuman(work, r, "run_failed") /\ step' = [step EXCEPT !.op = "retryOpen"]
  BY DEF RetrySupersede, OnRunFailed, Closing, WaitInv, TypeOK, StepFits, OneLine, Going
<1>2. r \in Opened /\ l = runs[r].waypoint /\ work.current = l
  BY <1>1 DEF Closing, OneLine, StepLine, Retries
<1>3. runs[r] \in RunType
  BY <1>1, <1>2, EngineAssumption DEF TypeOK, Opened, RunId
<1>4. /\ work'.state = "NeedsInput" /\ work'.current = l
      /\ work'.activation = work.activation
  BY <1>1, <1>2 DEF AskHuman, Live, WorkType
<1>5. step'.op = "retryOpen" /\ step'.at = l
  BY <1>1 DEF StepType
<1> DEFINE new == [runs[r] EXCEPT !.status = "Retried"]
<1>6. new \in RunType /\ new.waypoint = l /\ new.status = "Retried" /\ runs' = [runs EXCEPT ![r] = new]
  BY <1>1, <1>2, <1>3 DEF RunType, RunStatus
<1> HIDE DEF new
<1>7. OnlyAt(l) /\ Opened' = Opened /\ runs'[r] = new
      /\ \A q \in Opened : /\ runs'[q].waypoint = runs[q].waypoint
                           /\ q # r => (Claimable(q)' <=> Claimable(q))
  <2>1. TypeOK /\ opened' = opened /\ new.waypoint = runs[r].waypoint
    BY <1>1, <1>2, <1>6
  <2>2. OnlyAt(l)
    BY <1>1, <1>2, <1>6, <2>1, MovesAt
  <2>3. /\ Opened' = Opened /\ runs'[r] = new
        /\ \A q \in Opened : runs'[q].waypoint = runs[q].waypoint
        /\ \A q \in Opened : q # r => (Claimable(q)' <=> Claimable(q))
    BY <1>2, <1>6, <2>1, MoveFrame
  <2> QED
    BY <2>2, <2>3
<1>8. ToEnter(l, {}) /\ TopBefore(l)
  BY <1>1 DEF Closing, StepAround, Retries
<1>9. \A c \in Ancestors(l) : ~ClosedNow(c) /\ work.activation[c] # 0
  BY <1>8 DEF ToEnter
<1>10. /\ Closed' /\ TopBefore(l)' /\ \A c : ClosedNow(c)' <=> ClosedNow(c)
  <2>1. Position(l) <= Position(l)
    BY <1>1, PositionType, Positions
  <2> QED
    BY <1>1, <1>4, <1>7, <1>8, <1>9, <2>1, RunsAtKeep DEF Closing
<1>11. ~Claimable(r)'
  BY <1>6, <1>7 DEF Claimable
<1>12. RunsAround'
  BY <1>2, <1>4, <1>7, <1>10, <1>11 DEF Closing, RunsAround
<1>13. WorkAround'
  <2>1. TopBefore(work.current)'
    BY <1>4, <1>10
  <2> QED
    BY <1>4, <2>1 DEF WorkAround
<1>14. ToEnter(l, {})'
  BY <1>4, <1>9, <1>10 DEF ToEnter
<1>15. StepAround'
  BY <1>5, <1>10, <1>14 DEF StepAround, Retries
<1> QED
  BY <1>10, <1>12, <1>13, <1>15 DEF Closing

LEMMA OpenRunClosing ==
  ASSUME NoChildWorks, Closing, OneLine', WaitInv', OpenReserved \/ RetryOpen
  PROVE  Closing'
<1> SUFFICES ASSUME NEW l, l = step.at, NEW n, n = opened + 1
             PROVE  Closing'
  OBVIOUS
<1>1. /\ step.op \in {"open", "retryOpen"} /\ l \in Leaf /\ Live /\ work \in WorkType
      /\ UNCHANGED outcome /\ step' = Idle /\ opened \in Nat /\ opened < MaxRuns
      /\ runs' = [runs EXCEPT ![n] = [NoRun EXCEPT !.waypoint = l, !.status = "Open"]]
      /\ work' = OnRunOpened(work) /\ runs \in [RunId -> RunType]
      /\ work.current = l /\ work.state # "Waiting"
  BY DEF OpenReserved, RetryOpen, OpenRun, Closing, WaitInv, TypeOK, StepFits, OneLine, Going,
         StepLine
<1>2. /\ opened' = n /\ runs'[n].waypoint = l /\ n \in Opened' /\ OneLine
      /\ \A r \in Opened' : r # n => r \in Opened /\ runs'[r] = runs[r]
  BY Going', OpenRunLine DEF Closing, OneLine
<1>3. n \in Nat /\ runs'[n].status = "Open"
  BY <1>1, EngineAssumption DEF RunId, NoRun
<1>4. /\ work'.current = l /\ work'.activation = work.activation
      /\ work'.state \notin {"Waiting", "Completed"}
  BY <1>1 DEF OnRunOpened, WorkType, Live, Terminal
<1>5. OnlyAt(l)
  BY <1>1, <1>2, <1>3, OpensAt
<1>6. ToEnter(l, {}) /\ TopBefore(l)
  BY <1>1 DEF Closing, StepAround, Retries
<1>7. \A c \in Ancestors(l) : ~ClosedNow(c) /\ work.activation[c] # 0 /\ work.activation[c] \in Nat
  BY <1>1, <1>6, AncestorsType DEF ToEnter, WorkType, Waypoint
<1>8. /\ Closed' /\ TopBefore(l)' /\ \A c : ClosedNow(c)' <=> ClosedNow(c)
  <2>1. Position(l) <= Position(l)
    BY <1>1, PositionType, Positions
  <2> QED
    BY <1>1, <1>4, <1>5, <1>6, <1>7, <2>1, RunsAtKeep DEF Closing
<1>9. RunsAround'
  <2> SUFFICES ASSUME NEW r \in Opened', NEW c \in Ancestors(runs'[r].waypoint)
               PROVE  work'.activation[c] >= 1 /\ (Claimable(r)' => ~ClosedNow(c)')
    BY DEF RunsAround
  <2>1. CASE r = n
    BY <1>2, <1>4, <1>7, <1>8, <2>1
  <2>2. CASE r # n
    <3>1. r \in Opened /\ runs'[r] = runs[r]
      BY <1>2, <2>2
    <3>2. Claimable(r)' <=> Claimable(r)
      BY <3>1 DEF Claimable
    <3> QED
      BY <1>4, <1>8, <3>1, <3>2 DEF Closing, RunsAround
  <2> QED
    BY <2>1, <2>2
<1>10. WorkAround'
  <2>1. TopBefore(work.current)'
    BY <1>4, <1>8
  <2> QED
    BY <1>4, <2>1 DEF WorkAround
<1>11. step'.op = "idle"
  BY <1>1 DEF Idle
<1> QED
  BY <1>8, <1>9, <1>10, <1>11, StepIdle DEF Closing

-----------------------------------------------------------------------------
(* Steps that close, hold or reopen a container. *)

\* An outcome recorded for a container inside no closed one.
LEMMA OutcomeAt ==
  ASSUME NoChildWorks, Closed, NEW c \in Container, NEW o \in OutcomeType,
         outcome \in [Container -> OutcomeType], outcome' = [outcome EXCEPT ![c] = o],
         UNCHANGED <<runs, opened>>, work'.activation = work.activation,
         \A p \in Ancestors(c) : ~ClosedNow(p),
         work.activation[c] >= 1, o.attempt <= work.activation[c]
  PROVE  /\ outcome'[c] = o
         /\ \A d \in Container : d # c => (ClosedNow(d)' <=> ClosedNow(d))
         /\ \A n \in Waypoint : n # c => (Finished(n)' <=> Finished(n))
         /\ (ClosedNow(c)' => Shut(c)) => Closed'
<1>1. outcome'[c] = o /\ \A d \in Container : d # c => outcome'[d] = outcome[d]
  OBVIOUS
<1>2. \A d \in Container : d # c => (ClosedNow(d)' <=> ClosedNow(d))
  BY <1>1 DEF ClosedNow, Attempt
<1>3. /\ \A l : LatestClaimed(l)' <=> LatestClaimed(l)
      /\ \A d : CreditedRuns(d)' = CreditedRuns(d)
  BY RunsFrame DEF CreditedRuns
<1>4. \A n \in Waypoint : n # c => (Finished(n)' <=> Finished(n))
  BY <1>2, <1>3 DEF Finished
<1>5. ASSUME NEW d \in Container, d \notin Ancestors(c)
      PROVE  Shut(d)' <=> Shut(d)
  BY <1>1, <1>2, <1>3, <1>5, ShutFrame
<1>6. c \notin Ancestors(c)
  BY InsideWaypoint, AncestorsNest
<1>7. ASSUME ClosedNow(c)' => Shut(c)
      PROVE  Closed'
  <2>1. ASSUME NEW d \in Container, ClosedNow(d)'
        PROVE  Shut(d)'
    <3>1. CASE d = c
      BY <1>5, <1>6, <1>7, <2>1, <3>1
    <3>2. CASE d # c
      BY <1>2, <1>5, <2>1, <3>2 DEF Closed
    <3> QED
      BY <3>1, <3>2
  <2>2. ASSUME NEW d \in Container, outcome'[d].kind # "none"
        PROVE  work'.activation[d] >= 1 /\ outcome'[d].attempt <= work'.activation[d]
    BY <1>1, <2>2 DEF Closed
  <2> QED
    BY <2>1, <2>2 DEF Closed
<1> QED
  BY <1>1, <1>2, <1>4, <1>7

\* What a container that lacks nothing contains is finished, at every depth.
LEMMA MissesNothing ==
  ASSUME NoChildWorks, Closed, NEW c \in Container, Missing(c) = {}
  PROVE  Shut(c)
<1>1. \A n \in Direct(c) : Finished(n)
  BY MissingIs
<1>2. ASSUME NEW n \in Waypoint, c \in Ancestors(n)
      PROVE  Finished(n)
  <2>1. n \in Direct(c) \/ \E d \in Direct(c) : d \in Ancestors(n)
    BY <1>2, PathDown
  <2>2. ASSUME NEW d \in Direct(c), d \in Ancestors(n)
        PROVE  Finished(n)
    <3>1. d \in Container
      BY <2>2, AncestorsType
    <3>2. ClosedNow(d)
      BY <1>1, <3>1 DEF Finished
    <3> QED
      BY <2>2, <3>1, <3>2 DEF Closed, Shut
  <2> QED
    BY <1>1, <2>1, <2>2
<1> QED
  BY <1>2 DEF Shut

\* Where a cascade stands.
LEMMA CascadeStands ==
  ASSUME Closing, step.op = "cascade", NEW c, c = step.at, NEW l, l = step.leaf
  PROVE  /\ c \in Container /\ l \in Leaf /\ c \in Ancestors(l) /\ l = LastLeafOf(c)
         /\ IsLastLeafOf(l, c)
         /\ Apex(c, l) /\ TopBefore(l) /\ NoneClaimable /\ Live
         /\ \A d \in Ancestors(l) : work.activation[d] >= 1 /\ work.activation[d] \in Nat
         /\ work.activation[c] >= 1 /\ Attempt(c) = work.activation[c]
         /\ TypeOK /\ work \in WorkType /\ outcome \in [Container -> OutcomeType]
<1>1. /\ c \in Container /\ l \in Leaf /\ IsLastLeafOf(l, c) /\ TypeOK /\ work \in WorkType
      /\ outcome \in [Container -> OutcomeType] /\ NoneClaimable /\ Live
  BY DEF Closing, WaitInv, TypeOK, StepFits, OneLine, Going, StepLine, Advances
<1>2. c \in Ancestors(l) /\ l = LastLeafOf(c)
  BY <1>1, LastChildEnds DEF IsLastLeafOf
<1>3. Apex(c, l) /\ TopBefore(l)
  BY DEF Closing, StepAround
<1>4. \A d \in Ancestors(l) : work.activation[d] >= 1
  BY <1>3 DEF Closing, RunsAround, Apex
<1>5. \A d \in Ancestors(l) : work.activation[d] \in Nat
  BY <1>1, AncestorsType DEF WorkType, Waypoint
<1>6. Attempt(c) = work.activation[c]
  BY <1>2, <1>4, <1>5 DEF Attempt
<1> QED
  BY <1>1, <1>2, <1>3, <1>4, <1>5, <1>6

LEMMA HoldContainerClosing ==
  ASSUME NoChildWorks, Closing, OneLine', WaitInv', HoldContainer
  PROVE  Closing'
<1> SUFFICES ASSUME NEW c, c = step.at, NEW l, l = step.leaf
             PROVE  Closing'
  OBVIOUS
<1>1. /\ UNCHANGED <<runs, opened>> /\ step'.op = "idle" /\ Missing(c) # {} /\ step.op = "cascade"
  BY DEF HoldContainer, Idle
<1>2. CASE UNCHANGED <<work, outcome>>
  BY <1>1, <1>2, StillRests
<1>3. CASE ~UNCHANGED <<work, outcome>>
  <2> DEFINE o == [kind |-> "held", attempt |-> Attempt(c), missing |-> Missing(c),
                   produced |-> {}, credit |-> {}]
  <2>1. /\ c \in Container /\ l \in Leaf /\ l = LastLeafOf(c) /\ Apex(c, l) /\ TopBefore(l)
        /\ NoneClaimable /\ Live /\ work.activation[c] >= 1 /\ Attempt(c) = work.activation[c]
        /\ work \in WorkType /\ outcome \in [Container -> OutcomeType] /\ Closed
    BY <1>1, CascadeStands DEF Closing
  <2>2. outcome' = [outcome EXCEPT ![c] = o] /\ work' = OnStageHeld(work, c, Attempt(c), Missing(c))
    BY <1>3 DEF HoldContainer
  <2>3. /\ work'.state = "Waiting" /\ work'.current = c /\ work'.held.waypoint = c
        /\ work'.activation = work.activation
    BY <2>1, <2>2 DEF OnStageHeld, Settled, Live, WorkType
  <2>4. work.activation[c] \in Nat /\ Attempt(c) \in Nat
    BY <2>1 DEF WorkType
  <2>5. o \in OutcomeType /\ o.kind = "held" /\ o.attempt <= work.activation[c]
    BY <2>1, <2>4, MissingType DEF OutcomeType
  <2> HIDE DEF o
  <2>6. /\ outcome'[c] = o
        /\ \A d \in Container : d # c => (ClosedNow(d)' <=> ClosedNow(d))
        /\ \A n \in Waypoint : n # c => (Finished(n)' <=> Finished(n))
        /\ (ClosedNow(c)' => Shut(c)) => Closed'
    BY <1>1, <2>1, <2>2, <2>3, <2>5, OutcomeAt DEF Apex
  <2>7. ~ClosedNow(c)' /\ ~ClosedNow(c)
    BY <1>1, <2>1, <2>5, <2>6 DEF ClosedNow, Closed, Shut
  <2>8. /\ Closed' /\ \A d \in Container : ClosedNow(d)' <=> ClosedNow(d)
        /\ \A n \in Waypoint : Finished(n)' <=> Finished(n)
    BY <2>1, <2>6, <2>7 DEF Finished
  <2>9. Opened' = Opened /\ NoneClaimable'
    BY <1>1, <2>1, RunsFrame
  <2>10. RunsAround'
    BY <1>1, <2>3, <2>9 DEF Closing, RunsAround, NoneClaimable
  <2>11. Reached(c)'
    <3>1. TopBefore(l)'
      BY <2>1, <2>8 DEF TopBefore
    <3>2. Ancestors(c) \subseteq Container
      BY <2>1, AncestorsType DEF Waypoint
    <3>3. Apex(c, l)'
      BY <1>1, <2>1, <2>8, <2>9, <3>2 DEF Apex
    <3> QED
      BY <2>1, <3>1, <3>3 DEF Reached
  <2>12. WorkAround'
    <3>1. Reached(work.held.waypoint)'
      BY <2>3, <2>11
    <3>2. work'.current \notin Leaf
      BY <2>1, <2>3, RouteAssumption
    <3> QED
      BY <2>3, <3>1, <3>2 DEF WorkAround
  <2> QED
    BY <1>1, <2>8, <2>10, <2>12, StepIdle DEF Closing
<1> QED
  BY <1>2, <1>3

LEMMA CloseContainerClosing ==
  ASSUME NoChildWorks, Orienting = {}, Closing, OneLine', WaitInv', CloseContainer
  PROVE  Closing'
<1> SUFFICES ASSUME NEW c, c = step.at, NEW l, l = step.leaf, NEW from, from = step.from
             PROVE  Closing'
  OBVIOUS
<1> DEFINE o == [kind |-> "closed", attempt |-> Attempt(c), missing |-> {},
                 produced |-> Produced(c), credit |-> CreditedRuns(c)]
<1>1. /\ UNCHANGED <<runs, opened>> /\ step.op = "cascade" /\ Missing(c) = {}
      /\ outcome' = [outcome EXCEPT ![c] = o] /\ work' = OnStageClosed(work, c, Attempt(c))
      /\ Going
  BY DEF CloseContainer, Closing, OneLine
<1>2. /\ c \in Container /\ l \in Leaf /\ c \in Ancestors(l) /\ IsLastLeafOf(l, c)
      /\ Apex(c, l) /\ TopBefore(l) /\ NoneClaimable /\ Live /\ Closed
      /\ work.activation[c] >= 1 /\ Attempt(c) = work.activation[c] /\ TypeOK
      /\ work \in WorkType /\ outcome \in [Container -> OutcomeType]
      /\ \A d \in Ancestors(l) : work.activation[d] >= 1
  BY <1>1, CascadeStands DEF Closing
<1>3. /\ work'.state = (IF Chain[c] = <<>> /\ TopLast = c THEN "Completed" ELSE "Active")
      /\ work'.current = work.current /\ work'.activation = work.activation
  BY <1>1, <1>2 DEF OnStageClosed, Settled, Live, WorkType
<1>4. work.activation[c] \in Nat /\ Attempt(c) \in Nat
  BY <1>2 DEF WorkType
<1>5. o \in OutcomeType /\ o.kind = "closed" /\ o.attempt = Attempt(c)
      /\ o.attempt <= work.activation[c]
  <2>1. CreditedRuns(c) \subseteq RunId
    BY <1>2, EngineAssumption DEF CreditedRuns, Opened, RunId, TypeOK
  <2>2. Produced(c) \subseteq Output
    BY <1>2, ProducedType
  <2> QED
    BY <1>2, <1>4, <2>1, <2>2 DEF OutcomeType
<1> HIDE DEF o
<1>6. Shut(c)
  BY <1>1, <1>2, MissesNothing
<1>7. /\ outcome'[c] = o /\ Closed'
      /\ \A d \in Container : d # c => (ClosedNow(d)' <=> ClosedNow(d))
      /\ \A n \in Waypoint : n # c => (Finished(n)' <=> Finished(n))
  BY <1>1, <1>2, <1>3, <1>5, <1>6, OutcomeAt DEF Apex
<1>8. Finished(c)' /\ \A n \in Waypoint : Finished(n) => Finished(n)'
  <2>1. Attempt(c)' = Attempt(c)
    BY <1>3 DEF Attempt
  <2>2. ClosedNow(c)'
    BY <1>5, <1>7, <2>1 DEF ClosedNow
  <2> QED
    BY <1>2, <1>7, <2>2 DEF Finished
<1>9. \A k : TopBefore(k) => TopBefore(k)'
  BY <1>8 DEF TopBefore
<1>10. Opened' = Opened /\ NoneClaimable'
  BY <1>1, <1>2, RunsFrame
<1>11. RunsAround'
  BY <1>1, <1>3, <1>10 DEF Closing, RunsAround, NoneClaimable
<1>12. WorkAround'
  <2>1. ASSUME work'.state = "Completed", NEW n \in Waypoint, Chain[n] = <<>>
        PROVE  Finished(n)'
    <3>1. Chain[c] = <<>> /\ TopLast = c /\ c \notin Leaf
      BY <1>2, <1>3, <2>1, RouteAssumption
    <3>2. l = LastLeaf
      BY <1>2, <3>1, TopLastEnds DEF Ends
    <3>3. PICK m \in Leaf : Ends(n, m)
      BY EndsOnce
    <3>4. Position(m) \in 1..Len(LeafOrder) /\ Position(l) = Len(LeafOrder) /\ Len(LeafOrder) \in Nat
      BY <3>2, PositionType, Positions
    <3>5. CASE Position(m) < Position(l)
      BY <1>2, <1>9, <2>1, <3>3, <3>5 DEF TopBefore
    <3>6. CASE Position(m) = Position(l)
      <4>1. m = l
        BY <1>2, <3>6, Positions
      <4>2. n = c
        BY <1>2, <2>1, <3>1, <3>3, <4>1, TopOfContainer
      <4> QED
        BY <1>8, <4>2
    <3> QED
      BY <3>4, <3>5, <3>6
  <2>2. work'.state # "Waiting"
    BY <1>3
  <2>3. work'.current \in Leaf => TopBefore(work.current)'
    BY <1>3, <1>9 DEF Closing, WorkAround
  <2> QED
    BY <2>1, <2>2, <2>3 DEF WorkAround
<1>13. work'.current \in Leaf => work'.current = l
  BY <1>1, <1>3 DEF Closing, StepAround
<1>14. Ancestors(c) \subseteq Container /\ c \notin Ancestors(c) /\ c \in Waypoint
  BY <1>2, InsideWaypoint, AncestorsType, AncestorsNest
<1>15. \A p \in Ancestors(c) : ~ClosedNow(p)'
  BY <1>2, <1>7, <1>14 DEF Apex
<1>16. ASSUME Advance(l, from), Chain[c] # <<>> => ~IsLastLeafOf(l, Chain[c][1])
       PROVE  StepAround'
  <2>1. CASE step' = Idle
    <3>1. step'.op = "idle"
      BY <2>1 DEF Idle
    <3> QED
      BY <3>1, StepIdle
  <2>2. CASE step' # Idle
    <3> SUFFICES ASSUME NEW m, m = LeafAfter(l), NEW todo, todo = Entering(m)
                 PROVE  StepAround'
      OBVIOUS
    <3>1. l # LastLeaf /\ step'.op = "reserve" /\ step'.at = m /\ step'.todo = todo
      BY <1>2, <1>16, <2>2, AdvanceGoes
    <3>2. ASSUME NEW d \in Ancestors(l), ~IsLastLeafOf(l, d)
          PROVE  ~ClosedNow(d)' /\ work'.activation[d] >= 1
      <4>1. l \in Waypoint /\ d \in Container
        BY <1>2, AncestorsType DEF Waypoint
      <4>2. d # c
        BY <1>2, <3>2
      <4>3. c \notin Ancestors(d)
        BY <1>2, <3>2, <4>1, LastInside
      <4>4. d \in Ancestors(c)
        BY <1>2, <4>1, <4>2, <4>3, AncestorsCompare
      <4> QED
        BY <1>2, <1>3, <1>15, <4>4
    <3>3. \A n \in Waypoint : Chain[n] = <<>> /\ Ends(n, l) => Finished(n)'
      BY <1>2, <1>8, <1>16, TopOfContainer
    <3>4. /\ ToEnter(LeafAfter(l), Entering(LeafAfter(l)))' /\ TopBefore(LeafAfter(l))'
          /\ Position(l) < Position(LeafAfter(l))
      BY <1>2, <1>9, <3>1, <3>2, <3>3, AdvanceEnters
    <3>5. ToEnter(m, todo)' /\ TopBefore(m)' /\ Position(l) < Position(m)
      BY <3>4
    <3> QED
      BY <1>13, <3>1, <3>5 DEF StepAround, Retries
  <2> QED
    BY <2>1, <2>2
<1>17. ASSUME ~(Advance(l, from) /\ (Chain[c] # <<>> => ~IsLastLeafOf(l, Chain[c][1])))
       PROVE  StepAround'
  <2> SUFFICES ASSUME NEW p, p = Chain[c][1]
               PROVE  StepAround'
    OBVIOUS
  <2>1. step'.op = "cascade" /\ step'.at = p /\ step'.leaf = l /\ Chain[c] # <<>> /\ p \in Container
    BY <1>1, <1>17, CloseGoes
  <2>2. Ancestors(p) \subseteq Ancestors(c)
    BY <1>14, <2>1, ParentFirst
  <2>3. Apex(p, l)'
    BY <1>1, <1>2, <1>10, <1>15, <2>2 DEF Apex
  <2> QED
    BY <1>2, <1>9, <1>13, <2>1, <2>3 DEF StepAround, Retries
<1>18. StepAround'
  BY <1>16, <1>17
<1> QED
  BY <1>7, <1>11, <1>12, <1>18 DEF Closing

LEMMA ActivateContainerClosing ==
  ASSUME NoChildWorks, Closing, OneLine', WaitInv', NEW c \in step.todo, ActivateContainer(c)
  PROVE  Closing'
<1> SUFFICES ASSUME NEW l, l = step.at, NEW todo, todo = step.todo
             PROVE  Closing'
  OBVIOUS
<1>1. /\ UNCHANGED <<runs, opened, outcome>> /\ step.op \in {"reserve", "retryReserve"}
      /\ c \in todo /\ todo \cap Ancestors(c) = {} /\ l \in Leaf /\ l \in Waypoint
      /\ work \in WorkType /\ step \in StepType /\ Live /\ Closed
      /\ outcome \in [Container -> OutcomeType]
      /\ work' = OnActivated(work, c) /\ step' = [step EXCEPT !.todo = @ \ {c}]
  BY DEF ActivateContainer, Closing, WaitInv, TypeOK, StepFits, OneLine, Going, Waypoint
<1>2. ToEnter(l, todo) /\ TopBefore(l)
  BY <1>1 DEF Closing, StepAround, Retries
<1>3. c \in Container /\ c \in Waypoint /\ c \in Ancestors(l) /\ Ancestors(c) \subseteq Ancestors(l)
      /\ c \notin Ancestors(c)
  BY <1>1, <1>2, AncestorsNest DEF ToEnter
<1>4. /\ work'.state = work.state /\ work'.current = work.current
      /\ work'.activation = [work.activation EXCEPT ![c] = @ + 1]
      /\ work.activation \in [Container -> Nat]
      /\ work'.held \in {NoHold, work.held}
  BY <1>1 DEF OnActivated, WorkType
<1>5. step'.op = step.op /\ step'.at = l /\ step'.todo = todo \ {c}
  BY <1>1 DEF StepType
<1>6. /\ \A d \in Container : work'.activation[d] \in Nat /\ work'.activation[d] >= work.activation[d]
      /\ work'.activation[c] = work.activation[c] + 1
      /\ \A d \in Container : d # c => work'.activation[d] = work.activation[d]
  BY <1>3, <1>4
<1>7. ~ClosedNow(c)'
  <2>1. work'.activation[c] # 0 /\ work.activation[c] \in Nat
    BY <1>3, <1>4, <1>6
  <2>2. ClosedNow(c)' => outcome[c].kind = "closed" /\ outcome[c].attempt = work.activation[c] + 1
    BY <1>1, <1>6, <2>1 DEF ClosedNow, Attempt
  <2>3. outcome[c].kind # "none" => outcome[c].attempt <= work.activation[c] /\ outcome[c].attempt \in Nat
    BY <1>1, <1>3 DEF Closed, OutcomeType
  <2> QED
    BY <2>1, <2>2, <2>3
<1>8. \A d \in Container : d # c => (ClosedNow(d)' <=> ClosedNow(d))
  BY <1>1, <1>6 DEF ClosedNow, Attempt
<1>9. /\ Opened' = Opened
      /\ \A r : Claimable(r)' = Claimable(r)
      /\ \A k : LatestClaimed(k)' = LatestClaimed(k)
      /\ \A d : CreditedRuns(d)' = CreditedRuns(d)
  BY <1>1, RunsFrame DEF CreditedRuns
<1>10. \A n \in Waypoint : n # c => (Finished(n)' <=> Finished(n))
  BY <1>8, <1>9 DEF Finished
<1>11. Closed'
  <2>1. ASSUME NEW d \in Container, ClosedNow(d)'
        PROVE  Shut(d)'
    <3>1. d # c /\ ClosedNow(d) /\ Shut(d)
      BY <1>1, <1>7, <1>8, <2>1 DEF Closed
    <3>2. d \notin Ancestors(c)
      BY <1>1, <1>2, <1>3, <3>1 DEF ToEnter
    <3> QED
      BY <1>1, <1>8, <1>9, <3>1, <3>2, ShutFrame
  <2>2. ASSUME NEW d \in Container, outcome'[d].kind # "none"
        PROVE  work'.activation[d] >= 1 /\ outcome'[d].attempt <= work'.activation[d]
    <3>1. /\ work.activation[d] >= 1 /\ outcome[d].attempt <= work.activation[d]
          /\ work.activation[d] \in Nat /\ outcome[d].attempt \in Nat
      BY <1>1, <1>4, <2>2 DEF Closed, OutcomeType
    <3> QED
      BY <1>1, <1>6, <3>1
  <2> QED
    BY <2>1, <2>2 DEF Closed
<1>12. RunsAround'
  <2> SUFFICES ASSUME NEW r \in Opened, NEW d \in Ancestors(runs[r].waypoint)
               PROVE  work'.activation[d] >= 1 /\ (Claimable(r)' => ~ClosedNow(d)')
    BY <1>1, <1>9 DEF RunsAround
  <2>1. runs[r].waypoint \in Waypoint
    BY DEF Closing, WaitInv, TypeOK, Waypoint
  <2>2. d \in Container /\ work.activation[d] \in Nat
    BY <1>4, <2>1, AncestorsType
  <2>3. work.activation[d] >= 1 /\ (Claimable(r) => ~ClosedNow(d))
    BY DEF Closing, RunsAround
  <2> QED
    BY <1>6, <1>7, <1>8, <1>9, <2>2, <2>3
\* Nothing that ends before k is reopened, if k is inside c or before it.
<1>13. ASSUME NEW k \in Leaf, TopBefore(k),
              Position(k) <= Position(l) \/ (Chain[c] = <<>> => c \in Ancestors(k))
       PROVE  TopBefore(k)'
  <2> SUFFICES ASSUME NEW n \in Waypoint, NEW m \in Leaf,
                      Chain[n] = <<>>, Ends(n, m), Position(m) < Position(k)
               PROVE  Finished(n)'
    BY DEF TopBefore
  <2>1. Finished(n)
    BY <1>13 DEF TopBefore
  <2>2. n # c
    <3> SUFFICES ASSUME n = c PROVE FALSE
      OBVIOUS
    <3>1. IsLastLeafOf(m, c)
      BY <1>3, InsideWaypoint DEF Ends
    <3>2. Position(l) <= Position(m)
      BY <1>1, <1>3, <3>1 DEF IsLastLeafOf
    <3>3. c \in Ancestors(k) => Position(k) <= Position(m)
      BY <3>1 DEF IsLastLeafOf
    <3>4. Position(k) \in Nat /\ Position(m) \in Nat /\ Position(l) \in Nat
      BY <1>1, PositionType, Positions
    <3> QED
      BY <1>13, <3>2, <3>3, <3>4
  <2> QED
    BY <1>10, <2>1, <2>2
<1>14. TopBefore(l)'
  BY <1>1, <1>2, <1>3, <1>13
<1>15. ASSUME work.state = "Waiting"
       PROVE  step.op = "retryReserve" /\ work'.held = work.held /\ Reached(work.held.waypoint)'
              /\ work.held.waypoint \in Ancestors(l)
  <2> SUFFICES ASSUME NEW h, h = work.held.waypoint, NEW k, k = LastLeafOf(h)
               PROVE  step.op = "retryReserve" /\ work'.held = work.held /\ Reached(h)'
                      /\ h \in Ancestors(l)
    <3>1. work'.held = work.held => work'.held.waypoint = work.held.waypoint
      OBVIOUS
    <3> QED
      BY <3>1
  <2>1. step.op = "retryReserve"
    BY <1>1, <1>15 DEF Closing, WaitInv, StepIsSafe
  <2>2. work'.held = work.held
    <3>1. work'.held # NoHold
      BY <1>4, <1>15 DEF WaitInv, WaitingHasHold
    <3> QED
      BY <1>4, <3>1
  <2>3. h \in Ancestors(l) /\ h \in Container /\ Reached(h)
    BY <1>15, <2>1, HeldContainer DEF Closing, StepAround, WorkAround
  <2>4. k \in Leaf /\ IsLastLeafOf(k, h) /\ h \in Ancestors(k) /\ k \in Waypoint /\ h \in Waypoint
    BY <2>3, LastChildEnds, LastLeafOfType DEF IsLastLeafOf, Waypoint
  <2>5. Chain[c] = <<>> => c \in Ancestors(k)
    <3>1. Chain[c] = <<>> => Ancestors(c) = {}
      BY <1>3, NoParent
    <3>2. c = h \/ c \in Ancestors(h) \/ h \in Ancestors(c)
      BY <1>1, <1>3, <2>3, AncestorsCompare
    <3>3. Ancestors(h) \subseteq Ancestors(k)
      BY <2>4, AncestorsNest
    <3> QED
      BY <2>4, <3>1, <3>2, <3>3
  <2>6. TopBefore(k)'
    BY <1>13, <2>3, <2>4, <2>5 DEF Reached
  <2>7. Apex(h, k)'
    <3>1. Apex(h, k)
      BY <2>3 DEF Reached
    <3>2. \A p \in Ancestors(h) : ~ClosedNow(p)'
      BY <1>7, <1>8, <2>4, <3>1, AncestorsType DEF Apex
    <3> QED
      BY <1>1, <1>9, <3>1, <3>2 DEF Apex
  <2> QED
    BY <2>1, <2>2, <2>3, <2>6, <2>7 DEF Reached
<1>16. ASSUME work.current \in Leaf
       PROVE  TopBefore(work.current)'
  <2> SUFFICES ASSUME NEW k, k = work.current, k = work'.current
               PROVE  TopBefore(k)'
    BY <1>4
  <2>1. k \in Leaf /\ TopBefore(k) /\ Position(k) \in Nat /\ Position(l) \in Nat
    BY <1>1, <1>16, PositionType, Positions DEF Closing, WorkAround
  <2>2. CASE step.op = "reserve"
    <3>1. Position(k) <= Position(l)
      BY <2>1, <2>2 DEF Closing, StepAround
    <3> QED
      BY <1>13, <2>1, <3>1
  <2>3. CASE step.op = "retryReserve"
    <3>1. work.state # "Waiting"
      BY <1>16 DEF Closing, OneLine, RunsLine
    <3>2. work.state = "NeedsInput"
      BY <2>3, <3>1 DEF Closing, StepAround
    <3>3. k = l
      BY <2>3, <3>2 DEF Closing, OneLine, RunsLine, StepLine, Retries
    <3> QED
      BY <1>14, <3>3
  <2> QED
    BY <1>1, <2>2, <2>3
<1>17. WorkAround'
  <2>1. work'.state = "Waiting" => Reached(work.held.waypoint)'
    BY <1>4, <1>15
  <2>2. work'.current \in Leaf => TopBefore(work.current)'
    BY <1>4, <1>16
  <2>3. work'.state # "Completed"
    BY <1>1, <1>4 DEF Live, Terminal
  <2> QED
    BY <2>1, <2>2, <2>3 DEF WorkAround
<1>18. ToEnter(l, todo \ {c})'
  <2>1. ASSUME NEW d \in Ancestors(l), ClosedNow(d)' \/ work'.activation[d] = 0
        PROVE  d \in todo \ {c}
    <3>1. d \in Container /\ work.activation[c] \in Nat
      BY <1>1, <1>3, <1>4, AncestorsType
    <3>2. d # c
      BY <1>6, <1>7, <2>1, <3>1
    <3>3. ClosedNow(d) \/ work.activation[d] = 0
      BY <1>6, <1>8, <2>1, <3>1, <3>2
    <3> QED
      BY <1>2, <3>2, <3>3 DEF ToEnter
  <2>2. todo \ {c} \subseteq Ancestors(l)
    BY <1>2 DEF ToEnter
  <2> SUFFICES ASSUME NEW t, t = todo \ {c}
               PROVE  ToEnter(l, t)'
    OBVIOUS
  <2> QED
    BY <2>1, <2>2 DEF ToEnter
<1>19. StepAround'
  <2> SUFFICES ASSUME NEW t, t = todo \ {c}
               PROVE  StepAround'
    OBVIOUS
  <2>1. ToEnter(l, t)' /\ step'.todo = t
    BY <1>5, <1>18
  <2>2. CASE step.op = "reserve"
    <3>1. step'.op = "reserve"
      BY <1>5, <2>2
    <3>2. work'.current \in Leaf => Position(work'.current) < Position(l)
      BY <1>4, <2>2 DEF Closing, StepAround
    <3> QED
      BY <1>5, <1>14, <2>1, <3>1, <3>2 DEF StepAround, Retries
  <2>3. CASE step.op = "retryReserve"
    <3>1. step'.op = "retryReserve"
      BY <1>5, <2>3
    <3>2. \/ work'.state = "NeedsInput"
          \/ work'.state = "Waiting" /\ work'.held.waypoint \in Ancestors(l)
      BY <1>4, <1>15, <2>3 DEF Closing, StepAround
    <3> QED
      BY <1>5, <1>14, <2>1, <3>1, <3>2 DEF StepAround, Retries
  <2> QED
    BY <1>1, <2>2, <2>3
<1> QED
  BY <1>11, <1>12, <1>17, <1>19 DEF Closing

-----------------------------------------------------------------------------
(* The invariant is inductive. *)

LEMMA ClosingInit == Init => Closing
<1> SUFFICES ASSUME Init PROVE Closing
  OBVIOUS
<1>1. OneLine /\ WaitInv /\ Opened = {} /\ TypeOK
  BY OneLineInit, InitWaits, InitType DEF Init, Opened
<1>2. \A c \in Container : outcome[c].kind = "none"
  BY DEF Init, NoOutcome
<1>3. Closed
  BY <1>2 DEF Closed, ClosedNow
<1>4. RunsAround
  BY <1>1 DEF RunsAround
<1>5. work.state = "Pending" /\ work.current = NoWaypoint
  BY DEF Init, OnWorkSubmitted
<1>6. WorkAround
  BY <1>5, RouteAssumption DEF WorkAround, Waypoint
<1>7. step.op = "reserve" /\ step.at = LeafOrder[1] /\ step.todo = Ancestors(LeafOrder[1])
  BY FirstEnters DEF Init, Reserving, Idle
<1>8. TopBefore(LeafOrder[1])
  <2>1. \A m \in Leaf : ~(Position(m) < Position(LeafOrder[1]))
    BY PositionType, Positions
  <2> QED
    BY <2>1 DEF TopBefore
<1>9. ToEnter(LeafOrder[1], Ancestors(LeafOrder[1]))
  BY DEF ToEnter
<1>10. StepAround
  BY <1>5, <1>7, <1>8, <1>9, RouteAssumption DEF StepAround, Retries, Waypoint
<1> QED
  BY <1>1, <1>3, <1>4, <1>6, <1>10 DEF Closing

LEMMA ClosingNext ==
  ASSUME NoChildWorks, Orienting = {}, LoseClaims = FALSE, Closing, [Next]_vars
  PROVE  Closing'
<1>1. OneLine' /\ WaitInv'
  BY OneLineNext, NextWaits DEF Closing
<1>2. CASE Claim
  BY <1>1, <1>2, FileDoneClosing, AskClosing DEF Claim, FileDoneUnrecorded
<1>3. CASE Driver
  BY <1>1, <1>3, FailsClosing, AskClosing DEF Driver
<1>4. CASE Operator
  BY <1>1, <1>4, RetryClosing, EndClosing, AsideClosing DEF Operator
<1>5. CASE Internal
  <2>1. ~ RecordTransitionFailure /\ ~ \E d \in apart : RetakeGuard(d)
    BY DEF RecordTransitionFailure, Closing, OneLine, Going
  <2> QED
    BY <1>1, <1>5, <2>1, CloseContainerClosing, HoldContainerClosing, ActivateContainerClosing,
       ReserveClosing, OpenRunClosing, RetrySupersedeClosing, ReevaluateClosing, EndClosing,
       AsideClosing DEF Internal
<1>6. CASE Children \/ UNCHANGED vars
  BY <1>1, <1>6, AsideClosing
<1>7. CASE Falter \/ Crash
  BY <1>1, <1>7, FailureClosing
<1> QED
  BY <1>2, <1>3, <1>4, <1>5, <1>6, <1>7 DEF Next

-----------------------------------------------------------------------------

\* On every Route without orienting leaves whose containers require no child
\* Work, a container closed in its current generation still has everything it
\* requires, whatever is retried inside it (evaluate_closure, handle_retry).
THEOREM ClosuresHold ==
  ASSUME NoChildWorks, Orienting = {}, LoseClaims = FALSE
  PROVE  Spec => []ClosureHolds
<1>1. Init => Closing
  BY ClosingInit
<1>2. Closing /\ [Next]_vars => Closing'
  BY ClosingNext
<1>3. Closing => ClosureHolds
  BY DEF Closing, Closed, Shut, ClosureHolds
<1> QED
  BY <1>1, <1>2, <1>3, PTL DEF Spec

LEMMA AllFinished ==
  ASSUME Closing, work.state = "Completed", NEW n \in Waypoint
  PROVE  Finished(n)
<1>1. CASE Chain[n] = <<>>
  BY <1>1 DEF Closing, WorkAround
<1>2. CASE Chain[n] # <<>>
  <2>1. PICK t \in Ancestors(n) : Chain[t] = <<>>
    BY <1>2, TopElement
  <2>2. t \in Container /\ t \in Waypoint
    BY AncestorsType DEF Waypoint
  <2>3. ClosedNow(t)
    BY <2>1, <2>2 DEF Closing, WorkAround, Finished
  <2> QED
    BY <2>2, <2>3 DEF Closing, Closed, Shut
<1> QED
  BY <1>1, <1>2

\* On the same Routes a Completed Work has every leaf's latest Run Claimed and
\* every container closed: no leaf is skipped and no replaced Run counts (fold).
THEOREM CompletedMeansComplete ==
  ASSUME NoChildWorks, Orienting = {}, LoseClaims = FALSE
  PROVE  Spec => []CompletedIsComplete
<1>1. Init => Closing
  BY ClosingInit
<1>2. Closing /\ [Next]_vars => Closing'
  BY ClosingNext
<1>3. Closing => CompletedIsComplete
  BY AllFinished, RouteAssumption DEF CompletedIsComplete, Finished, Waypoint
<1> QED
  BY <1>1, <1>2, <1>3, PTL DEF Spec

-----------------------------------------------------------------------------
(***************************************************************************)
(* Only a failure strands a Work, for every Route, with orienting leaves,  *)
(* child Works and unrecorded Claims, as long as no leaf refused for good  *)
(* comes right after a container that waits for a child: what a child's    *)
(* end continues is only logged when it is refused (reevaluate_parent).    *)
(*                                                                         *)
(* The argument: the daemon comes to rest by opening a Run, by holding a   *)
(* container, or past the last leaf, where the Work completes; and by a    *)
(* refusal, which it records where the advance came from a Claim.  So the  *)
(* invariant says where every other advance comes from.                    *)
(***************************************************************************)

Welcome(l) == l # LastLeaf => LeafAfter(l) \notin Incompatible

NoRefusalAfterWait == \A c \in Container : NeedsRole[c] # {} => Welcome(LastLeafOf(c))

Smooth == crashes = 0 /\ faults = 0

\* What the handler in progress came from.
StepComes ==
  /\ step.op = "cascade" => IsLastLeafOf(step.leaf, step.at)
  /\ step.op = "reserve" =>
       /\ step.from \in {"submit", "claim", "reevaluate"}
       /\ step.from = "submit" => step.at = LeafOrder[1]

\* Only a container that requires children is evaluated anew.
WorkComes ==
  /\ daemon = "up"
  /\ step.op = "cascade" /\ step.from = "reevaluate" => Welcome(step.leaf)
  /\ step.op = "reserve" /\ step.from = "reevaluate" => step.at \notin Incompatible
  /\ \A d \in apart : d.from = "reevaluate" => Welcome(d.after)
  /\ \A t \in reeval : NeedsRole[t.at] # {}
  /\ \A k \in Child : child[k].status # "None" => NeedsRole[child[k].container] # {}

SomeClaimable == \E r \in Opened : Claimable(r)

Rested == step.op = "idle" /\ apart = {} /\ ~failing /\ work.state = "Active" /\ opened > 0

Unstranded ==
  /\ TypeOK
  /\ StepComes
  /\ Smooth => WorkComes /\ (Rested => SomeClaimable)

LEMMA UnstrandedInit == Init => Unstranded
<1> SUFFICES ASSUME Init
             PROVE  Unstranded
  OBVIOUS
<1>1. TypeOK
  BY InitType
<1>2. /\ step.op = "reserve" /\ step.from = "submit" /\ step.at = LeafOrder[1]
      /\ \A k \in Child : child[k].status = "None"
  BY DEF Init, Reserving, Idle, NoChild
<1> QED
  BY <1>1, <1>2 DEF Init, Unstranded, StepComes, WorkComes, Rested

-----------------------------------------------------------------------------
(* Where a handler's work comes from. *)

LEMMA AdvanceFrom ==
  ASSUME NEW l \in Leaf, NEW from \in {"claim", "reevaluate"}, Advance(l, from)
  PROVE  \/ step'.op = "idle" /\ UNCHANGED apart /\ l = LastLeaf
         \/ step'.op = "idle" /\ l # LastLeaf /\ apart' = apart \cup {[after |-> l, from |-> from]}
         \/ /\ step'.op = "reserve" /\ step'.at = LeafAfter(l) /\ step'.from = from
            /\ l # LastLeaf /\ UNCHANGED apart
<1>1. CASE l = LastLeaf
  BY <1>1 DEF Advance, Idle
<1>2. CASE l # LastLeaf /\ LeafAfter(l) \in Orienting
  BY <1>2 DEF Advance, Idle
<1>3. CASE l # LastLeaf /\ LeafAfter(l) \notin Orienting
  BY <1>3 DEF Advance, Reserving, Idle
<1> QED
  BY <1>1, <1>2, <1>3

LEMMA ActivatedFrom ==
  ASSUME TypeOK, NEW c \in step.todo, ActivateContainer(c)
  PROVE  step'.op = step.op /\ step'.from = step.from /\ step'.at = step.at /\ step.op # "cascade"
         /\ work'.state = work.state /\ step.op \in {"reserve", "retryReserve"}
BY DEF TypeOK, ActivateContainer, StepType, OnActivated, WorkType

LEMMA StepComesNext ==
  ASSUME TypeOK, StepComes, [Next]_vars
  PROVE  StepComes'
<1>1. CASE step'.op \notin {"cascade", "reserve"}
  BY <1>1 DEF StepComes
<1>2. CASE UNCHANGED step
  BY <1>2 DEF StepComes
<1>3. ASSUME NEW l \in Leaf, CloseOrAdvance(l)
      PROVE  StepComes'
  BY <1>3, CloseOrAdvanceEnds, AdvanceFrom DEF StepComes
<1>4. ASSUME CloseContainer
      PROVE  StepComes'
  <2>1. step.leaf \in Leaf /\ step.from \in {"claim", "reevaluate"}
    BY <1>4, CloseEnds DEF StepComes
  <2>2. CASE Advance(step.leaf, step.from)
    BY <2>1, <2>2, AdvanceFrom DEF StepComes
  <2>3. CASE ~Advance(step.leaf, step.from)
    BY <1>4, <2>3, CloseEnds DEF StepComes
  <2> QED
    BY <2>2, <2>3
<1>5. ASSUME NEW c \in step.todo, ActivateContainer(c)
      PROVE  StepComes'
  BY <1>5, ActivatedFrom DEF StepComes
<1>6. ASSUME NEW d \in apart, RetakeGuard(d)
      PROVE  StepComes'
  BY <1>6 DEF RetakeGuard, Reserving, Idle, TypeOK, StepComes
<1>7. ASSUME NEW t \in reeval, Reevaluate(t)
      PROVE  StepComes'
  <2>1. t.at \in Container /\ IsLastLeafOf(LastLeafOf(t.at), t.at)
    BY LastChildEnds DEF TypeOK
  <2> QED
    BY <1>7, <2>1 DEF Reevaluate, Cascading, Idle, StepComes
<1>8. CASE HoldContainer \/ ReserveLeaf \/ OpenReserved \/ RefuseReservation \/ RetryReserve
           \/ RetrySupersede \/ RetryOpen \/ Falter \/ Crash
  <2>1. step \in StepType
    BY DEF TypeOK
  <2> QED
    BY <1>1, <1>8, <2>1 DEF HoldContainer, ReserveLeaf, OpenReserved, RefuseReservation,
       RetryReserve, RetrySupersede, RetryOpen, OpenRun, Falter, Crash, Idle, StepType
<1>9. CASE Claim
  <2>1. ASSUME NEW r \in RunId, NEW arts, NEW auto,
               FileDone(r, arts, auto) \/ FileDoneUnrecorded(r, arts, auto)
        PROVE  StepComes'
    <3>1. runs[r].waypoint \in Leaf /\ CloseOrAdvance(runs[r].waypoint)
      BY <2>1 DEF FileDone, FileDoneUnrecorded, ValidDone, TypeOK
    <3> QED
      BY <1>3, <3>1
  <2>2. ASSUME NEW r \in RunId, FileQuestion(r) \/ FileOutOfBoundary(r)
        PROVE  StepComes'
    BY <1>2, <2>2 DEF FileQuestion, FileOutOfBoundary, flightVars
  <2> QED
    BY <1>9, <2>1, <2>2 DEF Claim
<1>10. CASE Driver \/ GiveUp \/ Children \/ UNCHANGED vars
  BY <1>2, <1>10 DEF Driver, RunFails, RunVanishes, Observe, GiveUp, Children, SpawnChild,
                     SubmitChild, EndChild, flightVars, vars
<1>11. CASE Operator
  <2>1. ASSUME NEW r \in RunId, Retry(r)
        PROVE  StepComes'
    BY <1>1, <2>1 DEF Retry, Retrying, Idle
  <2> QED
    BY <1>2, <1>10, <1>11, <2>1 DEF Operator, CancelRead
<1>12. CASE RecordTransitionFailure \/ (\E k \in Child : CancelChild(k)) \/ CancelWrite
            \/ Restart \/ Serve
  BY <1>2, <1>12 DEF RecordTransitionFailure, CancelChild, CancelWrite, Restart, Serve, flightVars
<1> QED
  BY <1>4, <1>5, <1>6, <1>7, <1>8, <1>9, <1>10, <1>11, <1>12 DEF Next, Internal
-----------------------------------------------------------------------------
(* What leaves the daemon at rest leaves a Run to claim. *)

LEMMA SmoothBefore ==
  ASSUME TypeOK, [Next]_vars, Smooth'
  PROVE  /\ Smooth /\ ~Falter /\ ~Crash
         /\ \A r \in RunId, arts \in SUBSET Output, auto \in BOOLEAN :
              ~FileDoneUnrecorded(r, arts, auto)
<1>1. crashes \in Nat /\ faults \in Nat
  BY EngineAssumption DEF TypeOK
<1>2. /\ ~Falter /\ ~Crash
      /\ \A r \in RunId, arts \in SUBSET Output, auto \in BOOLEAN :
           ~FileDoneUnrecorded(r, arts, auto)
  BY <1>1 DEF Falter, Crash, FileDoneUnrecorded, Smooth
<1>3. CASE UNCHANGED <<crashes, faults>>
  BY <1>2, <1>3 DEF Smooth
<1>4. CASE Claim \/ Driver \/ Operator \/ Children
  BY <1>2, <1>3, <1>4 DEF Claim, FileDone, FileQuestion, FileOutOfBoundary, Driver, RunFails,
       RunVanishes, Observe, Operator, Retry, GiveUp, CancelRead, Children, SpawnChild,
       SubmitChild, EndChild, daemonVars
<1>5. CASE Internal
  BY <1>3, <1>5 DEF Internal, CloseContainer, HoldContainer, ActivateContainer, ReserveLeaf,
       OpenReserved, RefuseReservation, RetakeGuard, RecordTransitionFailure, RetryReserve,
       RetrySupersede, RetryOpen, OpenRun, Reevaluate, CancelChild, CancelWrite, Restart,
       Serve, daemonVars
<1> QED
  BY <1>2, <1>3, <1>4, <1>5 DEF Next, vars, daemonVars

LEMMA WorkStays ==
  ASSUME WorkComes, UNCHANGED <<child, daemon>>, reeval' \subseteq reeval, apart' \subseteq apart,
         step' = step \/ step'.op \notin {"cascade", "reserve"}
  PROVE  WorkComes'
<1>1. CASE step' = step
  BY <1>1 DEF WorkComes
<1>2. CASE step'.op \notin {"cascade", "reserve"}
  BY <1>2 DEF WorkComes
<1> QED
  BY <1>1, <1>2

LEMMA RestStays ==
  ASSUME Rested => SomeClaimable, Rested' => Rested /\ UNCHANGED <<runs, opened>>
  PROVE  Rested' => SomeClaimable'
BY DEF SomeClaimable, Claimable, Opened

\* The last leaf ends every container around it.
LEMMA LastLeafEnds ==
  ASSUME NEW c \in Ancestors(LastLeaf)
  PROVE  IsLastLeafOf(LastLeaf, c)
<1>1. \A m \in Leaf : Position(m) <= Position(LastLeaf)
  BY PositionType, Positions
<1> QED
  BY <1>1 DEF IsLastLeafOf

LEMMA FileDoneRests ==
  ASSUME Unstranded, Smooth, NEW r \in RunId, NEW arts, NEW auto, FileDone(r, arts, auto)
  PROVE  WorkComes' /\ (Rested' => SomeClaimable')
<1> DEFINE l == runs[r].waypoint
<1>1. /\ l \in Leaf /\ CloseOrAdvance(l) /\ work \in WorkType /\ work' = OnDone(work, l)
      /\ UNCHANGED <<child, daemon, reeval>>
  BY DEF FileDone, ValidDone, Unstranded, TypeOK, daemonVars
<1> HIDE DEF l
<1>2. CASE Advance(l, "claim") /\ (Chain[l] # <<>> => ~IsLastLeafOf(l, Chain[l][1]))
  <2>1. WorkComes'
    BY <1>1, <1>2, AdvanceFrom DEF WorkComes, Unstranded
  <2>2. CASE step'.op = "idle" /\ l = LastLeaf
    <3>1. Chain[l] = <<>>
      BY <1>1, <1>2, <2>2, LastLeafEnds, ParentFirst, ParentType DEF Waypoint
    <3>2. work'.state = "Completed"
      BY <1>1, <2>2, <3>1 DEF OnDone, Settled, WorkType
    <3> QED
      BY <2>1, <3>2 DEF Rested
  <2> QED
    BY <1>1, <1>2, <2>1, <2>2, AdvanceFrom DEF Rested
<1>3. CASE step'.op = "cascade" /\ step'.from = "claim" /\ UNCHANGED apart
  BY <1>1, <1>3 DEF WorkComes, Unstranded, Rested
<1> QED
  BY <1>1, <1>2, <1>3, CloseOrAdvanceEnds

LEMMA AskRests ==
  ASSUME Unstranded, Smooth, NEW r \in RunId,
         \/ FileQuestion(r) \/ FileOutOfBoundary(r) \/ RunFails(r) \/ RunVanishes(r)
         \/ Observe(r) \/ GiveUp
  PROVE  WorkComes' /\ (Rested' => SomeClaimable')
<1>1. work \in WorkType /\ runs \in [RunId -> RunType]
  BY DEF Unstranded, TypeOK
<1>2. UNCHANGED <<step, apart, reeval, child, daemon, opened, failing>>
  BY DEF FileQuestion, FileOutOfBoundary, RunFails, RunVanishes, Observe, GiveUp, flightVars,
         daemonVars
<1>3. WorkComes'
  BY <1>2, WorkStays DEF Unstranded
<1>4. CASE FileQuestion(r)
  <2>1. work'.state # "Active"
    BY <1>1, <1>4 DEF FileQuestion, OnQuestion, AskHuman, WorkType, Live, Terminal
  <2> QED
    BY <1>3, <2>1 DEF Rested
<1>5. CASE FileOutOfBoundary(r) \/ GiveUp
  <2>1. UNCHANGED runs /\ (work'.state = "Active" => work.state = "Active")
    BY <1>1, <1>5 DEF FileOutOfBoundary, GiveUp, OnOutOfBoundary, AskHuman, OnWorkFailed, Settled,
                      WorkType
  <2> QED
    BY <1>2, <1>3, <2>1, RestStays DEF Rested, Unstranded
<1>6. CASE RunFails(r) \/ RunVanishes(r) \/ Observe(r)
  <2>1. r \in Opened /\ Claimable(r) /\ Live
    BY <1>6 DEF RunFails, RunVanishes, Observe, Driven, Claimable
  <2>2. Claimable(r)' /\ r \in Opened'
    BY <1>1, <1>2, <1>6, <2>1 DEF RunFails, RunVanishes, Observe, Claimable, RunType, Opened
  <2> QED
    BY <1>3, <2>2 DEF SomeClaimable
<1> QED
  BY <1>4, <1>5, <1>6

LEMMA ChildrenRest ==
  ASSUME Unstranded, Smooth, Children \/ \E k \in Child : CancelChild(k)
  PROVE  WorkComes' /\ (Rested' => SomeClaimable')
<1>1. Rested' => SomeClaimable'
  <2>1. UNCHANGED <<work, runs, opened, step, apart, failing>>
    BY DEF Children, SpawnChild, SubmitChild, EndChild, CancelChild, journalVars, flightVars
  <2> QED
    BY <2>1, RestStays DEF Rested, Unstranded
<1>2. child \in [Child -> ChildType] /\ WorkComes
  BY DEF Unstranded, TypeOK
<1>3. ASSUME NEW k \in Child, NEW r \in RunId, NEW c \in Container, NEW role \in Role,
             SpawnChild(k, r, c, role)
      PROVE  WorkComes'
  BY <1>2, <1>3 DEF SpawnChild, WorkComes, flightVars, daemonVars
<1>4. ASSUME NEW k \in Child, child[k].status \in {"Spawned", "Open"}, NEW how,
             child' = [child EXCEPT ![k].status = how],
             \/ reeval' = reeval
             \/ \E by : reeval' = reeval \cup {[at |-> child[k].container, by |-> by]},
             UNCHANGED <<step, apart, daemon>>
      PROVE  WorkComes'
  <2>1. NeedsRole[child[k].container] # {}
    BY <1>2, <1>4 DEF WorkComes
  <2>2. \A j \in Child : child'[j].container = child[j].container
                         /\ (j # k => child'[j].status = child[j].status)
    BY <1>2, <1>4 DEF ChildType
  <2> QED
    BY <1>2, <1>4, <2>1, <2>2 DEF WorkComes
<1>5. ASSUME NEW k \in Child, SubmitChild(k)
      PROVE  WorkComes'
  BY <1>4, <1>5 DEF SubmitChild, flightVars, daemonVars
<1>6. ASSUME NEW k \in Child, NEW how, EndChild(k, how)
      PROVE  WorkComes'
  BY <1>4, <1>6 DEF EndChild, daemonVars
<1>7. ASSUME NEW k \in Child, CancelChild(k)
      PROVE  WorkComes'
  <2>1. UNCHANGED <<step, apart, daemon>>
    BY <1>7 DEF CancelChild, daemonVars
  <2>2. CASE child[k].status = "Open"
    BY <1>4, <1>7, <2>1, <2>2 DEF CancelChild
  <2>3. CASE child[k].status # "Open"
    BY <1>2, <1>7, <2>1, <2>3, WorkStays DEF CancelChild
  <2> QED
    BY <2>2, <2>3
<1> QED
  BY <1>1, <1>3, <1>5, <1>6, <1>7 DEF Children

LEMMA CloseContainerRests ==
  ASSUME Unstranded, Smooth, CloseContainer
  PROVE  WorkComes' /\ (Rested' => SomeClaimable')
<1> DEFINE c == step.at
           l == step.leaf
<1>1. /\ c \in Container /\ c \in Ancestors(l) /\ l \in Leaf /\ IsLastLeafOf(l, c)
      /\ step.from \in {"claim", "reevaluate"}
      /\ \/ /\ Chain[c] # <<>> /\ UNCHANGED apart
            /\ step'.op = "cascade" /\ step'.leaf = l /\ step'.from = step.from
         \/ /\ Advance(l, step.from)
            /\ Chain[c] # <<>> => ~IsLastLeafOf(l, Chain[c][1])
  BY CloseEnds DEF Unstranded, StepComes
<1>2. /\ work \in WorkType /\ work' = OnStageClosed(work, c, Attempt(c)) /\ WorkComes
      /\ UNCHANGED <<child, daemon, reeval>> /\ step.op = "cascade"
  BY DEF CloseContainer, Unstranded, TypeOK, daemonVars
<1>3. step.from = "reevaluate" => Welcome(l)
  BY <1>2 DEF WorkComes
<1> HIDE DEF c, l
<1>4. CASE Advance(l, step.from) /\ (Chain[c] # <<>> => ~IsLastLeafOf(l, Chain[c][1]))
  <2>1. WorkComes'
    BY <1>1, <1>2, <1>3, <1>4, AdvanceFrom DEF WorkComes, Welcome
  <2>2. CASE step'.op = "idle" /\ l = LastLeaf
    <3>1. Chain[c] = <<>>
      <4>1. c \in Waypoint /\ l \in Waypoint
        BY <1>1 DEF Waypoint
      <4>2. ASSUME Chain[c] # <<>>
            PROVE  Chain[c][1] \in Ancestors(l)
        BY <1>1, <4>1, <4>2, AncestorsNest, ParentFirst
      <4> QED
        BY <1>1, <1>4, <2>2, <4>2, LastLeafEnds
    <3>2. TopLast = c
      <4>1. c \in Waypoint /\ l \in Waypoint /\ TopLast \in Waypoint /\ Ancestors(c) = {}
        BY <1>1, <3>1, NoParent, RouteAssumption DEF Waypoint
      <4>2. Chain[TopLast] = <<>> /\ Ancestors(TopLast) = {} /\ Ends(TopLast, l)
        BY <2>2, <4>1, NoParent, TreeAssumption
      <4>3. CASE TopLast = l
        BY <1>1, <4>2, <4>3
      <4>4. CASE TopLast # l
        <5>1. TopLast \in Ancestors(l)
          BY <4>2, <4>4 DEF Ends, IsLastLeafOf
        <5> QED
          BY <1>1, <4>1, <4>2, <5>1, AncestorsCompare
      <4> QED
        BY <4>3, <4>4
    <3>3. work'.state # "Active"
      BY <1>2, <3>1, <3>2 DEF OnStageClosed, Settled, WorkType, Terminal
    <3> QED
      BY <2>1, <3>3 DEF Rested
  <2> QED
    BY <1>1, <1>4, <2>1, <2>2, AdvanceFrom DEF Rested
<1>5. CASE step'.op = "cascade" /\ step'.leaf = l /\ step'.from = step.from /\ UNCHANGED apart
  BY <1>2, <1>3, <1>5 DEF WorkComes, Rested
<1> QED
  BY <1>1, <1>4, <1>5

LEMMA HoldRests ==
  ASSUME Unstranded, Smooth, HoldContainer \/ OpenReserved \/ RetryOpen
  PROVE  WorkComes' /\ (Rested' => SomeClaimable')
<1>1. step'.op = "idle" /\ UNCHANGED <<apart, child, reeval, daemon>>
  BY DEF HoldContainer, OpenReserved, RetryOpen, OpenRun, Idle, daemonVars
<1>2. WorkComes'
  BY <1>1, WorkStays DEF Unstranded
<1>3. CASE HoldContainer
  <2>1. work \in WorkType
    BY DEF Unstranded, TypeOK
  <2>2. work'.state # "Active"
    BY <1>3, <2>1 DEF HoldContainer, OnStageHeld, Settled, WorkType, Terminal
  <2> QED
    BY <1>2, <2>2 DEF Rested
<1>4. CASE OpenReserved \/ RetryOpen
  <2> SUFFICES ASSUME NEW q, q = opened + 1
               PROVE  WorkComes' /\ (Rested' => SomeClaimable')
    OBVIOUS
  <2>1. q \in RunId /\ q \in Opened' /\ runs \in [RunId -> RunType]
    <3>1. opened < MaxRuns /\ opened \in Nat /\ opened' = opened + 1 /\ MaxRuns \in Nat
      BY <1>4, EngineAssumption DEF OpenReserved, RetryOpen, OpenRun, Unstranded, TypeOK, StepFits
    <3> QED
      BY <3>1 DEF RunId, Opened, Unstranded, TypeOK
  <2>2. Claimable(q)'
    BY <1>4, <2>1 DEF OpenReserved, RetryOpen, OpenRun, Claimable, NoRun
  <2> QED
    BY <1>2, <2>1, <2>2 DEF SomeClaimable
<1> QED
  BY <1>3, <1>4

\* A refusal is recorded now, or left for the thread that dropped the guard.
LEMMA RefuseRests ==
  ASSUME Unstranded, Smooth, RefuseReservation
  PROVE  WorkComes' /\ (Rested' => SomeClaimable')
<1>1. /\ step'.op = "idle" /\ UNCHANGED <<apart, child, reeval, daemon>>
      /\ work \in WorkType /\ failing \in BOOLEAN
  BY DEF RefuseReservation, Idle, daemonVars, Unstranded, TypeOK
<1>2. WorkComes'
  BY <1>1, WorkStays DEF Unstranded
<1>3. step.from = "claim"
  BY EngineAssumption DEF RefuseReservation, Unstranded, StepComes, WorkComes
<1>4. CASE step.split
  BY <1>2, <1>3, <1>4 DEF RefuseReservation, Rested
<1>5. CASE ~step.split
  <2>1. work'.state = "Failed"
    BY <1>1, <1>3, <1>5 DEF RefuseReservation, OnWorkFailed, Settled, WorkType
  <2> QED
    BY <1>2, <2>1 DEF Rested
<1> QED
  BY <1>4, <1>5

LEMMA BeginRests ==
  ASSUME Unstranded, Smooth, NoRefusalAfterWait,
         \/ \E c \in step.todo : ActivateContainer(c)
         \/ ReserveLeaf \/ RetryReserve \/ RetrySupersede
         \/ \E r \in RunId : Retry(r)
         \/ \E d \in apart : RetakeGuard(d)
         \/ \E t \in reeval : Reevaluate(t)
  PROVE  WorkComes' /\ (Rested' => SomeClaimable')
<1>1. step \in StepType /\ WorkComes
  BY DEF Unstranded, TypeOK
<1>2. ASSUME NEW c \in step.todo, ActivateContainer(c)
      PROVE  WorkComes' /\ ~Rested'
  <2>1. /\ step'.op = step.op /\ step'.from = step.from /\ step'.at = step.at
        /\ step.op \in {"reserve", "retryReserve"}
    BY <1>2, ActivatedFrom DEF Unstranded
  <2>2. UNCHANGED <<apart, reeval, child, daemon>>
    BY <1>2 DEF ActivateContainer, daemonVars
  <2> QED
    BY <1>1, <2>1, <2>2 DEF WorkComes, Rested
<1>3. ASSUME ReserveLeaf \/ RetryReserve \/ RetrySupersede \/ \E r \in RunId : Retry(r)
      PROVE  WorkComes' /\ ~Rested'
  <2>1. step'.op \in {"open", "retryReserve", "retrySupersede", "retryOpen"}
    BY <1>1, <1>3 DEF ReserveLeaf, RetryReserve, RetrySupersede, Retry, Retrying, Idle, StepType
  <2>2. UNCHANGED <<apart, reeval, child, daemon>>
    BY <1>3 DEF ReserveLeaf, RetryReserve, RetrySupersede, Retry, daemonVars
  <2> QED
    BY <1>1, <2>1, <2>2, WorkStays DEF Rested
<1>4. ASSUME NEW d \in apart, RetakeGuard(d)
      PROVE  WorkComes' /\ ~Rested'
  <2>1. d.after \in Leaf \ {LastLeaf}
    BY DEF Unstranded, TypeOK
  <2>2. step'.op = "reserve" /\ step'.at = LeafAfter(d.after) /\ step'.from = d.from
    BY <1>4 DEF RetakeGuard, Reserving, Idle
  <2>3. apart' \subseteq apart /\ UNCHANGED <<reeval, child, daemon>>
    BY <1>4 DEF RetakeGuard, daemonVars
  <2> QED
    BY <1>1, <2>1, <2>2, <2>3 DEF WorkComes, Rested, Welcome
<1>5. ASSUME NEW t \in reeval, Reevaluate(t)
      PROVE  WorkComes' /\ (Rested' => SomeClaimable')
  <2>1. t.at \in Container /\ NeedsRole[t.at] # {}
    BY <1>1 DEF Unstranded, TypeOK, WorkComes
  <2>2. Welcome(LastLeafOf(t.at))
    BY <2>1 DEF NoRefusalAfterWait
  <2>3. reeval' \subseteq reeval /\ UNCHANGED <<apart, child, daemon, work, runs, opened, failing>>
    BY <1>5 DEF Reevaluate, daemonVars, journalVars
  <2>4. CASE Live /\ HeldNow(t.at)
    <3>1. step'.op = "cascade" /\ step'.leaf = LastLeafOf(t.at)
      BY <1>5, <2>4 DEF Reevaluate, Cascading, Idle
    <3> QED
      BY <1>1, <2>2, <2>3, <3>1 DEF WorkComes, Rested
  <2>5. CASE ~(Live /\ HeldNow(t.at))
    <3>1. step' = step
      BY <1>5, <2>5 DEF Reevaluate
    <3>2. WorkComes'
      BY <1>1, <2>3, <3>1, WorkStays
    <3> QED
      BY <2>3, <3>1, <3>2, RestStays DEF Rested, Unstranded
  <2> QED
    BY <2>4, <2>5
<1> QED
  BY <1>2, <1>3, <1>4, <1>5

LEMMA AsideRests ==
  ASSUME Unstranded, Smooth,
         \/ \E cascade \in BOOLEAN : CancelRead(cascade)
         \/ RecordTransitionFailure \/ CancelWrite \/ Restart \/ Serve \/ UNCHANGED vars
  PROVE  WorkComes' /\ (Rested' => SomeClaimable')
<1>1. work \in WorkType /\ WorkComes
  BY DEF Unstranded, TypeOK
<1>2. ~Restart /\ ~Serve
  BY <1>1 DEF Restart, Serve, WorkComes
<1>3. UNCHANGED <<step, apart, reeval, child, daemon, runs, opened>>
  BY <1>2 DEF CancelRead, RecordTransitionFailure, CancelWrite, vars, journalVars, flightVars,
              daemonVars
<1>4. WorkComes'
  BY <1>1, <1>3, WorkStays
<1>5. UNCHANGED <<work, failing>> \/ work'.state # "Active"
  BY <1>1, <1>2 DEF CancelRead, RecordTransitionFailure, CancelWrite, vars, journalVars,
                    flightVars, OnWorkFailed, OnWorkCanceled, Settled, WorkType
<1> QED
  BY <1>3, <1>4, <1>5, RestStays DEF Rested, Unstranded

LEMMA UnstrandedNext ==
  ASSUME NoRefusalAfterWait, Unstranded, [Next]_vars
  PROVE  Unstranded'
<1>1. TypeOK' /\ StepComes'
  BY NextType, StepComesNext DEF Unstranded
<1>2. SUFFICES ASSUME Smooth'
               PROVE  WorkComes' /\ (Rested' => SomeClaimable')
  BY <1>1 DEF Unstranded
<1>3. /\ Smooth /\ ~Falter /\ ~Crash
      /\ \A r \in RunId, arts \in SUBSET Output, auto \in BOOLEAN :
           ~FileDoneUnrecorded(r, arts, auto)
  BY <1>2, SmoothBefore DEF Unstranded
<1>4. CASE Claim
  BY <1>3, <1>4, FileDoneRests, AskRests DEF Claim
<1>5. CASE Driver
  BY <1>3, <1>5, AskRests DEF Driver
<1>6. CASE Operator
  <2>1. CASE GiveUp
    <3>1. 1 \in RunId
      BY EngineAssumption DEF RunId
    <3> QED
      BY <1>3, <2>1, <3>1, AskRests
  <2> QED
    BY <1>3, <1>6, <2>1, BeginRests, AsideRests DEF Operator
<1>7. CASE Children
  BY <1>3, <1>7, ChildrenRest
<1>8. CASE Internal
  BY <1>3, <1>8, CloseContainerRests, HoldRests, RefuseRests, BeginRests, AsideRests,
     ChildrenRest DEF Internal
<1>9. CASE UNCHANGED vars
  BY <1>3, <1>9, AsideRests
<1> QED
  BY <1>3, <1>4, <1>5, <1>6, <1>7, <1>8, <1>9 DEF Next

\* On every Route where no leaf that will be refused follows a container that
\* waits for a child, a Work the daemon leaves Active has a Run to claim, unless
\* an append failed or the daemon crashed (transition_is_permanent,
\* reserve_next_leaf, record_transition_failure).
THEOREM FailureStrandsOnly ==
  ASSUME NoRefusalAfterWait
  PROVE  Spec => []OnlyFailureStrands
<1>1. Init => Unstranded
  BY UnstrandedInit
<1>2. Unstranded /\ [Next]_vars => Unstranded'
  BY UnstrandedNext
<1>3. Unstranded => OnlyFailureStrands
  BY DEF Unstranded, OnlyFailureStrands, NeverStranded, AtRest, Rested, Smooth, SomeClaimable, Idle
<1> QED
  BY <1>1, <1>2, <1>3, PTL DEF Spec

=============================================================================
