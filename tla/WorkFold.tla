------------------------------ MODULE WorkFold ------------------------------
(***************************************************************************)
(* The Work-level reducer: how one journal event moves a Work.             *)
(*                                                                         *)
(* `fold` (src/wirk-core/src/lib.rs) walks a Work's journal from its first *)
(* line and applies one arm per event kind.  The journal is only ever      *)
(* appended to, so this module states each arm as an operator on a Work    *)
(* record: applying the operators in journal order is the fold.  What the  *)
(* arms look up in the events before them (the waypoint a Run was opened   *)
(* against, whether it is still that waypoint's latest Run) comes in as a  *)
(* parameter.                                                              *)
(*                                                                         *)
(* The Route a Work was submitted with is journaled whole and never        *)
(* changes, so it is a constant here.                                      *)
(***************************************************************************)
EXTENDS Naturals, Sequences

CONSTANTS
  Leaf,        \* executable waypoints (Actor and Deterministic)
  Container,   \* waypoints that only group others
  LeafOrder,   \* flatten_leaves: the leaves in execution order
  Chain,       \* ancestor_chain of every waypoint, immediate parent first
  LastChild,   \* the last direct child of a container
  TopLast,     \* the last top-level element of the Route
  NoWaypoint   \* the absent waypoint

Waypoint == Leaf \cup Container

\* The tree a Route file describes, as load_route accepts it: every leaf
\* stands once in the flattened order, and no container is empty.
ASSUME RouteAssumption ==
  /\ Leaf \cap Container = {}
  /\ NoWaypoint \notin Waypoint
  /\ LeafOrder \in Seq(Leaf)
  /\ Len(LeafOrder) > 0
  /\ \A l \in Leaf : \E i \in 1..Len(LeafOrder) : LeafOrder[i] = l
  /\ \A i, j \in 1..Len(LeafOrder) : LeafOrder[i] = LeafOrder[j] => i = j
  /\ Chain \in [Waypoint -> Seq(Container)]
  /\ LastChild \in [Container -> Waypoint]
  /\ TopLast \in Waypoint

-----------------------------------------------------------------------------
(* The Route. *)

Ancestors(n) == {Chain[n][i] : i \in 1..Len(Chain[n])}

LastLeaf == LeafOrder[Len(LeafOrder)]

Position(l) == CHOOSE i \in 1..Len(LeafOrder) : LeafOrder[i] = l

LeafAfterNext(l) ==   \* mutant: off by one
  IF Position(l) + 2 <= Len(LeafOrder) THEN LeafOrder[Position(l) + 2]
                                       ELSE LeafOrder[Position(l) + 1]

\* The leaf the flattened order names after l.  Defined when l # LastLeaf.
LeafAfter(l) == LeafOrder[Position(l) + 1]

-----------------------------------------------------------------------------
(* The Work record.  `cause` is Work.needs_input, `held` is Work.held, and *)
(* `activation` is the attempt of the last ContainerActivated of each      *)
(* container, 0 when there has been none.                                  *)

WorkState == {"Pending", "Active", "Waiting", "NeedsInput",
              "Completed", "Failed", "Canceled"}

Terminal == {"Completed", "Failed", "Canceled"}

Reason == {"blocked", "no_observable_progress", "question",
           "out_of_boundary", "run_failed", "run_vanished"}

NoCause == [run |-> 0, reason |-> "none"]
NoHold  == [waypoint |-> NoWaypoint, attempt |-> 0, missing |-> {}]

Cause(r, why) == [run |-> r, reason |-> why]

OnWorkSubmitted ==
  [state |-> "Pending", current |-> NoWaypoint, cause |-> NoCause,
   held |-> NoHold, activation |-> [c \in Container |-> 0]]

\* The rule after every arm: a Work that is not NeedsInput keeps no cause.
Settled(w) == IF w.state = "NeedsInput" THEN w ELSE [w EXCEPT !.cause = NoCause]

AskHuman(w, r, why) ==
  IF w.state \in Terminal THEN w
  ELSE [w EXCEPT !.state = "NeedsInput", !.cause = Cause(r, why)]

-----------------------------------------------------------------------------
(* One operator per arm. *)

OnWaypointReserved(w, l) ==
  IF w.state \in Terminal THEN w
  ELSE IF w.state \in {"Pending", "Waiting"}
       THEN [w EXCEPT !.current = l, !.state = "Active", !.held = NoHold]
       ELSE [w EXCEPT !.current = l]

OnRunOpened(w) ==
  IF w.state = "NeedsInput"
  THEN [w EXCEPT !.state = "Active", !.cause = NoCause]
  ELSE w

OnBlocked(w, r)    == AskHuman(w, r, "blocked")
OnNoProgress(w, r) == AskHuman(w, r, "no_observable_progress")

\* "Working", "Idle" and "Done" clear a block, and only the blocked Run's own.
OnTurnSeen(w, r) ==
  IF w.state = "NeedsInput" /\ w.cause = Cause(r, "blocked")
  THEN [w EXCEPT !.state = "Active", !.cause = NoCause]
  ELSE w

OnDoneNested(w, l) ==   \* mutant: a nested last leaf completes the Work
  IF l = LastLeaf
  THEN Settled([w EXCEPT !.state = "Completed"])
  ELSE IF w.state \in Terminal THEN w
  ELSE Settled([w EXCEPT !.state = "Active"])

\* A validated Done completes the Work on the last leaf, unless that leaf is
\* nested: then only the container's own StageClosed may complete it.  The
\* completing branch has no terminal guard in the code, and none here.
OnDone(w, l) ==
  IF l = LastLeaf /\ Chain[l] = <<>>
  THEN Settled([w EXCEPT !.state = "Completed"])
  ELSE IF w.state \in Terminal THEN w
  ELSE Settled([w EXCEPT !.state = "Active"])

OnQuestion(w, r) == AskHuman(w, r, "question")

OnOutOfBoundaryAny(w, r, l, latest) ==   \* mutant: before ruling 0235
  AskHuman(w, r, "out_of_boundary")

\* `latest` says r is still the latest Run of its waypoint l.
OnOutOfBoundary(w, r, l, latest) ==
  IF latest /\ w.current = l THEN AskHuman(w, r, "out_of_boundary") ELSE w

OnRunFailed(w, r)   == AskHuman(w, r, "run_failed")
OnRunVanishedUnnamed(w, r) ==   \* mutant: a reason nothing knows
  AskHuman(w, r, "vanished")

OnRunVanished(w, r) == AskHuman(w, r, "run_vanished")

OnWorkFailed(w)   == Settled([w EXCEPT !.state = "Failed"])
OnWorkCanceled(w) == Settled([w EXCEPT !.state = "Canceled"])

\* The next attempt of c.  A hold of an older generation falls away.
OnActivated(w, c) ==
  [w EXCEPT
     !.activation[c] = @ + 1,
     !.held = IF w.held.waypoint = c /\ w.held.attempt < w.activation[c] + 1
              THEN NoHold ELSE @]

OnStageHeld(w, c, attempt, missing) ==
  IF w.state \in Terminal THEN w
  ELSE Settled([w EXCEPT !.state = "Waiting", !.current = c,
                         !.held = [waypoint |-> c, attempt |-> attempt,
                                   missing |-> missing]])

OnStageClosed(w, c, attempt) ==
  IF w.state \in Terminal THEN w
  ELSE Settled([w EXCEPT
         !.held = IF w.held.waypoint = c /\ w.held.attempt = attempt
                  THEN NoHold ELSE w.held,
         !.state = IF Chain[c] = <<>> /\ TopLast = c
                   THEN "Completed" ELSE "Active"])

=============================================================================
