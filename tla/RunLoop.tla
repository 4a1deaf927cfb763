------------------------------- MODULE RunLoop -------------------------------
(***************************************************************************)
(* One Run driven in a terminal pane: RunLoop::drive against Herdr, wirkd  *)
(* and the actor.                                                          *)
(*                                                                         *)
(* The drive merges two streams that nothing orders: the statuses Herdr    *)
(* reports of the pane, and the Work's journal as `watch` delivers it.  A  *)
(* status is journaled before it is acted on; a turn end is answered with  *)
(* a prompt; at a turn end after a continuation prompt what shows of the   *)
(* actor's work is first compared with what showed before that prompt.     *)
(* Between any two of these steps the actor works, claims, blocks or       *)
(* exits, a human looks at the pane, answers it, cancels or retries, and   *)
(* the driver itself may die and be started again.  Which invocation may   *)
(* drive is LaunchAdmission's.                                             *)
(***************************************************************************)
EXTENDS WorkFold

CONSTANTS
  Driven,       \* the leaf whose Run is driven
  MaxDrives,    \* bound: invocations that drive the Run, one after another
  MaxChanges,   \* bound: statuses the pane goes through
  MaxClaims     \* bound: Claims filed for the Run

ASSUME RunLoopAssumption ==
  /\ Driven \in Leaf
  /\ MaxDrives \in Nat \ {0} /\ MaxChanges \in Nat /\ MaxClaims \in Nat

VARIABLES
  journal,   \* after each event: the Work as it folds, the state of this Run
  pane,      \* the actor: status, prompts not yet taken, bounded changes and Claims
  events,    \* statuses Herdr has pushed and the drive has not read
  drive,     \* the driving invocation
  late       \* history: prompts sent once the Run had settled

vars == <<journal, pane, events, drive, late>>

Earlier == 1   \* the attempt before this Run, on the same leaf
Own     == 2   \* this Run

TurnEnds == {"Idle", "Done"}
Status   == TurnEnds \cup {"Unknown", "Working", "Blocked"}

IdleIsTurnEnd(s) == s = "Idle"   \* mutant: before P2.3 W5

TurnEnded(s) == s \in TurnEnds

\* What the drive can see of the actor's work: the fingerprint of the worktree
\* (`git status --porcelain` and HEAD) and the digest of the declared outputs.
Signal == {"tree", "outputs"}

-----------------------------------------------------------------------------
(* The journal, as wirkd answers from it. *)

Now == journal[Len(journal)]

\* An event that folds to what stood before is left out: reading it the drive
\* would decide again what it has just decided.
Journal(w, r) ==
  journal' = IF [work |-> w, run |-> r] = Now THEN journal
             ELSE Append(journal, [work |-> w, run |-> r])

\* handle_record: superseded first, then settled.
Answer ==
  CASE Now.run = "superseded" -> "refused"
    [] Now.run # "superseded" /\ (Now.run # "open" \/ Now.work.state \in Terminal)
         -> "settled"
    [] OTHER -> "accepted"

\* What a LifecycleObserved of this Run does to the Work; "launch-reconciled"
\* and "Unknown" do nothing.
Observed(s) ==
  CASE s = "Blocked" -> OnBlocked(Now.work, Own)
    [] s \in TurnEnds \cup {"Working"} -> OnTurnSeen(Now.work, Own)
    [] s = "NoObservableProgress" -> OnNoProgress(Now.work, Own)
    [] OTHER -> Now.work

Observe(s) ==
  IF Answer = "accepted" THEN Journal(Observed(s), Now.run) ELSE UNCHANGED journal

-----------------------------------------------------------------------------
(* Initially the Run is open, perhaps after an attempt that failed, and    *)
(* nothing drives it.                                                      *)

Reserved == OnRunOpened(OnWaypointReserved(OnWorkSubmitted, Driven))

FirstAttempt == <<[work |-> Reserved, run |-> "open"]>>

Retried == <<[work |-> OnRunFailed(Reserved, Earlier), run |-> "none"],
             [work |-> OnRunOpened(OnRunFailed(Reserved, Earlier)), run |-> "open"]>>

\* baseline: what could be read for the pending comparison, {} if none is.
\* moved: the signals that would read otherwise now.  same: what the comparison
\* calls unchanged.  since: history, the signals that moved since the prompt.
NoDrive == [n |-> 0, pc |-> "none", seen |-> 0, last |-> "none", busy |-> FALSE,
            prompted |-> FALSE, baseline |-> {}, moved |-> {}, same |-> {},
            since |-> {}, resumed |-> "none", found |-> NoCause]

Init ==
  /\ journal \in {FirstAttempt, Retried}
  /\ pane = [status |-> "none", inbox |-> <<>>, changes |-> 0, filed |-> 0]
  /\ events = <<>>
  /\ drive = NoDrive
  /\ late = 0

Driving == drive.pc \notin {"none", "ended"}

Subscribed == drive.pc \notin {"none", "asked", "ended"}

Alive == pane.status \in Status

-----------------------------------------------------------------------------
(* The pane.  Herdr pushes a status to whoever is subscribed when it       *)
(* changes, and only then.                                                 *)

Push(e) == events' = IF Subscribed THEN Append(events, e) ELSE events

Turns(s) ==
  /\ pane.changes < MaxChanges
  /\ pane' = [pane EXCEPT !.status = s, !.changes = @ + 1]
  /\ Push(s)
  /\ UNCHANGED <<journal, drive, late>>

\* The actor has started and waits.
Ready ==
  /\ pane.status = "Unknown"
  /\ pane' = [pane EXCEPT !.status = "Idle"]
  /\ Push("Idle")
  /\ UNCHANGED <<journal, drive, late>>

\* What waits on the input line is taken whole.
TakePrompt ==
  /\ pane.status \in TurnEnds /\ pane.inbox # <<>>
  /\ pane.changes < MaxChanges
  /\ pane' = [pane EXCEPT !.status = "Working", !.inbox = <<>>, !.changes = @ + 1]
  /\ Push("Working")
  /\ UNCHANGED <<journal, drive, late>>

\* Nothing has viewed the pane since, or somebody has it open.
EndTurn == pane.status = "Working" /\ \E s \in TurnEnds : Turns(s)

Block == pane.status = "Working" /\ Turns("Blocked")

HumanAnswers == pane.status = "Blocked" /\ \E s \in {"Working", "Idle"} : Turns(s)

\* Herdr names an ended turn "done" until the pane is looked at.
HumanViews == pane.status = "Done" /\ Turns("Idle")

\* What the actor does so that a signal reads otherwise than it did.  What neither
\* signal shows (a second edit of a dirty file, one in an untracked directory or of
\* an ignored file, one undone again) is no step, nor is what no reading came before.
Edit ==
  /\ Alive
  /\ \E before \in drive.baseline : \E g \in before :
       drive' = [drive EXCEPT !.moved = @ \cup {g}, !.since = @ \cup {g}]
  /\ UNCHANGED <<journal, pane, events, late>>

PaneEnds ==
  /\ Alive
  /\ pane' = [pane EXCEPT !.status = "gone", !.inbox = <<>>]
  /\ Push("Ended")
  /\ UNCHANGED <<journal, drive, late>>

-----------------------------------------------------------------------------
(* Others who write the journal. *)

Others == UNCHANGED <<pane, events, drive, late>>

\* A Claim may come at any time after the launch, whatever the pane does: the
\* hook files one as the turn ends, and the process that files may outlive the
\* pane.  A failed or vanished Run's late Claim is honored.  One that is refused
\* without moving the Work is not a step.
Files ==
  /\ pane.status # "none" /\ Now.work.state \notin Terminal
  /\ pane.filed < MaxClaims
  /\ pane' = [pane EXCEPT !.filed = @ + 1]
  /\ UNCHANGED <<events, drive, late>>

Claimable == Now.run \in {"open", "failed", "vanished"}

ClaimDone ==
  /\ Files /\ Claimable
  /\ Journal(OnDone(Now.work, Driven), "claimed")

ClaimQuestion ==
  /\ Files /\ Claimable
  /\ Journal(OnQuestion(Now.work, Own), Now.run)

ClaimOutOfBoundary ==
  /\ Files
  /\ Journal(OnOutOfBoundary(Now.work, Own, Driven, Now.run # "superseded"), Now.run)

Cancel ==
  /\ Now.work.state \notin Terminal
  /\ Journal(OnWorkCanceled(Now.work), Now.run)
  /\ Others

\* `wirk work retry` of a Run that holds the Work.
Retry ==
  /\ Now.work.state = "NeedsInput" /\ Now.work.cause.run = Own
  /\ Now.run # "superseded"
  /\ Journal(OnRunOpened(OnWaypointReserved(Now.work, Driven)), "superseded")
  /\ Others

-----------------------------------------------------------------------------
(* The drive begins: launched here, or resumed onto a live pane. *)

Begin(pc) == [NoDrive EXCEPT !.n = drive.n + 1, !.pc = pc, !.found = Now.work.cause]

End == [NoDrive EXCEPT !.n = drive.n, !.pc = "ended"]

\* subscribe, agent.start, RunLaunched.
Launch ==
  /\ drive.pc = "none"
  /\ Answer = "accepted"
  /\ drive' = Begin("loop")
  /\ pane' = [pane EXCEPT !.status = "Unknown"]
  /\ UNCHANGED <<journal, events, late>>

\* agent.get, for a Run that is open and was launched.
Ask ==
  /\ drive.pc = "ended" /\ drive.n < MaxDrives
  /\ Answer = "accepted"
  /\ Alive
  /\ drive' = [Begin("asked") EXCEPT !.resumed = pane.status]
  /\ UNCHANGED <<journal, pane, events, late>>

\* No agent: the absence is reported as the Run's failure and nothing is driven.
AskAbsent ==
  /\ drive.pc = "ended" /\ drive.n < MaxDrives
  /\ Answer = "accepted"
  /\ ~Alive
  /\ Journal(OnRunFailed(Now.work, Own), "failed")
  /\ drive' = [drive EXCEPT !.n = @ + 1]
  /\ UNCHANGED <<pane, events, late>>

Subscribe ==
  /\ drive.pc = "asked"
  /\ drive' = [drive EXCEPT !.pc = "reconcile"]
  /\ events' = IF Alive THEN <<>> ELSE <<"Ended">>
  /\ UNCHANGED <<journal, pane, late>>

\* LifecycleObserved "launch-reconciled".
Reconcile ==
  /\ drive.pc = "reconcile"
  /\ Observe("launch-reconciled")
  /\ drive' = IF Answer = "refused" THEN End ELSE [drive EXCEPT !.pc = "observe"]
  /\ events' = IF Answer = "refused" THEN <<>> ELSE events
  /\ UNCHANGED <<pane, late>>

\* The status agent.get gave is journaled as any other, and not answered here.
ObserveResumed ==
  /\ drive.pc = "observe"
  /\ Observe(drive.resumed)
  /\ drive' = IF Answer = "refused" THEN End
              ELSE [drive EXCEPT !.pc = "authority", !.last = drive.resumed]
  /\ events' = IF Answer = "refused" THEN <<>> ELSE events
  /\ UNCHANGED <<pane, late>>

\* resume_authority: one read of the whole journal.
MayContinue == Now.work.state = "Active" /\ Now.run = "open"

Authority ==
  /\ drive.pc = "authority"
  /\ drive' = IF ~MayContinue THEN End
              ELSE IF TurnEnded(drive.resumed) THEN [drive EXCEPT !.pc = "prompt"]
              ELSE [drive EXCEPT !.pc = "loop", !.resumed = "none"]
  /\ events' = IF MayContinue THEN events ELSE <<>>
  /\ UNCHANGED <<journal, pane, late>>

-----------------------------------------------------------------------------
(* A status from the subscription. *)

ReleaseOnTurnEnd(s) == s \in TurnEnds \cup {"Working"}   \* mutant: any turn frees the gate

\* PromptGate.release_on_working.
Releases(s) == s = "Working"

\* Where a status takes the drive once wirkd has answered its record.
NextAfter(s) ==
  IF Answer = "settled" \/ ~TurnEnded(s) THEN "loop"
  ELSE IF drive.baseline = {} THEN "prompt" ELSE "compare"

\* The same status twice is not a change; a refused record ends the drive, and
\* the RunFailed it then tries to record is refused as well.
ReadStatus ==
  /\ drive.pc = "loop" /\ events # <<>> /\ Head(events) # "Ended"
  /\ LET s == Head(events) IN
     IF s = drive.last
     THEN events' = Tail(events) /\ UNCHANGED <<journal, drive>>
     ELSE /\ Observe(s)
          /\ drive' = IF Answer = "refused" THEN End
                      ELSE [drive EXCEPT !.pc = NextAfter(s), !.last = s,
                                         !.busy = @ /\ ~Releases(s)]
          /\ events' = IF Answer = "refused" THEN <<>> ELSE Tail(events)
  /\ UNCHANGED <<pane, late>>

\* Either signal may be unreadable: a failing git folds to the empty string,
\* outputs are then Unavailable.  observable_progress: the fingerprints differ, or
\* both outputs were read and differ.
Progress(before, now) ==
  \/ "tree" \in before /\ "tree" \notin now
  \/ "tree" \notin before /\ "tree" \in now
  \/ \E g \in before \cap now : g \in drive.moved

\* The baseline is spent, and compared with what is read now.
Compare ==
  /\ drive.pc = "compare"
  /\ \E before \in drive.baseline, now \in SUBSET Signal :
       drive' = [drive EXCEPT
                   !.pc = IF Progress(before, now) THEN "prompt" ELSE "stuck",
                   !.same = IF Progress(before, now) THEN {} ELSE before \cap now,
                   !.baseline = {}, !.moved = {}, !.since = {}]
  /\ UNCHANGED <<journal, pane, events, late>>

DeclareStuckLeaves ==   \* mutant: the subscription outlives the drive
  /\ drive.pc = "stuck"
  /\ Observe("NoObservableProgress")
  /\ drive' = IF Answer = "settled" THEN [drive EXCEPT !.pc = "loop", !.same = {}] ELSE End
  /\ UNCHANGED <<pane, late, events>>

\* NoObservableProgress ends the drive, unless the Run has settled meanwhile.
DeclareStuck ==
  /\ drive.pc = "stuck"
  /\ Observe("NoObservableProgress")
  /\ drive' = IF Answer = "settled" THEN [drive EXCEPT !.pc = "loop", !.same = {}] ELSE End
  /\ events' = IF Answer = "settled" THEN events ELSE <<>>
  /\ UNCHANGED <<pane, late>>

-----------------------------------------------------------------------------
(* maybe_prompt.  It is only ever called at a turn end, so `blocked` is    *)
(* false, and `claimed` and `needs_input` are set only as the drive ends.  *)

Snapshots == IF drive.prompted THEN {{read} : read \in SUBSET Signal} ELSE {{}}

\* The gate, and the baseline of a continuation, before the prompt is sent.
Prepare ==
  /\ drive.pc = "prompt"
  /\ IF drive.busy THEN drive' = [drive EXCEPT !.pc = "loop"]
     ELSE \E snapshot \in Snapshots :
            drive' = [drive EXCEPT !.pc = "send", !.busy = TRUE, !.prompted = TRUE,
                                   !.baseline = snapshot]
  /\ UNCHANGED <<journal, pane, events, late>>

Sent == [drive EXCEPT !.pc = "loop", !.resumed = "none", !.since = {}]

SendThenSnapshot ==   \* mutant: the baseline is read when the actor may have begun
  /\ drive.pc = "send" /\ Alive
  /\ pane' = [pane EXCEPT !.inbox = Append(@, drive.n)]
  /\ \E g \in Signal :
       drive' = IF drive.baseline = {} THEN Sent ELSE [Sent EXCEPT !.moved = {}, !.since = {g}]
  /\ late' = IF Answer = "accepted" THEN late ELSE late + 1
  /\ UNCHANGED <<journal, events>>

Send ==
  /\ drive.pc = "send" /\ Alive
  /\ pane' = [pane EXCEPT !.inbox = Append(@, drive.n)]
  /\ drive' = Sent
  /\ late' = IF Answer = "accepted" THEN late ELSE late + 1
  /\ UNCHANGED <<journal, events>>

\* Herdr answers with an error; a drive that reached its loop records RunFailed.
SendFails ==
  /\ drive.pc = "send"
  /\ IF Answer = "accepted" /\ drive.resumed = "none"
     THEN Journal(OnRunFailed(Now.work, Own), "failed")
     ELSE UNCHANGED journal
  /\ drive' = End
  /\ events' = <<>>
  /\ UNCHANGED <<pane, late>>

-----------------------------------------------------------------------------
(* The other messages of the loop, and its end. *)

\* HerdrEnded: RunVanished; of a settled Run the outcome is waited for.
ReadEnd ==
  /\ drive.pc = "loop" /\ events # <<>> /\ Head(events) = "Ended"
  /\ IF Answer = "accepted"
     THEN Journal(OnRunVanished(Now.work, Own), "vanished")
     ELSE UNCHANGED journal
  /\ drive' = IF Answer = "settled" THEN drive ELSE End
  /\ events' = IF Answer = "settled" THEN Tail(events) ELSE <<>>
  /\ UNCHANGED <<pane, late>>

SinceLeftAnyCause(w) ==   \* mutant: any hold of this Run is taken for its block
  w.cause.run = Own /\ drive.last \in TurnEnds \cup {"Working"}

\* block_this_run_has_since_left.
SinceLeft(w) ==
  w.cause = Cause(Own, "blocked") /\ drive.last \in TurnEnds \cup {"Working"}

\* observe_watch.
EndsDrive(e) ==
  \/ e.run = "claimed"
  \/ e.run # "none" /\ e.work.state = "NeedsInput" /\ ~SinceLeft(e.work)

ReadJournal ==
  /\ drive.pc = "loop" /\ drive.seen < Len(journal)
  /\ drive' = IF EndsDrive(journal[drive.seen + 1]) THEN End
              ELSE [drive EXCEPT !.seen = @ + 1]
  /\ events' = IF EndsDrive(journal[drive.seen + 1]) THEN <<>> ELSE events
  /\ UNCHANGED <<journal, pane, late>>

\* The invocation is killed, or wirkd's stream ends and it gives up.
DriveDies ==
  /\ Driving
  /\ drive' = End /\ events' = <<>>
  /\ UNCHANGED <<journal, pane, late>>

-----------------------------------------------------------------------------

Actor == Ready \/ TakePrompt \/ EndTurn \/ Block \/ Edit \/ PaneEnds
         \/ ClaimDone \/ ClaimQuestion \/ ClaimOutOfBoundary

Human == HumanAnswers \/ HumanViews \/ Cancel \/ Retry

Resume == Ask \/ AskAbsent \/ Subscribe \/ Reconcile \/ ObserveResumed \/ Authority

Handle == ReadStatus \/ ReadEnd \/ Compare \/ DeclareStuck \/ Prepare \/ Send \/ SendFails

\* Bound: nothing is followed past the last drive.
Over == drive.pc = "ended" /\ drive.n = MaxDrives

Next == ~Over /\ (Actor \/ Human \/ Launch \/ Resume \/ Handle \/ ReadJournal \/ DriveDies)

Spec == Init /\ [][Next]_vars

\* The two readers and the loop go on; nothing is promised of the actor, of a
\* human, or of an invocation being started or killed.
FairSpec ==
  /\ Spec
  /\ WF_vars(Subscribe \/ Reconcile \/ ObserveResumed \/ Authority)
  /\ WF_vars(Handle) /\ WF_vars(ReadJournal)

-----------------------------------------------------------------------------
(* Properties. *)

PC == {"none", "asked", "reconcile", "observe", "authority", "loop", "compare",
       "stuck", "prompt", "send", "ended"}

\* Types; no status is queued for a drive that does not listen, and a baseline
\* is one reading, kept only by a drive that has prompted.
TypeOK ==
  /\ Now.work.state \in WorkState
  /\ Now.run \in {"open", "claimed", "failed", "vanished", "superseded"}
  /\ pane.status \in Status \cup {"none", "gone"}
  /\ \A i \in 1..Len(pane.inbox) : pane.inbox[i] \in 1..drive.n
  /\ pane.changes \in 0..MaxChanges /\ pane.filed \in 0..MaxClaims
  /\ drive.n \in 0..MaxDrives /\ drive.pc \in PC /\ drive.seen \in 0..Len(journal)
  /\ drive.baseline \subseteq SUBSET Signal
  /\ drive.moved \subseteq Signal /\ drive.since \subseteq Signal /\ drive.same \subseteq Signal
  /\ drive.baseline # {} => drive.prompted
  /\ ~Subscribed => events = <<>>

\* A drive that declares its actor stuck has compared with what showed before the
\* prompt: no signal it calls unchanged shows anything done since, what the actor
\* does in the moment the prompt arrives included (maybe_prompt takes the
\* baseline before it sends).
StuckIsHonest ==
  [][Compare => drive'.same \cap drive.since = {}]_vars

\* The drive that launched the actor sends no prompt while another of its own
\* is not taken (D56), however late statuses reach it.
FreshPromptAlone == [][drive.n = 1 /\ Send => pane.inbox = <<>>]_vars

\* A Run that has settled (claimed, failed, retried, its Work over) is prompted
\* once at most, by the drive that had decided to before: whatever is read or
\* resumed afterwards is refused by wirkd and not answered with a prompt.
OneLatePrompt == [][Send /\ Answer # "accepted" => late = 0]_vars

\* A drive that was attached to a live pane does not prompt it over the
\* question, refusal or block that held the Work when it attached and holds it
\* still (resume_authority).
NoPromptOverHold ==
  [][Send /\ drive.found # NoCause => Now.work.cause # drive.found]_vars

\* No drive floods an actor, or presses one that is done or held.
PromptIsWelcome == FreshPromptAlone /\ OneLatePrompt /\ NoPromptOverHold

\* The end of a turn is answered: the actor that waits at one is prompted, or
\* its drive ends, or its Run does.
TurnEndAnswered ==
  (drive.n = 1 /\ Driving /\ pane.status \in TurnEnds /\ pane.inbox = <<>>)
    ~> (pane.inbox # <<>> \/ ~Driving \/ Answer # "accepted" \/ pane.status \notin TurnEnds)

\* A hold that only a human can lift ends the drive, wherever in the journal
\* it stands and whatever the pane does.
HoldEndsDrive ==
  (Driving /\ Now.work.state = "NeedsInput" /\ Now.work.cause.reason # "blocked")
    ~> ~Driving

\* D133 as maybe_prompt states it: the pane is prompted only while the Run is
\* unclaimed and the Work not NeedsInput.
PromptsOnlyUnheld == [][Send => Now.run # "claimed" /\ Now.work.state # "NeedsInput"]_vars

\* "This driver stops observing": the drive of a Run that settled ends.
SettledEndsDrive == (Driving /\ Answer = "settled") ~> ~Driving

\* "Told to continue at least once, and did nothing since."
StuckDidNothing == [][Compare /\ drive'.pc = "stuck" => drive.since = {}]_vars

\* "Only the turn end after that compares": stuck means a turn was taken since
\* the last prompt.
StuckAfterTurn == [][Compare /\ drive'.pc = "stuck" => pane.inbox = <<>>]_vars

=============================================================================
