---------------------------- MODULE RunLoopProofs ----------------------------
(***************************************************************************)
(* What the driver of one Run knows, proved for every Route and every      *)
(* bound: the types, what a drive that calls its actor stuck has compared, *)
(* and that a prompt is welcome.                                           *)
(*                                                                         *)
(* The last is the subtle one.  Statuses reach the drive late, so the gate *)
(* relates what is queued to the pane: a drive whose gate is open has an   *)
(* actor without a prompt, and a turn end it reads, or will read, is the   *)
(* last thing that happened; a shut gate waits for a Working that is not   *)
(* pushed before the prompt was taken.                                     *)
(***************************************************************************)
EXTENDS RunLoop, SequenceTheorems, TLAPS

Event == Status \cup {"Ended"}

CauseOf == [run : {0, Earlier, Own}, reason : Reason \cup {"none"}]

\* The folded Work of a Run without children: nothing is held or activated.
Folded == [state : WorkState, current : Waypoint \cup {NoWaypoint}, cause : CauseOf,
           held : {NoHold}, activation : {[c \in Container |-> 0]}]

RunState == {"none", "open", "claimed", "failed", "vanished", "superseded"}

Entry == [work : Folded, run : RunState]

DriveType ==
  [n : 0..MaxDrives, pc : PC, seen : Nat, last : Status \cup {"none"}, busy : BOOLEAN,
   prompted : BOOLEAN, baseline : SUBSET SUBSET Signal, moved : SUBSET Signal,
   same : SUBSET Signal, since : SUBSET Signal, resumed : Status \cup {"none"},
   found : CauseOf]

PaneType ==
  [status : Status \cup {"none", "gone"}, inbox : Seq(Nat),
   changes : 0..MaxChanges, filed : 0..MaxClaims]

Types ==
  /\ journal \in Seq(Entry) /\ Len(journal) > 0
  /\ Now.run # "none"
  /\ pane \in PaneType /\ events \in Seq(Event)
  /\ drive \in DriveType /\ late \in Nat

\* The conjuncts of TypeOK that relate two variables.
Shapes ==
  /\ drive.pc = "none" <=> drive.n = 0
  /\ drive.seen <= Len(journal)
  /\ \A i \in 1..Len(pane.inbox) : pane.inbox[i] \in 1..drive.n
  /\ drive.baseline # {} => drive.prompted
  /\ ~Subscribed => events = <<>>

\* What moved since the prompt moved since the reading before it.
Since == drive.since \subseteq drive.moved

\* A prompt that came late was the last: the drive that sent it waits in its loop
\* for the end, and wirkd accepts nothing of this Run any more.
Once == late # 0 => Answer # "accepted" /\ drive.pc \in {"loop", "ended"}

\* A Work that is not held has no cause.  What a resumed drive found holding the
\* Work holds it still, unless it was a block, until the authority is read, and so
\* there is nothing but a block a drive past that reading can have found.
Held == Now.work.state = "NeedsInput" /\ Now.work.cause.reason # "blocked"

Firm == drive.found # NoCause /\ drive.found.reason # "blocked"

\* Only the driven Run blocks, and only a held Work has a cause.
Named(w) ==
  /\ w.state # "NeedsInput" => w.cause = NoCause
  /\ w.cause.reason = "blocked" => w.cause.run = Own

Holding ==
  /\ Named(Now.work)
  /\ drive.n = 0 => Now.work.cause = NoCause /\ pane.status = "none"
  /\ drive.pc \in {"asked", "reconcile", "observe"} /\ Firm
       => Held \/ Now.run # "open" \/ Now.work.state \in Terminal
  /\ drive.pc = "authority" /\ Firm => ~MayContinue
  /\ drive.pc \in {"loop", "compare", "stuck", "prompt", "send"} => ~Firm
  /\ drive.pc \in {"compare", "prompt", "send"} => Now.work.cause.reason # "blocked"

\* Where no Working or Blocked can come from until a prompt is taken.
Rest == TurnEnds \cup {"Ended", "gone"}

RestAfter(i) == \A k \in 1..Len(events) : k > i => events[k] \in Rest

Resting == RestAfter(0) /\ pane.status \in Rest

\* After a turn end queued past i nothing but rest is queued.
EndsLast(i) ==
  \A k \in 1..Len(events) : k > i /\ events[k] \in TurnEnds => RestAfter(k) /\ pane.status \in Rest

Open == EndsLast(0) /\ (drive.last \in TurnEnds => Resting)

\* The prompt was taken, and the first status after it is unread.
Taken ==
  \E i \in 1..Len(events) :
    /\ events[i] = "Working"
    /\ \A k \in 1..Len(events) : k < i => events[k] \in Rest
    /\ EndsLast(i)

Shut == drive.last \in TurnEnds /\ (Resting \/ Taken)

Gate ==
  drive.n = 1 /\ Driving =>
    /\ drive.pc \in {"loop", "compare", "stuck", "prompt", "send"}
    /\ ~drive.busy => Open
    /\ drive.busy => Shut
    /\ pane.inbox # <<>> => drive.busy /\ drive.pc # "send" /\ Resting
    /\ drive.pc \in {"compare", "stuck", "prompt", "send"} => drive.last \in TurnEnds
    /\ drive.pc = "send" => drive.busy /\ Resting

Knows == Types /\ Shapes /\ Since /\ Once /\ Holding /\ Gate

-----------------------------------------------------------------------------
(* The fold, the journal and the answers of wirkd. *)

LEMMA FoldTypes ==
  ASSUME NEW w \in Folded, NEW r \in {Earlier, Own}
  PROVE  /\ OnDone(w, Driven) \in Folded /\ OnQuestion(w, r) \in Folded
         /\ OnWorkCanceled(w) \in Folded /\ OnBlocked(w, r) \in Folded
         /\ OnNoProgress(w, r) \in Folded /\ OnTurnSeen(w, r) \in Folded
         /\ OnRunFailed(w, r) \in Folded /\ OnRunVanished(w, r) \in Folded
         /\ OnRunOpened(w) \in Folded /\ OnWaypointReserved(w, Driven) \in Folded
         /\ \A latest \in BOOLEAN : OnOutOfBoundary(w, r, Driven, latest) \in Folded
<1>1. Driven \in Waypoint
  BY RunLoopAssumption DEF Waypoint
<1>2. {"Active", "NeedsInput", "Completed", "Canceled"} \subseteq WorkState
  BY DEF WorkState
<1>3. NoCause \in CauseOf /\ \A why \in Reason : Cause(r, why) \in CauseOf
  BY DEF NoCause, Cause, CauseOf, Reason
<1>4. AskHuman(w, r, "blocked") \in Folded /\ AskHuman(w, r, "no_observable_progress") \in Folded
  BY <1>2, <1>3 DEF AskHuman, Folded, Reason
<1>5. /\ AskHuman(w, r, "question") \in Folded /\ AskHuman(w, r, "run_failed") \in Folded
      /\ AskHuman(w, r, "run_vanished") \in Folded /\ AskHuman(w, r, "out_of_boundary") \in Folded
  BY <1>2, <1>3 DEF AskHuman, Folded, Reason
<1>6. \A v \in Folded : Settled(v) \in Folded
  BY <1>3 DEF Settled, Folded
<1>7. [w EXCEPT !.state = "Completed"] \in Folded /\ [w EXCEPT !.state = "Canceled"] \in Folded
      /\ [w EXCEPT !.state = "Active"] \in Folded
  BY <1>2 DEF Folded
<1>8. OnDone(w, Driven) \in Folded /\ OnWorkCanceled(w) \in Folded
  BY <1>6, <1>7 DEF OnDone, OnWorkCanceled
<1>9. OnTurnSeen(w, r) \in Folded /\ OnRunOpened(w) \in Folded
  BY <1>2, <1>3 DEF OnTurnSeen, OnRunOpened, Folded
<1>10. OnWaypointReserved(w, Driven) \in Folded
  BY <1>1, <1>2 DEF OnWaypointReserved, Folded
<1> QED
  BY <1>4, <1>5, <1>8, <1>9, <1>10 DEF OnQuestion, OnBlocked, OnNoProgress, OnRunFailed, OnRunVanished, OnOutOfBoundary

\* What a record of the drive folds to is a Work again.
LEMMA ObservedTypes ==
  ASSUME NEW s, Now.work \in Folded
  PROVE  Observed(s) \in Folded
BY FoldTypes DEF Observed

LEMMA NowTyped ==
  ASSUME Types
  PROVE  /\ Now \in Entry /\ Now.work \in Folded /\ Now.run \in RunState
         /\ Now.work.state \in WorkState /\ Now.work.cause \in CauseOf
<1>1. Len(journal) \in 1..Len(journal)
  BY LenProperties DEF Types
<1>2. Now \in Entry
  BY <1>1, ElementOfSeq DEF Types, Now
<1> QED
  BY <1>2 DEF Entry, Folded

\* What one record does to the journal.
LEMMA Journaled ==
  ASSUME Types, NEW w \in Folded, NEW r \in RunState \ {"none"}, Journal(w, r)
  PROVE  /\ journal' \in Seq(Entry) /\ Len(journal') >= Len(journal) /\ Len(journal') > 0
         /\ Now' = [work |-> w, run |-> r]
         /\ Now'.work = w /\ Now'.run = r
<1> DEFINE e == [work |-> w, run |-> r]
<1>1. e \in Entry
  BY DEF Entry
<1>2. CASE e = Now
  BY <1>2 DEF Journal, Types, Now
<1>3. CASE e # Now
  <2>1. journal' = Append(journal, e) /\ journal \in Seq(Entry)
    BY <1>3 DEF Journal, Types
  <2>2. journal' \in Seq(Entry) /\ Len(journal') = Len(journal) + 1 /\ journal'[Len(journal) + 1] = e
    BY <1>1, <2>1, AppendProperties
  <2> QED
    BY <2>2, LenProperties DEF Types, Now
<1> QED
  BY <1>2, <1>3

LEMMA Unjournaled ==
  ASSUME Types, UNCHANGED journal
  PROVE  /\ journal' \in Seq(Entry) /\ Len(journal') = Len(journal) /\ Len(journal') > 0
         /\ Now' = Now
BY DEF Types, Now

\* A record that is accepted folds; any other leaves the journal alone.
LEMMA ObserveFacts ==
  ASSUME Types, NEW s, Observe(s)
  PROVE  /\ journal' \in Seq(Entry) /\ Len(journal') >= Len(journal) /\ Len(journal') > 0
         /\ Now'.run = Now.run
         /\ Answer = "accepted" => Now'.work = Observed(s)
         /\ Answer # "accepted" => Now'.work = Now.work
<1>1. Now.work \in Folded /\ Now.run \in RunState \ {"none"}
  BY NowTyped DEF Types
<1>2. CASE Answer = "accepted"
  <2>1. Journal(Observed(s), Now.run) /\ Observed(s) \in Folded
    BY <1>1, <1>2, ObservedTypes DEF Observe
  <2> QED
    BY <1>1, <1>2, <2>1, Journaled
<1>3. CASE Answer # "accepted"
  BY <1>3, Unjournaled, LenProperties DEF Observe, Types
<1> QED
  BY <1>2, <1>3

\* Every step of the journal: it stays, or one entry follows from the last.
JournalMoves ==
  /\ journal' \in Seq(Entry) /\ Len(journal') > 0 /\ Len(journal') >= Len(journal)
  /\ Now'.run # "none"

LEMMA JournalGrows ==
  ASSUME Types, Next
  PROVE  JournalMoves
<1> USE DEF JournalMoves
<1>0. Now.work \in Folded /\ Now.run \in RunState \ {"none"}
  BY NowTyped DEF Types
<1>1. CASE UNCHANGED journal
  BY <1>1, Unjournaled, LenProperties DEF Types
<1>2. ASSUME NEW s, Observe(s) PROVE JournalMoves
  BY <1>0, <1>2, ObserveFacts
<1>3. ASSUME NEW w \in Folded, NEW r \in {"open", "claimed", "failed", "vanished", "superseded"}, Journal(w, r)
      PROVE  JournalMoves
  BY <1>3, Journaled DEF RunState
<1>4. CASE ClaimDone
  BY <1>0, <1>3, <1>4, FoldTypes DEF ClaimDone
<1>5. CASE ClaimQuestion
  BY <1>0, <1>3, <1>5, FoldTypes DEF ClaimQuestion, Claimable
<1>15. CASE ClaimOutOfBoundary
  BY <1>0, <1>15, FoldTypes, Journaled DEF ClaimOutOfBoundary
<1>6. CASE Cancel
  <2>1. Journal(OnWorkCanceled(Now.work), Now.run) /\ OnWorkCanceled(Now.work) \in Folded
    BY <1>0, <1>6, FoldTypes DEF Cancel
  <2> QED
    BY <1>0, <2>1, Journaled
<1>7. CASE Retry
  <2>1. OnRunOpened(OnWaypointReserved(Now.work, Driven)) \in Folded
    BY <1>0, FoldTypes
  <2> QED
    BY <1>3, <1>7, <2>1 DEF Retry
<1>8. CASE AskAbsent
  BY <1>0, <1>3, <1>8, FoldTypes DEF AskAbsent
<1>9. CASE SendFails
  BY <1>0, <1>1, <1>3, <1>9, FoldTypes DEF SendFails
<1>10. CASE ReadEnd
  BY <1>0, <1>1, <1>3, <1>10, FoldTypes DEF ReadEnd
<1>11. CASE Reconcile \/ ObserveResumed \/ DeclareStuck
  BY <1>2, <1>11 DEF Reconcile, ObserveResumed, DeclareStuck
<1>12. CASE ReadStatus
  BY <1>1, <1>2, <1>12 DEF ReadStatus
<1>13. CASE \/ Ready \/ TakePrompt \/ EndTurn \/ Block \/ PaneEnds \/ HumanAnswers \/ HumanViews
  BY <1>1, <1>13 DEF Ready, TakePrompt, EndTurn, Block, PaneEnds, HumanAnswers, HumanViews, Turns
<1>14. CASE \/ Edit \/ Launch \/ Ask \/ Subscribe \/ Authority \/ Compare \/ Prepare \/ Send \/ ReadJournal \/ DriveDies
  BY <1>1, <1>14 DEF Edit, Launch, Ask, Subscribe, Authority, Compare, Prepare, Send, ReadJournal, DriveDies
<1> QED
  BY <1>4, <1>5, <1>6, <1>7, <1>8, <1>9, <1>10, <1>11, <1>12, <1>13, <1>14, <1>15
     DEF Next, Actor, Human, Resume, Handle

-----------------------------------------------------------------------------
(* Types. *)

LEMMA InitTypes == Init => Types /\ Shapes
<1> SUFFICES ASSUME Init PROVE Types /\ Shapes
  OBVIOUS
<1>1. /\ OnWorkSubmitted \in Folded
      /\ Driven \in Waypoint
  BY RunLoopAssumption DEF OnWorkSubmitted, Folded, WorkState, CauseOf, NoCause, Waypoint
<1>2. OnWaypointReserved(OnWorkSubmitted, Driven) \in Folded
  BY <1>1, FoldTypes DEF Own
<1>3. Reserved \in Folded
  BY <1>2, FoldTypes DEF Reserved
<1>4. OnRunFailed(Reserved, Earlier) \in Folded
  BY <1>3, FoldTypes
<1>5. OnRunOpened(OnRunFailed(Reserved, Earlier)) \in Folded
  BY <1>4, FoldTypes
<1>6. /\ journal \in Seq(Entry) /\ Len(journal) > 0 /\ Now.run = "open"
  <2>1. CASE journal = FirstAttempt
    BY <1>3, <2>1 DEF FirstAttempt, Entry, RunState, Now
  <2>2. CASE journal = Retried
    BY <1>4, <1>5, <2>2 DEF Retried, Entry, RunState, Now
  <2> QED
    BY <2>1, <2>2 DEF Init
<1>7. pane \in PaneType /\ Len(pane.inbox) = 0 /\ events \in Seq(Event)
  BY RunLoopAssumption DEF Init, PaneType
<1>8. drive \in DriveType /\ late \in Nat
  BY RunLoopAssumption DEF Init, DriveType, NoDrive, PC, CauseOf, NoCause
<1>9. drive.n = 0 /\ drive.pc = "none" /\ drive.seen = 0 /\ drive.baseline = {}
  BY DEF Init, NoDrive
<1>10. Types
  BY <1>6, <1>7, <1>8 DEF Types
<1>11. Shapes
  BY <1>6, <1>7, <1>9 DEF Shapes, Init
<1> QED
  BY <1>10, <1>11

LEMMA Pushed ==
  ASSUME Types, NEW e \in Event, Push(e)
  PROVE  /\ events' \in Seq(Event)
         /\ Subscribed => events' = Append(events, e)
         /\ ~Subscribed => events' = events
BY AppendProperties DEF Types, Push

LEMMA EventsLeft ==
  ASSUME Types, events # <<>>
  PROVE  /\ Tail(events) \in Seq(Event) /\ Head(events) \in Event
         /\ Len(Tail(events)) = Len(events) - 1 /\ Len(events) \in Nat \ {0}
         /\ Head(events) = events[1]
         /\ \A k \in 1..Len(Tail(events)) : Tail(events)[k] = events[k + 1]
BY HeadTailProperties, LenProperties DEF Types

\* The parts of a step the journal has no part in.
LocalTypes ==
  pane' \in PaneType /\ events' \in Seq(Event) /\ drive' \in DriveType /\ late' \in Nat

LEMMA PaneSteps ==
  ASSUME Types,
         \/ Ready \/ TakePrompt \/ EndTurn \/ Block \/ PaneEnds \/ HumanAnswers \/ HumanViews
  PROVE  LocalTypes /\ UNCHANGED <<journal, drive, late>>
<1> USE DEF LocalTypes
<1>1. pane \in PaneType /\ events \in Seq(Event) /\ drive \in DriveType /\ late \in Nat
  BY DEF Types
<1>0. /\ pane.changes < MaxChanges => pane.changes + 1 \in 0..MaxChanges
      /\ <<>> \in Seq(Nat)
  BY <1>1, RunLoopAssumption DEF PaneType
<1>2. ASSUME NEW s \in Status, Turns(s) PROVE LocalTypes /\ UNCHANGED <<journal, drive, late>>
  <2>1. events' \in Seq(Event)
    BY <1>2, Pushed DEF Turns, Event
  <2>2. pane' \in PaneType
    BY <1>0, <1>1, <1>2 DEF Turns, PaneType
  <2> QED
    BY <1>1, <1>2, <2>1, <2>2 DEF Turns
<1>3. CASE EndTurn \/ Block \/ HumanAnswers \/ HumanViews
  BY <1>2, <1>3 DEF EndTurn, Block, HumanAnswers, HumanViews, Status, TurnEnds
<1>4. CASE Ready
  <2>1. events' \in Seq(Event)
    BY <1>4, Pushed DEF Ready, Event, Status, TurnEnds
  <2> QED
    BY <1>1, <1>4, <2>1 DEF Ready, PaneType, Status, TurnEnds
<1>5. CASE TakePrompt
  <2>1. events' \in Seq(Event)
    BY <1>5, Pushed DEF TakePrompt, Event, Status, TurnEnds
  <2>2. pane' \in PaneType
    BY <1>0, <1>1, <1>5 DEF TakePrompt, PaneType, Status
  <2> QED
    BY <1>1, <1>5, <2>1, <2>2 DEF TakePrompt
<1>7. CASE PaneEnds
  <2>1. events' \in Seq(Event)
    BY <1>7, Pushed DEF PaneEnds, Event
  <2> QED
    BY <1>0, <1>1, <1>7, <2>1 DEF PaneEnds, PaneType
<1> QED
  BY <1>3, <1>4, <1>5, <1>7

\* Those who write the journal and are not the drive.
Claims == ClaimDone \/ ClaimQuestion \/ ClaimOutOfBoundary

LEMMA OtherSteps ==
  ASSUME Types, Claims \/ Cancel \/ Retry
  PROVE  /\ LocalTypes /\ UNCHANGED <<events, drive, late>>
         /\ pane'.status = pane.status /\ pane'.inbox = pane.inbox
         /\ Claims => pane.status # "none" /\ Now.work.state \notin Terminal
<1>1. pane \in PaneType
  BY DEF Types
<1>2. CASE Claims
  <2>1. Files
    BY <1>2 DEF Claims, ClaimDone, ClaimQuestion, ClaimOutOfBoundary
  <2>2. pane.filed + 1 \in 0..MaxClaims
    BY <1>1, <2>1, RunLoopAssumption DEF Files, PaneType
  <2> QED
    BY <1>1, <2>1, <2>2 DEF Types, LocalTypes, Files, PaneType
<1>3. CASE ~Claims
  BY <1>3 DEF Types, LocalTypes, Cancel, Retry, Others
<1> QED
  BY <1>2, <1>3

LEMMA DriveSteps ==
  ASSUME Types, Shapes, Edit \/ Launch \/ Resume \/ Handle \/ ReadJournal \/ DriveDies
  PROVE  LocalTypes
<1> USE DEF LocalTypes
<1>1. pane \in PaneType /\ events \in Seq(Event) /\ drive \in DriveType /\ late \in Nat
  BY DEF Types
<1>2. End \in DriveType /\ <<>> \in Seq(Event)
  <2>1. drive.n \in 0..MaxDrives /\ "ended" \in PC /\ NoCause \in CauseOf
    BY <1>1 DEF DriveType, PC, CauseOf, NoCause
  <2> QED
    <3>1. NoDrive \in DriveType
      BY <2>1, RunLoopAssumption DEF NoDrive, DriveType, PC
    <3>2. [[NoDrive EXCEPT !.n = drive.n] EXCEPT !.pc = "ended"] \in DriveType
      BY <2>1, <3>1 DEF DriveType
    <3>3. End = [[NoDrive EXCEPT !.n = drive.n] EXCEPT !.pc = "ended"]
      BY DEF End
    <3> QED
      BY <3>2, <3>3
<1>3. Now.work.cause \in CauseOf
  BY NowTyped
<1>4. ASSUME NEW pc \in {"loop", "asked"}, drive.n < MaxDrives
      PROVE  Begin(pc) \in DriveType
  <2>1. drive.n + 1 \in 0..MaxDrives
    BY <1>1, <1>4, RunLoopAssumption DEF DriveType
  <2> QED
    BY <1>3, <1>4, <2>1 DEF Begin, NoDrive, DriveType, PC
<1>5. ASSUME NEW pc \in PC PROVE [drive EXCEPT !.pc = pc] \in DriveType
  BY <1>1 DEF DriveType
<1>6. {"none", "asked", "reconcile", "observe", "authority", "loop", "compare",
       "stuck", "prompt", "send", "ended"} \subseteq PC
  BY DEF PC
<1>7. pane.status \in Status \cup {"none", "gone"}
  BY <1>1 DEF PaneType
<1>8. CASE Launch
  <2>1. drive.n < MaxDrives
    BY <1>8, RunLoopAssumption DEF Launch, Shapes
  <2> QED
    BY <1>1, <1>4, <1>8, <2>1 DEF Launch, PaneType, Status
<1>9. CASE Ask
  <2>1. Begin("asked") \in DriveType /\ pane.status \in Status
    BY <1>4, <1>9 DEF Ask, Alive
  <2> QED
    BY <1>1, <1>9, <2>1 DEF Ask, DriveType
<1>10. CASE AskAbsent
  <2>1. drive.n + 1 \in 0..MaxDrives
    BY <1>1, <1>10, RunLoopAssumption DEF AskAbsent, DriveType
  <2>2. [drive EXCEPT !.n = @ + 1] \in DriveType
    BY <1>1, <2>1 DEF DriveType
  <2> QED
    BY <1>1, <1>10, <2>2 DEF AskAbsent
<1>11. CASE Subscribe
  <2>1. events' \in Seq(Event)
    <3>1. "Ended" \in Event
      BY DEF Event
    <3>2. <<"Ended">> \in Seq(Event)
      BY <3>1
    <3> QED
      BY <1>2, <1>11, <3>2 DEF Subscribe
  <2> QED
    BY <1>1, <1>5, <1>6, <1>11, <2>1 DEF Subscribe
<1>12. CASE Reconcile
  BY <1>1, <1>2, <1>5, <1>6, <1>12 DEF Reconcile
<1>13. CASE ObserveResumed
  <2>1. [drive EXCEPT !.pc = "authority", !.last = drive.resumed] \in DriveType
    BY <1>1, <1>6 DEF DriveType
  <2> QED
    BY <1>1, <1>2, <1>13, <2>1 DEF ObserveResumed
<1>14. CASE Authority
  <2>1. [drive EXCEPT !.pc = "loop", !.resumed = "none"] \in DriveType
    BY <1>1, <1>6 DEF DriveType
  <2> QED
    BY <1>1, <1>2, <1>5, <1>6, <1>14, <2>1 DEF Authority
<1>15. CASE ReadStatus
  <2> DEFINE s == Head(events)
             d == [drive EXCEPT !.pc = NextAfter(s), !.last = s, !.busy = @ /\ ~Releases(s)]
  <2>1. s \in Status /\ Tail(events) \in Seq(Event)
    BY <1>15, EventsLeft DEF ReadStatus, Event
  <2>2. NextAfter(s) \in PC
    BY <1>6 DEF NextAfter
  <2>3. d \in DriveType
    BY <1>1, <2>1, <2>2 DEF DriveType
  <2> QED
    BY <1>1, <1>2, <1>15, <2>1, <2>3 DEF ReadStatus
<1>16. CASE ReadEnd
  BY <1>1, <1>2, <1>16, EventsLeft DEF ReadEnd
<1>17. CASE Compare
  <2>1. PICK before \in drive.baseline, now \in SUBSET Signal :
          drive' = [drive EXCEPT
                      !.pc = IF Progress(before, now) THEN "prompt" ELSE "stuck",
                      !.same = IF Progress(before, now) THEN {} ELSE before \cap now,
                      !.baseline = {}, !.moved = {}, !.since = {}]
    BY <1>17 DEF Compare
  <2>2. drive' \in DriveType
    BY <1>1, <1>6, <2>1 DEF DriveType
  <2> QED
    BY <1>1, <1>17, <2>2 DEF Compare
<1>18. CASE DeclareStuck
  <2>1. [drive EXCEPT !.pc = "loop", !.same = {}] \in DriveType
    BY <1>1, <1>6 DEF DriveType
  <2> QED
    BY <1>1, <1>2, <1>18, <2>1 DEF DeclareStuck
<1>19. CASE Prepare
  <2>1. \A snapshot \in Snapshots : snapshot \subseteq SUBSET Signal
    BY DEF Snapshots
  <2>2. \A snapshot \in Snapshots :
          [drive EXCEPT !.pc = "send", !.busy = TRUE, !.prompted = TRUE, !.baseline = snapshot]
            \in DriveType
    BY <1>1, <1>6, <2>1 DEF DriveType
  <2> QED
    BY <1>1, <1>5, <1>6, <1>19, <2>2 DEF Prepare
<1>20. CASE Send
  <2>1. Sent \in DriveType
    BY <1>1, <1>6 DEF Sent, DriveType
  <2>2. pane' \in PaneType
    <3>1. pane.inbox \in Seq(Nat) /\ drive.n \in Nat
      BY <1>1 DEF PaneType, DriveType
    <3>2. Append(pane.inbox, drive.n) \in Seq(Nat)
      BY <3>1, AppendProperties
    <3> QED
      BY <1>1, <1>20, <3>2 DEF Send, PaneType
  <2> QED
    BY <1>1, <1>7, <1>20, <2>1, <2>2 DEF Send
<1>21. CASE SendFails
  BY <1>1, <1>2, <1>21 DEF SendFails
<1>22. CASE ReadJournal
  <2>1. [drive EXCEPT !.seen = @ + 1] \in DriveType
    BY <1>1 DEF DriveType
  <2> QED
    BY <1>1, <1>2, <1>22, <2>1 DEF ReadJournal
<1>23. CASE DriveDies
  BY <1>1, <1>2, <1>23 DEF DriveDies
<1>24. CASE Edit
  <2>1. \A g \in Signal :
          [drive EXCEPT !.moved = @ \cup {g}, !.since = @ \cup {g}] \in DriveType
    BY <1>1 DEF DriveType
  <2>2. PICK before \in drive.baseline, g \in Signal :
          drive' = [drive EXCEPT !.moved = @ \cup {g}, !.since = @ \cup {g}]
    BY <1>1, <1>24 DEF Edit, DriveType
  <2> QED
    BY <1>1, <1>24, <2>1, <2>2 DEF Edit
<1> QED
  BY <1>8, <1>9, <1>10, <1>11, <1>12, <1>13, <1>14, <1>15, <1>16, <1>17, <1>18, <1>19, <1>20,
     <1>21, <1>22, <1>23, <1>24 DEF Resume, Handle

LEMMA NextTypes ==
  ASSUME Types, Shapes, [Next]_vars
  PROVE  Types'
<1>1. CASE UNCHANGED vars
  BY <1>1 DEF vars, Types, Now
<1>2. CASE Next
  <2>1. JournalMoves
    BY <1>2, JournalGrows
  <2>2. LocalTypes
    BY <1>2, PaneSteps, OtherSteps, DriveSteps DEF Next, Actor, Human, Claims
  <2> QED
    BY <2>1, <2>2 DEF JournalMoves, LocalTypes, Types
<1> QED
  BY <1>1, <1>2

-----------------------------------------------------------------------------
(* What relates two variables. *)

LEMMA PaneFrames ==
  ASSUME Types, Shapes,
         \/ Ready \/ TakePrompt \/ EndTurn \/ Block \/ PaneEnds \/ HumanAnswers \/ HumanViews
  PROVE  /\ pane'.inbox \in {pane.inbox, <<>>}
         /\ events' = <<>> \/ Subscribed
<1> DEFINE Goal == /\ pane'.inbox \in {pane.inbox, <<>>}
                   /\ events' = <<>> \/ Subscribed
<1>1. pane \in PaneType
  BY DEF Types, PaneType
<1>2. ASSUME NEW e, Push(e) PROVE events' = <<>> \/ Subscribed
  BY <1>2 DEF Push, Shapes
<1>3. ASSUME NEW s, Turns(s) PROVE Goal
  <2>1. pane'.inbox = pane.inbox
    BY <1>1, <1>3 DEF Turns, PaneType
  <2> QED
    BY <1>1, <1>2, <1>3, <2>1 DEF Turns
<1>4. CASE EndTurn \/ Block \/ HumanAnswers \/ HumanViews
  BY <1>3, <1>4 DEF EndTurn, Block, HumanAnswers, HumanViews
<1>5. CASE Ready
  <2>1. pane'.inbox = pane.inbox
    BY <1>1, <1>5 DEF Ready, PaneType
  <2> QED
    BY <1>1, <1>2, <1>5, <2>1 DEF Ready
<1>6. CASE TakePrompt
  <2>1. pane'.inbox = <<>>
    BY <1>1, <1>6 DEF TakePrompt, PaneType
  <2> QED
    BY <1>1, <1>2, <1>6, <2>1 DEF TakePrompt
<1>8. CASE PaneEnds
  <2>1. pane'.inbox = <<>>
    BY <1>1, <1>8 DEF PaneEnds, PaneType
  <2> QED
    BY <1>1, <1>2, <1>8, <2>1 DEF PaneEnds
<1> QED
  BY <1>4, <1>5, <1>6, <1>8

LEMMA NextShapes ==
  ASSUME Types, Shapes, Next
  PROVE  Shapes'
<1>1. drive \in DriveType /\ pane \in PaneType /\ JournalMoves
  BY JournalGrows DEF Types
<1>2. Len(journal) \in Nat /\ Len(journal') \in Nat /\ Len(journal') >= Len(journal)
  BY <1>1, LenProperties DEF Types, JournalMoves
<1>3. drive.seen \in Nat /\ drive.n \in Nat
  BY <1>1 DEF DriveType
<1>4. ASSUME UNCHANGED drive,
             pane'.inbox \in {pane.inbox, <<>>}, events' = <<>> \/ Subscribed
      PROVE  Shapes'
  BY <1>2, <1>3, <1>4 DEF Shapes, Subscribed
<1>5. CASE Ready \/ TakePrompt \/ EndTurn \/ Block \/ PaneEnds \/ HumanAnswers \/ HumanViews
  BY <1>4, <1>5, PaneSteps, PaneFrames
<1>6. CASE Claims \/ Cancel \/ Retry
  BY <1>4, <1>6, OtherSteps DEF Shapes
<1>7. ASSUME UNCHANGED pane, drive'.n = drive.n, drive'.pc # "none", drive.pc # "none",
             drive'.seen \in {0, drive.seen}, drive'.baseline # {} => drive'.prompted,
             drive'.pc \in {"asked", "ended"} => events' = <<>>
      PROVE  Shapes'
  BY <1>2, <1>3, <1>7 DEF Shapes, Subscribed
<1>8. CASE Launch
  <2>1. /\ drive'.n = 1 /\ drive'.pc = "loop" /\ drive'.seen = 0 /\ drive'.baseline = {}
        /\ pane'.inbox = pane.inbox /\ drive.n = 0
    BY <1>1, <1>8 DEF Launch, Begin, NoDrive, Shapes, PaneType
  <2> QED
    BY <1>2, <2>1 DEF Shapes, Subscribed
<1>9. CASE Ask
  <2>1. /\ drive'.n = drive.n + 1 /\ drive'.pc = "asked" /\ drive'.seen = 0 /\ drive'.baseline = {}
        /\ pane' = pane /\ events' = <<>>
    BY <1>9 DEF Ask, Begin, NoDrive, Shapes, Subscribed
  <2> QED
    BY <1>2, <1>3, <2>1 DEF Shapes, Subscribed
<1>10. CASE AskAbsent
  <2>1. /\ drive'.n = drive.n + 1 /\ drive'.pc = "ended" /\ drive'.seen = drive.seen
        /\ drive'.baseline = drive.baseline /\ drive'.prompted = drive.prompted
        /\ pane' = pane /\ events' = <<>>
    BY <1>1, <1>10 DEF AskAbsent, Shapes, Subscribed, DriveType
  <2> QED
    BY <1>2, <1>3, <2>1 DEF Shapes, Subscribed
<1>11. CASE Subscribe \/ Reconcile \/ ObserveResumed
  BY <1>1, <1>7, <1>11 DEF Subscribe, Reconcile, ObserveResumed, End, NoDrive, DriveType, Shapes
<1>12. CASE Authority
  BY <1>1, <1>7, <1>12 DEF Authority, End, NoDrive, DriveType, Shapes
<1>13. CASE ReadStatus
  <2>1. UNCHANGED pane /\ drive.pc = "loop"
    BY <1>13 DEF ReadStatus
  <2>2. CASE UNCHANGED drive
    BY <1>7, <2>1, <2>2 DEF Shapes
  <2>3. CASE drive' = End /\ events' = <<>>
    BY <1>1, <1>7, <2>1, <2>3 DEF End, NoDrive, DriveType, Shapes
  <2>4. ASSUME NEW s, drive' = [drive EXCEPT !.pc = NextAfter(s), !.last = s,
                                             !.busy = @ /\ ~Releases(s)]
        PROVE  Shapes'
    <3>1. /\ drive'.n = drive.n /\ drive'.pc = NextAfter(s) /\ drive'.seen = drive.seen
          /\ drive'.baseline = drive.baseline /\ drive'.prompted = drive.prompted
      BY <1>1, <2>4 DEF DriveType
    <3>2. NextAfter(s) \notin {"none", "asked", "ended"}
      BY DEF NextAfter
    <3> QED
      BY <1>7, <2>1, <3>1, <3>2 DEF Shapes
  <2> QED
    BY <1>13, <2>2, <2>3, <2>4 DEF ReadStatus
<1>14. CASE ReadEnd
  BY <1>1, <1>7, <1>14 DEF ReadEnd, End, NoDrive, DriveType, Shapes
<1>15. CASE Compare
  BY <1>1, <1>7, <1>15 DEF Compare, DriveType, Shapes
<1>16. CASE DeclareStuck \/ SendFails \/ DriveDies
  BY <1>1, <1>7, <1>16 DEF DeclareStuck, SendFails, DriveDies, Driving, End, NoDrive, DriveType, Shapes
<1>17. CASE Prepare
  <2>1. UNCHANGED <<journal, pane, events>> /\ drive.pc = "prompt"
    BY <1>17 DEF Prepare
  <2>2. CASE drive' = [drive EXCEPT !.pc = "loop"]
    <3>1. /\ drive'.n = drive.n /\ drive'.pc = "loop" /\ drive'.seen = drive.seen
          /\ drive'.baseline = drive.baseline /\ drive'.prompted = drive.prompted
      BY <1>1, <2>2 DEF DriveType
    <3> QED
      BY <1>7, <2>1, <3>1 DEF Shapes
  <2>3. ASSUME NEW snapshot \in Snapshots,
               drive' = [drive EXCEPT !.pc = "send", !.busy = TRUE, !.prompted = TRUE,
                                      !.baseline = snapshot]
        PROVE  Shapes'
    <3>1. drive'.n = drive.n /\ drive'.pc = "send" /\ drive'.seen = drive.seen /\ drive'.prompted
      BY <1>1, <2>3 DEF DriveType
    <3> QED
      BY <1>7, <2>1, <3>1
  <2> QED
    BY <1>17, <2>2, <2>3 DEF Prepare
<1>20. CASE Edit
  <2>1. PICK g : drive' = [drive EXCEPT !.moved = @ \cup {g}, !.since = @ \cup {g}]
    BY <1>20 DEF Edit
  <2>2. /\ drive'.n = drive.n /\ drive'.pc = drive.pc /\ drive'.seen = drive.seen
        /\ drive'.baseline = drive.baseline /\ drive'.prompted = drive.prompted
    BY <1>1, <2>1 DEF DriveType
  <2> QED
    BY <1>2, <1>3, <1>20, <2>2 DEF Edit, Shapes, Subscribed
<1>18. CASE Send
  <2>1. /\ drive'.n = drive.n /\ drive'.pc = "loop" /\ drive'.seen = drive.seen
        /\ drive'.baseline = drive.baseline /\ drive'.prompted = drive.prompted
        /\ pane'.inbox = Append(pane.inbox, drive.n)
    BY <1>1, <1>18 DEF Send, Sent, DriveType, PaneType
  <2>2. drive.n \in 1..drive.n
    BY <1>3, <1>18 DEF Send, Shapes
  <2>3. pane.inbox \in Seq(Nat)
    BY <1>1 DEF PaneType
  <2>4. \A i \in 1..Len(pane'.inbox) : pane'.inbox[i] \in 1..drive'.n
    BY <1>3, <2>1, <2>2, <2>3, AppendProperties DEF Shapes
  <2> QED
    BY <1>2, <1>3, <1>18, <2>1, <2>4 DEF Shapes, Subscribed, Send
<1>19. CASE ReadJournal
  <2>1. /\ drive'.n = drive.n /\ drive'.pc # "none" /\ UNCHANGED <<pane, journal>>
        /\ (drive'.baseline # {} => drive'.prompted)
        /\ drive'.seen <= Len(journal) /\ (drive'.pc \in {"asked", "ended"} => events' = <<>>)
    BY <1>1, <1>2, <1>3, <1>19 DEF ReadJournal, End, NoDrive, DriveType, Shapes
  <2> QED
    BY <1>2, <1>19, <2>1 DEF Shapes, Subscribed, ReadJournal
<1> QED
  BY <1>5, <1>6, <1>8, <1>9, <1>10, <1>11, <1>12, <1>13, <1>14, <1>15, <1>16, <1>17, <1>18, <1>19, <1>20
     DEF Next, Actor, Claims, Human, Resume, Handle

LEMMA NextSince ==
  ASSUME Types, Since, Next
  PROVE  Since'
<1>1. drive \in DriveType
  BY DEF Types
<1>2. ASSUME drive'.since \in {{}, drive.since}, drive'.moved = drive.moved \/ drive'.since = {}
      PROVE  Since'
  BY <1>2 DEF Since
<1>3. CASE Ready \/ TakePrompt \/ EndTurn \/ Block \/ PaneEnds \/ HumanAnswers \/ HumanViews
  BY <1>2, <1>3, PaneSteps
<1>4. CASE Claims \/ Cancel \/ Retry
  BY <1>2, <1>4, OtherSteps
<1>5. CASE Edit
  <2>1. PICK g : drive' = [drive EXCEPT !.moved = @ \cup {g}, !.since = @ \cup {g}]
    BY <1>5 DEF Edit
  <2>2. drive'.moved = drive.moved \cup {g} /\ drive'.since = drive.since \cup {g}
    BY <1>1, <2>1 DEF DriveType
  <2> QED
    BY <2>2 DEF Since
<1>6. CASE Launch \/ Ask
  BY <1>2, <1>6 DEF Launch, Ask, Begin, NoDrive
<1>7. End.since = {}
  BY DEF End, NoDrive
<1>8. CASE AskAbsent \/ Subscribe \/ Reconcile \/ ObserveResumed \/ Authority
  BY <1>1, <1>2, <1>7, <1>8 DEF AskAbsent, Subscribe, Reconcile, ObserveResumed, Authority, DriveType
<1>9. CASE ReadStatus \/ ReadEnd \/ DeclareStuck \/ SendFails \/ ReadJournal \/ DriveDies
  BY <1>1, <1>2, <1>7, <1>9 DEF ReadStatus, ReadEnd, DeclareStuck, SendFails, ReadJournal, DriveDies, DriveType
<1>10. CASE Compare \/ Prepare \/ Send
  BY <1>1, <1>2, <1>10 DEF Compare, Prepare, Send, Sent, DriveType
<1> QED
  BY <1>3, <1>4, <1>5, <1>6, <1>8, <1>9, <1>10 DEF Next, Actor, Human, Resume, Handle, Claims

-----------------------------------------------------------------------------
(* What holds the Work. *)

LEMMA FoldNames ==
  ASSUME NEW w \in Folded, Named(w)
  PROVE  /\ Named(OnQuestion(w, Own)) /\ Named(OnWorkCanceled(w)) /\ Named(OnBlocked(w, Own))
         /\ Named(OnNoProgress(w, Own)) /\ Named(OnTurnSeen(w, Own))
         /\ Named(OnRunFailed(w, Own)) /\ Named(OnRunVanished(w, Own))
         /\ w.state \notin Terminal =>
              /\ OnDone(w, Driven).state # "NeedsInput" /\ OnDone(w, Driven).cause = NoCause
              /\ OnQuestion(w, Own).state = "NeedsInput"
              /\ OnQuestion(w, Own).cause.reason = "question"
              /\ AskHuman(w, Own, "out_of_boundary").state = "NeedsInput"
              /\ AskHuman(w, Own, "out_of_boundary").cause.reason = "out_of_boundary"
              /\ OnBlocked(w, Own).state = "NeedsInput"
         /\ Named(AskHuman(w, Own, "out_of_boundary"))
         /\ OnWorkCanceled(w).state = "Canceled" /\ OnWorkCanceled(w).cause = NoCause
         /\ OnTurnSeen(w, Own).cause.reason # "blocked"
         /\ w.cause.reason # "blocked" => OnTurnSeen(w, Own) = w
         /\ w.state = "NeedsInput" =>
              /\ OnRunOpened(OnWaypointReserved(w, Driven)).state = "Active"
              /\ OnRunOpened(OnWaypointReserved(w, Driven)).cause = NoCause
<1> USE DEF Folded, CauseOf, Named
<1>1. NoCause.reason = "none" /\ NoCause.run = 0 /\ Own # 0
  BY DEF NoCause, Own
<1>2. \A why : Cause(Own, why).reason = why /\ Cause(Own, why).run = Own
  BY DEF Cause
<1>3. ASSUME NEW why \in {"blocked", "no_observable_progress", "question", "run_failed", "run_vanished",
                         "out_of_boundary"}
      PROVE  /\ Named(AskHuman(w, Own, why))
             /\ w.state \notin Terminal => /\ AskHuman(w, Own, why).state = "NeedsInput"
                                          /\ AskHuman(w, Own, why).cause.reason = why
  BY <1>2 DEF AskHuman
<1>4. ASSUME NEW st \in {"Active", "Completed", "Canceled"}
      PROVE  /\ Settled([w EXCEPT !.state = st]).state = st
             /\ Settled([w EXCEPT !.state = st]).cause = NoCause
  BY DEF Settled
<1>5. Named(OnWorkCanceled(w)) /\ OnWorkCanceled(w).state = "Canceled" /\ OnWorkCanceled(w).cause = NoCause
  BY <1>1, <1>4 DEF OnWorkCanceled
<1>6. w.state \notin Terminal => OnDone(w, Driven).state # "NeedsInput" /\ OnDone(w, Driven).cause = NoCause
  BY <1>4 DEF OnDone
<1>7. /\ Named(OnTurnSeen(w, Own)) /\ OnTurnSeen(w, Own).cause.reason # "blocked"
      /\ w.cause.reason # "blocked" => OnTurnSeen(w, Own) = w
  <2>1. CASE w.state = "NeedsInput" /\ w.cause = Cause(Own, "blocked")
    BY <1>1, <1>2, <2>1 DEF OnTurnSeen
  <2>2. CASE ~(w.state = "NeedsInput" /\ w.cause = Cause(Own, "blocked"))
    <3>1. OnTurnSeen(w, Own) = w
      BY <2>2 DEF OnTurnSeen
    <3>2. ASSUME w.cause.reason = "blocked" PROVE FALSE
      <4>1. w.state = "NeedsInput" /\ w.cause.run = Own
        BY <1>1, <3>2
      <4>2. w.cause = Cause(Own, "blocked")
        BY <3>2, <4>1 DEF Cause
      <4> QED
        BY <2>2, <4>1, <4>2
    <3> QED
      BY <3>1, <3>2
  <2> QED
    BY <2>1, <2>2
<1>8. w.state = "NeedsInput" =>
        /\ OnRunOpened(OnWaypointReserved(w, Driven)).state = "Active"
        /\ OnRunOpened(OnWaypointReserved(w, Driven)).cause = NoCause
  BY DEF OnRunOpened, OnWaypointReserved, Terminal
<1>9. /\ Named(AskHuman(w, Own, "out_of_boundary"))
      /\ w.state \notin Terminal =>
           /\ AskHuman(w, Own, "out_of_boundary").state = "NeedsInput"
           /\ AskHuman(w, Own, "out_of_boundary").cause.reason = "out_of_boundary"
  BY <1>3
<1>10. /\ Named(OnQuestion(w, Own)) /\ Named(OnBlocked(w, Own)) /\ Named(OnNoProgress(w, Own))
       /\ Named(OnRunFailed(w, Own)) /\ Named(OnRunVanished(w, Own))
       /\ w.state \notin Terminal =>
            /\ OnQuestion(w, Own).state = "NeedsInput"
            /\ OnQuestion(w, Own).cause.reason = "question"
            /\ OnBlocked(w, Own).state = "NeedsInput"
  BY <1>3 DEF OnQuestion, OnBlocked, OnNoProgress, OnRunFailed, OnRunVanished
<1> QED
  BY <1>5, <1>6, <1>7, <1>8, <1>9, <1>10

LEMMA ObservedNamed ==
  ASSUME NEW s, Now.work \in Folded, Named(Now.work)
  PROVE  Named(Observed(s))
BY FoldNames DEF Observed

LEMMA Answers ==
  /\ Answer \in {"refused", "settled", "accepted"}
  /\ Answer = "accepted" <=> Now.run = "open" /\ Now.work.state \notin Terminal
BY DEF Answer

\* What others write leaves the authority to continue no greater.
LEMMA OthersHold ==
  ASSUME Types, Holding, Claims \/ Cancel \/ Retry, Now' # Now
  PROVE  /\ Named(Now'.work) /\ (drive.n # 0 \/ Now'.work.cause = NoCause)
         /\ Now'.work.cause.reason # "blocked"
         /\ ~MayContinue'
         /\ Held' \/ Now'.run # "open" \/ Now'.work.state \in Terminal
<1> DEFINE w == Now.work
<1>1. w \in Folded /\ Now.run \in RunState \ {"none"} /\ Named(w)
  BY NowTyped DEF Types, Holding
<1>2. NoCause.reason = "none" /\ NoCause.run = 0 /\ Own # 0
  BY DEF NoCause, Own
<1>3. CASE ClaimDone
  <2>1. Now'.work = OnDone(w, Driven) /\ Now'.run = "claimed" /\ w.state \notin Terminal
    BY <1>1, <1>3, Journaled, FoldTypes DEF ClaimDone, Files, RunState, Own
  <2>2. Now'.work.state # "NeedsInput" /\ Now'.work.cause = NoCause
    BY <1>1, <2>1, FoldNames
  <2> QED
    BY <1>2, <2>1, <2>2 DEF Named, MayContinue
<1>4. CASE ClaimQuestion
  <2>1. Now'.work = OnQuestion(w, Own) /\ w.state \notin Terminal /\ pane.status # "none"
    BY <1>1, <1>4, Journaled, FoldTypes DEF ClaimQuestion, Files, Own
  <2>2. Now'.work.state = "NeedsInput" /\ Now'.work.cause.reason = "question" /\ Named(Now'.work)
    BY <1>1, <2>1, FoldNames
  <2> QED
    BY <2>1, <2>2 DEF Held, MayContinue, Holding
<1>5. CASE Cancel
  <2>1. Now'.work = OnWorkCanceled(w) /\ Now'.run = Now.run
    BY <1>1, <1>5, Journaled, FoldTypes DEF Cancel, Own
  <2> QED
    BY <1>1, <1>2, <2>1, FoldNames DEF MayContinue, Terminal
<1>6. CASE Retry
  <2>1. Now'.work = OnRunOpened(OnWaypointReserved(w, Driven)) /\ Now'.run = "superseded"
    <3>1. OnRunOpened(OnWaypointReserved(w, Driven)) \in Folded
      BY <1>1, FoldTypes DEF Own
    <3> QED
      BY <1>6, <3>1, Journaled DEF Retry, RunState
  <2>2. w.state = "NeedsInput"
    BY <1>6 DEF Retry
  <2>3. Now'.work.state = "Active" /\ Now'.work.cause = NoCause
    BY <1>1, <2>1, <2>2, FoldNames
  <2> QED
    BY <1>2, <2>1, <2>3 DEF Named, MayContinue
<1>7. CASE ClaimOutOfBoundary
  <2> DEFINE latest == Now.run # "superseded"
  <2>1. /\ Now'.work = OnOutOfBoundary(w, Own, Driven, latest) /\ Now'.run = Now.run
        /\ w.state \notin Terminal /\ pane.status # "none"
    BY <1>1, <1>7, Journaled, FoldTypes DEF ClaimOutOfBoundary, Files, Own
  <2>2. Now'.work # w
    <3>1. Now = [work |-> w, run |-> Now.run]
      BY NowTyped DEF Entry
    <3>2. Now' = [work |-> Now'.work, run |-> Now.run]
      BY <1>1, <1>7, <2>1, Journaled, FoldTypes DEF ClaimOutOfBoundary, Own
    <3>3. Now' # Now
      BY <1>7
    <3> QED
      BY <3>1, <3>2, <3>3
  <2>4. Now'.work = AskHuman(w, Own, "out_of_boundary")
    BY <2>1, <2>2 DEF OnOutOfBoundary
  <2>3. Now'.work.state = "NeedsInput" /\ Now'.work.cause.reason = "out_of_boundary" /\ Named(Now'.work)
    BY <1>1, <2>1, <2>4, FoldNames
  <2> QED
    BY <2>1, <2>3 DEF Held, MayContinue, Holding
<1> QED
  BY <1>3, <1>4, <1>5, <1>6, <1>7 DEF Claims

LEMMA InitHolding == Init => Holding
<1> SUFFICES ASSUME Init PROVE Holding
  OBVIOUS
<1>1. /\ Reserved.state = "Active" /\ Reserved.cause = NoCause /\ Reserved.held = NoHold
      /\ Reserved = [state |-> "Active", current |-> Driven, cause |-> NoCause, held |-> NoHold,
                     activation |-> [c \in Container |-> 0]]
  BY DEF Reserved, OnRunOpened, OnWaypointReserved, OnWorkSubmitted, Terminal
<1>2. /\ OnRunOpened(OnRunFailed(Reserved, Earlier)).state = "Active"
      /\ OnRunOpened(OnRunFailed(Reserved, Earlier)).cause = NoCause
  BY <1>1 DEF OnRunOpened, OnRunFailed, AskHuman, Terminal
<1>3. Now.work.state = "Active" /\ Now.work.cause = NoCause
  <2>1. CASE journal = FirstAttempt
    BY <1>1, <2>1 DEF FirstAttempt, Now
  <2>2. CASE journal = Retried
    BY <1>2, <2>2 DEF Retried, Now
  <2> QED
    BY <2>1, <2>2 DEF Init
<1>4. drive.n = 0 /\ drive.pc = "none" /\ pane.status = "none"
  BY DEF Init, NoDrive
<1> QED
  BY <1>3, <1>4 DEF Holding, Named, NoCause

LEMMA NextHolding ==
  ASSUME Types, Shapes, Holding, Next
  PROVE  Holding'
<1>1. /\ drive \in DriveType /\ pane \in PaneType
      /\ Now.work \in Folded /\ Now.run \in RunState \ {"none"} /\ Named(Now.work)
  BY NowTyped DEF Types, Holding
<1>2. NoCause.reason = "none" /\ NoCause.run = 0 /\ Own # 0
  BY DEF NoCause, Own
<1>3. ASSUME UNCHANGED <<journal, drive>>, drive.n = 0 => pane'.status = "none"
      PROVE  Holding'
  BY <1>3 DEF Holding, Now, Firm, Held, MayContinue
<1>4. CASE Ready \/ TakePrompt \/ EndTurn \/ Block \/ PaneEnds \/ HumanAnswers \/ HumanViews
  <2>1. drive.n # 0
    BY <1>4 DEF Holding, Ready, TakePrompt, EndTurn, Block, PaneEnds, HumanAnswers, HumanViews,
                Alive, Status, TurnEnds
  <2> QED
    BY <1>3, <1>4, <2>1, PaneSteps
<1>5. CASE Claims \/ Cancel \/ Retry
  <2>1. UNCHANGED <<events, drive, late>> /\ pane'.status = pane.status
    BY <1>5, OtherSteps
  <2>2. Firm' <=> Firm
    BY <2>1 DEF Firm
  <2>3. CASE Now' = Now
    BY <2>1, <2>2, <2>3 DEF Holding, Held, MayContinue
  <2>4. CASE Now' # Now
    <3>1. /\ Named(Now'.work) /\ (drive.n # 0 \/ Now'.work.cause = NoCause)
          /\ Now'.work.cause.reason # "blocked"
          /\ ~MayContinue'
          /\ Held' \/ Now'.run # "open" \/ Now'.work.state \in Terminal
      BY <1>5, <2>4, OthersHold
    <3>2. /\ drive'.n = 0 => pane'.status = "none"
          /\ drive'.pc \in {"loop", "compare", "stuck", "prompt", "send"} => ~Firm'
      BY <2>1, <2>2 DEF Holding
    <3>3. drive'.n = 0 => Now'.work.cause = NoCause
      BY <2>1, <3>1
    <3> QED
      BY <3>1, <3>2, <3>3 DEF Holding
  <2> QED
    BY <2>3, <2>4
<1>6. ASSUME UNCHANGED <<journal, pane>>, drive'.n # 0,
             drive'.pc = "ended" \/ drive'.found = drive.found,
             \/ drive'.pc = "ended"
             \/ drive'.pc = drive.pc
             \/ drive.pc = "asked" /\ drive'.pc = "reconcile"
             \/ drive'.pc \in {"loop", "stuck"} /\ drive.pc \in {"loop", "compare", "stuck", "prompt", "send"}
             \/ drive'.pc \in {"prompt", "send"} /\ drive.pc \in {"compare", "prompt"}
      PROVE  Holding'
  BY <1>6 DEF Holding, Now, Firm, Held, MayContinue
<1>7. drive.pc # "none" => drive.n # 0
  BY DEF Shapes
<1>8. CASE Launch
  <2>1. /\ drive'.n = 1 /\ drive'.pc = "loop" /\ drive'.found = Now.work.cause /\ drive.n = 0
        /\ UNCHANGED journal
    BY <1>1, <1>8 DEF Launch, Begin, NoDrive, Shapes
  <2> QED
    BY <2>1 DEF Holding, Now, Firm
<1>9. CASE Ask
  <2>1. /\ drive'.n = drive.n + 1 /\ drive'.pc = "asked" /\ drive'.found = Now.work.cause
        /\ UNCHANGED journal /\ drive.n \in Nat
    BY <1>1, <1>9 DEF Ask, Begin, NoDrive, DriveType
  <2>2. Firm' => Held
    BY <1>1, <2>1 DEF Firm, Held, Named
  <2> QED
    BY <2>1, <2>2 DEF Holding, Now, Held
<1>10. ASSUME NEW s, Observe(s)
       PROVE  Named(Now'.work)
  BY <1>1, <1>10, ObserveFacts, ObservedNamed
<1>11. ASSUME drive'.pc = "ended", drive'.n # 0, Named(Now'.work)
       PROVE  Holding'
  BY <1>11 DEF Holding
<1>12. CASE AskAbsent
  <2>1. drive'.pc = "ended" /\ drive'.n # 0
    BY <1>1, <1>12 DEF AskAbsent, DriveType
  <2>2. Now'.work = OnRunFailed(Now.work, Own)
    BY <1>1, <1>12, Journaled, FoldTypes DEF AskAbsent, RunState
  <2> QED
    BY <1>1, <1>11, <2>1, <2>2, FoldNames
<1>13. CASE Subscribe
  <2>1. drive'.pc = "reconcile" /\ drive'.found = drive.found /\ drive'.n = drive.n
    BY <1>1, <1>13 DEF Subscribe, DriveType
  <2> QED
    BY <1>6, <1>7, <1>13, <2>1 DEF Subscribe
<1>14. End.pc = "ended" /\ End.n = drive.n
  BY <1>1 DEF End, NoDrive, DriveType
<1>15. CASE Reconcile
  <2>1. CASE Answer = "refused"
    BY <1>7, <1>10, <1>11, <1>14, <1>15, <2>1 DEF Reconcile
  <2>2. CASE Answer # "refused"
    <3>1. Now'.work = Now.work /\ Now'.run = Now.run
      BY <1>15, ObserveFacts DEF Reconcile, Observed, TurnEnds
    <3>2. drive'.pc = "observe" /\ drive'.found = drive.found /\ drive'.n = drive.n /\ drive'.n # 0
      BY <1>1, <1>7, <1>15, <2>2 DEF Reconcile, DriveType
    <3> QED
      BY <1>15, <3>1, <3>2 DEF Holding, Firm, Held, Reconcile
  <2> QED
    BY <2>1, <2>2
<1>16. CASE ObserveResumed
  <2>1. CASE Answer = "refused"
    BY <1>7, <1>10, <1>11, <1>14, <1>16, <2>1 DEF ObserveResumed
  <2>2. CASE Answer # "refused"
    <3>1. drive'.pc = "authority" /\ drive'.found = drive.found /\ drive'.n = drive.n /\ drive'.n # 0
      BY <1>1, <1>7, <1>16, <2>2 DEF ObserveResumed, DriveType
    <3>2. Named(Now'.work)
      BY <1>10, <1>16 DEF ObserveResumed
    <3>3. ASSUME Firm PROVE ~MayContinue'
      <4>1. Held \/ Now.run # "open" \/ Now.work.state \in Terminal
        BY <1>16, <3>3 DEF Holding, ObserveResumed
      <4>2. CASE Answer # "accepted"
        BY <1>16, <4>2, ObserveFacts, Answers DEF ObserveResumed, MayContinue, Terminal
      <4>3. CASE Answer = "accepted"
        <5>1. Held /\ Now.work.state \notin Terminal /\ Now'.work = Observed(drive.resumed)
          BY <1>16, <4>1, <4>3, ObserveFacts, Answers DEF ObserveResumed
        <5>2. OnTurnSeen(Now.work, Own) = Now.work
          BY <1>1, <5>1, FoldNames DEF Held
        <5>3. OnBlocked(Now.work, Own).state = "NeedsInput"
          BY <1>1, <5>1, FoldNames
        <5>4. OnNoProgress(Now.work, Own).state = "NeedsInput"
          BY <1>1, <5>1 DEF OnNoProgress, AskHuman, Folded
        <5> QED
          BY <5>1, <5>2, <5>3, <5>4 DEF Observed, Held, MayContinue
      <4> QED
        BY <4>2, <4>3
    <3> QED
      BY <3>1, <3>2, <3>3 DEF Holding, Firm
  <2> QED
    BY <2>1, <2>2
<1>17. CASE Authority
  <2>1. CASE ~MayContinue
    BY <1>6, <1>7, <1>14, <1>17, <2>1 DEF Authority
  <2>2. CASE MayContinue
    <3>1. drive'.pc \in {"prompt", "loop"} /\ drive'.found = drive.found /\ drive'.n # 0 /\ UNCHANGED journal
      BY <1>1, <1>7, <1>17, <2>2 DEF Authority, DriveType
    <3>2. ~Firm /\ Now.work.cause = NoCause
      BY <1>1, <1>17, <2>2 DEF Authority, Holding, MayContinue, Named
    <3> QED
      BY <1>1, <1>2, <3>1, <3>2 DEF Holding, Now, Firm
  <2> QED
    BY <2>1, <2>2
<1>18. CASE ReadStatus
  <2> DEFINE s == Head(events)
  <2>1. CASE s = drive.last
    BY <1>6, <1>7, <1>18, <2>1 DEF ReadStatus
  <2>2. CASE s # drive.last /\ Answer = "refused"
    BY <1>7, <1>10, <1>11, <1>14, <1>18, <2>2 DEF ReadStatus
  <2>3. CASE s # drive.last /\ Answer # "refused"
    <3>1. Observe(s) /\ drive.pc = "loop"
      BY <1>18, <2>3 DEF ReadStatus
    <3>2. drive'.pc = NextAfter(s) /\ drive'.found = drive.found /\ drive'.n = drive.n
      BY <1>1, <1>18, <2>3 DEF ReadStatus, DriveType
    <3>3. Named(Now'.work) /\ ~Firm /\ drive.n # 0
      BY <1>7, <1>10, <3>1 DEF Holding
    <3>4. NextAfter(s) \in {"loop", "prompt", "compare"}
      BY DEF NextAfter
    <3>5. ASSUME NextAfter(s) # "loop" PROVE Now'.work.cause.reason # "blocked"
      <4>1. s \in TurnEnds /\ Answer = "accepted"
        BY <2>3, <3>5, Answers DEF NextAfter, TurnEnded
      <4>2. Now'.work = OnTurnSeen(Now.work, Own)
        BY <3>1, <4>1, ObserveFacts DEF Observed, TurnEnds
      <4> QED
        BY <1>1, <4>2, FoldNames
    <3> QED
      BY <3>2, <3>3, <3>4, <3>5 DEF Holding, Firm
  <2> QED
    BY <2>1, <2>2, <2>3
<1>19. CASE ReadEnd
  <2>1. CASE Answer = "accepted"
    <3>1. Now'.work = OnRunVanished(Now.work, Own)
      BY <1>1, <1>19, <2>1, Journaled, FoldTypes DEF ReadEnd, RunState
    <3> QED
      BY <1>1, <1>7, <1>11, <1>14, <1>19, <2>1, <3>1, FoldNames DEF ReadEnd
  <2>2. CASE Answer # "accepted"
    BY <1>1, <1>6, <1>7, <1>14, <1>19, <2>2 DEF ReadEnd, End, NoDrive, DriveType
  <2> QED
    BY <2>1, <2>2
<1>20. CASE DeclareStuck
  <2>1. Named(Now'.work) /\ drive.n # 0 /\ ~Firm
    BY <1>7, <1>10, <1>20 DEF DeclareStuck, Holding
  <2>2. drive'.n # 0 /\ (drive'.pc = "ended" \/ (drive'.pc = "loop" /\ drive'.found = drive.found))
    <3>1. CASE Answer = "settled"
      BY <1>1, <1>20, <2>1, <3>1 DEF DeclareStuck, DriveType
    <3>2. CASE Answer # "settled"
      BY <1>14, <1>20, <2>1, <3>2 DEF DeclareStuck
    <3> QED
      BY <3>1, <3>2
  <2> QED
    BY <2>1, <2>2 DEF Holding, Firm
<1>21. CASE SendFails
  <2>1. CASE Answer = "accepted" /\ drive.resumed = "none"
    <3>1. Now'.work = OnRunFailed(Now.work, Own)
      BY <1>1, <1>21, <2>1, Journaled, FoldTypes DEF SendFails, RunState
    <3> QED
      BY <1>1, <1>7, <1>11, <1>14, <1>21, <3>1, FoldNames DEF SendFails
  <2>2. CASE ~(Answer = "accepted" /\ drive.resumed = "none")
    BY <1>1, <1>6, <1>7, <1>14, <1>21, <2>2 DEF SendFails, End, NoDrive, DriveType
  <2> QED
    BY <2>1, <2>2
<1>22. CASE Compare \/ Prepare \/ ReadJournal \/ DriveDies
  BY <1>1, <1>6, <1>7, <1>22 DEF Compare, Prepare, ReadJournal, DriveDies, Driving, End, NoDrive, DriveType
<1>24. CASE Edit
  <2>1. PICK g : drive' = [drive EXCEPT !.moved = @ \cup {g}, !.since = @ \cup {g}]
    BY <1>24 DEF Edit
  <2>2. drive'.n = drive.n /\ drive'.pc = drive.pc /\ drive'.found = drive.found
    BY <1>1, <2>1 DEF DriveType
  <2>3. drive.n # 0
    BY <1>24 DEF Edit, Alive, Holding, Status, TurnEnds
  <2> QED
    BY <1>6, <1>24, <2>2, <2>3 DEF Edit
<1>23. CASE Send
  <2>1. drive'.pc = "loop" /\ drive'.n = drive.n /\ drive'.found = drive.found /\ UNCHANGED journal
    BY <1>1, <1>23 DEF Send, Sent, DriveType
  <2> QED
    BY <1>7, <1>23, <2>1 DEF Holding, Now, Firm, Send
<1> QED
  BY <1>4, <1>5, <1>8, <1>9, <1>12, <1>13, <1>15, <1>16, <1>17, <1>18, <1>19, <1>20, <1>21, <1>22, <1>23, <1>24
     DEF Next, Actor, Claims, Human, Resume, Handle

-----------------------------------------------------------------------------
(* The late prompt. *)

\* What wirkd once refuses of this Run, or answers as settled, it always will.
LEMMA StaysSettled ==
  ASSUME Types, Next, Answer # "accepted"
  PROVE  Answer' # "accepted"
<1>1. Now.work \in Folded /\ Now.run \in RunState \ {"none"}
  BY NowTyped DEF Types
<1>2. Now.run # "open" \/ Now.work.state \in Terminal
  BY Answers
<1>3. ASSUME Now'.run # "open" \/ Now'.work.state \in Terminal PROVE Answer' # "accepted"
  BY <1>3 DEF Answer
<1>4. CASE UNCHANGED journal
  BY <1>2, <1>3, <1>4, Unjournaled
<1>5. ASSUME NEW s, Observe(s) PROVE Answer' # "accepted"
  BY <1>2, <1>3, <1>5, ObserveFacts
<1>6. CASE ClaimDone
  BY <1>1, <1>3, <1>6, Journaled, FoldTypes DEF ClaimDone, RunState, Own
<1>7. CASE ClaimQuestion
  <2>1. Now.run # "open"
    BY <1>2, <1>7 DEF ClaimQuestion, Files
  <2> QED
    BY <1>1, <1>3, <1>7, <2>1, Journaled, FoldTypes DEF ClaimQuestion, Own
<1>8. CASE ClaimOutOfBoundary
  <2>1. Now.run # "open"
    BY <1>2, <1>8 DEF ClaimOutOfBoundary, Files
  <2> QED
    BY <1>1, <1>3, <1>8, <2>1, Journaled, FoldTypes DEF ClaimOutOfBoundary, Own
<1>9. CASE Cancel
  <2>1. Now.run # "open"
    BY <1>2, <1>9 DEF Cancel
  <2> QED
    BY <1>1, <1>3, <1>9, <2>1, Journaled, FoldTypes DEF Cancel, Own
<1>10. CASE Retry
  <2>1. OnRunOpened(OnWaypointReserved(Now.work, Driven)) \in Folded
    BY <1>1, FoldTypes DEF Own
  <2> QED
    BY <1>3, <1>10, <2>1, Journaled DEF Retry, RunState
<1>11. CASE AskAbsent
  BY <1>11 DEF AskAbsent
<1>12. CASE SendFails \/ ReadEnd
  BY <1>4, <1>12 DEF SendFails, ReadEnd
<1>13. CASE Reconcile \/ ObserveResumed \/ DeclareStuck
  BY <1>5, <1>13 DEF Reconcile, ObserveResumed, DeclareStuck
<1>14. CASE ReadStatus
  BY <1>4, <1>5, <1>14 DEF ReadStatus
<1>15. CASE \/ Ready \/ TakePrompt \/ EndTurn \/ Block \/ PaneEnds \/ HumanAnswers \/ HumanViews
  BY <1>4, <1>15, PaneSteps
<1>16. CASE \/ Edit \/ Launch \/ Ask \/ Subscribe \/ Authority \/ Compare \/ Prepare \/ Send
            \/ ReadJournal \/ DriveDies
  BY <1>4, <1>16 DEF Edit, Launch, Ask, Subscribe, Authority, Compare, Prepare, Send, ReadJournal, DriveDies
<1> QED
  BY <1>6, <1>7, <1>8, <1>9, <1>10, <1>11, <1>12, <1>13, <1>14, <1>15, <1>16
     DEF Next, Actor, Human, Resume, Handle

LEMMA NextOnce ==
  ASSUME Types, Once, Next
  PROVE  Once'
<1>1. drive \in DriveType /\ End.pc = "ended"
  BY DEF Types, End, NoDrive
<1>2. CASE Send
  <2>1. late = 0
    BY <1>2 DEF Send, Once
  <2>2. CASE Answer = "accepted"
    BY <1>2, <2>1, <2>2 DEF Send, Once
  <2>3. CASE Answer # "accepted"
    <3>1. drive'.pc = "loop"
      BY <1>1, <1>2 DEF Send, Sent, DriveType
    <3>2. Answer' # "accepted"
      BY <2>3, StaysSettled
    <3> QED
      BY <3>1, <3>2 DEF Once
  <2> QED
    BY <2>2, <2>3
<1>3. CASE ~Send
  <2> SUFFICES ASSUME late' # 0 PROVE Answer' # "accepted" /\ drive'.pc \in {"loop", "ended"}
    BY DEF Once
  <2>1. late' = late
    BY <1>3, PaneSteps, OtherSteps DEF Next, Actor, Human, Resume, Handle, Claims, Edit, Launch, Ask,
       AskAbsent, Subscribe, Reconcile, ObserveResumed, Authority, ReadStatus, ReadEnd, Compare,
       DeclareStuck, Prepare, SendFails, ReadJournal, DriveDies
  <2>2. Answer # "accepted" /\ drive.pc \in {"loop", "ended"}
    BY <2>1 DEF Once
  <2>3. Answer' # "accepted"
    BY <2>2, StaysSettled
  <2>4. CASE Ready \/ TakePrompt \/ EndTurn \/ Block \/ PaneEnds \/ HumanAnswers \/ HumanViews
    BY <2>2, <2>3, <2>4, PaneSteps
  <2>5. CASE Claims \/ Cancel \/ Retry
    BY <2>2, <2>3, <2>5, OtherSteps
  <2>6. CASE Edit
    <3>1. PICK g : drive' = [drive EXCEPT !.moved = @ \cup {g}, !.since = @ \cup {g}]
      BY <2>6 DEF Edit
    <3> QED
      BY <1>1, <2>2, <2>3, <3>1 DEF DriveType
  <2>7. CASE Launch \/ Resume
    BY <2>2, <2>7 DEF Launch, Resume, Ask, AskAbsent, Subscribe, Reconcile, ObserveResumed, Authority
  <2>8. CASE ReadStatus
    <3> DEFINE s == Head(events)
    <3>1. NextAfter(s) = "loop" \/ Answer = "refused"
      BY <2>2, Answers DEF NextAfter
    <3>2. drive'.pc \in {drive.pc, NextAfter(s), "ended"} /\ (drive'.pc = NextAfter(s) => Answer # "refused" \/ drive'.pc \in {drive.pc, "ended"})
      BY <1>1, <2>8 DEF ReadStatus, DriveType
    <3> QED
      BY <2>2, <2>3, <3>1, <3>2
  <2>9. CASE ReadEnd \/ ReadJournal
    BY <1>1, <2>2, <2>3, <2>9 DEF ReadEnd, ReadJournal, DriveType
  <2>10. CASE Compare \/ DeclareStuck \/ Prepare \/ SendFails
    BY <2>2, <2>10 DEF Compare, DeclareStuck, Prepare, SendFails
  <2>11. CASE DriveDies
    BY <1>1, <2>3, <2>11 DEF DriveDies
  <2> QED
    BY <1>3, <2>4, <2>5, <2>6, <2>7, <2>8, <2>9, <2>10, <2>11 DEF Next, Actor, Human, Handle, Claims
<1> QED
  BY <1>2, <1>3

-----------------------------------------------------------------------------
(* The gate of the drive that launched the actor. *)

\* The statuses left when the first is read.
LEMMA QueueShifts ==
  ASSUME Types, events # <<>>, events' = Tail(events), UNCHANGED pane
  PROVE  /\ Resting => Resting' /\ events[1] \in Rest
         /\ EndsLast(0) => EndsLast(0)'
         /\ EndsLast(0) /\ events[1] \in TurnEnds => Resting'
         /\ Taken /\ events[1] # "Working" => Taken' /\ events[1] \in Rest
         /\ Taken /\ events[1] = "Working" => EndsLast(0)'
<1>1. /\ Len(events) \in Nat \ {0} /\ Len(events') = Len(events) - 1
      /\ \A k \in 1..Len(events') : events'[k] = events[k + 1] /\ k + 1 \in 1..Len(events)
  BY EventsLeft
<1>2. ASSUME NEW i \in Nat, RestAfter(i + 1) PROVE RestAfter(i)'
  BY <1>1, <1>2 DEF RestAfter
<1>3. ASSUME NEW i \in Nat, RestAfter(i) PROVE RestAfter(i)'
  BY <1>1, <1>3 DEF RestAfter
<1>4. ASSUME NEW i \in Nat, EndsLast(i + 1) PROVE EndsLast(i)'
  <2> SUFFICES ASSUME NEW k \in 1..Len(events'), k > i, events'[k] \in TurnEnds
               PROVE  RestAfter(k)' /\ pane'.status \in Rest
    BY DEF EndsLast
  <2>1. k + 1 \in 1..Len(events) /\ events[k + 1] \in TurnEnds /\ k + 1 > i + 1
    BY <1>1
  <2>2. RestAfter(k + 1) /\ pane.status \in Rest
    BY <1>4, <2>1 DEF EndsLast
  <2> QED
    BY <1>2, <2>2
<1>5. EndsLast(0) => EndsLast(1)
  BY DEF EndsLast
<1>6. Resting => Resting' /\ events[1] \in Rest
  BY <1>1, <1>3 DEF Resting, RestAfter
<1>7. EndsLast(0) => EndsLast(0)'
  BY <1>4, <1>5
<1>8. ASSUME EndsLast(0), events[1] \in TurnEnds PROVE Resting'
  <2>1. RestAfter(1) /\ pane.status \in Rest
    BY <1>1, <1>8 DEF EndsLast
  <2> QED
    BY <1>2, <2>1 DEF Resting
<1>9. ASSUME Taken, events[1] # "Working" PROVE Taken' /\ events[1] \in Rest
  <2>1. PICK i \in 1..Len(events) : /\ events[i] = "Working"
                                    /\ \A k \in 1..Len(events) : k < i => events[k] \in Rest
                                    /\ EndsLast(i)
    BY <1>9 DEF Taken
  <2>2. i > 1 /\ i - 1 \in 1..Len(events') /\ (i - 1) + 1 = i
    BY <1>1, <1>9, <2>1
  <2>3. events'[i - 1] = "Working" /\ EndsLast(i - 1)'
    BY <1>1, <1>4, <2>1, <2>2
  <2>4. \A k \in 1..Len(events') : k < i - 1 => events'[k] \in Rest
    BY <1>1, <2>1, <2>2
  <2>5. events[1] \in Rest
    BY <1>1, <2>1, <2>2
  <2> QED
    BY <2>2, <2>3, <2>4, <2>5 DEF Taken
<1>10. ASSUME Taken, events[1] = "Working" PROVE EndsLast(0)'
  <2>1. PICK i \in 1..Len(events) : /\ events[i] = "Working"
                                    /\ \A k \in 1..Len(events) : k < i => events[k] \in Rest
                                    /\ EndsLast(i)
    BY <1>10 DEF Taken
  <2>2. "Working" \notin Rest
    BY DEF Rest, TurnEnds
  <2>3. i = 1
    BY <1>1, <1>10, <2>1, <2>2
  <2>4. EndsLast(0 + 1) /\ 0 \in Nat
    BY <2>1, <2>3 DEF EndsLast
  <2> QED
    BY <1>4, <2>4
<1> QED
  BY <1>6, <1>7, <1>8, <1>9, <1>10

\* A status is pushed that is where the pane is now; a rest ends only when a
\* prompt is taken.
LEMMA QueueGrows ==
  ASSUME Types, NEW e \in Event, events' = Append(events, e),
         pane'.status = IF e = "Ended" THEN "gone" ELSE e,
         pane.status \in Rest => e \in Rest
  PROVE  /\ Resting => Resting'
         /\ EndsLast(0) => EndsLast(0)'
         /\ Taken => Taken'
<1>1. /\ Len(events) \in Nat /\ Len(events') = Len(events) + 1
      /\ \A k \in 1..Len(events) : events'[k] = events[k]
      /\ events'[Len(events) + 1] = e
  BY AppendProperties, LenProperties DEF Types
<1>2. e \in Rest <=> pane'.status \in Rest
  BY DEF Rest, TurnEnds, Event, Status
<1>3. Resting => Resting'
  BY <1>1, <1>2 DEF Resting, RestAfter
<1>4. ASSUME NEW i \in Nat, EndsLast(i) PROVE EndsLast(i)'
  <2> SUFFICES ASSUME NEW k \in 1..Len(events'), k > i, events'[k] \in TurnEnds
               PROVE  RestAfter(k)' /\ pane'.status \in Rest
    BY DEF EndsLast
  <2>1. CASE k = Len(events) + 1
    BY <1>1, <1>2, <2>1 DEF RestAfter, Rest
  <2>2. CASE k \in 1..Len(events)
    <3>1. RestAfter(k) /\ pane.status \in Rest
      BY <1>1, <1>4, <2>2 DEF EndsLast
    <3> QED
      BY <1>1, <1>2, <2>2, <3>1 DEF RestAfter
  <2> QED
    BY <1>1, <2>1, <2>2
<1>5. ASSUME Taken PROVE Taken'
  <2>1. PICK i \in 1..Len(events) : /\ events[i] = "Working"
                                    /\ \A k \in 1..Len(events) : k < i => events[k] \in Rest
                                    /\ EndsLast(i)
    BY <1>5 DEF Taken
  <2>2. i \in Nat /\ i \in 1..Len(events') /\ events'[i] = "Working"
    BY <1>1, <2>1
  <2>4. EndsLast(i)'
    BY <1>4, <2>1, <2>2
  <2>3. \A k \in 1..Len(events') : k < i => events'[k] \in Rest
    BY <1>1, <2>1
  <2> QED
    BY <2>2, <2>3, <2>4 DEF Taken
<1> QED
  BY <1>3, <1>4, <1>5

\* Taking the prompt ends the rest.
LEMMA QueueTaken ==
  ASSUME Types, Resting, events' = Append(events, "Working")
  PROVE  Taken'
<1>0. PICK n \in Nat : n = Len(events)
  BY LenProperties DEF Types
<1>1. /\ n + 1 \in 1..Len(events') /\ Len(events') = n + 1
      /\ \A k \in 1..n : events'[k] = events[k]
      /\ events'[n + 1] = "Working"
  BY <1>0, AppendProperties DEF Types, Event, Status
<1>2. EndsLast(n + 1)'
  BY <1>1 DEF EndsLast
<1>3. \A k \in 1..Len(events') : k < n + 1 => events'[k] \in Rest
  BY <1>0, <1>1 DEF Resting, RestAfter
<1> QED
  BY <1>1, <1>2, <1>3 DEF Taken

LEMMA SameQueue ==
  ASSUME UNCHANGED events, pane'.status = pane.status
  PROVE  (Resting' <=> Resting) /\ (EndsLast(0)' <=> EndsLast(0)) /\ (Taken' <=> Taken)
BY DEF Resting, EndsLast, Taken, RestAfter

\* What the pane does while the first drive runs.
LEMMA PaneKeepsGate ==
  ASSUME Types, Shapes, Gate, drive.n = 1, Driving,
         \/ Ready \/ TakePrompt \/ EndTurn \/ Block \/ PaneEnds \/ HumanAnswers \/ HumanViews
  PROVE  Gate'
<1>1. UNCHANGED <<journal, drive, late>> /\ pane \in PaneType
  BY PaneSteps DEF Types
<1>2. Subscribed
  BY DEF Gate, Subscribed
<1>3. ASSUME pane'.inbox \in {pane.inbox, <<>>},
             Resting => Resting', EndsLast(0) => EndsLast(0)', Taken => Taken'
      PROVE  Gate'
  BY <1>1, <1>3 DEF Gate, Driving, Open, Shut, Now
<1>4. ASSUME NEW s \in Status, Turns(s), pane.status \in Rest => s \in Rest
      PROVE  Gate'
  <2>1. pane'.status = s /\ pane'.inbox = pane.inbox /\ events' = Append(events, s) /\ s \in Event
    BY <1>1, <1>2, <1>4 DEF Turns, PaneType, Push, Event
  <2>2. s # "Ended"
    BY DEF Status, TurnEnds
  <2> QED
    BY <1>3, <1>4, <2>1, <2>2, QueueGrows
<1>5. CASE EndTurn \/ Block \/ HumanAnswers \/ HumanViews
  BY <1>4, <1>5 DEF EndTurn, Block, HumanAnswers, HumanViews, Status, TurnEnds, Rest
<1>6. CASE Ready
  <2>1. pane'.status = "Idle" /\ pane'.inbox = pane.inbox /\ events' = Append(events, "Idle")
    BY <1>1, <1>2, <1>6 DEF Ready, PaneType, Push
  <2> QED
    BY <1>3, <2>1, QueueGrows DEF Event, Status, TurnEnds, Rest
<1>7. CASE TakePrompt
  <2>1. pane'.inbox = <<>> /\ events' = Append(events, "Working") /\ pane.inbox # <<>>
    BY <1>1, <1>2, <1>7 DEF TakePrompt, PaneType, Push
  <2>2. drive.busy /\ drive.pc # "send" /\ Resting /\ drive.last \in TurnEnds
    BY <2>1 DEF Gate, Shut
  <2>3. Taken'
    BY <2>1, <2>2, QueueTaken
  <2> QED
    BY <1>1, <2>1, <2>2, <2>3 DEF Gate, Driving, Shut, Now
<1>9. CASE PaneEnds
  <2>1. pane'.status = "gone" /\ pane'.inbox = <<>> /\ events' = Append(events, "Ended")
    BY <1>1, <1>2, <1>9 DEF PaneEnds, PaneType, Push
  <2> QED
    BY <1>3, <2>1, QueueGrows DEF Event, Rest
<1> QED
  BY <1>5, <1>6, <1>7, <1>9

LEMMA StatusKeepsGate ==
  ASSUME Types, Shapes, Gate, drive.n = 1, Driving, ReadStatus, drive'.pc # "ended"
  PROVE  Gate'
<1> DEFINE s == Head(events)
<1>1. /\ events # <<>> /\ events' = Tail(events) /\ UNCHANGED pane /\ s = events[1] /\ s \in Status
      /\ drive.pc = "loop" /\ drive \in DriveType
  <2>1. events # <<>> /\ UNCHANGED pane /\ s # "Ended" /\ drive.pc = "loop"
    BY DEF ReadStatus
  <2>2. s = events[1] /\ s \in Status
    BY <2>1, EventsLeft DEF Event
  <2>3. events' = Tail(events)
    <3>1. End.pc = "ended"
      BY DEF End, NoDrive
    <3> QED
      BY <3>1 DEF ReadStatus
  <2> QED
    BY <2>1, <2>2, <2>3 DEF Types
<1>2. s \in Rest => s \in TurnEnds
  BY <1>1 DEF Rest, Status, TurnEnds
<1>3. /\ Resting => Resting' /\ s \in TurnEnds
      /\ EndsLast(0) => EndsLast(0)'
      /\ EndsLast(0) /\ s \in TurnEnds => Resting'
      /\ Taken /\ s # "Working" => Taken' /\ s \in TurnEnds
      /\ Taken /\ s = "Working" => EndsLast(0)'
  BY <1>1, <1>2, QueueShifts
<1>4. "Working" \notin TurnEnds
  BY DEF TurnEnds
<1>5. CASE s = drive.last
  <2>1. UNCHANGED drive
    BY <1>5 DEF ReadStatus
  <2>2. drive.busy => Shut'
    BY <1>3, <1>4, <1>5, <2>1 DEF Gate, Shut
  <2>3. ~drive.busy => Open'
    BY <1>3, <1>5, <2>1 DEF Gate, Open
  <2> QED
    BY <1>1, <1>3, <2>1, <2>2, <2>3 DEF Gate, Driving
<1>6. CASE s # drive.last
  <2>1. Observe(s) /\ Answer # "refused"
    BY <1>1, <1>6 DEF ReadStatus, End, NoDrive, DriveType
  <2>2. /\ drive'.n = 1 /\ drive'.pc = NextAfter(s) /\ drive'.last = s
        /\ drive'.busy <=> drive.busy /\ ~Releases(s)
    BY <1>1, <1>6, <2>1 DEF ReadStatus, DriveType
  <2>3. Releases(s) <=> s = "Working"
    BY DEF Releases
  <2>4. CASE ~drive.busy
    <3>1. EndsLast(0)' /\ (s \in TurnEnds => Resting') /\ pane.inbox = <<>>
      BY <1>3, <2>4 DEF Gate, Open
    <3> QED
      <4>1. ~drive'.busy /\ Open'
        BY <2>2, <2>4, <3>1 DEF Open
      <4>2. drive'.pc \in {"loop", "compare", "prompt"} /\ (drive'.pc # "loop" => s \in TurnEnds)
        BY <2>2 DEF NextAfter, TurnEnded
      <4> QED
        BY <1>1, <2>2, <3>1, <4>1, <4>2 DEF Gate
  <2>5. CASE drive.busy /\ s = "Working"
    <3>1. Shut /\ ~Resting
      BY <1>3, <1>4, <2>5 DEF Gate
    <3>2. EndsLast(0)' /\ pane.inbox = <<>>
      BY <1>3, <2>5, <3>1 DEF Shut, Gate
    <3>3. ~drive'.busy /\ Open' /\ drive'.pc = "loop"
      BY <1>4, <2>2, <2>3, <2>5, <3>2 DEF Open, NextAfter, TurnEnded
    <3> QED
      BY <1>1, <2>2, <3>2, <3>3 DEF Gate
  <2>6. CASE drive.busy /\ s # "Working"
    <3>1. Shut
      BY <2>6 DEF Gate
    <3>2. s \in TurnEnds /\ (Resting' \/ Taken')
      BY <1>3, <2>6, <3>1 DEF Shut
    <3>3. drive'.busy /\ Shut'
      BY <2>2, <2>3, <2>6, <3>2 DEF Shut
    <3>4. drive'.pc \in {"loop", "compare", "prompt"}
      BY <2>2 DEF NextAfter
    <3>5. pane'.inbox # <<>> => Resting'
      BY <1>1, <1>3 DEF Gate
    <3> QED
      BY <2>2, <3>2, <3>3, <3>4, <3>5 DEF Gate
  <2> QED
    BY <2>4, <2>5, <2>6
<1> QED
  BY <1>5, <1>6

LEMMA NextGate ==
  ASSUME Types, Shapes, Holding, Gate, Next
  PROVE  Gate'
<1> SUFFICES ASSUME drive'.n = 1, Driving' PROVE Gate'
  BY DEF Gate
<1>1. drive \in DriveType /\ pane \in PaneType /\ drive.n \in Nat /\ (drive.pc = "none" <=> drive.n = 0)
  BY DEF Types, DriveType, Shapes
<1>2. drive.n = 1 /\ Driving =>
        drive.pc \in {"loop", "compare", "stuck", "prompt", "send"}
  BY DEF Gate
<1>3. CASE Ready \/ TakePrompt \/ EndTurn \/ Block \/ PaneEnds \/ HumanAnswers \/ HumanViews
  <2>1. UNCHANGED drive
    BY <1>3, PaneSteps
  <2>2. drive.n = 1 /\ Driving
    BY <2>1 DEF Driving
  <2> QED
    BY <1>3, <2>2, PaneKeepsGate
<1>4. CASE Claims \/ Cancel \/ Retry
  <2>1. UNCHANGED <<events, drive>> /\ pane'.status = pane.status /\ pane'.inbox = pane.inbox
    BY <1>4, OtherSteps
  <2>2. drive.n = 1 /\ Driving
    BY <2>1 DEF Driving
  <2>3. (Resting' <=> Resting) /\ (EndsLast(0)' <=> EndsLast(0)) /\ (Taken' <=> Taken)
    BY <2>1, SameQueue
  <2> QED
    BY <2>1, <2>2, <2>3 DEF Gate, Driving, Open, Shut
<1>5. CASE Launch
  <2>1. /\ drive'.n = 1 /\ drive'.pc = "loop" /\ drive'.busy = FALSE /\ drive'.last = "none"
        /\ pane'.inbox = pane.inbox /\ UNCHANGED events /\ drive.n = 0
    BY <1>1, <1>5 DEF Launch, Begin, NoDrive, PaneType
  <2>2. Len(pane.inbox) = 0 /\ events = <<>>
    <3>1. \A i \in 1..Len(pane.inbox) : FALSE
      BY <2>1 DEF Shapes
    <3>2. Len(pane.inbox) \in Nat
      BY <1>1, LenProperties DEF PaneType
    <3>3. Len(pane.inbox) = 0
      <4>1. CASE Len(pane.inbox) >= 1
        BY <3>1, <3>2, <4>1
      <4> QED
        BY <3>2, <4>1
    <3>4. events = <<>>
      BY <1>5 DEF Shapes, Subscribed, Launch
    <3> QED
      BY <3>3, <3>4
  <2>3. pane.inbox = <<>> /\ Len(events) = 0
    BY <1>1, <2>2, EmptySeq DEF PaneType
  <2>4. EndsLast(0)'
    BY <2>1, <2>3 DEF EndsLast
  <2> QED
    BY <2>1, <2>3, <2>4 DEF Gate, Open, TurnEnds
<1>6. CASE Ask \/ AskAbsent
  <2>1. drive'.n = drive.n + 1 /\ drive.n # 0
    BY <1>1, <1>6 DEF Ask, AskAbsent, Begin, NoDrive, DriveType
  <2> QED
    BY <1>1, <2>1
<1>7. CASE Subscribe \/ Reconcile \/ ObserveResumed \/ Authority
  <2>1. drive'.n = drive.n /\ drive.pc \in {"asked", "reconcile", "observe", "authority"}
    BY <1>1, <1>7 DEF Subscribe, Reconcile, ObserveResumed, Authority, End, NoDrive, DriveType
  <2> QED
    BY <1>2, <2>1 DEF Driving
<1>8. End.pc = "ended"
  BY <1>1 DEF End, NoDrive, DriveType
<1>9. drive'.pc # "ended"
  BY DEF Driving
<1>10. CASE SendFails \/ DriveDies
  BY <1>8, <1>9, <1>10 DEF SendFails, DriveDies
<1>11. CASE ReadStatus
  <2>1. drive.n = 1 /\ Driving
    BY <1>1, <1>11 DEF ReadStatus, End, NoDrive, DriveType, Driving
  <2> QED
    BY <1>9, <1>11, <2>1, StatusKeepsGate
<1>12. CASE ReadEnd
  <2>1. UNCHANGED <<drive, pane>> /\ events' = Tail(events) /\ events # <<>> /\ events[1] = "Ended"
        /\ drive.pc = "loop"
    BY <1>8, <1>9, <1>12, EventsLeft DEF ReadEnd
  <2>2. drive.n = 1 /\ Driving
    BY <2>1 DEF Driving
  <2>3. (Resting => Resting') /\ (EndsLast(0) => EndsLast(0)') /\ (Taken => Taken')
    BY <2>1, QueueShifts
  <2> QED
    BY <2>1, <2>2, <2>3 DEF Gate, Open, Shut
<1>13. ASSUME UNCHANGED <<events, pane>>, drive'.n = drive.n, Driving,
              drive'.busy = drive.busy, drive'.last = drive.last,
              \/ drive'.pc = "loop" /\ drive.pc # "send"
              \/ UNCHANGED journal /\ drive.pc = "compare" /\ drive'.pc \in {"stuck", "prompt"}
       PROVE  Gate'
  <2>1. drive.n = 1
    BY <1>13
  <2>2. (Resting' <=> Resting) /\ (EndsLast(0)' <=> EndsLast(0)) /\ (Taken' <=> Taken)
    BY <1>13, SameQueue
  <2> QED
    BY <1>13, <2>1, <2>2 DEF Gate, Open, Shut, Now
<1>14. CASE Compare
  <2>1. /\ UNCHANGED <<events, pane, journal>> /\ drive'.n = drive.n /\ Driving
        /\ drive'.busy = drive.busy /\ drive'.last = drive.last /\ drive.pc = "compare"
        /\ drive'.pc \in {"stuck", "prompt"}
    BY <1>1, <1>14 DEF Compare, DriveType, Driving
  <2> QED
    BY <1>13, <2>1
<1>15. CASE DeclareStuck
  <2>1. /\ UNCHANGED <<events, pane>> /\ drive'.n = drive.n /\ Driving
        /\ drive'.busy = drive.busy /\ drive'.last = drive.last /\ drive'.pc = "loop" /\ drive.pc = "stuck"
    BY <1>1, <1>8, <1>9, <1>15 DEF DeclareStuck, DriveType, Driving
  <2> QED
    BY <1>13, <2>1
<1>16. CASE Prepare
  <2>1. /\ UNCHANGED <<events, pane, journal>> /\ drive'.n = drive.n /\ Driving
        /\ drive'.last = drive.last /\ drive.pc = "prompt"
    BY <1>1, <1>16 DEF Prepare, DriveType, Driving
  <2>2. CASE drive.busy
    <3>1. drive'.pc = "loop" /\ drive'.busy = drive.busy
      BY <1>1, <1>16, <2>2 DEF Prepare, DriveType
    <3> QED
      BY <1>13, <2>1, <3>1
  <2>3. CASE ~drive.busy
    <3>1. drive'.pc = "send" /\ drive'.busy
      BY <1>1, <1>16, <2>3 DEF Prepare, DriveType
    <3>2. Resting /\ pane.inbox = <<>> /\ drive.last \in TurnEnds
      BY <2>1, <2>3 DEF Gate, Open
    <3>3. Resting'
      BY <2>1, <3>2, SameQueue
    <3> QED
      BY <2>1, <3>1, <3>2, <3>3 DEF Gate, Shut, Now
  <2> QED
    BY <2>2, <2>3
<1>19. CASE Edit
  <2>1. PICK g : drive' = [drive EXCEPT !.moved = @ \cup {g}, !.since = @ \cup {g}]
    BY <1>19 DEF Edit
  <2>2. /\ drive'.n = drive.n /\ drive'.pc = drive.pc /\ drive'.busy = drive.busy
        /\ drive'.last = drive.last /\ UNCHANGED <<events, pane, journal>>
    BY <1>1, <1>19, <2>1 DEF Edit, DriveType
  <2>3. drive.n = 1 /\ Driving
    BY <2>2 DEF Driving
  <2>4. (Resting' <=> Resting) /\ (EndsLast(0)' <=> EndsLast(0)) /\ (Taken' <=> Taken)
    BY <2>2, SameQueue
  <2> QED
    BY <2>2, <2>3, <2>4 DEF Gate, Open, Shut
<1>17. CASE Send
  <2>1. /\ UNCHANGED events /\ drive'.n = drive.n /\ drive'.pc = "loop" /\ drive'.busy = drive.busy
        /\ drive'.last = drive.last /\ pane'.status = pane.status /\ drive.pc = "send" /\ Driving
    BY <1>1, <1>17 DEF Send, Sent, DriveType, PaneType, Driving
  <2>2. drive.busy /\ Resting /\ drive.last \in TurnEnds
    BY <2>1 DEF Gate
  <2>3. Resting'
    BY <2>1, <2>2, SameQueue
  <2> QED
    BY <2>1, <2>2, <2>3 DEF Gate, Shut
<1>18. CASE ReadJournal
  <2>1. /\ UNCHANGED <<events, pane>> /\ drive'.n = drive.n /\ Driving
        /\ drive'.busy = drive.busy /\ drive'.last = drive.last /\ drive'.pc = "loop" /\ drive.pc = "loop"
    BY <1>1, <1>8, <1>9, <1>18 DEF ReadJournal, DriveType, Driving
  <2> QED
    BY <1>13, <2>1
<1> QED
  BY <1>3, <1>4, <1>5, <1>6, <1>7, <1>10, <1>11, <1>12, <1>14, <1>15, <1>16, <1>17, <1>18, <1>19
     DEF Next, Actor, Human, Resume, Handle, Claims

-----------------------------------------------------------------------------
(* The theorems. *)

LEMMA KnowsHolds == Spec => []Knows
<1>1. Init => Knows
  <2> SUFFICES ASSUME Init PROVE Knows
    OBVIOUS
  <2>1. drive.n = 0 /\ drive.since = {} /\ late = 0
    BY DEF Init, NoDrive
  <2>2. Since /\ Once /\ Gate
    BY <2>1 DEF Since, Once, Gate
  <2> QED
    BY <2>2, InitTypes, InitHolding DEF Knows
<1>2. Knows /\ [Next]_vars => Knows'
  <2> SUFFICES ASSUME Knows, [Next]_vars PROVE Knows'
    OBVIOUS
  <2>1. CASE Next
    BY <2>1, NextTypes, NextShapes, NextSince, NextOnce, NextHolding, NextGate DEF Knows
  <2>2. CASE UNCHANGED vars
    <3>1. Types' /\ Shapes' /\ Since' /\ Once'
      BY <2>2, NextTypes DEF Knows, vars, Shapes, Since, Once, Subscribed, Answer, Now
    <3>2. Holding'
      BY <2>2 DEF Knows, vars, Holding, Now, Firm, Held, MayContinue
    <3>3. Gate'
      BY <2>2, SameQueue DEF Knows, vars, Gate, Driving, Open, Shut, Now
    <3> QED
      BY <3>1, <3>2, <3>3 DEF Knows
  <2> QED
    BY <2>1, <2>2
<1> QED
  BY <1>1, <1>2, PTL DEF Spec

(* The types of the driver, for every Route and every bound; no status is   *)
(* queued for a drive that does not listen, and a baseline is kept only by  *)
(* one that has prompted.                                                   *)
THEOREM DriverTypes == Spec => []TypeOK
<1>1. Knows => TypeOK
  <2> SUFFICES ASSUME Knows PROVE TypeOK
    OBVIOUS
  <2>1. Now.work.state \in WorkState /\ Now.run \in RunState \ {"none"}
    BY NowTyped DEF Knows, Types
  <2>2. drive.seen \in 0..Len(journal)
    BY LenProperties DEF Knows, Types, Shapes, DriveType
  <2> QED
    BY <2>1, <2>2 DEF Knows, Types, Shapes, TypeOK, PaneType, DriveType, RunState
<1> QED
  BY <1>1, KnowsHolds, PTL

(* What a drive compares before it calls its actor stuck (drive_channel,    *)
(* maybe_prompt): the baseline is taken before the prompt is sent, so what  *)
(* moved since is among what moved since the reading, and no signal that    *)
(* reads as it did shows any of it, whichever of the two can be read.       *)
THEOREM StuckHonestly == Spec => StuckIsHonest
<1>1. Knows /\ [Next]_vars => [Compare => drive'.same \cap drive.since = {}]_vars
  <2> SUFFICES ASSUME Knows, Compare PROVE drive'.same \cap drive.since = {}
    OBVIOUS
  <2>1. PICK before \in drive.baseline, now \in SUBSET Signal :
          drive' = [drive EXCEPT
                      !.pc = IF Progress(before, now) THEN "prompt" ELSE "stuck",
                      !.same = IF Progress(before, now) THEN {} ELSE before \cap now,
                      !.baseline = {}, !.moved = {}, !.since = {}]
    BY DEF Compare
  <2>2. drive'.same = IF Progress(before, now) THEN {} ELSE before \cap now
    BY <2>1 DEF Knows, Types, DriveType
  <2>3. ~Progress(before, now) => before \cap now \cap drive.moved = {}
    BY DEF Progress
  <2> QED
    BY <2>2, <2>3 DEF Knows, Since
<1> QED
  BY <1>1, KnowsHolds, PTL DEF Spec, StuckIsHonest

(* A prompt is welcome (maybe_prompt, resume_authority).  The drive that    *)
(* launched the actor has no other prompt of its own waiting, however late  *)
(* it hears of the turns.  A Run that has settled is prompted once at most, *)
(* wherever between the end of its turn and the prompt its Claim, failure,  *)
(* cancel or retry came.  A drive that resumed does not prompt over what it *)
(* found holding the Work.                                                  *)
THEOREM PromptsAreWelcome == Spec => PromptIsWelcome
<1>1. Knows /\ [Next]_vars => [drive.n = 1 /\ Send => pane.inbox = <<>>]_vars
  BY DEF Knows, Send, Gate, Driving
<1>2. Knows /\ [Next]_vars
        => [Send /\ drive.found # NoCause => Now.work.cause # drive.found]_vars
  BY DEF Knows, Send, Holding, Firm
<1>3. Knows /\ [Next]_vars => [Send /\ Answer # "accepted" => late = 0]_vars
  BY DEF Knows, Send, Once
<1> QED
  BY <1>1, <1>2, <1>3, KnowsHolds, PTL
     DEF Spec, PromptIsWelcome, FreshPromptAlone, OneLatePrompt, NoPromptOverHold

=============================================================================
