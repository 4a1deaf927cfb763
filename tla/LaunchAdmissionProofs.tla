------------------------ MODULE LaunchAdmissionProofs ------------------------
(***************************************************************************)
(* One driver, one live agent and honest failures, for any number of       *)
(* invocations, processes, sessions and Runs.  The invariant ties every    *)
(* invocation past its admission to the holder its Run records: the pid is *)
(* its own, the token is its own or unknown, the session is its own.  A    *)
(* live process keeps its pid to itself, so no kernel answer about that    *)
(* holder can say Gone, and nobody else is admitted.                       *)
(***************************************************************************)
EXTENDS LaunchAdmission, TLAPS

\* A pid names one process at a time; an invocation works on an opened Run.
PidsApart ==
  /\ \A p \in Proc : InTable(p) => proc[p].pid \in Pid
  /\ \A p, q \in Proc : InTable(p) /\ InTable(q) /\ proc[p].pid = proc[q].pid => p = q
  /\ \A p \in Proc : proc[p].life = "alive" =>
       /\ proc[p].run \in 1..opened
       /\ proc[p].session \in Session
       /\ proc[p].selection \in Selection

\* Past its admission an invocation is the holder its Run records.
HolderDrives ==
  \A p \in Proc : Driving(p) =>
    /\ runs[proc[p].run].holder.pid = proc[p].pid
    /\ runs[proc[p].run].holder.token \in {NoProc, p}
    /\ runs[proc[p].run].session = proc[p].session

\* From its attempt on, an invocation works from the request that was bound.
BoundSelection ==
  \A p \in Proc : Driving(p) \/ At(p, "attempt") =>
    /\ runs[proc[p].run].selection = proc[p].selection

\* A live agent was started under an admitted attempt, where that one is bound.
AgentsBound ==
  \A s \in Session, r \in RunId : Live(s, r) =>
    /\ runs[r].holder # NoHolder
    /\ runs[r].session = s
    /\ runs[r].selection = agents[s][r]

\* What Herdr answered about an absent agent still holds.
StillAbsent ==
  \A p \in Proc : At(p, "absent") => \A s \in Session : ~Live(s, proc[p].run)

Ties == PidsApart /\ HolderDrives /\ BoundSelection /\ AgentsBound /\ StillAbsent

AdmissionInv == TypeOK /\ Ties

-----------------------------------------------------------------------------
(* What follows from the invariant. *)

\* Two live processes are never both the recorded holder.
LEMMA InvOneDriver == AdmissionInv => OneDriver
BY DEF AdmissionInv, Ties, PidsApart, HolderDrives, OneDriver, Driving, InTable

LEMMA InvOneLiveAgent == AdmissionInv => OneLiveAgent
BY DEF AdmissionInv, Ties, AgentsBound, OneLiveAgent

LEMMA InvLaunchedAsBound == AdmissionInv => LaunchedAsBound
BY DEF AdmissionInv, Ties, AgentsBound, LaunchedAsBound

-----------------------------------------------------------------------------
(* Steps that admit nobody, bind nothing and start nothing. *)

SameClaims ==
  \A r \in RunId : /\ runs'[r].holder = runs[r].holder
                   /\ runs'[r].session = runs[r].session
                   /\ runs'[r].selection = runs[r].selection

Keeps(q) ==
  /\ InTable(q)' => InTable(q) /\ proc'[q].pid = proc[q].pid
  /\ proc'[q].life = "alive" =>
       /\ proc[q].life = "alive"
       /\ proc'[q].pid = proc[q].pid
       /\ proc'[q].run = proc[q].run
       /\ proc'[q].session = proc[q].session
       /\ proc'[q].selection = proc[q].selection
  /\ Driving(q)' => Driving(q)
  /\ At(q, "attempt")' => At(q, "attempt") \/ Driving(q)
  /\ At(q, "absent")' => At(q, "absent") \/ (Driving(q) /\ ~Live(proc[q].session, proc[q].run))

OnlyExits ==
  \A s \in Session, r \in RunId : agents'[s][r] \in {agents[s][r], NoSelection}

Quiet ==
  /\ opened \in RunId /\ opened' \in RunId /\ opened <= opened'
  /\ SameClaims
  /\ \A q \in Proc : Keeps(q)
  /\ OnlyExits

\* A quiet step leaves every tie as it is.
LEMMA QuietKeeps ==
  ASSUME Ties, Quiet
  PROVE  Ties'
<1>0. \A q \in Proc : /\ proc[q].life = "alive" => proc[q].run \in RunId
                      /\ proc'[q].life = "alive" => proc'[q].run \in RunId
  BY LaunchAssumption DEF Ties, PidsApart, Quiet, Keeps, RunId
<1>1. PidsApart'
  <2>1. \A p \in Proc : InTable(p)' => proc'[p].pid \in Pid
    BY DEF Ties, PidsApart, Quiet, Keeps
  <2>2. \A p, q \in Proc : InTable(p)' /\ InTable(q)' /\ proc'[p].pid = proc'[q].pid => p = q
    BY DEF Ties, PidsApart, Quiet, Keeps
  <2>3. \A p \in Proc : proc'[p].life = "alive" =>
          /\ proc'[p].run \in 1..opened'
          /\ proc'[p].session \in Session
          /\ proc'[p].selection \in Selection
    BY LaunchAssumption DEF Ties, PidsApart, Quiet, Keeps, RunId
  <2>4. QED
    BY <2>1, <2>2, <2>3 DEF PidsApart
<1>2. HolderDrives'
  BY <1>0 DEF Ties, HolderDrives, Quiet, Keeps, SameClaims, Driving
<1>3. BoundSelection'
  BY <1>0 DEF Ties, BoundSelection, Quiet, Keeps, SameClaims, Driving, At
<1>4. AgentsBound'
  BY DEF Ties, AgentsBound, Quiet, SameClaims, OnlyExits, Live
<1>5. StillAbsent'
  <2> SUFFICES ASSUME NEW p \in Proc, At(p, "absent")', NEW s \in Session
               PROVE  ~Live(s, proc[p].run)'
    BY DEF StillAbsent
  <2>1. /\ proc[p].life = "alive" /\ proc'[p].run = proc[p].run
        /\ proc[p].run \in RunId
        /\ At(p, "absent") \/ (Driving(p) /\ ~Live(proc[p].session, proc[p].run))
    BY <1>0 DEF Quiet, Keeps, At
  <2>2. ~Live(s, proc[p].run)
    BY <2>1 DEF Ties, StillAbsent, HolderDrives, AgentsBound
  <2>3. QED
    BY <2>1, <2>2 DEF Quiet, OnlyExits, Live
<1>6. QED
  BY <1>1, <1>2, <1>3, <1>4, <1>5 DEF Ties

-----------------------------------------------------------------------------
(* Types. *)

RunType ==
  [state : {"none", "open", "failed", "retried", "claimed"},
   cause : {"none", "absent", "drive"},
   made : {"no", "created", "buried", "bound"},
   selection : Selection \union {NoSelection}, launched : BOOLEAN,
   holder : Holder, session : Session \union {NoSession}]

ProcType ==
  [life : {"unborn", "alive", "zombie", "reaped"},
   pc : {"none", "create", "reserve", "request", "attempt", "ask", "start",
         "startError", "absent", "report", "drive"},
   pid : Pid \union {NoPid}, session : Session \union {NoSession},
   run : 0..MaxRuns, selection : Selection \union {NoSelection},
   bound : BOOLEAN, launched : BOOLEAN]

Settled ==
  \A r \in RunId : /\ r <= opened => runs[r].state # "none"
                   /\ r < opened => runs[r].state # "open"
                   /\ r > opened => runs[r] = NoRun

AgentType == [Session -> [RunId -> Selection \union {NoSelection}]]

LEMMA Types ==
  TypeOK <=> /\ opened \in RunId
             /\ runs \in [RunId -> RunType]
             /\ Settled
             /\ proc \in [Proc -> ProcType]
             /\ agents \in AgentType
BY DEF TypeOK, RunType, ProcType, Settled, AgentType

LEMMA TypesNext ==
  ASSUME opened' \in RunId, runs' \in [RunId -> RunType], Settled',
         proc' \in [Proc -> ProcType], agents' \in AgentType
  PROVE  TypeOK'
BY DEF TypeOK, RunType, ProcType, Settled, AgentType

LEMMA Constant ==
  /\ NoRun \in RunType /\ Unborn \in ProcType
  /\ 1 \in RunId /\ RunId \subseteq 0..MaxRuns /\ RunId \subseteq Nat
BY LaunchAssumption DEF NoRun, Unborn, RunType, ProcType, NoHolder, Holder, RunId

LEMMA Current ==
  ASSUME TypeOK
  PROVE  /\ opened \in RunId /\ runs \in [RunId -> RunType]
         /\ runs[opened] \in RunType /\ runs[opened].state # "none"
<1>1. opened \in RunId /\ opened \in Nat /\ runs \in [RunId -> RunType] /\ Settled
  BY Types, Constant
<1>2. runs[opened].state # "none"
  BY <1>1 DEF Settled
<1>3. QED
  BY <1>1, <1>2

\* A step that replaces the current Run by another open or settled one.
LEMMA CurrentRunType ==
  ASSUME TypeOK, NEW x \in RunType, x.state # "none",
         runs' = [runs EXCEPT ![opened] = x], opened' = opened
  PROVE  runs' \in [RunId -> RunType] /\ Settled'
<1>1. opened \in RunId /\ runs \in [RunId -> RunType] /\ Settled
  BY Types
<1>2. runs' \in [RunId -> RunType]
  BY <1>1
<1>3. \A r \in RunId : r # opened => runs'[r] = runs[r]
  BY <1>1
<1>4. Settled'
  BY <1>1, <1>3, Constant DEF Settled
<1>5. QED
  BY <1>2, <1>4

\* Of an invocation that moves on or ends, and of the others, only what Keeps says.
LEMMA ExitKeeps ==
  ASSUME TypeOK, NEW p \in Proc, proc[p].life = "alive", Exit(p)
  PROVE  proc' \in [Proc -> ProcType] /\ \A q \in Proc : Keeps(q)
<1>1. proc \in [Proc -> ProcType]
  BY Types
<1>2. [Unborn EXCEPT !.life = "zombie", !.pid = proc[p].pid] \in ProcType
  BY <1>1, Constant DEF ProcType
<1>3. proc' \in [Proc -> ProcType] /\ \A q \in Proc : q # p => proc'[q] = proc[q]
  BY <1>1, <1>2 DEF Exit
<1>4. proc'[p].life = "zombie" /\ proc'[p].pid = proc[p].pid
  BY <1>1 DEF Exit, Unborn
<1>5. QED
  BY <1>3, <1>4 DEF Keeps, InTable, Driving, At

PastAttempt == {"ask", "start", "startError", "report", "drive"}

LEMMA GotoKeeps ==
  ASSUME TypeOK, NEW p \in Proc, proc[p].life = "alive",
         NEW pc \in PastAttempt \union {"reserve", "request", "absent"}, Goto(p, pc),
         pc \in PastAttempt \union {"absent"} => Driving(p),
         pc = "absent" => ~Live(proc[p].session, proc[p].run)
  PROVE  proc' \in [Proc -> ProcType] /\ \A q \in Proc : Keeps(q)
<1>1. proc \in [Proc -> ProcType]
  BY Types
<1>2. [proc[p] EXCEPT !.pc = pc] \in ProcType
  BY <1>1 DEF ProcType, PastAttempt
<1>3. proc' \in [Proc -> ProcType] /\ \A q \in Proc : q # p => proc'[q] = proc[q]
  BY <1>1, <1>2 DEF Goto
<1>4. proc'[p] = [proc[p] EXCEPT !.pc = pc]
  BY <1>1 DEF Goto
<1>5. /\ proc'[p].life = "alive" /\ proc'[p].pc = pc /\ proc'[p].pid = proc[p].pid
      /\ proc'[p].run = proc[p].run /\ proc'[p].session = proc[p].session
      /\ proc'[p].selection = proc[p].selection
  BY <1>1, <1>4 DEF ProcType
<1>6. \A q \in Proc : q # p => Keeps(q)
  BY <1>3 DEF Keeps, InTable, Driving, At
<1>7. Keeps(p)
  BY <1>5 DEF Keeps, InTable, Driving, At, PastAttempt
<1>8. QED
  BY <1>3, <1>6, <1>7

\* The current Run with other marks, and the claims on it as they were.
LEMMA MarkKeeps ==
  ASSUME TypeOK, opened' = opened,
         NEW x \in RunType, runs' = [runs EXCEPT ![opened] = x],
         x.state # "none", x.holder = runs[opened].holder, x.session = runs[opened].session,
         x.selection = runs[opened].selection
  PROVE  runs' \in [RunId -> RunType] /\ Settled' /\ SameClaims
<1>1. opened \in RunId /\ runs \in [RunId -> RunType]
  BY Types
<1>2. SameClaims
  BY <1>1 DEF SameClaims
<1>3. QED
  BY <1>2, CurrentRunType

LEMMA SameRuns ==
  ASSUME TypeOK, UNCHANGED journal
  PROVE  runs' \in [RunId -> RunType] /\ Settled' /\ SameClaims /\ opened' \in RunId
BY Types DEF journal, Settled, SameClaims

\* The steps that only move one invocation, or end it.
LEMMA MoveIsQuiet ==
  ASSUME TypeOK, NEW p \in Proc, Die(p) \/ Ask(p) \/ AskAfterStart(p)
  PROVE  TypeOK' /\ Quiet
<1>1. UNCHANGED journal /\ UNCHANGED agents /\ proc[p].life = "alive"
  BY DEF Die, Ask, AskAfterStart, At
<1>2. proc' \in [Proc -> ProcType] /\ \A q \in Proc : Keeps(q)
  <2>1. CASE Exit(p)
    BY <2>1, <1>1, ExitKeeps
  <2>2. CASE Ask(p) /\ ~Exit(p)
    <3>1. Driving(p)
      BY <2>2 DEF Ask, At, Driving
    <3>2. CASE Goto(p, "drive")
      BY <3>1, <3>2, <1>1, GotoKeeps DEF PastAttempt
    <3>3. CASE Goto(p, "start")
      BY <3>1, <3>3, <1>1, GotoKeeps DEF PastAttempt
    <3>4. CASE Goto(p, "absent") /\ ~Live(proc[p].session, proc[p].run)
      BY <3>1, <3>4, <1>1, GotoKeeps
    <3>5. QED
      BY <2>2, <3>2, <3>3, <3>4 DEF Ask
  <2>3. CASE AskAfterStart(p) /\ ~Exit(p)
    <3>1. Driving(p) /\ Goto(p, "absent") /\ ~Live(proc[p].session, proc[p].run)
      BY <2>3 DEF AskAfterStart, At, Driving
    <3>2. QED
      BY <3>1, <1>1, GotoKeeps
  <2>4. QED
    BY <2>1, <2>2, <2>3 DEF Die
<1>3. OnlyExits /\ agents' \in AgentType /\ opened' = opened /\ opened \in RunId
  BY <1>1, Types DEF OnlyExits, journal
<1>4. QED
  BY <1>1, <1>2, <1>3, SameRuns, TypesNext, Types, Constant DEF Quiet, RunId, journal

LEMMA ReapIsQuiet ==
  ASSUME TypeOK, NEW p \in Proc, Reap(p)
  PROVE  TypeOK' /\ Quiet
<1>1. proc \in [Proc -> ProcType] /\ [Unborn EXCEPT !.life = "reaped"] \in ProcType
  BY Types, Constant DEF ProcType
<1>2. proc' \in [Proc -> ProcType] /\ \A q \in Proc : q # p => proc'[q] = proc[q]
  BY <1>1 DEF Reap
<1>3. proc'[p].life = "reaped"
  BY <1>1 DEF Reap, Unborn
<1>4. \A q \in Proc : Keeps(q)
  BY <1>2, <1>3 DEF Keeps, InTable, Driving, At
<1>5. OnlyExits /\ agents' \in AgentType /\ UNCHANGED journal
  BY Types DEF OnlyExits, Reap
<1>6. QED
  BY <1>2, <1>4, <1>5, SameRuns, TypesNext, Types, Constant DEF Quiet, RunId, journal

\* The records that leave the claims on the Run alone.
LEMMA MarkIsQuiet ==
  ASSUME TypeOK, NEW p \in Proc,
         RecordCreated(p) \/ RecordReserved(p) \/ RecordAbsence(p)
           \/ Report(p) \/ EndDrive(p)
  PROVE  TypeOK' /\ Quiet
<1>1. opened' = opened /\ UNCHANGED agents /\ proc[p].life = "alive"
  BY DEF RecordCreated, RecordReserved, RecordAbsence, Report, EndDrive, At
<1>2. /\ opened \in RunId /\ runs \in [RunId -> RunType]
      /\ runs[opened] \in RunType /\ runs[opened].state # "none"
  BY Current
<1>3. proc' \in [Proc -> ProcType] /\ \A q \in Proc : Keeps(q)
  <2>1. CASE Exit(p)
    BY <2>1, <1>1, ExitKeeps
  <2>2. CASE Goto(p, "reserve")
    BY <2>2, <1>1, GotoKeeps DEF PastAttempt
  <2>3. CASE Goto(p, "request")
    BY <2>3, <1>1, GotoKeeps DEF PastAttempt
  <2>4. CASE Report(p) /\ Goto(p, "drive")
    BY <2>4, <1>1, GotoKeeps DEF PastAttempt, Report, At, Driving
  <2>5. QED
    BY <2>1, <2>2, <2>3, <2>4
    DEF RecordCreated, RecordReserved, RecordAbsence, Report, EndDrive
<1>4. runs' \in [RunId -> RunType] /\ Settled' /\ SameClaims
  <2>1. CASE runs' = runs
    BY <2>1, <1>1, SameRuns DEF journal
  <2>2. CASE \E m \in {"created", "bound"} : runs' = [runs EXCEPT ![opened].made = m]
    <3>1. PICK m \in {"created", "bound"} : runs' = [runs EXCEPT ![opened].made = m]
      BY <2>2
    <3>2. runs' = [runs EXCEPT ![opened] = [runs[opened] EXCEPT !.made = m]]
      BY <3>1
    <3>3. QED
      <4>1. [runs[opened] EXCEPT !.made = m] \in RunType
        BY <1>2 DEF RunType
      <4>2. [runs[opened] EXCEPT !.made = m].state # "none"
        BY <1>2 DEF RunType
      <4>3. QED
        BY <3>2, <4>1, <4>2, <1>1, <1>2, MarkKeeps DEF RunType
  <2>3. CASE \E c \in {"absent", "drive"} :
               runs' = [runs EXCEPT ![opened].state = "failed", ![opened].cause = c]
    <3>1. PICK c \in {"absent", "drive"} :
            runs' = [runs EXCEPT ![opened].state = "failed", ![opened].cause = c]
      BY <2>3
    <3>2. runs' = [runs EXCEPT ![opened] =
                     [runs[opened] EXCEPT !.state = "failed", !.cause = c]]
      BY <3>1, <1>2
    <3>3. QED
      <4>1. [runs[opened] EXCEPT !.state = "failed", !.cause = c] \in RunType
        BY <1>2 DEF RunType
      <4>2. [runs[opened] EXCEPT !.state = "failed", !.cause = c].state # "none"
        BY <1>2 DEF RunType
      <4>3. QED
        BY <4>1, <4>2, <3>2, <1>1, <1>2, MarkKeeps DEF RunType
  <2>4. CASE runs' = [runs EXCEPT ![opened].launched = TRUE]
    <3>1. runs' = [runs EXCEPT ![opened] = [runs[opened] EXCEPT !.launched = TRUE]]
      BY <2>4
    <3>2. QED
      <4>1. [runs[opened] EXCEPT !.launched = TRUE] \in RunType
        BY <1>2 DEF RunType
      <4>2. [runs[opened] EXCEPT !.launched = TRUE].state # "none"
        BY <1>2 DEF RunType
      <4>3. QED
        BY <4>1, <4>2, <3>1, <1>1, <1>2, MarkKeeps DEF RunType
  <2>5. QED
    BY <2>1, <2>2, <2>3, <2>4
    DEF RecordCreated, RecordReserved, RecordAbsence, Report, EndDrive
<1>5. OnlyExits /\ agents' \in AgentType
  BY <1>1, Types DEF OnlyExits
<1>6. QED
  BY <1>1, <1>2, <1>3, <1>4, <1>5, TypesNext, Types, Constant DEF Quiet, RunId

LEMMA AgentExitIsQuiet ==
  ASSUME TypeOK, NEW s \in Session, NEW r \in RunId, AgentExits(s, r)
  PROVE  TypeOK' /\ Quiet
<1>1. UNCHANGED <<journal, proc>> /\ agents \in AgentType
  BY Types DEF AgentExits
<1>2. agents' \in AgentType /\ OnlyExits
  BY <1>1 DEF AgentExits, AgentType, OnlyExits
<1>3. \A q \in Proc : Keeps(q)
  BY <1>1 DEF Keeps, InTable, Driving, At
<1>4. QED
  BY <1>1, <1>2, <1>3, SameRuns, TypesNext, Types, Constant DEF Quiet, RunId, journal

\* What the Work does to the current Run, and the Run a retry opens.
LEMMA WorkIsQuiet ==
  ASSUME TypeOK, Settle \/ Retry \/ OtherAppend
  PROVE  TypeOK' /\ Quiet
<1>1. /\ opened \in RunId /\ runs \in [RunId -> RunType]
      /\ runs[opened] \in RunType /\ runs[opened].state # "none"
  BY Current
<1>2. UNCHANGED <<proc, agents>> /\ \A q \in Proc : Keeps(q)
  BY DEF Settle, Retry, OtherAppend, Keeps, InTable, Driving, At
<1>3. OnlyExits /\ agents' \in AgentType /\ proc' \in [Proc -> ProcType]
  BY <1>2, Types DEF OnlyExits
<1>4. /\ runs' \in [RunId -> RunType] /\ Settled' /\ SameClaims
      /\ opened' \in RunId /\ opened <= opened'
  <2>1. CASE Settle
    <3>1. runs' = [runs EXCEPT ![opened] = [runs[opened] EXCEPT !.state = "claimed"]]
      BY <2>1 DEF Settle
    <3>2. QED
      <4>0. opened' = opened /\ opened \in Nat
        BY <2>1, <1>1, Constant DEF Settle
      <4>1. [runs[opened] EXCEPT !.state = "claimed"] \in RunType
        BY <1>1 DEF RunType
      <4>2. [runs[opened] EXCEPT !.state = "claimed"].state # "none"
        BY <1>1 DEF RunType
      <4>3. runs' \in [RunId -> RunType] /\ Settled' /\ SameClaims
        BY <4>0, <4>1, <4>2, <3>1, <1>1, MarkKeeps DEF RunType
      <4>4. QED
        BY <4>0, <4>3, <1>1
  <2>2. CASE OtherAppend
    <3>1. runs' = [runs EXCEPT ![opened] = [runs[opened] EXCEPT !.made = "buried"]]
      BY <2>2 DEF OtherAppend
    <3>2. QED
      <4>0. opened' = opened /\ opened \in Nat
        BY <2>2, <1>1, Constant DEF OtherAppend
      <4>1. [runs[opened] EXCEPT !.made = "buried"] \in RunType
        BY <1>1 DEF RunType
      <4>2. [runs[opened] EXCEPT !.made = "buried"].state # "none"
        BY <1>1 DEF RunType
      <4>3. runs' \in [RunId -> RunType] /\ Settled' /\ SameClaims
        BY <4>0, <4>1, <4>2, <3>1, <1>1, MarkKeeps DEF RunType
      <4>4. QED
        BY <4>0, <4>3, <1>1
  <2>3. CASE Retry
    <3> DEFINE old == IF runs[opened].state = "open"
                      THEN [runs[opened] EXCEPT !.state = "retried"] ELSE runs[opened]
               new == Reopened(opened)
    <3>1. /\ opened' = opened + 1 /\ opened' \in RunId /\ opened' # opened
          /\ runs' = [runs EXCEPT ![opened] = old, ![opened'] = new]
      BY <2>3, <1>1, LaunchAssumption DEF Retry, RunId
    <3>2. old \in RunType
      BY <1>1 DEF RunType
    <3>3. new \in RunType /\ new.state = "open"
      BY Constant DEF RunType, Reopened, NoRun
    <3>4. new.holder = NoHolder /\ new.session = NoSession /\ new.selection = NoSelection
      BY DEF Reopened, NoRun
    <3>5. old.state \notin {"none", "open"}
      BY <1>1 DEF RunType
    <3>6. /\ old.holder = runs[opened].holder
          /\ old.session = runs[opened].session
          /\ old.selection = runs[opened].selection
      BY <1>1 DEF RunType
    <3>7. runs[opened'] = NoRun
      BY <3>1, <1>1, Types, Constant DEF Settled
    <3> HIDE DEF old, new
    <3>8. runs' \in [RunId -> RunType]
      BY <3>1, <3>2, <3>3, <1>1
    <3>9. Settled'
      BY <3>1, <3>3, <3>5, <1>1, Types, Constant DEF Settled
    <3>10. SameClaims
      BY <3>1, <3>4, <3>6, <3>7, <1>1 DEF SameClaims, NoRun
    <3>11. QED
      BY <3>1, <3>8, <3>9, <3>10, <1>1, Constant
  <2>4. QED
    BY <2>1, <2>2, <2>3
<1>5. QED
  BY <1>2, <1>3, <1>4, <1>1, TypesNext DEF Quiet

-----------------------------------------------------------------------------
(* The four steps that add an invocation, a request, a holder or an agent. *)

LEMMA BeginFacts ==
  ASSUME TypeOK
  PROVE  /\ Begin(opened) \in {"create", "reserve", "request", "attempt"}
         /\ Begin(opened) = "attempt" => runs[opened].selection # NoSelection
BY Current DEF Begin, RunType

LEMMA FetchKeeps ==
  ASSUME AdmissionInv, NEW p \in Proc, Fetch(p)
  PROVE  AdmissionInv'
<1>1. PICK i \in Pid, s \in Session,
           sel \in IF runs[opened].selection = NoSelection
                   THEN Selection ELSE {runs[opened].selection} :
        /\ \A q \in Proc : InTable(q) => proc[q].pid # i
        /\ proc' = [proc EXCEPT ![p] =
             [life |-> "alive", pc |-> Begin(opened), pid |-> i, session |-> s,
              run |-> opened, selection |-> sel,
              bound |-> runs[opened].selection # NoSelection,
              launched |-> runs[opened].launched]]
  BY DEF Fetch
<1>2. /\ TypeOK /\ Ties /\ opened' = opened /\ UNCHANGED <<runs, agents>>
      /\ proc \in [Proc -> ProcType]
  BY Types DEF AdmissionInv, Fetch, journal
<1>3. /\ sel \in Selection
      /\ runs[opened].selection # NoSelection => sel = runs[opened].selection
  BY <1>1, <1>2, Current DEF RunType
<1>4. /\ proc'[p].life = "alive" /\ proc'[p].pc = Begin(opened) /\ proc'[p].pid = i
      /\ proc'[p].session = s /\ proc'[p].run = opened /\ proc'[p].selection = sel
      /\ proc'[p] \in ProcType
  BY <1>1, <1>2, <1>3, Current, Constant, BeginFacts DEF ProcType, RunType
<1>5. \A q \in Proc : q # p => proc'[q] = proc[q]
  BY <1>1, <1>2
<1>6. proc' \in [Proc -> ProcType]
  BY <1>1, <1>2, <1>4
<1>7. ~Driving(p)' /\ ~At(p, "absent")'
  BY <1>4, <1>2, BeginFacts DEF Driving, At
<1>8. TypeOK'
  BY <1>2, <1>6, TypesNext, Types DEF Settled, journal
<1>9. PidsApart'
  <2>1. \A q \in Proc : InTable(q)' => proc'[q].pid \in Pid
    BY <1>2, <1>4, <1>5 DEF Ties, PidsApart, InTable
  <2>2. \A q, q2 \in Proc : InTable(q)' /\ InTable(q2)' /\ proc'[q].pid = proc'[q2].pid => q = q2
    BY <1>1, <1>2, <1>4, <1>5 DEF Ties, PidsApart, InTable
  <2>3. opened \in 1..opened
    BY <1>2, Types DEF RunId
  <2>4. \A q \in Proc : proc'[q].life = "alive" =>
          /\ proc'[q].run \in 1..opened'
          /\ proc'[q].session \in Session
          /\ proc'[q].selection \in Selection
    BY <1>2, <1>3, <1>4, <1>5, <2>3 DEF Ties, PidsApart
  <2>5. QED
    BY <2>1, <2>2, <2>4 DEF PidsApart
<1>10. HolderDrives'
  BY <1>2, <1>5, <1>7 DEF Ties, HolderDrives, Driving
<1>11. BoundSelection'
  BY <1>2, <1>3, <1>4, <1>5, <1>7, BeginFacts DEF Ties, BoundSelection, Driving, At
<1>12. AgentsBound'
  BY <1>2 DEF Ties, AgentsBound, Live
<1>13. StillAbsent'
  BY <1>2, <1>5, <1>7 DEF Ties, StillAbsent, Live, At
<1>14. QED
  BY <1>8, <1>9, <1>10, <1>11, <1>12, <1>13 DEF AdmissionInv, Ties

\* A refused record ends the invocation and changes nothing else.
LEMMA RefusalIsQuiet ==
  ASSUME TypeOK, NEW p \in Proc, proc[p].life = "alive", Exit(p),
         UNCHANGED <<runs, opened, agents>>
  PROVE  TypeOK' /\ Quiet
<1>1. proc' \in [Proc -> ProcType] /\ \A q \in Proc : Keeps(q)
  BY ExitKeeps
<1>2. OnlyExits /\ agents' \in AgentType /\ opened \in Nat
  BY Types, Constant DEF OnlyExits
<1>3. QED
  BY <1>1, <1>2, SameRuns, TypesNext, Types DEF Quiet, journal

\* What a step to a new pc changes of the invocation that takes it.
LEMMA GotoFacts ==
  ASSUME TypeOK, NEW p \in Proc, proc[p].life = "alive",
         NEW pc \in {"attempt", "ask", "start", "startError", "report"}, Goto(p, pc)
  PROVE  /\ proc' \in [Proc -> ProcType]
         /\ \A q \in Proc : q # p => proc'[q] = proc[q]
         /\ \A q \in Proc :
              /\ proc'[q].life = proc[q].life /\ proc'[q].pid = proc[q].pid
              /\ proc'[q].run = proc[q].run /\ proc'[q].session = proc[q].session
              /\ proc'[q].selection = proc[q].selection
         /\ proc'[p].pc = pc
<1>1. proc \in [Proc -> ProcType]
  BY Types
<1>2. [proc[p] EXCEPT !.pc = pc] \in ProcType
  BY <1>1 DEF ProcType
<1>3. proc' \in [Proc -> ProcType] /\ \A q \in Proc : q # p => proc'[q] = proc[q]
  BY <1>1, <1>2 DEF Goto
<1>4. proc'[p] = [proc[p] EXCEPT !.pc = pc]
  BY <1>1 DEF Goto
<1>5. /\ proc'[p].life = proc[p].life /\ proc'[p].pc = pc /\ proc'[p].pid = proc[p].pid
      /\ proc'[p].run = proc[p].run /\ proc'[p].session = proc[p].session
      /\ proc'[p].selection = proc[p].selection
  BY <1>1, <1>4 DEF ProcType
<1>6. QED
  BY <1>3, <1>5

LEMMA RunsOfAlive ==
  ASSUME TypeOK, Ties
  PROVE  \A q \in Proc : proc[q].life = "alive" => proc[q].run \in RunId
<1>1. opened \in RunId
  BY Types
<1>2. 1..opened \subseteq RunId
  BY <1>1, LaunchAssumption DEF RunId
<1>3. QED
  BY <1>2 DEF Ties, PidsApart

LEMMA RequestKeeps ==
  ASSUME AdmissionInv, NEW p \in Proc, RecordRequest(p)
  PROVE  AdmissionInv'
<1>1. /\ TypeOK /\ Ties /\ opened' = opened /\ UNCHANGED agents
      /\ proc[p].life = "alive" /\ proc[p].pc = "request"
  BY DEF AdmissionInv, RecordRequest, At
<1>2. CASE Exit(p) /\ UNCHANGED runs
  BY <1>1, <1>2, RefusalIsQuiet, QuietKeeps DEF AdmissionInv
<1>3. CASE /\ Recordable(p) /\ runs[opened].selection = NoSelection
           /\ runs' = [runs EXCEPT ![opened].selection = proc[p].selection]
           /\ Goto(p, "attempt")
  <2> DEFINE x == [runs[opened] EXCEPT !.selection = proc[p].selection]
  <2>1. proc[p].selection \in Selection /\ proc[p].run = opened
    BY <1>1, <1>3 DEF Ties, PidsApart, Recordable
  <2>2. x \in RunType /\ x.state # "none"
    BY <1>1, <2>1, Current DEF RunType
  <2>3. x.holder = runs[opened].holder /\ x.session = runs[opened].session
        /\ x.selection = proc[p].selection
    BY <1>1, Current DEF RunType
  <2>4. runs' = [runs EXCEPT ![opened] = x]
    BY <1>3
  <2> HIDE DEF x
  <2>5. runs' \in [RunId -> RunType] /\ Settled'
    BY <1>1, <2>2, <2>4, CurrentRunType
  <2>6. /\ \A r \in RunId : /\ runs'[r].holder = runs[r].holder
                            /\ runs'[r].session = runs[r].session
                            /\ r # opened => runs'[r] = runs[r]
        /\ runs'[opened].selection = proc[p].selection
    BY <1>1, <2>3, <2>4, Current
  <2>7. /\ proc' \in [Proc -> ProcType]
        /\ \A q \in Proc : q # p => proc'[q] = proc[q]
        /\ \A q \in Proc :
             /\ proc'[q].life = proc[q].life /\ proc'[q].pid = proc[q].pid
             /\ proc'[q].run = proc[q].run /\ proc'[q].session = proc[q].session
             /\ proc'[q].selection = proc[q].selection
        /\ proc'[p].pc = "attempt"
    BY <1>1, <1>3, GotoFacts
  <2>8. TypeOK'
    BY <1>1, <2>5, <2>7, TypesNext, Types
  <2>9. /\ ~Driving(p)' /\ ~At(p, "absent")'
        /\ \A q \in Proc : proc[q].life = "alive" => proc[q].run \in RunId
    BY <1>1, <2>7, RunsOfAlive DEF Driving, At
  <2>10. PidsApart'
    BY <1>1, <2>7 DEF Ties, PidsApart, InTable
  <2>11. HolderDrives'
    BY <1>1, <2>6, <2>7, <2>9 DEF Ties, HolderDrives, Driving
  <2>12. BoundSelection'
    <3> SUFFICES ASSUME NEW q \in Proc, (Driving(q) \/ At(q, "attempt"))'
                 PROVE  runs'[proc'[q].run].selection = proc'[q].selection
      BY DEF BoundSelection
    <3>1. CASE q = p
      BY <3>1, <2>1, <2>6, <2>7
    <3>2. CASE q # p
      <4>1. Driving(q) \/ At(q, "attempt")
        BY <3>2, <2>7 DEF Driving, At
      <4>2. /\ runs[proc[q].run].selection = proc[q].selection
            /\ proc[q].selection \in Selection /\ proc[q].run \in RunId
        BY <4>1, <1>1, <2>9 DEF Ties, BoundSelection, PidsApart, Driving, At
      <4>3. proc[q].run # opened
        BY <4>2, <1>3, LaunchAssumption
      <4>4. QED
        BY <4>2, <4>3, <2>6, <2>7
    <3>3. QED
      BY <3>1, <3>2
  <2>13. AgentsBound'
    <3> SUFFICES ASSUME NEW s \in Session, NEW r \in RunId, Live(s, r)'
                 PROVE  /\ runs'[r].holder # NoHolder /\ runs'[r].session = s
                        /\ runs'[r].selection = agents'[s][r]
      BY DEF AgentsBound
    <3>1. /\ runs[r].holder # NoHolder /\ runs[r].session = s
          /\ runs[r].selection = agents[s][r] /\ agents[s][r] # NoSelection
      BY <1>1 DEF Ties, AgentsBound, Live
    <3>2. r # opened
      BY <3>1, <1>3
    <3>3. QED
      BY <3>1, <3>2, <2>6, <1>1
  <2>14. StillAbsent'
    BY <1>1, <2>7, <2>9 DEF Ties, StillAbsent, Live, At
  <2>15. QED
    BY <2>8, <2>10, <2>11, <2>12, <2>13, <2>14 DEF AdmissionInv, Ties
<1>4. QED
  BY <1>2, <1>3 DEF RecordRequest

\* The kernel frees no attempt from under a live holder.
LEMMA LiveHolderStays ==
  ASSUME TypeOK, Ties, NEW p \in Proc, NEW q \in Proc, q # p,
         proc[p].life = "alive", Driving(q), proc[q].run = opened,
         NEW readable \in BOOLEAN
  PROVE  ~Admits(opened, p, readable)
<1> DEFINE h == runs[opened].holder
<1>1. h.pid = proc[q].pid /\ h.token \in {NoProc, q} /\ InTable(q) /\ proc[q].life = "alive"
  BY DEF Ties, HolderDrives, Driving, InTable
<1>2. proc[q].pid \in Pid /\ \A o \in Proc : InTable(o) /\ proc[o].pid = h.pid => o = q
  BY <1>1 DEF Ties, PidsApart
<1> HIDE DEF h
<1>3. h # NoHolder
  BY <1>1, <1>2, LaunchAssumption DEF NoHolder
<1>4. h.pid # proc[p].pid
  BY <1>1, <1>2 DEF InTable
<1>5. ~HolderGone(h, readable)
  BY <1>1, <1>2 DEF HolderGone
<1>6. QED
  BY <1>3, <1>4, <1>5 DEF Admits, h

LEMMA AttemptKeeps ==
  ASSUME AdmissionInv, NEW p \in Proc, RecordAttempt(p)
  PROVE  AdmissionInv'
<1>1. /\ TypeOK /\ Ties /\ opened' = opened /\ UNCHANGED agents
      /\ proc[p].life = "alive" /\ proc[p].pc = "attempt"
  BY DEF AdmissionInv, RecordAttempt, At
<1>2. CASE Exit(p) /\ UNCHANGED runs
  BY <1>1, <1>2, RefusalIsQuiet, QuietKeeps DEF AdmissionInv
<1>3. ASSUME NEW readable \in BOOLEAN, NEW token \in {NoProc, p}, NEW pc \in {"ask", "start"},
             Recordable(p), Admits(opened, p, readable),
             runs' = [runs EXCEPT ![opened].holder = [pid |-> proc[p].pid, token |-> token],
                                  ![opened].session = proc[p].session],
             Goto(p, pc)
      PROVE  AdmissionInv'
  <2> DEFINE h == [pid |-> proc[p].pid, token |-> token]
             x == [runs[opened] EXCEPT !.holder = h, !.session = proc[p].session]
  <2>1. /\ proc[p].pid \in Pid /\ proc[p].session \in Session /\ proc[p].run = opened
        /\ runs[opened].selection = proc[p].selection
    BY <1>1, <1>3 DEF Ties, PidsApart, BoundSelection, Recordable, InTable, At
  <2>2. h \in Holder /\ h # NoHolder /\ h.pid = proc[p].pid /\ h.token \in {NoProc, p}
    BY <2>1, <1>3, LaunchAssumption DEF Holder, NoHolder
  <2> HIDE DEF h
  <2>3. x \in RunType /\ x.state # "none"
    BY <1>1, <2>1, <2>2, Current DEF RunType
  <2>4. /\ x.holder = h /\ x.session = proc[p].session
        /\ x.selection = runs[opened].selection
    BY <1>1, Current DEF RunType
  <2>5. runs' = [runs EXCEPT ![opened] = x]
    BY <1>3, <1>1, Current DEF h
  <2> HIDE DEF x
  <2>6. runs' \in [RunId -> RunType] /\ Settled'
    BY <1>1, <2>3, <2>5, CurrentRunType
  <2>7. /\ \A r \in RunId : /\ runs'[r].selection = runs[r].selection
                            /\ r # opened => runs'[r] = runs[r]
        /\ runs'[opened].holder = h
        /\ runs'[opened].session = proc[p].session
    BY <1>1, <2>4, <2>5, Current
  <2>8. /\ proc' \in [Proc -> ProcType]
        /\ \A q \in Proc : q # p => proc'[q] = proc[q]
        /\ \A q \in Proc :
             /\ proc'[q].life = proc[q].life /\ proc'[q].pid = proc[q].pid
             /\ proc'[q].run = proc[q].run /\ proc'[q].session = proc[q].session
             /\ proc'[q].selection = proc[q].selection
        /\ proc'[p].pc = pc
    BY <1>1, <1>3, GotoFacts
  <2>9. TypeOK'
    BY <1>1, <2>6, <2>8, TypesNext, Types
  <2>10. ~At(p, "absent")' /\ \A q \in Proc : proc[q].life = "alive" => proc[q].run \in RunId
    BY <1>1, <2>8, RunsOfAlive DEF At
  <2>11. PidsApart'
    BY <1>1, <2>8 DEF Ties, PidsApart, InTable
  <2>12. HolderDrives'
    <3> SUFFICES ASSUME NEW q \in Proc, Driving(q)'
                 PROVE  /\ runs'[proc'[q].run].holder.pid = proc'[q].pid
                        /\ runs'[proc'[q].run].holder.token \in {NoProc, q}
                        /\ runs'[proc'[q].run].session = proc'[q].session
      BY DEF HolderDrives
    <3>1. CASE q = p
      BY <3>1, <2>1, <2>2, <2>7, <2>8
    <3>2. CASE q # p
      <4>1. Driving(q) /\ proc[q].life = "alive" /\ proc[q].run \in RunId
        BY <3>2, <2>8, <2>10 DEF Driving
      <4>2. proc[q].run # opened
        BY <4>1, <3>2, <1>1, <1>3, LiveHolderStays
      <4>3. QED
        BY <4>1, <4>2, <1>1, <2>7, <2>8 DEF Ties, HolderDrives
    <3>3. QED
      BY <3>1, <3>2
  <2>13. BoundSelection'
    BY <1>1, <2>1, <2>7, <2>8, <2>10 DEF Ties, BoundSelection, Driving, At
  <2>14. AgentsBound'
    <3> SUFFICES ASSUME NEW s \in Session, NEW r \in RunId, Live(s, r)'
                 PROVE  /\ runs'[r].holder # NoHolder /\ runs'[r].session = s
                        /\ runs'[r].selection = agents'[s][r]
      BY DEF AgentsBound
    <3>1. /\ runs[r].holder # NoHolder /\ runs[r].session = s
          /\ runs[r].selection = agents[s][r]
      BY <1>1 DEF Ties, AgentsBound, Live
    <3>2. CASE r = opened
      BY <3>1, <3>2, <1>1, <1>3, <2>2, <2>7 DEF Admits
    <3>3. CASE r # opened
      BY <3>1, <3>3, <1>1, <2>7
    <3>4. QED
      BY <3>2, <3>3
  <2>15. StillAbsent'
    BY <1>1, <2>8, <2>10 DEF Ties, StillAbsent, Live, At
  <2>16. QED
    BY <2>9, <2>11, <2>12, <2>13, <2>14, <2>15 DEF AdmissionInv, Ties
<1>4. QED
  BY <1>2, <1>3 DEF RecordAttempt

LEMMA StartKeeps ==
  ASSUME AdmissionInv, NEW p \in Proc, Start(p)
  PROVE  AdmissionInv'
<1>1. /\ TypeOK /\ Ties /\ UNCHANGED <<runs, opened>>
      /\ proc[p].life = "alive" /\ proc[p].pc = "start" /\ Driving(p)
  BY DEF AdmissionInv, Start, At, journal, Driving
<1>2. CASE UNCHANGED agents /\ Goto(p, "startError")
  <2>1. proc' \in [Proc -> ProcType] /\ \A q \in Proc : Keeps(q)
    BY <1>1, <1>2, GotoKeeps DEF PastAttempt
  <2>2. OnlyExits /\ agents' \in AgentType /\ opened \in Nat
    BY <1>1, <1>2, Types, Constant DEF OnlyExits
  <2>3. TypeOK' /\ Quiet
    BY <1>1, <2>1, <2>2, SameRuns, TypesNext, Types DEF Quiet, journal
  <2>4. QED
    BY <1>1, <2>3, QuietKeeps DEF AdmissionInv
<1>3. ASSUME NEW pc \in {"report", "startError"}, Goto(p, pc),
             agents' = [agents EXCEPT ![proc[p].session][proc[p].run] = proc[p].selection]
      PROVE  AdmissionInv'
  <2>1. /\ proc' \in [Proc -> ProcType]
        /\ \A q \in Proc : q # p => proc'[q] = proc[q]
        /\ \A q \in Proc :
             /\ proc'[q].life = proc[q].life /\ proc'[q].pid = proc[q].pid
             /\ proc'[q].run = proc[q].run /\ proc'[q].session = proc[q].session
             /\ proc'[q].selection = proc[q].selection
        /\ proc'[p].pc = pc
    BY <1>1, <1>3, GotoFacts
  <2>2. /\ proc[p].session \in Session /\ proc[p].selection \in Selection
        /\ proc[p].run \in RunId
    BY <1>1, RunsOfAlive DEF Ties, PidsApart
  <2>3. agents' \in AgentType
    BY <1>1, <1>3, <2>2, Types DEF AgentType
  <2>4. \A s \in Session, r \in RunId :
          agents'[s][r] = IF s = proc[p].session /\ r = proc[p].run
                          THEN proc[p].selection ELSE agents[s][r]
    BY <1>1, <1>3, <2>2, Types DEF AgentType
  <2>5. TypeOK'
    BY <1>1, <2>1, <2>3, SameRuns, TypesNext DEF journal
  <2>6. PidsApart'
    BY <1>1, <2>1 DEF Ties, PidsApart, InTable
  <2>7. /\ \A q \in Proc : Driving(q)' => Driving(q)
        /\ \A q \in Proc : At(q, "attempt")' => At(q, "attempt")
        /\ \A q \in Proc : At(q, "absent")' => At(q, "absent") /\ q # p
    BY <1>1, <2>1 DEF Driving, At
  <2>8. HolderDrives'
    BY <1>1, <2>1, <2>7 DEF Ties, HolderDrives
  <2>9. BoundSelection'
    BY <1>1, <2>1, <2>7 DEF Ties, BoundSelection
  <2>10. AgentsBound'
    <3> SUFFICES ASSUME NEW s \in Session, NEW r \in RunId, Live(s, r)'
                 PROVE  /\ runs[r].holder # NoHolder /\ runs[r].session = s
                        /\ runs[r].selection = agents'[s][r]
      BY <1>1 DEF AgentsBound
    <3>1. CASE s = proc[p].session /\ r = proc[p].run
      <4>1. runs[r].holder.pid = proc[p].pid /\ proc[p].pid \in Pid
        BY <3>1, <1>1 DEF Ties, HolderDrives, PidsApart, InTable
      <4>2. runs[r].holder # NoHolder
        BY <4>1, LaunchAssumption DEF NoHolder
      <4>3. QED
        BY <4>2, <3>1, <1>1, <2>4 DEF Ties, HolderDrives, BoundSelection
    <3>2. CASE ~(s = proc[p].session /\ r = proc[p].run)
      BY <3>2, <1>1, <2>4 DEF Ties, AgentsBound, Live
    <3>3. QED
      BY <3>1, <3>2
  <2>11. StillAbsent'
    <3> SUFFICES ASSUME NEW q \in Proc, At(q, "absent")', NEW s \in Session
                 PROVE  ~Live(s, proc[q].run)'
      BY DEF StillAbsent
    <3>1. At(q, "absent") /\ q # p /\ Driving(q) /\ proc[q].run \in RunId
          /\ proc'[q].run = proc[q].run
      BY <1>1, <2>1, <2>7, RunsOfAlive DEF At, Driving
    <3>2. proc[q].run # proc[p].run
      BY <3>1, <1>1, InvOneDriver DEF OneDriver, AdmissionInv
    <3>3. QED
      BY <3>1, <3>2, <1>1, <2>4 DEF Ties, StillAbsent, Live
  <2>12. QED
    BY <2>5, <2>6, <2>8, <2>9, <2>10, <2>11 DEF AdmissionInv, Ties
<1>4. QED
  BY <1>2, <1>3 DEF Start

-----------------------------------------------------------------------------
(* The invariant. *)

LEMMA InitHolds == Init => AdmissionInv
<1> SUFFICES ASSUME Init PROVE AdmissionInv
  OBVIOUS
<1>1. /\ proc = [p \in Proc |-> Unborn] /\ opened = 1
      /\ agents = [s \in Session |-> [r \in RunId |-> NoSelection]]
  BY DEF Init
<1>2. \A p \in Proc : proc[p].life = "unborn"
  BY <1>1 DEF Unborn
<1>3. [NoRun EXCEPT !.state = "open"] \in RunType /\ NoRun \in RunType
  BY Constant DEF RunType
<1>4. runs \in [RunId -> RunType] /\ runs[1].state = "open"
      /\ \A r \in RunId : r # 1 => runs[r] = NoRun
  BY <1>3, Constant DEF Init, NoRun
<1>5. Settled
  <2>1. \A r \in RunId : r \in Nat /\ 1 <= r
    BY LaunchAssumption DEF RunId
  <2>2. QED
    BY <1>1, <1>4, <2>1 DEF Settled
<1>6. TypeOK
  BY <1>1, <1>4, <1>5, Types, Constant DEF AgentType
<1>7. PidsApart /\ HolderDrives /\ BoundSelection /\ StillAbsent
  BY <1>2 DEF PidsApart, HolderDrives, BoundSelection, StillAbsent, InTable, Driving, At
<1>8. AgentsBound
  BY <1>1 DEF AgentsBound, Live
<1>9. QED
  BY <1>6, <1>7, <1>8 DEF AdmissionInv, Ties

LEMMA NextKeeps ==
  ASSUME AdmissionInv, [Next]_vars
  PROVE  AdmissionInv'
<1>1. TypeOK /\ Ties
  BY DEF AdmissionInv
<1>2. ASSUME NEW p \in Proc, Step(p) \/ Die(p) \/ Reap(p)
      PROVE  AdmissionInv'
  <2>1. CASE Fetch(p)
    BY <2>1, FetchKeeps
  <2>2. CASE RecordRequest(p)
    BY <2>2, RequestKeeps
  <2>3. CASE RecordAttempt(p)
    BY <2>3, AttemptKeeps
  <2>4. CASE Start(p)
    BY <2>4, StartKeeps
  <2>5. CASE Die(p) \/ Ask(p) \/ AskAfterStart(p)
    BY <2>5, <1>1, MoveIsQuiet, QuietKeeps DEF AdmissionInv
  <2>6. CASE Reap(p)
    BY <2>6, <1>1, ReapIsQuiet, QuietKeeps DEF AdmissionInv
  <2>7. CASE RecordCreated(p) \/ RecordReserved(p) \/ RecordAbsence(p)
               \/ Report(p) \/ EndDrive(p)
    BY <2>7, <1>1, MarkIsQuiet, QuietKeeps DEF AdmissionInv
  <2>8. QED
    BY <1>2, <2>1, <2>2, <2>3, <2>4, <2>5, <2>6, <2>7 DEF Step
<1>3. ASSUME NEW s \in Session, NEW r \in RunId, AgentExits(s, r)
      PROVE  AdmissionInv'
  BY <1>1, <1>3, AgentExitIsQuiet, QuietKeeps DEF AdmissionInv
<1>4. CASE Settle \/ Retry \/ OtherAppend
  BY <1>1, <1>4, WorkIsQuiet, QuietKeeps DEF AdmissionInv
<1>5. CASE UNCHANGED vars
  BY <1>1, <1>5 DEF vars, AdmissionInv, TypeOK, Ties, PidsApart, HolderDrives,
     BoundSelection, AgentsBound, StillAbsent, InTable, Driving, At, Live
<1>6. QED
  BY <1>2, <1>3, <1>4, <1>5 DEF Next

LEMMA Admitted == Spec => []AdmissionInv
<1>1. AdmissionInv /\ [Next]_vars => AdmissionInv'
  BY NextKeeps
<1>2. QED
  BY InitHolds, <1>1, PTL DEF Spec

-----------------------------------------------------------------------------
(* The theorems. *)

\* The state of the Runs, the invocations and the agents keeps its types, and
\* only the last Run of the Waypoint is ever open.
THEOREM AdmissionTypes == Spec => []TypeOK
<1>1. AdmissionInv => TypeOK
  BY DEF AdmissionInv
<1>2. QED
  BY <1>1, Admitted, PTL

\* However processes die, stay unreaped and hand on their pids, and whatever
\* the kernel would not say, at most one live invocation drives a Run.
THEOREM OneDriverHolds == Spec => []OneDriver
BY InvOneDriver, Admitted, PTL

\* However many sessions are tried, one at most holds a live agent of a Run.
THEOREM OneLiveAgentHolds == Spec => []OneLiveAgent
BY InvOneLiveAgent, Admitted, PTL

\* Every live agent runs what its Run's one launch request bound.
THEOREM LaunchedAsBoundHolds == Spec => []LaunchedAsBound
BY InvLaunchedAsBound, Admitted, PTL

\* Only RecordAbsence writes that cause, of the current Run.
LEMMA OnlyAbsenceWrites ==
  ASSUME AdmissionInv, [Next]_vars, NEW r \in RunId,
         runs[r].cause # "absent", runs'[r].cause = "absent"
  PROVE  \E p \in Proc : At(p, "absent") /\ proc[p].run = r
<1>1. /\ opened \in RunId /\ runs \in [RunId -> RunType] /\ runs[opened] \in RunType
      /\ \A q \in RunId : q > opened => runs[q] = NoRun
  BY Current, Types DEF AdmissionInv, Settled
<1>2. runs' # runs
  OBVIOUS
<1>3. ASSUME NEW p \in Proc, Step(p) \/ Die(p) \/ Reap(p)
      PROVE  At(p, "absent") /\ proc[p].run = r
  <2>1. CASE RecordAbsence(p)
    <3>1. Recordable(p) /\ At(p, "absent")
          /\ runs' = [runs EXCEPT ![opened].state = "failed", ![opened].cause = "absent"]
      BY <2>1, <1>2 DEF RecordAbsence
    <3>2. r = opened
      BY <3>1, <1>1
    <3>3. QED
      BY <3>1, <3>2 DEF Recordable
  <2>2. CASE RecordCreated(p) \/ RecordReserved(p) \/ RecordRequest(p)
    <3>1. \A q \in RunId : runs'[q].cause = runs[q].cause
      BY <2>2, <1>1 DEF RecordCreated, RecordReserved, RecordRequest, RunType
    <3>2. QED
      BY <3>1
  <2>3. CASE RecordAttempt(p) \/ Report(p)
    <3>1. \A q \in RunId : runs'[q].cause = runs[q].cause
      <4>1. CASE Report(p)
        BY <4>1, <1>1 DEF Report, RunType
      <4>2. CASE RecordAttempt(p)
        <5>1. PICK h \in {runs'[opened].holder} :
                runs' = [runs EXCEPT ![opened].holder = h, ![opened].session = proc[p].session]
          BY <4>2, <1>1, <1>2 DEF RecordAttempt, RunType
        <5>2. QED
          BY <5>1, <1>1 DEF RunType
      <4>3. QED
        BY <2>3, <4>1, <4>2
    <3>2. QED
      BY <3>1
  <2>4. CASE EndDrive(p)
    <3>1. runs' = [runs EXCEPT ![opened].state = "failed", ![opened].cause = "drive"]
      BY <2>4, <1>2 DEF EndDrive
    <3>2. \A q \in RunId : runs'[q].cause \in {runs[q].cause, "drive"}
      BY <3>1, <1>1 DEF RunType
    <3>3. QED
      BY <3>2
  <2>5. CASE Fetch(p) \/ Ask(p) \/ Start(p) \/ AskAfterStart(p) \/ Die(p) \/ Reap(p)
    BY <2>5, <1>2 DEF Fetch, Ask, Start, AskAfterStart, Die, Reap, journal
  <2>6. QED
    BY <1>3, <2>1, <2>2, <2>3, <2>4, <2>5 DEF Step
<1>4. CASE \E s \in Session, q \in RunId : AgentExits(s, q)
  BY <1>2, <1>4 DEF AgentExits, journal
<1>5. CASE Settle \/ OtherAppend
  <2>1. \A q \in RunId : runs'[q].cause = runs[q].cause
    BY <1>5, <1>1 DEF Settle, OtherAppend, RunType
  <2>2. QED
    BY <2>1
<1>6. CASE Retry
  <2>1. opened + 1 \in RunId /\ Reopened(opened).cause = "none"
    BY <1>1, <1>6, LaunchAssumption DEF Retry, RunId, Reopened, NoRun
  <2>2. \A q \in RunId : runs'[q].cause \in {runs[q].cause, "none"}
    BY <1>6, <1>1, <2>1 DEF Retry, RunType
  <2>3. QED
    BY <2>2
<1>7. CASE UNCHANGED vars
  BY <1>2, <1>7 DEF vars
<1>8. QED
  BY <1>3, <1>4, <1>5, <1>6, <1>7 DEF Next

\* A Run declared failed because its agent is absent has no live agent then.
THEOREM FailureIsAbsenceHolds == Spec => FailureIsAbsence
<1>1. AdmissionInv /\ [Next]_vars =>
        [\A r \in RunId :
           runs[r].cause # "absent" /\ runs'[r].cause = "absent"
             => \A s \in Session : ~Live(s, r)]_vars
  BY OnlyAbsenceWrites DEF AdmissionInv, Ties, StillAbsent
<1>2. QED
  BY <1>1, Admitted, PTL DEF Spec, FailureIsAbsence
=============================================================================
