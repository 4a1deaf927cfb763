--------------------------- MODULE LaunchAdmission ---------------------------
(***************************************************************************)
(* Who may launch a Run's actor: `wirk run` invocations against wirkd's    *)
(* record verb and against Herdr.                                          *)
(*                                                                         *)
(* An invocation reads the open Run once (fetch_open_run) and then works   *)
(* from that copy: it materializes the checkout, binds the launch request, *)
(* has its own attempt admitted, asks Herdr about an earlier launch,       *)
(* starts the agent and reports it.  Every record is decided by            *)
(* handle_record under the Work's guard, so a record is one action; what   *)
(* lies between two of them is open to every other invocation, to the      *)
(* kernel (a process dies, is a zombie, is reaped, its pid is reused), to  *)
(* Herdr (a reply is lost, an agent exits) and to the operator's retry.    *)
(***************************************************************************)
EXTENDS Naturals, FiniteSets

CONSTANTS
  Proc,         \* `wirk run` invocations; an element is also its start token
  Pid,          \* process ids
  Session,      \* Herdr sessions, each a destination
  Selection,    \* actor kind, model, effort and arguments of a launch
  MaxRuns,      \* bound: Runs opened for the Waypoint
  NoProc, NoPid, NoSession, NoSelection

ASSUME LaunchAssumption ==
  /\ NoProc \notin Proc /\ NoPid \notin Pid
  /\ NoSession \notin Session /\ NoSelection \notin Selection
  /\ MaxRuns \in Nat \ {0}

VARIABLES
  runs,    \* the Runs of the Waypoint, as the journal folds them
  opened,  \* how many: the last one is the Waypoint's current Run
  proc,    \* the invocations, and what the kernel says of them
  agents   \* Herdr: what is live under each Run's name in each session

journal == <<runs, opened>>
vars == <<runs, opened, proc, agents>>

RunId == 1..MaxRuns

NoHolder == [pid |-> NoPid, token |-> NoProc]

\* made: "created" while WorktreeCreated is the journal's last event, "buried"
\* when another event followed it, "bound" when the World has its checkout.
NoRun == [state |-> "none", cause |-> "none", made |-> "no",
          selection |-> NoSelection, launched |-> FALSE,
          holder |-> NoHolder, session |-> NoSession]

Unborn == [life |-> "unborn", pc |-> "none", pid |-> NoPid, session |-> NoSession,
           run |-> 0, selection |-> NoSelection, bound |-> FALSE,
           launched |-> FALSE]

Init ==
  /\ runs = [r \in RunId |-> IF r = 1 THEN [NoRun EXCEPT !.state = "open"] ELSE NoRun]
  /\ opened = 1
  /\ proc = [p \in Proc |-> Unborn]
  /\ agents = [s \in Session |-> [r \in RunId |-> NoSelection]]

-----------------------------------------------------------------------------
(* The kernel. *)

InTable(p) == proc[p].life \in {"alive", "zombie"}

At(p, pc) == proc[p].life = "alive" /\ proc[p].pc = pc

Goto(p, pc) == proc' = [proc EXCEPT ![p].pc = pc]

\* The invocation exits, whatever its exit code; its parent has not waited.
Exit(p) ==
  proc' = [proc EXCEPT ![p] = [Unborn EXCEPT !.life = "zombie", !.pid = proc[p].pid]]

Die(p) ==
  /\ proc[p].life = "alive"
  /\ Exit(p)
  /\ UNCHANGED <<journal, agents>>

Reap(p) ==
  /\ proc[p].life = "zombie"
  /\ proc' = [proc EXCEPT ![p] = [Unborn EXCEPT !.life = "reaped"]]
  /\ UNCHANGED <<journal, agents>>

\* holder_state = Gone.  `readable` says whether /proc/<pid>/stat could be read.
HolderGoneOrUnreadable(h, readable) ==   \* mutant: no answer is taken for an absence
  \/ \A q \in Proc : InTable(q) => proc[q].pid # h.pid
  \/ ~readable
  \/ \E q \in Proc : /\ InTable(q) /\ proc[q].pid = h.pid
                     /\ \/ proc[q].life = "zombie"
                        \/ h.token # NoProc /\ h.token # q

HolderGone(h, readable) ==
  \/ \A q \in Proc : InTable(q) => proc[q].pid # h.pid
  \/ /\ readable
     /\ \E q \in Proc : /\ InTable(q) /\ proc[q].pid = h.pid
                        /\ \/ proc[q].life = "zombie"
                           \/ h.token # NoProc /\ h.token # q

-----------------------------------------------------------------------------
(* fetch_open_run: the copy of the Run this invocation works from. *)

Begin(r) ==
  CASE runs[r].made = "no" -> "create"
    [] runs[r].made \in {"created", "buried"} -> "reserve"
    [] runs[r].made = "bound" -> IF runs[r].selection = NoSelection
                                 THEN "request" ELSE "attempt"

Fetch(p) ==
  /\ proc[p].life = "unborn"
  /\ runs[opened].state = "open"
  /\ \E i \in Pid, s \in Session :
     \E sel \in IF runs[opened].selection = NoSelection
               THEN Selection ELSE {runs[opened].selection} :
       /\ \A q \in Proc : InTable(q) => proc[q].pid # i
       /\ proc' = [proc EXCEPT ![p] =
            [life |-> "alive", pc |-> Begin(opened), pid |-> i, session |-> s,
             run |-> opened,
             selection |-> sel,
             bound |-> runs[opened].selection # NoSelection,
             launched |-> runs[opened].launched]]
  /\ UNCHANGED <<journal, agents>>

-----------------------------------------------------------------------------
(* handle_record. *)

\* The Run is its Waypoint's current one and has not settled.
Recordable(p) == proc[p].run = opened /\ runs[opened].state = "open"

\* admit_outcome_record: only the holder of the attempt speaks for the Run.
Mine(p) ==
  \/ runs[proc[p].run].holder = NoHolder
  \/ runs[proc[p].run].holder.pid = proc[p].pid

RecordCreated(p) ==
  /\ At(p, "create")
  /\ IF Recordable(p) /\ runs[opened].made = "no"
     THEN /\ runs' = [runs EXCEPT ![opened].made = "created"]
          /\ Goto(p, "reserve")
     ELSE Exit(p) /\ UNCHANGED runs
  /\ UNCHANGED <<opened, agents>>

\* The materialized World must immediately follow this Run's WorktreeCreated.
RecordReserved(p) ==
  /\ At(p, "reserve")
  /\ IF Recordable(p) /\ runs[opened].made = "created"
     THEN /\ runs' = [runs EXCEPT ![opened].made = "bound"]
          /\ Goto(p, "request")
     ELSE Exit(p) /\ UNCHANGED runs
  /\ UNCHANGED <<opened, agents>>

RecordRequestAgain(p) ==   \* mutant: a second request for one Run is not refused
  /\ At(p, "request")
  /\ IF Recordable(p) /\ runs[opened].made = "bound"
     THEN /\ runs' = [runs EXCEPT ![opened].selection = proc[p].selection]
          /\ Goto(p, "attempt")
     ELSE Exit(p) /\ UNCHANGED runs
  /\ UNCHANGED <<opened, agents>>

\* RunLaunchRequested: at most one per Run.
RecordRequest(p) ==
  /\ At(p, "request")
  /\ IF Recordable(p) /\ runs[opened].made = "bound"
        /\ runs[opened].selection = NoSelection
     THEN /\ runs' = [runs EXCEPT ![opened].selection = proc[p].selection]
          /\ Goto(p, "attempt")
     ELSE Exit(p) /\ UNCHANGED runs
  /\ UNCHANGED <<opened, agents>>

AdmitsAnywhere(r, p, readable) ==   \* mutant: the destination is not compared
  \/ runs[r].holder = NoHolder
  \/ runs[r].holder.pid = proc[p].pid
  \/ HolderGone(runs[r].holder, readable)

\* admit_launch_attempt.
Admits(r, p, readable) ==
  \/ runs[r].holder = NoHolder
  \/ /\ runs[r].session = proc[p].session
     /\ \/ runs[r].holder.pid = proc[p].pid
        \/ HolderGone(runs[r].holder, readable)

\* RunLaunchAttempted.  The holder is minted from the peer's credentials;
\* its start token may be unreadable, and so may the old holder's stat.
RecordAttempt(p) ==
  /\ At(p, "attempt")
  /\ \E readable, named \in BOOLEAN :
       IF Recordable(p) /\ runs[opened].selection # NoSelection
          /\ Admits(opened, p, readable)
       THEN /\ runs' = [runs EXCEPT
                 ![opened].holder = [pid |-> proc[p].pid,
                                     token |-> IF named THEN p ELSE NoProc],
                 ![opened].session = proc[p].session]
            /\ Goto(p, IF proc[p].bound THEN "ask" ELSE "start")
       ELSE Exit(p) /\ UNCHANGED runs
  /\ UNCHANGED <<opened, agents>>

\* RunFailed, when Herdr itself answered that no such agent exists.
RecordAbsence(p) ==
  /\ At(p, "absent")
  /\ IF Recordable(p) /\ Mine(p)
     THEN runs' = [runs EXCEPT ![opened].state = "failed", ![opened].cause = "absent"]
     ELSE UNCHANGED runs
  /\ Exit(p)
  /\ UNCHANGED <<opened, agents>>

\* RunLaunched: at most one, of the request that was bound.
Report(p) ==
  /\ At(p, "report")
  /\ IF Recordable(p) /\ Mine(p) /\ ~runs[opened].launched
        /\ runs[opened].selection = proc[p].selection
     THEN /\ runs' = [runs EXCEPT ![opened].launched = TRUE]
          /\ Goto(p, "drive")
     ELSE Exit(p) /\ UNCHANGED runs
  /\ UNCHANGED <<opened, agents>>

-----------------------------------------------------------------------------
(* Herdr, asked by the name every launch of the Run uses. *)

Live(s, r) == agents[s][r] # NoSelection

AskTakesErrors(p) ==   \* mutant: no answer is taken for an absence
  /\ At(p, "ask")
  /\ \/ Live(proc[p].session, proc[p].run) /\ Goto(p, "drive")
     \/ Goto(p, IF proc[p].launched THEN "absent" ELSE "start")
  /\ UNCHANGED <<journal, agents>>

\* observe_admitted_launch.  What was fetched before the admission says whether
\* an absent agent is launched or is the end of the Run.
Ask(p) ==
  /\ At(p, "ask")
  /\ \/ Exit(p)   \* Herdr does not answer, or the pane cannot be attached to
     \/ /\ Live(proc[p].session, proc[p].run)
        /\ Goto(p, "drive")
     \/ /\ ~Live(proc[p].session, proc[p].run)
        /\ Goto(p, IF proc[p].launched THEN "absent" ELSE "start")
  /\ UNCHANGED <<journal, agents>>

\* launch_actor.  The name is free or the start is refused; a reply may be lost
\* after the agent started.
Start(p) ==
  /\ At(p, "start")
  /\ \/ /\ ~Live(proc[p].session, proc[p].run)
        /\ agents' = [agents EXCEPT ![proc[p].session][proc[p].run] = proc[p].selection]
        /\ Goto(p, "report") \/ Goto(p, "startError")
     \/ UNCHANGED agents /\ Goto(p, "startError")
  /\ UNCHANGED journal

\* launch, after agent.start returned an error.
AskAfterStart(p) ==
  /\ At(p, "startError")
  /\ \/ Exit(p)   \* live, or no answer: neither confirmed nor failed
     \/ ~Live(proc[p].session, proc[p].run) /\ Goto(p, "absent")
  /\ UNCHANGED <<journal, agents>>

\* The drive is over: with a RunFailed or RunVanished of its own, or without.
EndDrive(p) ==
  /\ At(p, "drive")
  /\ \/ UNCHANGED runs
     \/ /\ Recordable(p) /\ Mine(p)
        /\ runs' = [runs EXCEPT ![opened].state = "failed", ![opened].cause = "drive"]
  /\ Exit(p)
  /\ UNCHANGED <<opened, agents>>

AgentExits(s, r) ==
  /\ Live(s, r)
  /\ agents' = [agents EXCEPT ![s][r] = NoSelection]
  /\ UNCHANGED <<journal, proc>>

-----------------------------------------------------------------------------
(* The rest of the Work. *)

\* The actor's Claim, or a cancel, ends the current Run.
Settle ==
  /\ runs[opened].state = "open"
  /\ runs' = [runs EXCEPT ![opened].state = "claimed"]
  /\ UNCHANGED <<opened, proc, agents>>

Reopened(r) ==
  [NoRun EXCEPT !.state = "open", !.made = IF runs[r].made = "bound" THEN "bound" ELSE "no"]

RetryKeepsOpen ==   \* mutant: the Run a retry replaces is left open
  /\ opened < MaxRuns
  /\ runs[opened].state # "claimed"
  /\ opened' = opened + 1
  /\ runs' = [runs EXCEPT ![opened + 1] = Reopened(opened)]
  /\ UNCHANGED <<proc, agents>>

\* handle_retry: the old Run is failed if nothing settled it, a new one opened.
Retry ==
  /\ opened < MaxRuns
  /\ runs[opened].state # "claimed"
  /\ opened' = opened + 1
  /\ runs' = [runs EXCEPT
       ![opened] = IF @.state = "open" THEN [@ EXCEPT !.state = "retried"] ELSE @,
       ![opened + 1] = Reopened(opened)]
  /\ UNCHANGED <<proc, agents>>

\* Any other append of this Work's journal: a refused Claim, a question.
OtherAppend ==
  /\ runs[opened].made = "created"
  /\ runs' = [runs EXCEPT ![opened].made = "buried"]
  /\ UNCHANGED <<opened, proc, agents>>

Step(p) ==
  \/ Fetch(p) \/ RecordCreated(p) \/ RecordReserved(p) \/ RecordRequest(p)
  \/ RecordAttempt(p) \/ Ask(p) \/ Start(p) \/ AskAfterStart(p)
  \/ RecordAbsence(p) \/ Report(p) \/ EndDrive(p)

Next ==
  \/ \E p \in Proc : Step(p) \/ Die(p) \/ Reap(p)
  \/ \E s \in Session, r \in RunId : AgentExits(s, r)
  \/ Settle \/ Retry \/ OtherAppend

Spec == Init /\ [][Next]_vars

-----------------------------------------------------------------------------
Holder == [pid : Pid \union {NoPid}, token : Proc \union {NoProc}]

\* Types; and what is behind the current Run is settled, what is past it unopened.
TypeOK ==
  /\ opened \in RunId
  /\ runs \in [RunId ->
       [state : {"none", "open", "failed", "retried", "claimed"},
        cause : {"none", "absent", "drive"},
        made : {"no", "created", "buried", "bound"},
        selection : Selection \union {NoSelection}, launched : BOOLEAN,
        holder : Holder, session : Session \union {NoSession}]]
  /\ \A r \in RunId : /\ r <= opened => runs[r].state # "none"
                      /\ r < opened => runs[r].state # "open"
                      /\ r > opened => runs[r] = NoRun
  /\ proc \in [Proc ->
       [life : {"unborn", "alive", "zombie", "reaped"},
        pc : {"none", "create", "reserve", "request", "attempt", "ask", "start",
              "startError", "absent", "report", "drive"},
        pid : Pid \union {NoPid}, session : Session \union {NoSession},
        run : 0..MaxRuns, selection : Selection \union {NoSelection},
        bound : BOOLEAN, launched : BOOLEAN]]
  /\ agents \in [Session -> [RunId -> Selection \union {NoSelection}]]

\* Past its admission, an invocation may start, prompt and speak for the Run.
Driving(p) ==
  /\ proc[p].life = "alive"
  /\ proc[p].pc \in {"ask", "start", "startError", "absent", "report", "drive"}

\* No two live invocations are past the admission of one Run's launch attempt,
\* whatever died, was not reaped, or had its pid reused in between
\* (server.rs, admit_launch_attempt: exactly one live process at a time).
OneDriver ==
  \A p, q \in Proc :
    Driving(p) /\ Driving(q) /\ proc[p].run = proc[q].run => p = q

\* At most one session holds a live agent of a Run, although an agent name is
\* unique only inside one (run_loop.rs, launch: "across two Herdr sessions").
OneLiveAgent ==
  \A r \in RunId, s, t \in Session : Live(s, r) /\ Live(t, r) => s = t

\* An agent runs what the Run's one RunLaunchRequested bound, whichever
\* invocation started it and whatever that one was asked for.
LaunchedAsBound ==
  \A s \in Session, r \in RunId : Live(s, r) => agents[s][r] = runs[r].selection

\* A Run that a launch or a reattachment declares failed because Herdr has no
\* such agent really has none at that moment: nothing started one between the
\* answer and the record, in any session (run_loop.rs, launch and
\* observe_admitted_launch: a failure "that discards a live agent").
FailureIsAbsence ==
  [][\A r \in RunId :
       runs[r].cause # "absent" /\ runs'[r].cause = "absent"
         => \A s \in Session : ~Live(s, r)]_vars

\* A Run whose launch was recorded is never launched again (run_loop.rs,
\* observe_admitted_launch: "a second external execution ... is refused").
NoRelaunch ==
  [][\A s \in Session, r \in RunId :
       runs[r].launched /\ ~Live(s, r) => agents'[s][r] = NoSelection]_vars

\* A Run whose materialization was interrupted can still be materialized
\* (executor.rs, run_command: "completing an interrupted materialization").
Resumable == runs[opened].state = "open" => runs[opened].made # "buried"
=============================================================================
