------------------------------ MODULE OwnedJobs ------------------------------
(***************************************************************************)
(* An expensive job that is a child process: BoundedChild::run, its        *)
(* watchdog and writer threads, the record that outlives the daemon, and   *)
(* the recovery of the next owner of the estate's store.                   *)
(*                                                                         *)
(* A job is up to three kinds of process: the direct child, what it forks  *)
(* in its own process group, and what left the group with setsid().  A     *)
(* kill of the group reaches the first two.  A kill of the job's cgroup    *)
(* reaches all, where the host lets this process have one, where the child *)
(* joined it before exec (a join that fails is ignored) and where the kill *)
(* works in the time it is given (nor is that waited for any longer).      *)
(* Every process may hold the job's pipes.  When the daemon dies, the      *)
(* kernel kills the direct child and nothing else.                         *)
(***************************************************************************)
EXTENDS Naturals, FiniteSets

CONSTANTS
  ChildJob,     \* jobs that are child processes, run one at a time: every verb takes the atlas mutex
  MaxDeaths,    \* bound: times the daemon dies
  RecordMayFail \* whether writing the job's record may fail, which is ignored

ASSUME OwnedJobsAssumption == MaxDeaths \in Nat /\ RecordMayFail \in BOOLEAN

VARIABLES
  run,        \* per job: where the threads of BoundedChild::run are
  procs,      \* per job: its live processes
  pipes,      \* per job: those of them that still hold its output open, while it is read
  cgroup,     \* the jobs whose cgroup directory exists
  records,    \* <estate>/.wirk/jobs
  registry,   \* JobRegistry, in the daemon's memory
  cancelled,  \* the jobs whose token was set
  daemon      \* is it "up", "down" or "recovering"; its deaths; the records this recovery acted on

processes == <<procs, pipes>>
ownedVars == <<run, procs, pipes, cgroup, records, registry, cancelled, daemon>>

Process == {"child", "grandchild", "escaped"}
Group   == {"child", "grandchild"}

\* inside: its child joined its cgroup.  spared: its cgroup was given up with
\* processes in it.  ended, finished, why: what the threads share.  output: how
\* much of it was read before the job was waited for.
NotRun == [pc |-> "new", inside |-> FALSE, spared |-> FALSE, child |-> "none", watchdog |-> "none", writer |-> "none",
           ended |-> FALSE, finished |-> FALSE, why |-> FALSE,
           output |-> "none", result |-> "none"]

OwnedInit ==
  /\ run = [j \in ChildJob |-> NotRun]
  /\ procs = [j \in ChildJob |-> {}] /\ pipes = [j \in ChildJob |-> {}]
  /\ cgroup = {} /\ records = {} /\ registry = {} /\ cancelled = {}
  /\ daemon = [state |-> "up", deaths |-> 0, seen |-> {}]

Up == daemon.state = "up"

RunAt(j, pc) == Up /\ run[j].pc = pc

Active(j) == run[j].pc \notin {"new", "done", "lost"}

-----------------------------------------------------------------------------
(* Kills. *)

Kill(j, ps) ==
  /\ procs' = [procs EXCEPT ![j] = @ \ ps]
  /\ pipes' = [pipes EXCEPT ![j] = @ \ ps]

\* The direct child is a zombie until it is waited for.
Bury(r, ps) == IF "child" \in ps /\ r.child = "alive" THEN [r EXCEPT !.child = "zombie"] ELSE r

InCgroup(j) == IF j \in cgroup /\ run[j].inside THEN procs[j] ELSE {}

\* The write to cgroup.kill works in time, or not; its result is not looked at.
Reached(j, works) == IF works THEN Group \cup InCgroup(j) ELSE Group

\* The kill and the removal: rmdir succeeds when nothing is left in the cgroup,
\* and is given up after five seconds.
Shut(j, ps) ==
  LET left == InCgroup(j) \ ps IN
  /\ Kill(j, ps)
  /\ cgroup' = IF left = {} THEN cgroup \ {j} ELSE cgroup
  /\ run' = [run EXCEPT ![j].spared = left # {},
                        ![j].pc = IF @ = "dropping" THEN "clearing" ELSE @]

-----------------------------------------------------------------------------
(* BoundedChild::run, the thread of the caller. *)

\* JobCgroup::create gives None where the host offers no cgroup.
Create(j) ==
  /\ RunAt(j, "new") /\ \A i \in ChildJob : ~Active(i)
  /\ run' = [run EXCEPT ![j].pc = "created"]
  /\ cgroup' \in {cgroup, cgroup \cup {j}}
  /\ UNCHANGED <<processes, records, registry, cancelled, daemon>>

Record(j) ==
  /\ RunAt(j, "created")
  /\ run' = [run EXCEPT ![j].pc = "recorded"]
  /\ \/ records' = IF j \in cgroup THEN records \cup {j} ELSE records
     \/ RecordMayFail /\ UNCHANGED records
  /\ UNCHANGED <<processes, cgroup, registry, cancelled, daemon>>

Register(j) ==
  /\ RunAt(j, "recorded")
  /\ run' = [run EXCEPT ![j].pc = "registered"]
  /\ registry' = registry \cup {j}
  /\ UNCHANGED <<processes, cgroup, records, cancelled, daemon>>

SpawnReadyEarly == {"created", "registered"}   \* mutant: recorded after it was started

SpawnReady == {"registered"}

\* spawn returns when the child has exec'ed: it is in its group, and in its
\* cgroup unless cgroup.procs could not be opened (arm does nothing) or the
\* child's write to it failed (not fatal).
Spawn(j) ==
  /\ Up /\ run[j].pc \in SpawnReady
  /\ \E inside \in {b \in BOOLEAN : b => j \in cgroup} :
       run' = [run EXCEPT ![j].pc = "draining", ![j].inside = inside, ![j].child = "alive",
                          ![j].watchdog = "watching", ![j].writer = "writing"]
  /\ procs' = [procs EXCEPT ![j] = {"child"}]
  /\ pipes' = [pipes EXCEPT ![j] = {"child"}]
  /\ UNCHANGED <<cgroup, records, registry, cancelled, daemon>>

\* spawn fails; or stdin cannot be bounded, and stop_and_reap ends the child.
SpawnFails(j) ==
  /\ RunAt(j, "registered")
  /\ run' = [run EXCEPT ![j].pc = "dropping", ![j].child = "reaped", ![j].output = "error",
                        ![j].watchdog = "gone", ![j].writer = "err"]
  /\ UNCHANGED <<processes, cgroup, records, registry, cancelled, daemon>>

\* drain_until_ended.
DrainToEof(j) ==
  /\ RunAt(j, "draining") /\ ~run[j].ended /\ pipes[j] = {}
  /\ run' = [run EXCEPT ![j].pc = "waiting", ![j].output = "whole"]
  /\ UNCHANGED <<processes, cgroup, records, registry, cancelled, daemon>>

DrainNeverEnded(j) == FALSE   \* mutant: wait_with_output, which waits for EOF

\* Its ends of the pipes are dropped with it.
DrainEnded(j) ==
  /\ RunAt(j, "draining") /\ run[j].ended
  /\ run' = [run EXCEPT ![j].pc = "waiting", ![j].output = "part"]
  /\ pipes' = [pipes EXCEPT ![j] = {}]
  /\ UNCHANGED <<procs, cgroup, records, registry, cancelled, daemon>>

\* The output cannot be read: the job is ended here.
DrainFails(j) ==
  /\ RunAt(j, "draining")
  /\ \E ps \in {Reached(j, works) : works \in BOOLEAN} :
       /\ procs' = [procs EXCEPT ![j] = @ \ ps]
       /\ pipes' = [pipes EXCEPT ![j] = {}]
       /\ run' = [run EXCEPT ![j] = Bury([@ EXCEPT !.pc = "waiting", !.output = "error",
                                                   !.ended = TRUE], ps)]
  /\ UNCHANGED <<cgroup, records, registry, cancelled, daemon>>

Reap(j) ==
  /\ RunAt(j, "waiting") /\ run[j].child = "zombie"
  /\ run' = [run EXCEPT ![j].pc = "joining", ![j].child = "reaped",
                        ![j].ended = TRUE, ![j].finished = TRUE]
  /\ UNCHANGED <<processes, cgroup, records, registry, cancelled, daemon>>

Join(j) ==
  /\ RunAt(j, "joining") /\ run[j].watchdog = "gone" /\ run[j].writer \in {"ok", "err"}
  /\ run' = [run EXCEPT ![j].pc = "dropping"]
  /\ UNCHANGED <<processes, cgroup, records, registry, cancelled, daemon>>

\* A kill by the watchdog is a cancellation whatever else went wrong.
Outcome(r) ==
  IF r.why THEN "Cancelled"
  ELSE IF r.output = "error" \/ r.writer = "err" THEN "Failed" ELSE "Finished"

DropOnFailure(j) ==   \* mutant: what a successful job forked is left running
  /\ RunAt(j, "dropping")
  /\ \E works \in BOOLEAN : Shut(j, IF Outcome(run[j]) = "Finished" THEN {} ELSE Reached(j, works))
  /\ UNCHANGED <<records, registry, cancelled, daemon>>

\* kill_process_group and drop(cgroup), on every path.
DropGroups(j) ==
  /\ RunAt(j, "dropping")
  /\ \E works \in BOOLEAN : Shut(j, Reached(j, works))
  /\ UNCHANGED <<records, registry, cancelled, daemon>>

Clear(j) ==
  /\ RunAt(j, "clearing")
  /\ records' = records \ {j} /\ registry' = registry \ {j}
  /\ run' = [run EXCEPT ![j].pc = "done", ![j].result = Outcome(run[j])]
  /\ UNCHANGED <<processes, cgroup, cancelled, daemon>>

-----------------------------------------------------------------------------
(* Its watchdog and its writer. *)

Watchdog(j, at, next) ==
  /\ Up /\ run[j].watchdog = at
  /\ run' = [run EXCEPT ![j].watchdog = next]

SeeFinished(j) ==
  /\ run[j].finished
  /\ Watchdog(j, "watching", "gone")
  /\ UNCHANGED <<processes, cgroup, records, registry, cancelled, daemon>>

\* The deadline, where the estate has one, or the token.
SeeWhy(j, deadline) ==
  /\ Up /\ run[j].watchdog = "watching" /\ ~run[j].finished
  /\ deadline \/ j \in cancelled
  /\ run' = [run EXCEPT ![j].watchdog = "killing", ![j].why = TRUE]
  /\ UNCHANGED <<processes, cgroup, records, registry, cancelled, daemon>>

WatchdogKills(j) ==
  /\ Up /\ run[j].watchdog = "killing"
  /\ \E ps \in {Reached(j, works) : works \in BOOLEAN} :
       /\ Kill(j, ps)
       /\ run' = [run EXCEPT ![j] = Bury([@ EXCEPT !.watchdog = "ending"], ps)]
  /\ UNCHANGED <<cgroup, records, registry, cancelled, daemon>>

WatchdogEnds(j) ==
  /\ Up /\ run[j].watchdog = "ending"
  /\ run' = [run EXCEPT ![j].watchdog = "gone", ![j].ended = TRUE]
  /\ UNCHANGED <<processes, cgroup, records, registry, cancelled, daemon>>

\* BoundedStdin: the request is written whole, or its reader is gone, or the
\* job ended first.  With nobody reading and nobody gone it is retried.
Written(j) ==
  /\ Up /\ run[j].writer = "writing" /\ procs[j] # {}
  /\ run' = [run EXCEPT ![j].writer = "ok"]
  /\ UNCHANGED <<processes, cgroup, records, registry, cancelled, daemon>>

WriteFails(j) ==
  /\ Up /\ run[j].writer = "writing" /\ (procs[j] = {} \/ run[j].ended)
  /\ run' = [run EXCEPT ![j].writer = "err"]
  /\ UNCHANGED <<processes, cgroup, records, registry, cancelled, daemon>>

-----------------------------------------------------------------------------
(* The job's own processes. *)

Forks(j) ==
  /\ "child" \in procs[j]
  /\ \E p \in {"grandchild", "escaped"} \ procs[j] :
       /\ procs' = [procs EXCEPT ![j] = @ \cup {p}]
       /\ pipes' = [pipes EXCEPT ![j] = IF "child" \in @ THEN @ \cup {p} ELSE @]
  /\ UNCHANGED <<run, cgroup, records, registry, cancelled, daemon>>

ClosesOutput(j) ==
  /\ \E p \in pipes[j] : pipes' = [pipes EXCEPT ![j] = @ \ {p}]
  /\ UNCHANGED <<run, procs, cgroup, records, registry, cancelled, daemon>>

Exits(j) ==
  /\ \E p \in procs[j] :
       /\ Kill(j, {p})
       /\ run' = [run EXCEPT ![j] = Bury(@, {p})]
  /\ UNCHANGED <<cgroup, records, registry, cancelled, daemon>>

-----------------------------------------------------------------------------
(* The operator, the daemon's end, and the next owner. *)

\* JobRegistry::cancel reaches what is registered.
Cancel(j) ==
  /\ Up /\ j \in registry
  /\ cancelled' = cancelled \cup {j}
  /\ UNCHANGED <<run, processes, cgroup, records, registry, daemon>>

\* The threads and the registry are gone, and PDEATHSIG ends the direct child.
DaemonDies ==
  /\ daemon.state # "down" /\ daemon.deaths < MaxDeaths
  /\ daemon' = [state |-> "down", deaths |-> daemon.deaths + 1, seen |-> {}]
  /\ run' = [j \in ChildJob |-> IF Active(j)
                          THEN [NotRun EXCEPT !.pc = "lost", !.inside = run[j].inside, !.spared = run[j].spared]
                          ELSE run[j]]
  /\ procs' = [j \in ChildJob |-> procs[j] \ (IF Active(j) THEN {"child"} ELSE {})]
  /\ pipes' = [j \in ChildJob |-> {}]
  /\ registry' = {}
  /\ UNCHANGED <<cgroup, records, cancelled>>

\* AtlasStore::open, under the owner lock.
Reopen ==
  /\ daemon.state = "down"
  /\ daemon' = [daemon EXCEPT !.state = "recovering"]
  /\ UNCHANGED <<run, processes, cgroup, records, registry, cancelled>>

\* recover_owned_jobs: the cgroup is killed and removed, then the record is,
\* whether or not that worked.
RecoverJob(j) ==
  /\ daemon.state = "recovering" /\ j \in (records \cap cgroup) \ daemon.seen
  /\ \E works \in BOOLEAN : Shut(j, IF works THEN InCgroup(j) ELSE {})
  /\ daemon' = [daemon EXCEPT !.seen = @ \cup {j}]
  /\ UNCHANGED <<records, registry, cancelled>>

ForgetJob(j) ==
  /\ daemon.state = "recovering" /\ j \in records /\ (j \in cgroup => j \in daemon.seen)
  /\ records' = records \ {j}
  /\ UNCHANGED <<run, processes, cgroup, registry, cancelled, daemon>>

Recovered ==
  /\ daemon.state = "recovering" /\ records = {}
  /\ daemon' = [daemon EXCEPT !.state = "up", !.seen = {}]
  /\ UNCHANGED <<run, processes, cgroup, records, registry, cancelled>>

-----------------------------------------------------------------------------

Main(j) ==
  \/ Record(j) \/ Register(j) \/ Spawn(j) \/ DrainToEof(j) \/ DrainEnded(j)
  \/ Reap(j) \/ Join(j) \/ DropGroups(j) \/ Clear(j)

Guarding(j) == SeeFinished(j) \/ SeeWhy(j, FALSE) \/ WatchdogKills(j) \/ WatchdogEnds(j)

Recovery == Recovered \/ \E j \in ChildJob : RecoverJob(j) \/ ForgetJob(j)

OwnedNext ==
  \/ \E j \in ChildJob :
       \/ Create(j) \/ Main(j) \/ SpawnFails(j) \/ DrainFails(j)
       \/ Guarding(j) \/ SeeWhy(j, TRUE) \/ Written(j) \/ WriteFails(j)
       \/ Forks(j) \/ ClosesOutput(j) \/ Exits(j) \/ Cancel(j)
  \/ DaemonDies \/ Reopen \/ Recovery

OwnedSpec == OwnedInit /\ [][OwnedNext]_ownedVars

\* The three threads of a job go on while the daemon lives, and so does the
\* recovery.  Nothing is promised of the job's own processes, of its deadline or
\* of anybody's coming back.
OwnedFairSpec ==
  /\ OwnedSpec
  /\ \A j \in ChildJob : WF_ownedVars(Main(j)) /\ WF_ownedVars(Guarding(j)) /\ WF_ownedVars(WriteFails(j))
  /\ WF_ownedVars(Recovery)

-----------------------------------------------------------------------------
(* Properties. *)

RunPC == {"new", "created", "recorded", "registered", "draining", "waiting", "joining",
       "dropping", "clearing", "done", "lost"}

\* Types; and a job's pipes are held by live processes, or by nobody.
OwnedTypeOK ==
  /\ run \in [ChildJob -> [pc : RunPC, inside : BOOLEAN, spared : BOOLEAN, child : {"none", "alive", "zombie", "reaped"},
                      watchdog : {"none", "watching", "killing", "ending", "gone"},
                      writer : {"none", "writing", "ok", "err"},
                      ended : BOOLEAN, finished : BOOLEAN, why : BOOLEAN,
                      output : {"none", "whole", "part", "error"},
                      result : {"none", "Finished", "Cancelled", "Failed"}]]
  /\ procs \in [ChildJob -> SUBSET Process]
  /\ \A j \in ChildJob : pipes[j] \subseteq procs[j]
  /\ cgroup \subseteq ChildJob /\ records \subseteq ChildJob
  /\ registry \subseteq ChildJob /\ cancelled \subseteq ChildJob
  /\ daemon.state \in {"up", "down", "recovering"} /\ daemon.deaths \in 0..MaxDeaths
  /\ daemon.seen \subseteq ChildJob

\* Whenever the daemon may die, the job processes that would outlive it in a
\* cgroup are on record for the next owner to find, but for those of a cgroup
\* that was already killed in vain.
LiveIsRecorded == \A j \in cgroup : procs[j] # {} /\ ~run[j].spared => j \in records

\* What the end of a job leaves nothing of: all of it where its child had joined
\* its cgroup and the last kill of that worked, its group where its thread came
\* to the end, its direct child in any case.
Ended(j) ==
  IF run[j].inside /\ ~run[j].spared THEN Process
  ELSE IF run[j].pc = "done" THEN Group ELSE {"child"}

\* Once the daemon serves (again), a job that is over has left none of these running.
NothingIsLeft ==
  Up => \A j \in ChildJob : run[j].pc \in {"done", "lost"} => procs[j] \cap Ended(j) = {}

\* Finished means the whole request was written and the whole answer read, and
\* nobody killed the job.
FinishedIsWhole ==
  \A j \in ChildJob : run[j].result = "Finished" =>
    run[j].output = "whole" /\ run[j].writer = "ok" /\ ~run[j].why

\* What a caller is told of a job that is over is so: nothing of it runs on that
\* its kills could reach, and Finished means all of it.
OverIsOver == OwnedTypeOK /\ NothingIsLeft /\ FinishedIsWhole

\* A cancelled job ends, or its daemon does: no descendant that escaped the
\* kill and kept the pipes can hold the thread that runs it.
CancelEnds == \A j \in ChildJob : j \in cancelled ~> (run[j].pc \in {"done", "lost"})

=============================================================================
