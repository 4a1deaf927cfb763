# wirk in TLA+

A TLA+ development of `wirk`, kept beside its source. It models the parts of the
program whose correctness depends on interleaving, on what survives a crash, and on
long sequences of legal requests; TLC checks them on small instances and TLAPS proves
the properties that matter most for every instance.

    tlc -workers 2 -config flat.cfg MCWorkEngine     # any run of PROJECT.json
    tlapm WorkEngineProofs.tla                       # any *Proofs module

`PROJECT.json` is the index: components, runs, the mutant that shows each property
can fail, the source lines behind each definition, findings, hazards, theorems.
Below, `lib.rs` is `src/wirk-core/src/lib.rs`, `server.rs` is
`src/wirk/src/wirkd/server.rs`, `run_loop.rs` is `src/wirk-herdr/src/run_loop.rs` and
`jobs.rs` is `src/wirk-core/src/jobs.rs`.

## 1. The system

`wirk` runs Works. A **Work** follows a **Route**, a tree of Waypoints whose leaves
are done by **Runs** (a process, a container, or an actor in a terminal pane) and
whose inner nodes, containers, group leaves and may wait for **child Works**. One
daemon per estate, `wirkd`, owns every Work's journal and answers one request per
connection, each on a thread of its own. A Work has no stored state: it is the fold
of its journal.

### Inventory

| Component | State it keeps | Operations | Hard behaviour | What makes it correct | Module |
|---|---|---|---|---|---|
| Work reducer and Route (`lib.rs` `fold`, `validate_tree`) | none; a Work is computed from events: state, current Waypoint, open question, hold, activations | one arm per event kind | events of old Runs, old activations and terminal Works arrive late | completed only when everything is; terminal stays; a question is not lost | `WorkFold` |
| Claim, failure, retry, give-up (`server.rs`) | Runs and Waypoints, through the journal | `handle_claim`, `handle_record`, `handle_retry`, `handle_fail` | several appends per request; the guard is dropped for orienting leaves | one advance per Claim; one live line of Runs; no stranded Work | `WorkEngine` |
| Nested work and cancel (`server.rs`) | `ContainerActivated`, `StageHeld`, `StageClosed`, `ChildWorkSpawned` | `evaluate_closure`, `reevaluate_parent`, `spawn_child_on_parent`, `cancel_work` | child and parent threads race; receipts of superseded attempts | a closed container has all it requires; a wait is answered | `WorkEngine` |
| Restart sweep | none | `reevaluate_waiting_works` | a crash between any two appends | no Work waits for ever | `WorkEngine` |
| Submit | Work directory, journal, first Run | `handle_submit` | parent recorded before the child exists | a spawn without a child blocks nothing for ever | `WorkEngine` (partly) |
| Journal (`lib.rs`) | one NDJSON file per Work, `next_seq` | open, append, replay | torn writes, failed fsync, kill, power loss | acknowledged events are replayed, or the replay fails | `Journal` |
| Outputs, clean (`outputs.rs`, `clean_work`) | write-once files under `outputs/claims`, checkouts, staging | publish, `handle_clean` | a stop between fsync, rename and record; removal with no guard held | what a receipt names is there, whole | `Custody` |
| Watch streams (`server.rs`) | Senders per Work, estate wakers, cursors | `append_event`, two connection handlers, `estate_drain` | append between replay and registration; lost wakeup | each client reads every event once, in order | `WatchStreams` |
| Launch admission (`server.rs` 742-1016, 3414-3929; `executor.rs`, `run_loop.rs` `launch`) | the request, holder (pid, start time), destination and outcome of each Run; a copy of it in each invocation | fetch, materialize, bind, admit, ask, start, report | pid reuse, zombie, two executors, late report, lost reply | one executor at a time drives a Run, one agent runs it, as bound | `LaunchAdmission` |
| Herdr run loop (`run_loop.rs` `drive`) | prompt gate, progress baseline, last status, two event streams | resume, observe, prompt, declare stuck | two unsynchronised streams; a human at the pane | no actor flooded, or pressed when it is done; every turn end is answered | `RunLoop` |
| Journal lock discipline, settlement (`server.rs` 7077-7172, 15400-18700) | one guard per Work, the Atlas mutex, findings in journals | raise, assert, settle, apply, closure, advance, inventory | observation taken without guards; several Works' guards | no circle of mutexes; a record rests on facts that held | `JournalGuards` |
| Findings index and its health (`server.rs`, `wirk-atlas/src/store.rs`) | `findings.ndjson`, its preserved copies, `IndexHealth` | sweep, rebuild, retire | tickets out of order, failed fsync, files removed or damaged | `complete` is only said when it is so | `FindingsIndex` |
| Expensive jobs (`jobs.rs`) | slot lock files, `capacity.json`; job records, process groups, cgroups | admit, wait; `BoundedChild::run`, recover | forks, dead owners, deadlines, descendants that escape | a pool is a semaphore; a job that is over left nothing running that its kills could reach | `JobSlots`, `OwnedJobs` |
| World projection (`projection.rs`) | revisions of a Run's world | assemble, expand | journal moves under the expansion | a revision extends the current one | - |
| Executors, docker recovery, daemon start | containers named after Runs; the socket | run, match at restart, bind | container outlives the daemon; two daemons | each Run is settled once | - |
| Atlas (`wirk-atlas`) | document store, indexes | extract, index, query | publication is a rename | readers see one edition | - |
| Storage, socket client, CLI, browser, hooks, plugin | little | | | | - |

Components interact in five ways: requests over a socket (each a handler of the
daemon), journals (everything a handler decides is read from one and written to one),
the guard of a Work's journal (`Mutex<Journal>`) and the Atlas mutex, threads that touch
another Work (a child's last Claim re-evaluates its parent; a cancel cascades to
children), and files with their locks, which processes of several estates share.

## 2. What is modelled

Most modules stand alone, because the components meet in the journal and each takes from
it only what it reads. Where they meet otherwise they are composed: `WorkEngine` and
`RunLoop` extend `WorkFold`, `Custody` extends `Journal` (and its proofs those of
`Journal`), `WatchStreams` instantiates `WatchFeed` and `JobSlots` instantiates
`SharedPool`, the two abstract specifications.

### `WorkFold`: the reducer

One operator per arm of `fold` (`lib.rs` 4196-4720): `OnDone`, `OnQuestion`,
`OnBlocked`, `OnStageHeld`... each takes the folded Work, a record of `state`,
`current`, `cause` (the Run and reason of a question), `held` and `activation`, and
returns the next one. The Route is constants: `Leaf`, `Container`, `LeafOrder`
(`flatten_leaves`), `Chain` (`ancestor_chain`), `LastChild`, `TopLast`
(`is_last_direct_child`). `RouteAssumption` states what `validate_tree` guarantees.

### `WorkEngine`: the handlers

The journal is not a sequence here: what handlers ever read of it is kept as `work`
(the fold), `runs`, `outcome` (the last `StageHeld`/`StageClosed` of each container)
and `child`. A handler holds the Work's guard from its first read to its last append,
so a handler with one append is one action, and one with several is cut at its
appends: `step` says what the holder of the guard still has to do. While `step` is not
`Idle` nothing else of this Work runs, but `Crash` and `Falter` (a passing failure) may
end the handler there. The paths that drop the guard have a variable each:

| variable | code | meaning |
|---|---|---|
| `apart` | `advance_to_next_leaf`, 4978-5056 | an orienting advance assembles with no guard held |
| `failing` | `record_transition_failure`, 5060-5100 | a permanent refusal still to be recorded |
| `reeval` | `reevaluate_parent` | another Work's thread, or the sweep, will look at a container |
| `cancel` | `cancel_work`, 8305-8400 | children are canceled between a read and a write |

Actions and handlers: `FileDone`, `FileDoneUnrecorded`, `FileQuestion`,
`FileOutOfBoundary` (`handle_claim`); `CloseContainer`, `HoldContainer` (the cascade,
`evaluate_closure`); `ReserveLeaf`, `RefuseReservation`, `ActivateContainer`,
`OpenReserved` (`reserve_next_leaf`); `RetakeGuard`, `RecordTransitionFailure`;
`RunFails`, `RunVanishes`, `Observe` (`handle_record`); `Retry`, `RetryReserve`,
`RetrySupersede`, `RetryOpen` (`handle_retry`); `GiveUp` (`handle_fail`); `SpawnChild`,
`SubmitChild` (`handle_submit`, `spawn_child_on_parent`); `EndChild`, `Reevaluate`;
`CancelRead`, `CancelChild`, `CancelWrite`; `Crash`, `Restart`, `Serve`.

Abstractions, all of which allow at least what the code does: the checks of a checkout,
a boundary or an output are a choice of the Claim's outcome; a Run's attempt number is
its place in `runs`; the preconditions that admission puts on a lifecycle observation
are only "the Run is driven"; two identical advances in flight are one element of
`apart`; a child Work is an environment process that ends in some way and whose end
re-evaluates its parent; the handlers' replies, text and payloads are left out.

### `LaunchAdmission`: `wirk run`

Several invocations work on the Runs of one Waypoint. `proc[p]` is an invocation: what
the kernel says of its process (`life`, `pid`; a zombie keeps its pid, a reaped one's is
reused), where it is in `run_command` and `RunLoop::launch` (`pc`), and the copy of the
Run that `fetch_open_run` gave it, which nothing reads again. `runs` is what the journal
says, `agents` what is live in each Herdr session. Every record is one action, because
`handle_record` decides it under the guard: `RecordCreated`, `RecordReserved`,
`RecordRequest`, `RecordAttempt`, `Report`, `RecordAbsence`, `EndDrive`. Between them come
`Ask`, `Start`, `AskAfterStart` (Herdr may not answer, and an agent may start although the
reply is lost), `Die`, `Reap`, `AgentExits`, and the rest of the Work: `Settle`, `Retry`,
`OtherAppend`. `HolderGone` is `holder_state`, and reading `/proc` may fail at any time.
Herdr takes a request when it answers it or drops its connection, never later: the client
has no timeout. `release_earlier_panes` closes nothing (section 6), and if it did, that
would be an `AgentExits`. What happens inside the drive is `RunLoop`.

### `RunLoop`: inside one drive

One Run, its pane and the invocations that drive it one after another. `journal` is the
sequence of folded states (by `WorkFold`'s operators) the drive's watch stream delivers,
`events` the statuses Herdr has pushed and the drive has not read: the two streams that
nothing orders. `pane` is the actor (status, prompts on its input line), `drive` the loop's
locals: `pc`, `last` (the last status), `busy` (`PromptGate`), `baseline` (what was read before
the last continuation), `seen` (how far the journal is read), `resumed`. Progress is what two
readings of two signals show, the fingerprint of the worktree and the digest of the declared
outputs: either may be unreadable at either end (`Snapshots`, `Progress`), `Edit` is only what a
signal that was read would now show, and what neither shows is no step. `drive.moved`, `same` and
`since` are what the properties need of it. A Claim may land at any time, between the record of
an idle status and the prompt too: the hook files it as the turn ends, and wirkd asks nothing of
the pane. `late` counts the prompts sent to a Run that had settled.

| group | actions | code |
|---|---|---|
| actor | `Ready`, `TakePrompt`, `EndTurn`, `Block`, `Edit`, `PaneEnds`, `ClaimDone`, `ClaimQuestion`, `ClaimOutOfBoundary` | Herdr's pane, and the daemon's answers |
| human | `HumanAnswers`, `HumanViews`, `Cancel`, `Retry` | |
| start | `Launch` | `launch`, `drive` |
| resume | `Ask`, `AskAbsent`, `Subscribe`, `Reconcile`, `ObserveResumed`, `Authority` | `observe_admitted_launch`, `resume_authority` |
| loop | `ReadStatus`, `Compare`, `DeclareStuck`, `Prepare`, `Send`, `SendFails`, `ReadEnd` | `drive_channel`, `on_status`, `maybe_prompt` |
| journal | `ReadJournal` | `observe_watch` |
| end | `DriveDies` | a kill at any point |

A record of the drive is answered by `Answer`, which is `handle_record`'s order of refusals.
An event that leaves the folded Work as it was is not kept: the drive would decide again
what it has just decided.

### `Journal`: one `journal.ndjson`

`file` is the pieces that writes put into the file; a piece without its newline and
the piece after it are one line. `Open`, `Begin` (a handler takes the guard and
replays), `BeginUnread` (two handlers append on a guard they took again, without a replay),
`Write`, `Sync` (`append`'s `write_all` and `sync_all`), `WriteFails` (nothing,
part, or all but the newline), `SyncFails`, `Kill`, `PowerLoss` (everything fsynced
stays, of the rest a prefix, its last piece perhaps torn). `Good` is `EnvelopeIter`'s
rule: the line parses and its number is the expected one. A kill never cuts a single
`write_all` in two; a failed write may.

### `Custody`: evidence, `Journal` composed with publication and clean

`said[e]` is what the e-th event says, so that `Told`, the events a replay returns, ties the
journal's file to what handlers conclude from it. A Claim is decided in the steps of
`handle_claim` and `outputs::publish`: `Validate` (under the guard), `Fill`, `SyncBody`,
`Rename`, `SyncName` or `SyncNameFails` (`DurabilityUncertain`, which is only logged) or
`PublishFails`, then `FileClaim` and `RecordClaim`, each one append with its own failures.
`clean_work` reads under the guard (`CleanRead`) and then, with none held,
`RemoveCheckout` or `RemovalFails`, `RemoveRest`; it takes the guard again unread
(`CleanTakes`) and records (`RecordCleaned`). Between all of these the actor `Edits`, other
handlers append (`AnyEvent`), processes die (`KillAll`) and power is lost (`PowerLossAll`:
an unsynced body is torn, an unsynced name is gone). Every step is a step of `Journal` or
leaves its variables alone. Whether a directory is proven this Work's own and its Runs
are gone is a choice of outcome, which removes at least as often as the code does.

### `WatchStreams`: `watch`

`AppendEvent`, `Send`, `CloneWakes`, `Signal`, `RetainWakes` are `append_event` under
the guard; `Replay`, `Register` are a per-Work connection; `Dial`, `Acknowledge`,
`ListWorks`, `DrainWork`, `Sleep`, `Wake` an estate connection; `WriteLine` and `HangUp`
are both. The events a thread has in hand (replayed, or in its channel) are `queue`.
`WatchFeed` is the abstract promise, a client that may only ever read the next
event of a Work, and `ImplementsFeed` is the refinement. Left out: the admission gate
of a scoped watch (a connection that is refused changes nothing) and journals that do
not read.

### `JournalGuards`: several Works, several guards

`plan` is what each connection asks, `journal` each Work's events, `guard` who holds each
journal's mutex and the Atlas, `task` how far a request is, `memo` what it read and may act
on later. One action is one hold of the guards it takes, or one step with none held:
`Write` (fail, retry, assert), `ClaimRefused` (which journals the refusal),
`ClaimRecorded`, `Close` (`close_cascade`, the one place that takes a child's guard under
its parent's), `Advance` (`reserve_next_leaf`, with the Atlas for review targets);
a cancel as `CancelLooks` and `CancelSeesChildren` with no guard held, each child in turn if
it cascades, `CancelWrites`, then `Reevaluate` (`reevaluate_parent`) of the parent; the raise as `Look`,
`Admit`, `Raise` and settlement as `AskSettle`, `Observe`, `Decide`, `Mint`: observe under
the guard, decide with none held, take it again and append only if the journal has not
moved, at most `Attempts` times; the application as `AskApply`, `Resolve`, `Gather` (guards
in `journal_lock_order`: `Depth`, then `Id`), `Judge`, `Apply`, `Reconcile`; the storage
inventory as `Inventory`, `Replay` (journals under the Atlas). Each Work has a route of two
leaves here, the first of them in a container that waits for the children. Of the
settlement rules it has the two that read other Runs or Works.

### `FindingsIndex`: a derived file that must not overstate itself

`journaled` and `journal` are the truth; `dir` is the Atlas directory as a reader sees it
and `disk` as a loss of power would leave it; `health` is `IndexHealth`. A thread journals a
row (`Mutate`) and sweeps: `TakeTicket`, `ReadBasis`, `WalkEstate` with nothing held, then
`Append`, `Fsync` and `Record` in one hold of the Atlas (`record_index_projection`, with
tickets: `Recorded`). `Call` guards the administrator's `RebuildWalk`, `RebuildRefuse`,
`RebuildPreserve`, `RebuildWrite` and `Retire`. Faults, each at most once and `MaxFaults` in
all: a line that no longer parses, the index removed, a journal unreadable for a while or
lost, a failed fsync, a failed write, a handler that returns before its sweep. `Stop` is the
end of the daemon or of the machine, `Start` its opening of the store and its first sweep.
An index and a journal are not both removed by hand in one behaviour (`DeleteIndex`,
`LoseJournal`): with both gone nothing on disk knows of the row.

### `JobSlots` and `SharedPool`: admission

Participants are threads of different processes that share files only. `lock` says who has
each file's flock, `dup` which of them a forked child still shares (the lock is the open
file description's), `capacity` is `capacity.json`. `Start`, `Settle`, `PoolBusy`, `Read`,
`ProbeFree`/`ProbeNext`/`ProbeLive`/`ProbeDone`/`ProbeRefused` (`live_leases`), `Truncate`,
`WriteAgreement` and `Settled` are `pool_standing` under `capacity.lock`; `TryLocal`,
`TryHost`, `Again`, `Refuse` are `wait_for_slot`, one flock call each; `DropLocal`,
`DropHost` the fields of `Admission` dropped in order; `Fork`, `ChildExecs`, `Die` the
kernel. `SharedPool` promises a semaphore: no more expensive jobs at once than the most
that was ever agreed, no more of an estate than its own maximum, an agreement raised only
with authority. **The shrinking pool**: that a *lowered* capacity binds at once is not
promised, because the code does not do it (section 6). Refusal for memory or disk pressure
comes before any of this and keeps no state.

### `OwnedJobs`: a job as a process

`BoundedChild::run` thread by thread: the caller (`Create`, `Record`, `Register`, `Spawn`,
`DrainToEof`/`DrainEnded`/`DrainFails`, `Reap`, `Join`, `DropGroups`, `Clear`), the watchdog
(`SeeFinished`, `SeeWhy`, `WatchdogKills`, `WatchdogEnds`) and the writer of standard input
(`Written`, `WriteFails`). The job's own processes fork, escape their group, close their
output and exit (`Forks`, `ClosesOutput`, `Exits`); `Cancel` is `JobRegistry::cancel`;
`DaemonDies` kills the direct child only (PDEATHSIG); `Reopen`, `RecoverJob`, `ForgetJob`,
`Recovered` are the next owner's `recover_owned_jobs`, before it serves. The host may or may
not give a job a cgroup; the child may fail to join the one there is (`inside`, `Spawn`); a kill
of it may not work in the time it is given, after which the directory is left and the record
removed all the same (`Reached`, `Shut`, `spared`). The code looks at none of these results.

The `MC*` modules give the constants of the runs: routes, requests, pools and symmetry.
Definitions marked "mutant" are the wrong variants that `PROJECT.json` swaps in to show that
each property can fail; no specification uses them.

## 3. What is checked

| Run | Instance | States | Asks |
|---|---|---|---|
| `flat` | `a ; b ; d`, 5 Runs, one crash, one passing failure | 30,863 | what Claims, failures, retries, questions and cancels of one Work do to each other |
| `closure` | `P { C { a } ; d }`, P needs an output, C a child Work, 4 Runs, one crash, fairness | 251,008 | closing, holding, reopening, child ends, cancel and restart against a waiting parent; liveness |
| `rough` | `a ; C { b ; d }`, b and d orienting, d refused for good, 4 Runs, claim appends lost, one crash, one failure | 670,977 | what still holds when everything that can fail does |
| `admission` | 3 invocations, 2 pids, 2 sessions, 2 selections, 2 Runs, symmetric | 323,968 | who drives a Run, what is started, what is declared failed |
| `driver` | 2 leaves, 2 drives, 4 changes of status, 1 Claim, any edits and unreadable signals, fairness | 563,151 | when an actor is prompted, declared stuck, left alone; liveness of the drive |
| `evidence` | 4 appends, 1 failed write or fsync, 1 loss of power, 1 kill, 1 Claim, 2 contents | 3,777,847 | what a replay returns, and whether the evidence it names is there |
| `watch` | 2 Works of 2 events, a client of each kind, fairness | 31,954 | that streams lose, repeat and delay nothing |
| `settle` | every three different ones of 16 requests on a parent and two children (but no inventory beside a claim or a cancel), from 2 estates | 508,918 | deadlock, and what raises, settlements and applications rest on |
| `index` | 2 rows of 2 Works, 2 connections, 2 faults of 7 kinds, 1 death, 2 administrative calls | 2,360,923 | what an answer that says `complete` leaves out |
| `slots` | 3 expensive jobs of 2 estates, a materialization, 2 slots, 2 jobs with authority | 325,692 | who holds a slot, what capacity each acts on, the semaphore |
| `jobs` | 1 job of 3 processes, joins and kills that fail, 3 deaths of the daemon, fairness | 9,519 | what a job that is over left running; that a cancel ends it |
| `wedge` | the triples `settle` leaves out | - | expected violation, section 6 |

Properties that pass, and how each could have failed:

- `OneLiveLine`: two Runs with a validatable Done would advance the Work twice; it includes
  that no superseded Run can be claimed (`SupersededIsRefused`). `RetriedStays`: a replaced
  Run stays replaced.
- `NeedsInputIsAnswerable`, `QuestionLeftByDecision`: a question names a Run that retry
  accepts, and only a decision ends it, not a late status of another turn.
- `AdvanceFollowsClaim`: the next leaf opens on a Claim that is in the journal.
- `ClosureHolds`: a container closed in its current generation has everything it
  requires. A retry must reopen exactly the closed ancestors before it supersedes the
  Run they were closed on, and every crash point in between must be harmless.
- `CompletedIsComplete`: no leaf skipped, no replaced Run counted, no container open.
- `TerminalStays`, `WaitingIsRecoverable`, `WaitIsAnswered`: a Waiting Work is found again
  only through its hold; what it waits for is eventually seen, across a crash.
- `OnlyFailureStrands`: whoever closes a container, opens a Run or refuses one, with the
  guard dropped or not, leaves a Run to claim or a Work that has ended, unless a crash or a
  failure came between.
- `OneDriver`: a pid may be reused, a corpse unreaped, a start time unknown, a `/proc`
  entry unreadable; whoever is admitted, the one before has stopped.
- `OneLiveAgent`: agent names are unique only within a session; the attempt's destination
  is what keeps a Run in one. `LaunchedAsBound`: whatever an invocation was asked for.
- `FailureIsAbsence`: the answer "no such agent" still holds when it is written down.
- `StuckIsHonest`: what the actor does in the moment the prompt arrives, and a signal that was
  read at both ends shows, must count as progress. Stuck is not only said of idle actors:
  section 6. `PromptIsWelcome`: no prompt on top of one that is not taken; one prompt at most to
  a Run that has settled, the one that was decided on before the Claim landed, in whatever order
  the two streams are read and however often a drive is resumed; none over the hold a resumed
  drive found.
- `TurnEndAnswered`: the gate, the duplicate filter and the baseline together never swallow
  the turn end the actor is waiting at. `HoldEndsDrive`: a hold seen only in the journal
  ends the drive, whatever the pane does.
- `FailsClosed`, `KillsAreHarmless`: an acknowledged event is replayed or the replay
  fails; processes that only die never damage a journal.
- `EvidenceStands`: a receipt in a journal that replays names bytes that are there with the
  recorded digest, and clean has spared the only copy of the others. It needs every fsync of
  `publish`, its order against the append, and clean's checks against a Claim in flight.
- `NothingLost`, `ImplementsFeed`, `EventArrives`: no event between a replay and a
  registration, no wake-up between a drain and its sleep, none twice.
- `NoCircularWait`: over the wait-for relation of all mutexes, not only two; a Claim and a cancel
  go on to their parent's guard, its other children's and the Atlas, with a cascade between.
- `FindingsStand`: a Finding is raised by the current Run only, a settlement rests on facts
  that held in every journal it read, is made once, and none that is ready is left behind.
- `ApplicationStands`: the producer still produces and the credited Claim is still current
  at the very append, in whichever journals they are.
- `CompleteIsTrue`, `AbsentIsNotEmpty`, `NoLaundering`: complete means complete, on disk as
  well as in memory; a missing file is not an empty index; nothing the daemon or an
  operator's rebuild does makes the estate forget that it lost a row.
- `SlotReturns`: exact ownership of every flock at every point of `admit`, forks included.
  `AgreedByAll`: first participants that race, or die between emptying and filling the
  file. `ImplementsPool`: the semaphore.
- `LiveIsRecorded`: the daemon may die at any point; what would outlive it in a cgroup is on
  record, unless that cgroup was already given up with processes in it.
  `OverIsOver`: nothing is left running that the kills of the job, or of the recovery, could
  reach (`Ended`: everything where the child joined its cgroup and the last kill worked), and
  Finished means all was written and read.
  `CancelEnds`: a descendant that escaped the kill and keeps the pipes cannot hold the
  thread that runs the job.

**Bounds.** `MaxRuns` bounds the Runs of a Work; an action that would need one more is not
taken. Five Runs on three leaves are two retries of one leaf or one of two; in `closure`
four are a retry below both containers after they closed. `MaxCrashes` = 1: the state a
crash leaves is a function of the journal, so a second one adds only a sequence of first
ones. `MaxFaults` bounds passing failures; `LoseClaims` lets the append of a `ClaimRecorded`
be one. In `LaunchAdmission` three invocations are a holder, one that replaces it and one
that meets either; with two pids the third must reuse one; two Runs give a retry at every
point. In `RunLoop` two drives are a launch and a resume, four changes of status two turns
with a view or a block between; one Claim is enough to settle the Run or hold its Work at any
point, and of edits only what a signal shows is kept, so they need no bound. In
`Custody` one Claim has its two appends beside an end of the Work and one more event, so that
each fault can fall before, between and after them; one fault of each kind, since the proof
covers any number of all. In `WatchStreams` two events per Work give an event before, during
and after each step of a connection, and two Works two appends that clone the wakers at
once. In `JournalGuards` three requests are what the two-Work protocols need for a pair in
conflict and a third between its steps; `Attempts` is 3 for the code's 8 (server.rs 7221),
as many as the requests, which is what no settlement is lost for (section 4); two children are
a cascade that goes on after it looked at the parent, and one whose role is required beside one
whose role is not gives a hold, a hold for another reason and a close. In
`FindingsIndex` two rows of two Works give a walk between two appends, two threads two
tickets out of order, two faults a fault met by the repair of another. In `JobSlots` two
slots are the least in which a scan can pass a slot before it is freed. In `OwnedJobs` jobs
run one at a time and no step of one touches another's place in any variable, so one job is
enough (two with one death are a million states and show nothing else; `JobsProofs` has any
number); three deaths are one of the job, one of the recovery and one more.

**Deadlock** is checked in `slots`, `settle` and `wedge` (in `settle` and `wedge` a state in
which every request is answered stutters). Elsewhere the system really stops: a terminal
Work, a question nobody answers, invocations that have all ended, a client who read
everything, bounds that are used up.

**Fairness.** Only what the daemon and the drive do by themselves is fair. `WorkEngine`:
weak fairness of the daemon's steps (a handler with the guard returns; threads are
scheduled) and of each pending `Reevaluate`; no client, driver, operator, child or fault.
`WatchStreams`: every begun append and every connection's thread, which includes a client
that goes on reading or hangs up; nobody has to append or dial. `RunLoop`: the steps of the
resume, of the loop (`Handle`) and of the journal reader, which are one thread that
receives from one channel and two that feed it; nothing of the actor, the human or of
invocations being started. `OwnedJobs`: each job's three threads and the recovery; nothing
of the job's own processes, of its deadline (an estate may have none) or of the daemon being
started again. The other modules state no fairness and check no liveness.

## 4. What is proved

TLAPS checks these for every value of the constants the assumptions allow. Every module of
proofs extends the module it is about; each temporal theorem combines, by propositional
temporal logic, `Init => IInv`, `IInv /\ [Next]_vars => IInv'` and `IInv => P`.

- `WorkEngineProofs`, from the weakest assumptions to the strongest:
  - `TypeCorrect == Spec => []TypeOK`. `TypeOK` is inductive because it contains `StepFits`:
    what a handler in flight still has to do names a leaf, a container and a Run that exist,
    and a Run it will open has room. The lemmas say that each fold arm maps Works to Works
    and that the route's helpers return leaves and containers; then one lemma per action.
  - `RetriedForGood == Spec => RetriedStays`. Needs that the entries of `runs` beyond
    `opened` are still `NoRun` (`RunsFit`), so that opening never overwrites.
  - `FailureStrandsOnly`: `OnlyFailureStrands`, with orienting leaves, children and lost
    Claims, under `NoRefusalAfterWait` (section 6). The invariant `Unstranded` says where
    each handler and each pending advance comes from, because a refusal is recorded when it
    comes from a Claim and only logged when it comes from a child's end, and that a daemon at
    rest with an Active Work has a Run to claim (`Rested`).
  - `TerminalForGood`: `TerminalStays`, where no leaf orients and no Claim's append is lost.
    The invariant is `Going`: a handler that still has something to do has a Work that is
    not over, and a cascade stands at a container its leaf is the last of.
  - `WaitRecoverable`: `WaitingIsRecoverable`, under the same two (without them it is false:
    section 6). The invariant adds `HoldIsCurrent` (a hold is of the current activation and
    is that container's last outcome) and `StepIsSafe` (a handler that will reserve or open
    has a Work that is not Waiting on what it opens).
  - `OneLineOnly`, `QuestionAnswerable`, `ClaimBeforeAdvance`, `QuestionKept`: `OneLiveLine`,
    `NeedsInputIsAnswerable`, `AdvanceFollowsClaim`, `QuestionLeftByDecision`, where besides no
    container requires a child Work (`NoChildWorks`; with children the first two are false:
    section 6).
    One invariant, `OneLine`: the Run that can be claimed is the only one and of the leaf the
    Work stands at (`RunsLine`); who advances left nothing to claim, who retries replaces what
    there is (`StepLine`); only the sweep of a restart evaluates a container anew (`SweepLine`).
  - `ClosuresHold`, `CompletedMeansComplete`: `ClosureHolds` and `CompletedIsComplete`, under
    the same three. `Closing` adds to `OneLine` that a closed container is finished at every
    depth (`Shut`), that a Run that can be claimed is inside no closed container
    (`RunsAround`), that a reservation has still to activate every closed container around
    its leaf (`ToEnter`), which is where the order of a retry's appends matters, and that
    every element of the top level before the Work's leaf is finished (`TopBefore`). The
    hypothesis on children is needed: with children both are false (section 6).

  The last six need what `validate_tree` guarantees of the Route as a whole, `TreeAssumption`:
  chains nest, and the leaves of a container stand together, from its first to the end of its
  last child. The lemmas about the tree follow from it.
- `LaunchAdmissionProofs`: every property of the `admission` run, for any number of
  invocations, pids, sessions, selections and Runs. None is inductive alone. The invariant
  `Ties` says that an invocation past its admission is the holder its Run records (its pid;
  its start time or none; its session), that from its attempt on its selection is the one
  bound, that a live agent's Run has a holder, in that session, with that selection, and
  that an invocation about to record an absence still has one. Most steps are `Quiet` (they
  admit nobody, bind nothing, start nothing) and one lemma covers them. The heart is
  `LiveHolderStays`: a live process keeps its pid to itself, so no answer of the kernel
  frees the attempt it holds.
- `JournalProofs`, of `Journal`: `JournalTypeCorrect`; `ReplayIsComplete == Spec =>
  []FailsClosed`, from the invariant that every acknowledged event is in the fsynced part of
  the file and that events stand in it in the order they were handed to append (a failed
  write changes neither, a loss of power keeps the fsynced part); `KilledReplays == Spec =>
  []KillsAreHarmless`, from `Sound`: without a failed write every line is whole and numbered
  by its place, and an open handle's next number is the one after.
- `JournalProofs`, of `Custody`: `CustodyIsJournal`, each step is one of Journal's or none
  of its variables change, so the theorems above hold of `Custody`. `EvidenceIsKept`: under
  `ParentsKept`, `CustodySpec => []EvidenceStands`. The invariant adds to the types that a
  Claim in flight has its file where its `pc` says (`InFlight`), that every receipt handed
  to append is of an earlier Claim and has its snapshot, synced, kept and equal (`Firm`,
  `NamedSynced`), and that clean past its reading has no Claim beside it, in a Work that has
  ended, with no receipt in the checkout (`CleanKnows`). It does not need acknowledgement: the
  receipt is appended after the file is safe, so any prefix the disk keeps is good.
- `WatchStreamsProofs`: `NothingIsLost` and the refinement `FeedIsImplemented`. The invariant
  says what the queue of each connection holds, relative to its cursor and to what is still
  in an append's hands, and that a sleeper whose Work moved has a wake under way.
- `JournalGuardsProofs`: `DisciplineHolds`, in each phase of each request the guards its
  thread can hold, and `NobodyWaitsInACircle`, for every tree of Works, every number of
  connections and every set of mixes without an inventory beside a Claim or a cancel. In any set of
  blocked threads take the one that holds the highest journal in the order (or none): what it
  waits for is above it, so nobody of the set has it. `ApplicationsStand == Spec =>
  ApplicationStands`: who has judged an application holds the guard of every journal it judged
  by (`Grounds`). `FindingsWereFounded`: raises and settlements are founded, if they were so in
  the journals at the start; `Founding` says that an observation made under the guard
  is still so as long as the journal has its length, which is what `Mint` compares.
  `FindingsAlwaysStand`: all of `FindingsStand`, `NothingLeftReady` included, where the
  requests at once are no more than `Attempts` (8 in the code: beyond eight the theorem says
  nothing), no cancel cascades, and the journals at the start are numbered as the
  daemon numbers them (`Numbered`). The first hypothesis is needed: with `Attempts = 2` TLC finds
  a settlement of `settle` that gives up. The second is because a cascade looks at its Work
  again after each child, and may append a hold there each time; `settle` has cascades, of two
  children. The invariant is a count, `Reckoning`: as long as a
  Work has a Finding its own journal makes ready, some request has still to look at it
  (`Owes`), and the laps it lost there, the lap it is about to lose and the number of other
  requests that may still write there come to less than `Attempts`. A lap is lost only to a
  journal that moved (`Moved`); a request moves a Work's journal once before it settles
  anything, a Claim's appends under one guard being one move (`SpendsOnce`; refused Claims and
  cancels, with the hold or the close of their parent, are counted like the rest); a raise and a
  Claim, which alone make a Finding ready (`ReadyGrows`), owe that Work themselves, with no lap
  lost; and a settlement that is appended leaves nothing ready (`MintClears`).
- `JobsProofs`, of `JobSlots`: `SlotsReturn`, `OneAgreement`, and the refinement `PoolIsImplemented`.
  The invariant `Slots` is `Leases` (`lock` and the places in `admit` determine each other),
  `Jobs` (each place's own facts) and `Agreement`. That the semaphore's bound holds is a pigeonhole: running jobs map one to
  one to slot indexes below the number they act on, and that is at most the most ever agreed.
- `JobsProofs`, of `OwnedJobs`: where a record's write does not fail unseen (`~RecordMayFail`),
  `RecordBeforeLife == OwnedSpec => []LiveIsRecorded` and `OverMeansOver == OwnedSpec => []OverIsOver`;
  without that assumption `FinishedIsSo`, the half of it about results. Joins and kills may fail
  in both: what they say of a job is what its last kill could reach. One invariant, `Owned`, says for each place in `run` what is registered, recorded and alive, what each
  thread of the job may still do, and that the watchdog gives its reason before it kills.
- `RunLoopProofs`: every safety property of the `driver` run, for any Route, number of drives,
  changes of status, Claims, edits and failed readings: `DriverTypes`, `StuckHonestly`
  (`StuckIsHonest`), `PromptsAreWelcome` (`PromptIsWelcome`). One invariant, `Knows`. `Since`: what
  moved since the prompt moved since the baseline, because that is read first. `Once`: after a
  prompt to a Run that had settled the drive is back in its loop or over, and the Run, which
  stays settled (`StaysSettled`), has every later record refused. `Holding`: what a resumed drive found holding the Work
  holds it still until the authority is read, so past that reading it found at most a block.
  `Gate` relates the statuses that are queued, and so arrive late, to the pane: while the
  drive's gate is open no prompt waits and a turn end, read or queued, is the last thing the
  pane did; a shut gate waits for a Working the pane can show only after it took the prompt.
- `FindingsIndexProofs`: `CompleteAnswers` (`CompleteIsTrue`, in an estate with a catalog:
  section 6), `AbsentOwesNothing` (`AbsentIsNotEmpty`), `NothingLaundered` (`NoLaundering`), for
  any faults, deaths and administrative calls. Three invariants over the types. `Sweeping`:
  whatever a walk in hand missed is superseded already, or claimed by a sweep that is due or
  has a later ticket (`WalksSee`), a walk that was appended is in the file (`WalksLand`), and a
  record that stands owes only rows in the file or in flight (`StandingIsTrue`). `OnDisk`: a
  rename no fsync confirmed is pending or said so. `Kept`: what was published is in the file,
  damaged in it, in its copies or reviewed, for a reader and after a loss of power.

Every safety property of every passing run is stated by a theorem. Only model-checked: all
liveness (`WaitIsAnswered`, `EventArrives`, `CancelEnds`, the drive's), since fairness and
`ENABLED` are outside the prover; and `ClosureHolds` and `CompletedIsComplete` on the Route of
`closure`, whose container that waits for a child has one leaf. With two leaves in it they
are false (section 6), so no theorem can state them of every Route with child Works. No module
uses recursive operators.

## 5. What is not modelled

| Part | Why |
|---|---|
| World projection and expansion | a computation over retrieval results; its place in the handlers is the assembly step of `WorkEngine`'s orienting advance. A revision check on expansion is the plan's `Projection` |
| Storage budget | a computation over directory listings, no state; the locks of its walk are in `JournalGuards` |
| Executors, docker recovery | most of the state is docker's. What recovery files (a Claim, a `RunFailed`, a `RunVanished`) are `FileDone`, `RunFails` and `RunVanishes` of `WorkEngine`, which allows them at any time, a Claim of a vanished Run included; that they are true of the container matched by name (server.rs 1333) is a hazard no property covers; the plan's `Recovery` |
| Daemon start | two daemons that start at once (server.rs 720) are a hazard no property covers; the plan's `Daemon` |
| Herdr socket client | framing of requests and events; their order is an input of `RunLoop` |
| Claim hook, worker contract, doctrine, content store | text and files handed to an actor, no state machine |
| Atlas extraction, indexing, search | pure computation and file formats; the store's opening is in `OwnedJobs` and `FindingsIndex` |
| Command line, client, browser; plugin, python back ends | parsing, rendering, one request per command: the models' actions |

Parts of modelled components that are left out: in the reducer and in submit, bindings,
projections and validation of a submission; of Findings, actor review, role discharge,
contradiction and disclosure (which filters an answer); of clean, the proof that a directory
is this Work's own (a choice of outcome) and the marker file; the payload of every reply.
Child Works are not engines of their own in `WorkEngine` (in `JournalGuards` they are, with
a small route), so an estate of several full Works is outside. The channel of a per-Work
watcher is unbounded (server.rs 553): a queue here as well, bounded by the run's events.

## 6. Where code and text disagree

`wedge` is a run: a claim that freezes review targets takes the Atlas under its journal
(server.rs 11896-11951) while a storage inventory takes journals under the Atlas (9464). TLC
stops where both wait. The thread that ends a child does the same under the guard of its parent
(8218), and a cancel ends children too (8405): beside an inventory, with a Claim that was over
before it, a cancel waits in the same circle. `NobodyWaitsInACircle` proves of the requests in
`JournalGuards` that mixes without an inventory beside a Claim or a cancel have no circle; of the
other callers of `derive_retention` (9896, 10758), which hold the Atlas as well, it says nothing.

A second Run of a leaf, beside an open one (`SupersededIsRefused`; `flat` with `Container = {C}`,
`Role = {role1}`, `Child = {k1}` and the `Pair` definitions of `MCWorkEngine` for `Chain`,
`LastChild`, `FirstLeaf`, `Needs` and `NeedsRole`; no crash, no fault). The Route is
`C { a ; b } ; d`, where C waits for a child Work, as the container of the fixture
`wa_mixed_mechanism.json` does. C is held; a is retried, and while its new Run is open the child
ends and its thread holds C again, so that b may be retried too. The Claim for a then opens
another Run of b, and the open one it supersedes is not refused: `validate_claim` (lib.rs
5246-5253) looks for `retried` in the Run itself. TLC stops there. With 7 Runs and
`CompletedIsComplete` in its place it goes on, in 33 steps, to a Completed Work with an open Run
of its last leaf; in `P { C { a ; b } ; d } ; e`, with 8 Runs, P stays closed around the second
Run of d (`ClosureHolds`). Where no container waits for a child `OneLineOnly`, `ClosuresHold` and
`CompletedMeansComplete` prove that none of this happens, if no leaf orients and every Claim is
recorded.

The others are stated as properties of the modules and are seen by adding the named property
to a run's cfg, with the change given:

| What | Property | Where |
|---|---|---|
| a permanent refusal is recorded on a Work canceled meanwhile: Canceled becomes Failed (server.rs 5094) | `TerminalStays` | `rough` |
| a passing failure after a recorded Claim strands an Active Work (5057) | `NeverStranded` | `flat`, `MaxCrashes = 0` |
| a child's end re-holds the container of a Run a retry reopened; the question of that Run names a Run retry refuses (6482) | `NeedsInputIsAnswerable` | `closure` |
| a Claim whose append failed still advances the Work (4914) | `AdvanceFollowsClaim` | `flat`, `LoseClaims = TRUE` |
| the orienting advance does not look again at the leaf it advances past (4999) | `AdvanceFollowsClaim` | `rough`, `LoseClaims = FALSE` |
| after a failed write or fsync `next_seq` is behind the file; the next append makes the journal unreadable (lib.rs 5032) | `StaysContiguous` | `evidence` |
| an invocation that read the Run before another launched and reported it launches it again (run_loop.rs 1143) | `NoRelaunch` (a PROPERTY) | `admission` |
| an append between `WorktreeCreated` and its `WaypointReserved` leaves a Run that can never be materialized (server.rs 3655) | `Resumable` | `admission` |
| the pane is prompted over a Claim or a question whose event is still unread, or that lands after the idle was accepted (run_loop.rs 2017) | `PromptsOnlyUnheld` (a PROPERTY) | `driver` |
| an actor is called stuck although it worked since the prompt: a reading failed (472) | `StuckDidNothing` (a PROPERTY) | `driver` |
| the drive of a settled Run goes on (1641) | `SettledEndsDrive` (a PROPERTY) | `driver` |
| viewing a pane counts as a second turn end; the actor is called stuck before its turn (1674) | `StuckAfterTurn` (a PROPERTY) | `driver` |
| an answer says complete and is not (server.rs 19656), three ways | `CompleteAlways` | `index` with `Faults = {"delete"}`, or with `Faults = {"sweep"}` |
| | `CompleteIsTrue` | `index`, `Catalog = FALSE`, `Faults = {"fsync"}` |
| only the claim's directory is fsynced, not the ones created above it (outputs.rs 684) | `EvidenceStands` | `evidence`, `ParentsKept = FALSE` |

Read in the code while modelling:

- `release_earlier_panes` asks for panes by Run id and so never closes one (run_loop.rs 1344).
- A participant that settled its standing before a shrink takes a slot beyond the new
  capacity (jobs.rs 2257); this is why `SharedPool`'s capacity is the most ever agreed.
- An agreement that does not parse is written anew instead of refused (jobs.rs 2219): in
  `JobSlots`, `Read` after a death between `Truncate` and `WriteAgreement`.
- Two comments give a reason for the journal lock order that no longer exists
  (server.rs 13295, 16914).
- What the fingerprint cannot show is outside `RunLoop`'s `Edit`, and counts as nothing done: a
  second edit of a file that was dirty, an edit in an untracked directory or of an ignored file,
  anything while git fails at both ends (git.rs 196-201).
- A job's child that does not join its cgroup is not noticed (jobs.rs 484-492, 520-555): what
  it forks out of its group survives the end of the job. A kill of the cgroup that does not work
  within five seconds is given up (581-593), and the recovery then removes the record as well
  (735-767), so nobody looks for these processes again. `OverIsOver` says what is left running in
  each case (`Ended`), not that nothing is.
- A removal that fails half way is not journaled (server.rs 9168): `RemovalFails`.
- clean takes a Run that was never launch-requested for one without a process; a
  deterministic Run is never launch-requested (server.rs 8574).

Known exceptions, which bound where a property above is checked: `CompletedIsComplete`
fails once leaves orient (the advance past a retried leaf, followed to the end), and
`ClosureHolds` and `WaitingIsRecoverable` once a claim's append may be lost as well: an
advance made twice opens a Run in a container, or in a Work, that has closed since.
`OneLiveLine` is false in `rough` for the same reason, and `QuestionLeftByDecision` in
`closure`: a `StageHeld` from a re-evaluation may replace a standing question. A hold of a
Waiting Work can be dropped by the `ContainerActivated` of a racing orienting advance, which
is why `WaitRecoverable` assumes `Orienting = {}`. On Routes whose containers require child
Works `OneLiveLine` is false, and with two leaves in the container that waits `ClosureHolds` and
`CompletedIsComplete` as well (above): hence `NoChildWorks`. An
`IncompatibleSourceBasis` met while a parent is re-evaluated is only logged, and the Work is
left with nothing to claim: `OnlyFailureStrands` is false in `closure` with
`Incompatible = {d}`, without a crash or a fault. Hence `NoRefusalAfterWait`: no leaf that is
refused for good comes right after a container that waits for a child, which `rough` satisfies. A child
submitted between a cancel's read and write outlives its parent. Where the write of a job's
record fails, which the code ignores, `LiveIsRecorded` is false: `jobs` has
`RecordMayFail = FALSE`.

## 7. Plan

In order; each is a module, its runs and its theorems.

1. `Recovery`: docker Runs and deterministic Runs at a restart, against the executor that
   may still be attached; clean's identity and liveness checks instead of a choice.
2. `Daemon`: two daemons that start at once, the socket file, the owner lock of the store.
3. `TwoWorks`: a parent and a child engine composed, replacing the child environment.
4. `Projection`: expansion of worlds against a moving journal; `AtlasStore`: publication of
   an edition by rename.

Proofs next: if `validate_claim` comes to refuse every superseded Run, and `handle_retry` a second
Run beside an open one, `OneLiveLine` and the closures on Routes with child Works; the theorems
of the modules above, with them.
