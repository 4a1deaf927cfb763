------------------------------- MODULE JobSlots -------------------------------
(***************************************************************************)
(* Admission of expensive jobs and worktree materializations: flock(2) on  *)
(* slot files, and the agreed capacity of the pool that every estate of    *)
(* one user shares.                                                        *)
(*                                                                         *)
(* Participants are threads of different processes that share nothing but  *)
(* files.  An expensive job settles the pool's agreement under a lock of   *)
(* its own, then takes a slot of its estate, then a slot of the host pool; *)
(* each slot is tried by one flock call, so a scan of a pool is as many    *)
(* steps as it has slots.  The lock belongs to the open file description:  *)
(* a child forked by another thread of the process keeps it until it execs.*)
(***************************************************************************)
EXTENDS Naturals, FiniteSets

CONSTANTS
  Job,            \* jobs to be admitted
  Local,          \* local pools: an estate's expensive/ or materialization/
  LocalOf,        \* the local pool of each job
  LocalMax,       \* max_expensive or max_materialization of each local pool
  Materializing,  \* jobs of JobClass::Materialization: no host slot
  Requested,      \* max_host_expensive of each job's estate
  Authority,      \* jobs of estates with host_pool_capacity_authority
  MaxSlots,       \* bound: slot files of one pool
  Host,           \* the pool of this uid's runtime directory
  AgreementLock,  \* capacity.lock
  NoJob, Orphan   \* nobody; a forked child whose process let go or died

ASSUME JobSlotsAssumption ==
  /\ MaxSlots \in Nat \ {0}
  /\ LocalOf \in [Job -> Local] /\ Host \notin Local
  /\ LocalMax \in [Local -> 1..MaxSlots]
  /\ Requested \in [Job -> 1..MaxSlots]
  /\ Materializing \subseteq Job /\ Authority \subseteq Job
  /\ NoJob \notin Job /\ Orphan \notin Job /\ NoJob # Orphan
  /\ AgreementLock \notin (Local \cup {Host}) \X (0..(MaxSlots - 1))

VARIABLES
  capacity,   \* capacity.json: the agreed number, 0 when missing or unreadable
  lock,       \* who has each file's flock
  job,        \* where each job is in `admit`
  dup,        \* files whose description a forked child of the job shares
  word        \* history: the most ever agreed, and whether it was changed since

vars == <<capacity, lock, job, dup, word>>

Index == 0..(MaxSlots - 1)
File  == ((Local \cup {Host}) \X Index) \cup {AgreementLock}

HostSlot(i)     == <<Host, i>>
LocalSlot(j, i) == <<LocalOf[j], i>>

NoSlot == MaxSlots

\* agreed: what pool_standing returned.  at: the slot index tried next.
\* live: its probe has met a live lease.
Idle == [pc |-> "idle", agreed |-> 0, at |-> 0, live |-> FALSE, local |-> NoSlot, host |-> NoSlot]

Init ==
  /\ capacity = 0
  /\ lock = [f \in File |-> NoJob]
  /\ job = [j \in Job |-> Idle]
  /\ dup = [j \in Job |-> {}]
  /\ word = [most |-> 0, recut |-> FALSE]

Lesser(m, n) == IF m <= n THEN m ELSE n

\* PoolStanding.usable_slots.
UsableAsked(j) == Requested[j]   \* mutant: the caller's number sizes the pool

Usable(j) == Lesser(job[j].agreed, Requested[j])

\* The slots of its own pool a job is offered.
Offered(j) ==
  IF j \in Materializing THEN LocalMax[LocalOf[j]]
  ELSE Lesser(LocalMax[LocalOf[j]], Usable(j))

At(j, pc) == job[j].pc = pc

Goto(j, pc) == job' = [job EXCEPT ![j].pc = pc, ![j].at = 0]

-----------------------------------------------------------------------------
(* flock. *)

Free(f) == lock[f] = NoJob

Take(j, f) == lock' = [lock EXCEPT ![f] = j]

\* OwnerLock::drop: LOCK_UN frees the description for every duplicate of it.
UnlockByClosing(j, files) ==   \* mutant: the file is only closed
  /\ lock' = [f \in File |-> IF f \in files
                             THEN (IF f \in dup[j] THEN Orphan ELSE NoJob) ELSE lock[f]]
  /\ UNCHANGED dup

Unlock(j, files) ==
  /\ lock' = [f \in File |-> IF f \in files THEN NoJob ELSE lock[f]]
  /\ dup' = [dup EXCEPT ![j] = @ \ files]

Held(j) == {f \in File : lock[f] = j}

-----------------------------------------------------------------------------
(* pool_standing. *)

\* A name is used again when nothing of the job that had it is left.
Start(j) ==
  /\ \/ At(j, "idle")
     \/ At(j, "dead") /\ dup[j] = {}
  /\ Goto(j, IF j \in Materializing THEN "local" ELSE "settle")
  /\ UNCHANGED <<capacity, lock, dup, word>>

SettleUnlocked(j) ==   \* mutant: the agreement is read under no lock
  /\ At(j, "settle")
  /\ Goto(j, "read")
  /\ UNCHANGED <<capacity, lock, dup, word>>

Settle(j) ==
  /\ At(j, "settle") /\ Free(AgreementLock)
  /\ Take(j, AgreementLock)
  /\ Goto(j, "read")
  /\ UNCHANGED <<capacity, dup, word>>

\* Five seconds, then the job is refused.
PoolBusy(j) ==
  /\ At(j, "settle") /\ ~Free(AgreementLock)
  /\ Goto(j, "idle")
  /\ UNCHANGED <<capacity, lock, dup, word>>

\* A missing or unreadable agreement is written; another number than the own
\* one governs, unless the estate has authority.
Read(j) ==
  /\ At(j, "read")
  /\ \/ capacity = 0 /\ Goto(j, "write")
     \/ /\ capacity # 0 /\ (capacity = Requested[j] \/ j \notin Authority)
        /\ job' = [job EXCEPT ![j].pc = "settled", ![j].agreed = capacity]
     \/ /\ capacity # 0 /\ j \in Authority /\ capacity < Requested[j]
        /\ Goto(j, "write")
     \/ /\ capacity # 0 /\ j \in Authority /\ capacity > Requested[j]
        /\ job' = [job EXCEPT ![j].pc = "probe", ![j].at = Requested[j]]
  /\ UNCHANGED <<capacity, lock, dup, word>>

\* live_leases takes each lock beyond the new capacity and lets go of it.
ProbeFree(j) ==
  /\ At(j, "probe") /\ job[j].at < capacity
  /\ Free(HostSlot(job[j].at))
  /\ Take(j, HostSlot(job[j].at))
  /\ job' = [job EXCEPT ![j].pc = "probing"]
  /\ UNCHANGED <<capacity, dup, word>>

ProbeNext(j) ==
  /\ At(j, "probing")
  /\ Unlock(j, {HostSlot(job[j].at)})
  /\ job' = [job EXCEPT ![j].pc = "probe", ![j].at = @ + 1]
  /\ UNCHANGED <<capacity, word>>

ProbeLive(j) ==
  /\ At(j, "probe") /\ job[j].at < capacity
  /\ ~Free(HostSlot(job[j].at))
  /\ job' = [job EXCEPT ![j].live = TRUE, ![j].at = @ + 1]
  /\ UNCHANGED <<capacity, lock, dup, word>>

ProbeDone(j) ==
  /\ At(j, "probe") /\ job[j].at = capacity /\ ~job[j].live
  /\ Goto(j, "write")
  /\ UNCHANGED <<capacity, lock, dup, word>>

\* PoolCapacityInUse.
ProbeRefused(j) ==
  /\ At(j, "probe") /\ job[j].at = capacity /\ job[j].live
  /\ Unlock(j, {AgreementLock})
  /\ job' = [job EXCEPT ![j] = Idle]
  /\ UNCHANGED <<capacity, word>>

\* fs::write empties the file, then fills it.
Truncate(j) ==
  /\ At(j, "write")
  /\ capacity' = 0
  /\ word' = [word EXCEPT !.recut = @ \/ capacity # 0]
  /\ Goto(j, "writing")
  /\ UNCHANGED <<lock, dup>>

WriteAgreement(j) ==
  /\ At(j, "writing")
  /\ capacity' = Requested[j]
  /\ word' = [word EXCEPT !.most = IF @ < Requested[j] THEN Requested[j] ELSE @]
  /\ job' = [job EXCEPT ![j].pc = "settled", ![j].agreed = Requested[j]]
  /\ UNCHANGED <<lock, dup>>

Settled(j) ==
  /\ At(j, "settled")
  /\ Unlock(j, {AgreementLock})
  /\ Goto(j, "local")
  /\ UNCHANGED <<capacity, word>>

-----------------------------------------------------------------------------
(* wait_for_slot, first on the local pool, then on the host pool. *)

Taken(j, f) ==
  /\ ~Free(f)
  /\ job' = [job EXCEPT ![j].at = @ + 1]
  /\ UNCHANGED <<capacity, lock, dup, word>>

TryLocal(j) ==
  /\ At(j, "local") /\ job[j].at < Offered(j)
  /\ LET f == LocalSlot(j, job[j].at) IN
     \/ Taken(j, f)
     \/ /\ Free(f) /\ Take(j, f)
        /\ job' = [job EXCEPT ![j].pc = IF j \in Materializing THEN "running" ELSE "host",
                              ![j].local = job[j].at, ![j].at = 0]
        /\ UNCHANGED <<capacity, dup, word>>

TryHost(j) ==
  /\ At(j, "host") /\ job[j].at < Usable(j)
  /\ LET f == HostSlot(job[j].at) IN
     \/ Taken(j, f)
     \/ /\ Free(f) /\ Take(j, f)
        /\ job' = [job EXCEPT ![j].pc = "running", ![j].host = job[j].at, ![j].at = 0]
        /\ UNCHANGED <<capacity, dup, word>>

Scanned(j) ==
  \/ At(j, "local") /\ job[j].at = Offered(j)
  \/ At(j, "host") /\ job[j].at = Usable(j)

Again(j) ==
  /\ Scanned(j)
  /\ job' = [job EXCEPT ![j].at = 0]
  /\ UNCHANGED <<capacity, lock, dup, word>>

\* The deadline has passed: ExpensiveJobBusy, or HostExpensiveBusy, which
\* drops the estate's slot.
Refuse(j) ==
  /\ Scanned(j)
  /\ Unlock(j, Held(j))
  /\ job' = [job EXCEPT ![j] = Idle]
  /\ UNCHANGED <<capacity, word>>

-----------------------------------------------------------------------------
(* The Admission is dropped: its fields in their order. *)

DropLocal(j) ==
  /\ At(j, "running")
  /\ Unlock(j, {LocalSlot(j, job[j].local)})
  /\ job' = [job EXCEPT ![j] = IF j \in Materializing THEN Idle
                               ELSE [@ EXCEPT !.pc = "leaving", !.local = NoSlot]]
  /\ UNCHANGED <<capacity, word>>

DropHost(j) ==
  /\ At(j, "leaving")
  /\ Unlock(j, {HostSlot(job[j].host)})
  /\ job' = [job EXCEPT ![j] = Idle]
  /\ UNCHANGED <<capacity, word>>

\* Another thread of the job's process is between fork and exec.
Fork(j) ==
  /\ dup[j] = {} /\ Held(j) # {}
  /\ dup' = [dup EXCEPT ![j] = Held(j)]
  /\ UNCHANGED <<capacity, lock, job, word>>

\* exec, or the child's end: what only it still held is free.
ChildExecs(j) ==
  /\ dup[j] # {}
  /\ lock' = [f \in File |-> IF f \in dup[j] /\ lock[f] = Orphan THEN NoJob ELSE lock[f]]
  /\ dup' = [dup EXCEPT ![j] = {}]
  /\ UNCHANGED <<capacity, job, word>>

\* The kernel closes what the process had open.
Die(j) ==
  /\ job[j].pc \notin {"idle", "dead"}
  /\ lock' = [f \in File |-> IF lock[f] # j THEN lock[f]
                             ELSE IF f \in dup[j] THEN Orphan ELSE NoJob]
  /\ job' = [job EXCEPT ![j] = [Idle EXCEPT !.pc = "dead"]]
  /\ UNCHANGED <<capacity, dup, word>>

-----------------------------------------------------------------------------

Standing(j) ==
  \/ Start(j) \/ Settle(j) \/ PoolBusy(j) \/ Read(j) \/ ProbeFree(j) \/ ProbeNext(j)
  \/ ProbeLive(j) \/ ProbeDone(j) \/ ProbeRefused(j) \/ Truncate(j) \/ WriteAgreement(j) \/ Settled(j)

Next == \E j \in Job :
  \/ Standing(j) \/ TryLocal(j) \/ TryHost(j) \/ Again(j) \/ Refuse(j)
  \/ DropLocal(j) \/ DropHost(j) \/ Fork(j) \/ ChildExecs(j) \/ Die(j)

Spec == Init /\ [][Next]_vars

-----------------------------------------------------------------------------
(* Properties. *)

PC == {"idle", "settle", "read", "probe", "probing", "write", "writing", "settled",
       "local", "host", "running", "leaving", "dead"}

Running == {j \in Job : At(j, "running")}

\* Types; a job that is not being admitted or running has no slot to its name.
TypeOK ==
  /\ capacity \in 0..MaxSlots
  /\ lock \in [File -> Job \cup {NoJob, Orphan}]
  /\ job \in [Job -> [pc : PC, agreed : 0..MaxSlots, at : 0..MaxSlots, live : BOOLEAN,
                      local : 0..MaxSlots, host : 0..MaxSlots]]
  /\ dup \in [Job -> SUBSET File]
  /\ word \in [most : 0..MaxSlots, recut : BOOLEAN]
  /\ \A j \in Job : job[j].pc \in {"idle", "dead"} => job[j].local = NoSlot /\ job[j].host = NoSlot

\* What a job has a flock on at each point of `admit`.
Holds(j) ==
  (IF job[j].pc \in {"read", "probe", "probing", "write", "writing", "settled"}
   THEN {AgreementLock} ELSE {})
  \cup (IF At(j, "probing") THEN {HostSlot(job[j].at)} ELSE {})
  \cup (IF job[j].local # NoSlot THEN {LocalSlot(j, job[j].local)} ELSE {})
  \cup (IF job[j].host # NoSlot THEN {HostSlot(job[j].host)} ELSE {})

\* A slot is taken exactly while a job has it: a job that ended or was refused
\* gave every slot back at once, whatever children were being forked meanwhile,
\* and only a process that died may leave one to its child, until that execs.
SlotReturns ==
  /\ TypeOK
  /\ \A j \in Job : Held(j) = Holds(j)
  /\ \A f \in File : lock[f] = Orphan => \E j \in Job : At(j, "dead") /\ f \in dup[j]

\* No participant acts on another capacity than the pool's own, however the
\* first of them race to set it: the one that loses is bound by the winner's
\* number.  Only an estate with authority may leave others on an old number.
AgreedByAll ==
  \A j \in Job : job[j].agreed # 0 =>
    /\ job[j].agreed <= word.most
    /\ ~word.recut \/ At(j, "settled") => job[j].agreed = capacity

Pool == INSTANCE SharedPool WITH
          capacity <- word.most, running <- Running, Job <- Job, Local <- Local,
          LocalOf <- LocalOf, LocalMax <- LocalMax, Materializing <- Materializing,
          Authority <- Authority, MaxSlots <- MaxSlots

\* To the estates that share it the pool is a semaphore of the size it was ever
\* agreed at: slot files, scans, forks and deaths are not to be seen.
ImplementsPool == Pool!Spec

=============================================================================
