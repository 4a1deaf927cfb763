------------------------------ MODULE JobsProofs ------------------------------
(***************************************************************************)
(* Expensive jobs.  Of admission (JobSlots): slots return, everyone acts   *)
(* on the agreed capacity, and slot files with their scans, forks and      *)
(* deaths are a semaphore (SharedPool), for every number of estates, jobs  *)
(* and slots.  Of the job that was admitted (OwnedJobs): nothing of a job  *)
(* that is over runs on, and Finished means all of it, for every number of *)
(* jobs and of daemon deaths.                                              *)
(*                                                                         *)
(* The invariant of the first, Slots: a job's flocks are those its place   *)
(* in `admit` says it has; the numbers a job carries fit that place; and   *)
(* only the holder of the agreement's lock can be between two reads or     *)
(* writes of it.  Of the second, Owned: what a job has left depends on     *)
(* where BoundedChild::run is.  Only a live direct child forks, so after   *)
(* it was reaped one kill of the group and the cgroup is final; a cgroup   *)
(* that may hold processes is on record from before the child was started  *)
(* until it is gone; and the watchdog is joined before the outcome is told.*)
(***************************************************************************)
EXTENDS JobSlots, OwnedJobs, FiniteSetTheorems, TLAPS

-----------------------------------------------------------------------------
(* Admission: the invariant. *)

JobType == [pc : PC, agreed : 0..MaxSlots, at : 0..MaxSlots, live : BOOLEAN,
            local : 0..MaxSlots, host : 0..MaxSlots]

Settling == {"read", "probe", "probing", "write", "writing", "settled"}

Stage(j) ==
  LET s == job[j] IN
  /\ s.pc \in {"idle", "dead", "settle", "local"} \cup Settling => s.local = NoSlot
  /\ s.pc \notin {"running", "leaving"} => s.host = NoSlot
  /\ s.pc \in {"idle", "dead", "settle", "read", "probe", "probing", "write", "writing"}
       => s.agreed = 0
  /\ s.pc = "probing" => s.at \in Index
  /\ s.pc \in Settling \cup {"settle", "host", "leaving"} => j \notin Materializing
  /\ s.pc \in {"host", "running"} => s.local \in 0..(LocalMax[LocalOf[j]] - 1)
  /\ s.pc = "leaving" => s.local = NoSlot
  /\ s.pc = "running" /\ j \in Materializing => s.host = NoSlot
  /\ s.pc \in {"running", "leaving"} /\ j \notin Materializing => s.host \in 0..(s.agreed - 1)

Orphans == \A f \in File : lock[f] = Orphan => \E j \in Job : At(j, "dead") /\ f \in dup[j]

Leases ==
  /\ lock \in [File -> Job \cup {NoJob, Orphan}]
  /\ dup \in [Job -> SUBSET File]
  /\ \A j \in Job : Held(j) = Holds(j)
  /\ Orphans

Jobs == job \in [Job -> JobType] /\ \A j \in Job : Stage(j)

Agreement ==
  /\ capacity \in 0..MaxSlots /\ word \in [most : 0..MaxSlots, recut : BOOLEAN]
  /\ capacity <= word.most
  /\ ~word.recut => capacity = word.most
  /\ word.recut => Authority # {}
  /\ \A j \in Job :
       /\ job[j].agreed <= word.most
       /\ job[j].agreed # 0 /\ (~word.recut \/ At(j, "settled")) => job[j].agreed = capacity
       /\ At(j, "writing") => capacity = 0
       /\ At(j, "write") => capacity = 0 \/ Authority # {}
       /\ job[j].pc \in {"probe", "probing"} => Authority # {}

Slots == Leases /\ Jobs /\ Agreement

-----------------------------------------------------------------------------
(* Files. *)

LEMMA Constants ==
  /\ MaxSlots \in Nat \ {0} /\ NoSlot = MaxSlots /\ NoSlot \notin Index
  /\ \A j \in Job : /\ LocalOf[j] \in Local /\ Requested[j] \in 1..MaxSlots
                    /\ LocalMax[LocalOf[j]] \in 1..MaxSlots
                    /\ 0..(LocalMax[LocalOf[j]] - 1) \subseteq Index
  /\ NoJob \notin Job /\ Orphan \notin Job /\ NoJob # Orphan
BY JobSlotsAssumption DEF NoSlot, Index

LEMMA Files ==
  /\ AgreementLock \in File
  /\ \A i \in Index : HostSlot(i) \in File /\ HostSlot(i) # AgreementLock
  /\ \A j \in Job, i \in Index :
       /\ LocalSlot(j, i) \in File /\ LocalSlot(j, i) # AgreementLock
       /\ \A h \in Index : LocalSlot(j, i) # HostSlot(h)
  /\ \A h, i \in Index : HostSlot(h) = HostSlot(i) => h = i
  /\ \A j, k \in Job, h, i \in Index :
       LocalOf[j] = LocalOf[k] /\ LocalSlot(j, h) = LocalSlot(k, i) => h = i
BY JobSlotsAssumption, Constants DEF File, Index, HostSlot, LocalSlot

LEMMA JobFacts ==
  ASSUME Jobs, NEW j \in Job
  PROVE  /\ job[j] \in JobType /\ Stage(j) /\ job[j].pc \in PC
         /\ job[j].at \in 0..MaxSlots /\ job[j].agreed \in 0..MaxSlots
         /\ job[j].local \in Index \cup {NoSlot} /\ job[j].host \in Index \cup {NoSlot}
<1>1. job[j] \in JobType /\ Stage(j)
  BY DEF Jobs
<1>2. 0..MaxSlots = Index \cup {NoSlot}
  BY Constants DEF Index
<1> QED
  BY <1>1, <1>2 DEF JobType

LEMMA HoldsFiles ==
  ASSUME Jobs, NEW j \in Job
  PROVE  Holds(j) \subseteq File
BY JobFacts, Files DEF Holds, Stage, At

-----------------------------------------------------------------------------
(* Leases: one lemma for each way in which a step changes the flocks. *)

\* A step of j on its own flocks: the others keep what they hold.
LEMMA LeasesFrame ==
  ASSUME Leases, NEW j \in Job,
         \A k \in Job \ {j} : job'[k] = job[k] /\ dup'[k] = dup[k],
         lock' \in [File -> Job \cup {NoJob, Orphan}], dup' \in [Job -> SUBSET File],
         \A f \in File : lock'[f] = lock[f] \/ {lock[f], lock'[f]} \subseteq {j, NoJob, Orphan},
         Held(j)' = Holds(j)', Orphans'
  PROVE  Leases'
<1> SUFFICES ASSUME NEW k \in Job \ {j}
             PROVE  Held(k)' = Holds(k)'
  BY DEF Leases
<1>1. Held(k) = Holds(k) /\ job'[k] = job[k]
  BY DEF Leases
<1>2. \A f \in File : lock'[f] = k <=> lock[f] = k
  BY Constants
<1>3. Held(k)' = Held(k)
  BY <1>2 DEF Held
<1>4. Holds(k)' = Holds(k)
  BY <1>1 DEF Holds, At
<1> QED
  BY <1>1, <1>3, <1>4

\* A live job may move without making an orphan.
LEMMA NoNewOrphan ==
  ASSUME Leases, NEW j \in Job, job[j].pc # "dead" \/ dup[j] = {},
         \A k \in Job \ {j} : job'[k] = job[k] /\ dup'[k] = dup[k],
         \A f \in File : lock'[f] = Orphan => lock[f] = Orphan
  PROVE  Orphans'
<1> SUFFICES ASSUME NEW f \in File, lock'[f] = Orphan
             PROVE  \E k \in Job : At(k, "dead")' /\ f \in dup'[k]
  BY DEF Orphans
<1>1. PICK k \in Job : At(k, "dead") /\ f \in dup[k]
  BY DEF Leases, Orphans
<1>2. k # j
  BY <1>1 DEF At
<1> QED
  BY <1>1, <1>2 DEF At

LEMMA SameLeases ==
  ASSUME Leases, Jobs, NEW j \in Job, NEW s, job' = [job EXCEPT ![j] = s],
         job[j].pc # "dead" \/ dup[j] = {},
         lock' = lock, dup' = dup, Holds(j)' = Holds(j)
  PROVE  Leases'
<1>1. \A k \in Job \ {j} : job'[k] = job[k] /\ dup'[k] = dup[k]
  BY DEF Jobs
<1>2. Orphans'
  BY <1>1, NoNewOrphan
<1>3. Held(j)' = Holds(j)'
  BY DEF Leases, Held
<1> QED
  BY <1>1, <1>2, <1>3, LeasesFrame DEF Leases

LEMMA TakesLease ==
  ASSUME Leases, Jobs, NEW j \in Job, NEW s, job' = [job EXCEPT ![j] = s],
         job[j].pc # "dead", NEW f \in File, Free(f), Take(j, f),
         dup' = dup, Holds(j)' = Holds(j) \cup {f}
  PROVE  Leases'
<1>1. \A k \in Job \ {j} : job'[k] = job[k] /\ dup'[k] = dup[k]
  BY DEF Jobs
<1>2. lock' = [lock EXCEPT ![f] = j] /\ lock[f] = NoJob
  BY DEF Take, Free
<1>3. lock' \in [File -> Job \cup {NoJob, Orphan}]
  BY <1>2 DEF Leases
<1>4. \A g \in File : lock'[g] = IF g = f THEN j ELSE lock[g]
  BY <1>2 DEF Leases
<1>5. Held(j)' = Held(j) \cup {f}
  BY <1>4 DEF Held
<1>6. Orphans'
  BY <1>1, <1>4, Constants, NoNewOrphan
<1>7. Held(j)' = Holds(j)'
  BY <1>5 DEF Leases
<1> QED
  BY <1>1, <1>2, <1>3, <1>4, <1>6, <1>7, LeasesFrame DEF Leases

LEMMA DropsLeases ==
  ASSUME Leases, Jobs, NEW j \in Job, NEW s, job' = [job EXCEPT ![j] = s],
         job[j].pc # "dead", NEW files \in SUBSET Held(j), Unlock(j, files),
         Holds(j)' = Holds(j) \ files
  PROVE  Leases'
<1>1. /\ lock' = [f \in File |-> IF f \in files THEN NoJob ELSE lock[f]]
      /\ dup' = [dup EXCEPT ![j] = dup[j] \ files]
  BY DEF Unlock
<1>2. \A k \in Job \ {j} : job'[k] = job[k] /\ dup'[k] = dup[k]
  BY <1>1 DEF Jobs, Leases
<1>3. lock' \in [File -> Job \cup {NoJob, Orphan}] /\ dup' \in [Job -> SUBSET File]
  BY <1>1 DEF Leases
<1>4. \A f \in File : lock'[f] = lock[f] \/ {lock[f], lock'[f]} \subseteq {j, NoJob, Orphan}
  BY <1>1 DEF Held
<1>5. Held(j)' = Held(j) \ files
  BY <1>1, Constants DEF Held
<1>6. Orphans'
  BY <1>1, <1>2, Constants, NoNewOrphan
<1>7. Held(j)' = Holds(j)'
  BY <1>5 DEF Leases
<1> QED
  BY <1>2, <1>3, <1>4, <1>6, <1>7, LeasesFrame DEF Leases

-----------------------------------------------------------------------------
(* Each step of `admit` keeps the leases and the stages. *)

LEMMA JobsMove ==
  ASSUME Jobs, NEW j \in Job, NEW s \in JobType, job' = [job EXCEPT ![j] = s], Stage(j)'
  PROVE  Jobs'
<1>1. \A k \in Job \ {j} : job'[k] = job[k]
  BY DEF Jobs
<1>2. job' \in [Job -> JobType]
  BY DEF Jobs
<1>3. ASSUME NEW k \in Job \ {j}
      PROVE  Stage(k)'
  BY <1>1 DEF Jobs, Stage
<1> QED
  BY <1>2, <1>3 DEF Jobs

\* A job that goes on without a change to what it holds.
LEMMA GoesOn ==
  ASSUME Leases, Jobs, NEW j \in Job, NEW s \in JobType, job' = [job EXCEPT ![j] = s],
         job[j].pc # "dead" \/ dup[j] = {}, lock' = lock, dup' = dup,
         s.pc \in Settling <=> job[j].pc \in Settling,
         s.pc # "probing", job[j].pc # "probing",
         s.local = job[j].local, s.host = job[j].host,
         Stage(j)'
  PROVE  Leases' /\ Jobs'
<1>1. job'[j] = s
  BY DEF Jobs
<1>2. Holds(j)' = Holds(j)
  BY <1>1 DEF Holds, At, Settling
<1> QED
  BY <1>2, SameLeases, JobsMove

\* What is known of the job of a step.
LEMMA StepFacts ==
  ASSUME Slots, NEW j \in Job
  PROVE  /\ Leases /\ Jobs /\ Stage(j) /\ job[j] \in JobType /\ job[j].pc \in PC
         /\ job[j].at \in 0..MaxSlots /\ job[j].agreed \in 0..MaxSlots
         /\ capacity \in 0..MaxSlots /\ Requested[j] \in 1..MaxSlots
         /\ MaxSlots \in Nat /\ 0 \in 0..MaxSlots /\ Requested[j] \in 0..MaxSlots
         /\ job[j].at < capacity => job[j].at + 1 \in 0..MaxSlots
         /\ LocalMax[LocalOf[j]] \in 1..MaxSlots
BY Constants, JobFacts DEF Slots, Agreement

LEMMA GoingStepKeeps ==
  ASSUME Slots, NEW j \in Job,
         \/ Start(j) \/ PoolBusy(j) \/ Read(j) \/ ProbeLive(j) \/ ProbeDone(j)
         \/ Truncate(j) \/ WriteAgreement(j) \/ Again(j)
  PROVE  Leases' /\ Jobs'
<1>0. /\ Leases /\ Jobs /\ Stage(j) /\ job[j] \in JobType /\ job[j].pc \in PC
      /\ job[j].at \in 0..MaxSlots /\ job[j].agreed \in 0..MaxSlots
      /\ capacity \in 0..MaxSlots /\ Requested[j] \in 1..MaxSlots
      /\ 0 \in 0..MaxSlots /\ Requested[j] \in 0..MaxSlots
      /\ job[j].at < capacity => job[j].at + 1 \in 0..MaxSlots
  BY StepFacts
<1>1. ASSUME Start(j)
      PROVE  Leases' /\ Jobs'
  <2> DEFINE s == [job[j] EXCEPT !.pc = (IF j \in Materializing THEN "local" ELSE "settle"), !.at = 0]
  <2>1. job' = [job EXCEPT ![j] = s] /\ lock' = lock /\ dup' = dup
    BY <1>1 DEF Start, Goto, At
  <2>2. /\ s.pc = (IF j \in Materializing THEN "local" ELSE "settle") /\ s.agreed = job[j].agreed /\ s.at = 0
        /\ s.local = job[j].local /\ s.host = job[j].host
    BY <1>0, <1>1 DEF JobType, Start, Goto, At
  <2>3. s \in JobType
    BY <1>0, <1>1 DEF JobType, PC, Start, Goto, At
  <2> HIDE DEF s
  <2>4. job'[j] = s
    BY <1>0, <2>1 DEF Jobs
  <2>5. Stage(j)'
    BY <1>0, <1>1, <2>2, <2>4 DEF Stage, Settling, Start, Goto, At
  <2>6. /\ s.pc \in Settling <=> job[j].pc \in Settling
        /\ s.pc # "probing" /\ job[j].pc # "probing" /\ (job[j].pc # "dead" \/ dup[j] = {})
    BY <1>0, <1>1, <2>2 DEF Settling, Start, Goto, At
  <2> QED
    BY <1>0, <2>1, <2>2, <2>3, <2>5, <2>6, GoesOn
<1>2. ASSUME PoolBusy(j)
      PROVE  Leases' /\ Jobs'
  <2> DEFINE s == [job[j] EXCEPT !.pc = "idle", !.at = 0]
  <2>1. job' = [job EXCEPT ![j] = s] /\ lock' = lock /\ dup' = dup
    BY <1>2 DEF PoolBusy, Goto, At
  <2>2. /\ s.pc = "idle" /\ s.agreed = job[j].agreed /\ s.at = 0
        /\ s.local = job[j].local /\ s.host = job[j].host
    BY <1>0, <1>2 DEF JobType, PoolBusy, Goto, At
  <2>3. s \in JobType
    BY <1>0, <1>2 DEF JobType, PC, PoolBusy, Goto, At
  <2> HIDE DEF s
  <2>4. job'[j] = s
    BY <1>0, <2>1 DEF Jobs
  <2>5. Stage(j)'
    BY <1>0, <1>2, <2>2, <2>4 DEF Stage, Settling, PoolBusy, Goto, At
  <2>6. /\ s.pc \in Settling <=> job[j].pc \in Settling
        /\ s.pc # "probing" /\ job[j].pc # "probing" /\ (job[j].pc # "dead" \/ dup[j] = {})
    BY <1>0, <1>2, <2>2 DEF Settling, PoolBusy, Goto, At
  <2> QED
    BY <1>0, <2>1, <2>2, <2>3, <2>5, <2>6, GoesOn
<1>3. ASSUME Read(j) /\ Goto(j, "write")
      PROVE  Leases' /\ Jobs'
  <2> DEFINE s == [job[j] EXCEPT !.pc = "write", !.at = 0]
  <2>1. job' = [job EXCEPT ![j] = s] /\ lock' = lock /\ dup' = dup
    BY <1>3 DEF Read, Goto, At
  <2>2. /\ s.pc = "write" /\ s.agreed = job[j].agreed /\ s.at = 0
        /\ s.local = job[j].local /\ s.host = job[j].host
    BY <1>0, <1>3 DEF JobType, Read, Goto, At
  <2>3. s \in JobType
    BY <1>0, <1>3 DEF JobType, PC, Read, Goto, At
  <2> HIDE DEF s
  <2>4. job'[j] = s
    BY <1>0, <2>1 DEF Jobs
  <2>5. Stage(j)'
    BY <1>0, <1>3, <2>2, <2>4 DEF Stage, Settling, Read, Goto, At
  <2>6. /\ s.pc \in Settling <=> job[j].pc \in Settling
        /\ s.pc # "probing" /\ job[j].pc # "probing" /\ (job[j].pc # "dead" \/ dup[j] = {})
    BY <1>0, <1>3, <2>2 DEF Settling, Read, Goto, At
  <2> QED
    BY <1>0, <2>1, <2>2, <2>3, <2>5, <2>6, GoesOn
<1>4. ASSUME Read(j) /\ job' = [job EXCEPT ![j].pc = "settled", ![j].agreed = capacity]
      PROVE  Leases' /\ Jobs'
  <2> DEFINE s == [job[j] EXCEPT !.pc = "settled", !.agreed = capacity]
  <2>1. job' = [job EXCEPT ![j] = s] /\ lock' = lock /\ dup' = dup
    BY <1>4 DEF Read, At
  <2>2. /\ s.pc = "settled" /\ s.agreed = capacity /\ s.at = job[j].at
        /\ s.local = job[j].local /\ s.host = job[j].host
    BY <1>0, <1>4 DEF JobType, Read, At
  <2>3. s \in JobType
    BY <1>0, <1>4 DEF JobType, PC, Read, At
  <2> HIDE DEF s
  <2>4. job'[j] = s
    BY <1>0, <2>1 DEF Jobs
  <2>5. Stage(j)'
    BY <1>0, <1>4, <2>2, <2>4 DEF Stage, Settling, Read, At
  <2>6. /\ s.pc \in Settling <=> job[j].pc \in Settling
        /\ s.pc # "probing" /\ job[j].pc # "probing" /\ (job[j].pc # "dead" \/ dup[j] = {})
    BY <1>0, <1>4, <2>2 DEF Settling, Read, At
  <2> QED
    BY <1>0, <2>1, <2>2, <2>3, <2>5, <2>6, GoesOn
<1>5. ASSUME Read(j) /\ job' = [job EXCEPT ![j].pc = "probe", ![j].at = Requested[j]]
      PROVE  Leases' /\ Jobs'
  <2> DEFINE s == [job[j] EXCEPT !.pc = "probe", !.at = Requested[j]]
  <2>1. job' = [job EXCEPT ![j] = s] /\ lock' = lock /\ dup' = dup
    BY <1>5 DEF Read, At
  <2>2. /\ s.pc = "probe" /\ s.agreed = job[j].agreed /\ s.at = Requested[j]
        /\ s.local = job[j].local /\ s.host = job[j].host
    BY <1>0, <1>5 DEF JobType, Read, At
  <2>3. s \in JobType
    BY <1>0, <1>5 DEF JobType, PC, Read, At
  <2> HIDE DEF s
  <2>4. job'[j] = s
    BY <1>0, <2>1 DEF Jobs
  <2>5. Stage(j)'
    BY <1>0, <1>5, <2>2, <2>4 DEF Stage, Settling, Read, At
  <2>6. /\ s.pc \in Settling <=> job[j].pc \in Settling
        /\ s.pc # "probing" /\ job[j].pc # "probing" /\ (job[j].pc # "dead" \/ dup[j] = {})
    BY <1>0, <1>5, <2>2 DEF Settling, Read, At
  <2> QED
    BY <1>0, <2>1, <2>2, <2>3, <2>5, <2>6, GoesOn
<1>6. ASSUME ProbeLive(j)
      PROVE  Leases' /\ Jobs'
  <2> DEFINE s == [job[j] EXCEPT !.live = TRUE, !.at = @ + 1]
  <2>1. job' = [job EXCEPT ![j] = s] /\ lock' = lock /\ dup' = dup
    BY <1>6 DEF ProbeLive, At
  <2>2. /\ s.pc = "probe" /\ s.agreed = job[j].agreed /\ s.at = job[j].at + 1
        /\ s.local = job[j].local /\ s.host = job[j].host
    BY <1>0, <1>6 DEF JobType, ProbeLive, At
  <2>3. s \in JobType
    BY <1>0, <1>6 DEF JobType, PC, ProbeLive, At
  <2> HIDE DEF s
  <2>4. job'[j] = s
    BY <1>0, <2>1 DEF Jobs
  <2>5. Stage(j)'
    BY <1>0, <1>6, <2>2, <2>4 DEF Stage, Settling, ProbeLive, At
  <2>6. /\ s.pc \in Settling <=> job[j].pc \in Settling
        /\ s.pc # "probing" /\ job[j].pc # "probing" /\ (job[j].pc # "dead" \/ dup[j] = {})
    BY <1>0, <1>6, <2>2 DEF Settling, ProbeLive, At
  <2> QED
    BY <1>0, <2>1, <2>2, <2>3, <2>5, <2>6, GoesOn
<1>7. ASSUME ProbeDone(j)
      PROVE  Leases' /\ Jobs'
  <2> DEFINE s == [job[j] EXCEPT !.pc = "write", !.at = 0]
  <2>1. job' = [job EXCEPT ![j] = s] /\ lock' = lock /\ dup' = dup
    BY <1>7 DEF ProbeDone, Goto, At
  <2>2. /\ s.pc = "write" /\ s.agreed = job[j].agreed /\ s.at = 0
        /\ s.local = job[j].local /\ s.host = job[j].host
    BY <1>0, <1>7 DEF JobType, ProbeDone, Goto, At
  <2>3. s \in JobType
    BY <1>0, <1>7 DEF JobType, PC, ProbeDone, Goto, At
  <2> HIDE DEF s
  <2>4. job'[j] = s
    BY <1>0, <2>1 DEF Jobs
  <2>5. Stage(j)'
    BY <1>0, <1>7, <2>2, <2>4 DEF Stage, Settling, ProbeDone, Goto, At
  <2>6. /\ s.pc \in Settling <=> job[j].pc \in Settling
        /\ s.pc # "probing" /\ job[j].pc # "probing" /\ (job[j].pc # "dead" \/ dup[j] = {})
    BY <1>0, <1>7, <2>2 DEF Settling, ProbeDone, Goto, At
  <2> QED
    BY <1>0, <2>1, <2>2, <2>3, <2>5, <2>6, GoesOn
<1>8. ASSUME Truncate(j)
      PROVE  Leases' /\ Jobs'
  <2> DEFINE s == [job[j] EXCEPT !.pc = "writing", !.at = 0]
  <2>1. job' = [job EXCEPT ![j] = s] /\ lock' = lock /\ dup' = dup
    BY <1>8 DEF Truncate, Goto, At
  <2>2. /\ s.pc = "writing" /\ s.agreed = job[j].agreed /\ s.at = 0
        /\ s.local = job[j].local /\ s.host = job[j].host
    BY <1>0, <1>8 DEF JobType, Truncate, Goto, At
  <2>3. s \in JobType
    BY <1>0, <1>8 DEF JobType, PC, Truncate, Goto, At
  <2> HIDE DEF s
  <2>4. job'[j] = s
    BY <1>0, <2>1 DEF Jobs
  <2>5. Stage(j)'
    BY <1>0, <1>8, <2>2, <2>4 DEF Stage, Settling, Truncate, Goto, At
  <2>6. /\ s.pc \in Settling <=> job[j].pc \in Settling
        /\ s.pc # "probing" /\ job[j].pc # "probing" /\ (job[j].pc # "dead" \/ dup[j] = {})
    BY <1>0, <1>8, <2>2 DEF Settling, Truncate, Goto, At
  <2> QED
    BY <1>0, <2>1, <2>2, <2>3, <2>5, <2>6, GoesOn
<1>9. ASSUME WriteAgreement(j)
      PROVE  Leases' /\ Jobs'
  <2> DEFINE s == [job[j] EXCEPT !.pc = "settled", !.agreed = Requested[j]]
  <2>1. job' = [job EXCEPT ![j] = s] /\ lock' = lock /\ dup' = dup
    BY <1>9 DEF WriteAgreement, At
  <2>2. /\ s.pc = "settled" /\ s.agreed = Requested[j] /\ s.at = job[j].at
        /\ s.local = job[j].local /\ s.host = job[j].host
    BY <1>0, <1>9 DEF JobType, WriteAgreement, At
  <2>3. s \in JobType
    BY <1>0, <1>9 DEF JobType, PC, WriteAgreement, At
  <2> HIDE DEF s
  <2>4. job'[j] = s
    BY <1>0, <2>1 DEF Jobs
  <2>5. Stage(j)'
    BY <1>0, <1>9, <2>2, <2>4 DEF Stage, Settling, WriteAgreement, At
  <2>6. /\ s.pc \in Settling <=> job[j].pc \in Settling
        /\ s.pc # "probing" /\ job[j].pc # "probing" /\ (job[j].pc # "dead" \/ dup[j] = {})
    BY <1>0, <1>9, <2>2 DEF Settling, WriteAgreement, At
  <2> QED
    BY <1>0, <2>1, <2>2, <2>3, <2>5, <2>6, GoesOn
<1>10. ASSUME Again(j)
      PROVE  Leases' /\ Jobs'
  <2> DEFINE s == [job[j] EXCEPT !.at = 0]
  <2>1. job' = [job EXCEPT ![j] = s] /\ lock' = lock /\ dup' = dup
    BY <1>10 DEF Again, Scanned, At
  <2>2. /\ s.pc = job[j].pc /\ s.agreed = job[j].agreed /\ s.at = 0
        /\ s.local = job[j].local /\ s.host = job[j].host
    BY <1>0, <1>10 DEF JobType, Again, Scanned, At
  <2>3. s \in JobType
    BY <1>0, <1>10 DEF JobType, PC, Again, Scanned, At
  <2> HIDE DEF s
  <2>4. job'[j] = s
    BY <1>0, <2>1 DEF Jobs
  <2>5. Stage(j)'
    BY <1>0, <1>10, <2>2, <2>4 DEF Stage, Settling, Again, Scanned, At
  <2>6. /\ s.pc \in Settling <=> job[j].pc \in Settling
        /\ s.pc # "probing" /\ job[j].pc # "probing" /\ (job[j].pc # "dead" \/ dup[j] = {})
    BY <1>0, <1>10, <2>2 DEF Settling, Again, Scanned, At
  <2> QED
    BY <1>0, <2>1, <2>2, <2>3, <2>5, <2>6, GoesOn
<1> QED
  BY <1>1, <1>2, <1>3, <1>4, <1>5, <1>6, <1>7, <1>8, <1>9, <1>10 DEF Read

\* Steps that take a lock.
LEMMA TakingStepKeeps ==
  ASSUME Slots, NEW j \in Job,
         \/ Settle(j) \/ ProbeFree(j) \/ TryLocal(j) \/ TryHost(j)
  PROVE  Leases' /\ Jobs'
<1>0. /\ Leases /\ Jobs /\ Stage(j) /\ job[j] \in JobType /\ job[j].pc \in PC
      /\ job[j].at \in 0..MaxSlots /\ job[j].agreed \in 0..MaxSlots
      /\ capacity \in 0..MaxSlots /\ Requested[j] \in 1..MaxSlots
      /\ MaxSlots \in Nat /\ 0 \in 0..MaxSlots /\ Requested[j] \in 0..MaxSlots
      /\ LocalMax[LocalOf[j]] \in 1..MaxSlots
  BY StepFacts
<1>00. NoSlot \notin Index /\ Index = 0..(MaxSlots - 1) /\ NoSlot \in 0..MaxSlots
  BY Constants, <1>0 DEF Index, NoSlot
<1>1. ASSUME Settle(j)
      PROVE  Leases' /\ Jobs'
  <2> DEFINE s == [job[j] EXCEPT !.pc = "read", !.at = 0]
  <2>0. job[j].pc = "settle"
    BY <1>0, <1>00, <1>1 DEF Stage, Settling, Offered, Usable, Lesser, Settle, Goto, At
  <2>1. /\ job' = [job EXCEPT ![j] = s] /\ dup' = dup
        /\ Free(AgreementLock) /\ Take(j, AgreementLock) /\ AgreementLock \in File
    BY <1>0, <1>00, <1>1, <2>0, Files DEF Settle, Goto, At
  <2>2. /\ s.pc = "read" /\ s.agreed = job[j].agreed /\ s.at = 0
        /\ s.local = job[j].local /\ s.host = job[j].host
    BY <1>0, <1>1 DEF JobType, Idle, Settle, Goto, At
  <2>3. s \in JobType
    BY <1>0, <1>00, <1>1, <2>0 DEF JobType, PC, Idle, Settle, Goto, At
  <2> HIDE DEF s
  <2>4. job'[j] = s
    BY <1>0, <2>1 DEF Jobs
  <2>5. Stage(j)'
    BY <1>0, <1>00, <1>1, <2>0, <2>2, <2>4 DEF Stage, Settling, Settle, Goto, At
  <2>6. Holds(j)' = Holds(j) \cup {AgreementLock}
    BY <1>0, <1>00, <1>1, <2>0, <2>2, <2>4, Files DEF Holds, Stage, Settling, Settle, Goto, At
  <2>8. job[j].pc # "dead"
    BY <1>1 DEF Settle, Goto, At
  <2> QED
    BY <1>0, <2>1, <2>3, <2>5, <2>6, <2>8, TakesLease, JobsMove
<1>2. ASSUME ProbeFree(j)
      PROVE  Leases' /\ Jobs'
  <2> DEFINE s == [job[j] EXCEPT !.pc = "probing"]
  <2>0. job[j].pc = "probe" /\ job[j].at \in Index
    BY <1>0, <1>00, <1>2 DEF Stage, Settling, Offered, Usable, Lesser, ProbeFree, At
  <2>1. /\ job' = [job EXCEPT ![j] = s] /\ dup' = dup
        /\ Free(HostSlot(job[j].at)) /\ Take(j, HostSlot(job[j].at)) /\ HostSlot(job[j].at) \in File
    BY <1>0, <1>00, <1>2, <2>0, Files DEF ProbeFree, At
  <2>2. /\ s.pc = "probing" /\ s.agreed = job[j].agreed /\ s.at = job[j].at
        /\ s.local = job[j].local /\ s.host = job[j].host
    BY <1>0, <1>2 DEF JobType, Idle, ProbeFree, At
  <2>3. s \in JobType
    BY <1>0, <1>00, <1>2, <2>0 DEF JobType, PC, Idle, ProbeFree, At
  <2> HIDE DEF s
  <2>4. job'[j] = s
    BY <1>0, <2>1 DEF Jobs
  <2>5. Stage(j)'
    BY <1>0, <1>00, <1>2, <2>0, <2>2, <2>4 DEF Stage, Settling, ProbeFree, At
  <2>6. Holds(j)' = Holds(j) \cup {HostSlot(job[j].at)}
    BY <1>0, <1>00, <1>2, <2>0, <2>2, <2>4, Files DEF Holds, Stage, Settling, ProbeFree, At
  <2>8. job[j].pc # "dead"
    BY <1>2 DEF ProbeFree, At
  <2> QED
    BY <1>0, <2>1, <2>3, <2>5, <2>6, <2>8, TakesLease, JobsMove
<1>3. ASSUME TryLocal(j), Free(LocalSlot(j, job[j].at)), Take(j, LocalSlot(j, job[j].at)),
             dup' = dup,
             job' = [job EXCEPT ![j].pc = IF j \in Materializing THEN "running" ELSE "host",
                                 ![j].local = job[j].at, ![j].at = 0]
      PROVE  Leases' /\ Jobs'
  <2> DEFINE s == [job[j] EXCEPT !.pc = (IF j \in Materializing THEN "running" ELSE "host"), !.local = job[j].at, !.at = 0]
  <2>0. /\ job[j].pc = "local" /\ job[j].at \in Index
        /\ job[j].at \in 0..(LocalMax[LocalOf[j]] - 1)
    BY <1>0, <1>00, <1>3 DEF Stage, Settling, Offered, Usable, Lesser, TryLocal, At
  <2>1. /\ job' = [job EXCEPT ![j] = s] /\ dup' = dup
        /\ Free(LocalSlot(j, job[j].at)) /\ Take(j, LocalSlot(j, job[j].at)) /\ LocalSlot(j, job[j].at) \in File
    BY <1>0, <1>00, <1>3, <2>0, Files DEF TryLocal, At
  <2>2. /\ s.pc = (IF j \in Materializing THEN "running" ELSE "host") /\ s.agreed = job[j].agreed /\ s.at = 0
        /\ s.local = job[j].at /\ s.host = job[j].host
    BY <1>0, <1>3 DEF JobType, Idle, TryLocal, At
  <2>3. s \in JobType
    BY <1>0, <1>00, <1>3, <2>0 DEF JobType, PC, Idle, TryLocal, At
  <2> HIDE DEF s
  <2>4. job'[j] = s
    BY <1>0, <2>1 DEF Jobs
  <2>5. Stage(j)'
    BY <1>0, <1>00, <1>3, <2>0, <2>2, <2>4 DEF Stage, Settling, TryLocal, At
  <2>6. Holds(j)' = Holds(j) \cup {LocalSlot(j, job[j].at)}
    BY <1>0, <1>00, <1>3, <2>0, <2>2, <2>4, Files DEF Holds, Stage, Settling, TryLocal, At
  <2>8. job[j].pc # "dead"
    BY <1>3 DEF TryLocal, At
  <2> QED
    BY <1>0, <2>1, <2>3, <2>5, <2>6, <2>8, TakesLease, JobsMove
<1>4. ASSUME TryHost(j), Free(HostSlot(job[j].at)), Take(j, HostSlot(job[j].at)),
             dup' = dup,
             job' = [job EXCEPT ![j].pc = "running", ![j].host = job[j].at, ![j].at = 0]
      PROVE  Leases' /\ Jobs'
  <2> DEFINE s == [job[j] EXCEPT !.pc = "running", !.host = job[j].at, !.at = 0]
  <2>0. /\ job[j].pc = "host" /\ job[j].at \in Index
        /\ job[j].at \in 0..(job[j].agreed - 1)
    BY <1>0, <1>00, <1>4 DEF Stage, Settling, Offered, Usable, Lesser, TryHost, At
  <2>1. /\ job' = [job EXCEPT ![j] = s] /\ dup' = dup
        /\ Free(HostSlot(job[j].at)) /\ Take(j, HostSlot(job[j].at)) /\ HostSlot(job[j].at) \in File
    BY <1>0, <1>00, <1>4, <2>0, Files DEF TryHost, At
  <2>2. /\ s.pc = "running" /\ s.agreed = job[j].agreed /\ s.at = 0
        /\ s.local = job[j].local /\ s.host = job[j].at
    BY <1>0, <1>4 DEF JobType, Idle, TryHost, At
  <2>3. s \in JobType
    BY <1>0, <1>00, <1>4, <2>0 DEF JobType, PC, Idle, TryHost, At
  <2> HIDE DEF s
  <2>4. job'[j] = s
    BY <1>0, <2>1 DEF Jobs
  <2>5. Stage(j)'
    BY <1>0, <1>00, <1>4, <2>0, <2>2, <2>4 DEF Stage, Settling, TryHost, At
  <2>6. Holds(j)' = Holds(j) \cup {HostSlot(job[j].at)}
    <3>1. job[j].host = NoSlot /\ job[j].at # NoSlot
      BY <1>0, <1>00, <2>0 DEF Stage, Index, NoSlot
    <3> QED
      BY <2>0, <2>2, <2>4, <3>1 DEF Holds, At
  <2>8. job[j].pc # "dead"
    BY <1>4 DEF TryHost, At
  <2> QED
    BY <1>0, <2>1, <2>3, <2>5, <2>6, <2>8, TakesLease, JobsMove
<1>5. ASSUME TryLocal(j), Taken(j, LocalSlot(j, job[j].at))
      PROVE  Leases' /\ Jobs'
  <2> DEFINE s == [job[j] EXCEPT !.at = @ + 1]
  <2>0. job[j].pc \in {"local", "host"} /\ job[j].at + 1 \in 0..MaxSlots
    BY <1>0, <1>5 DEF Offered, Usable, Lesser, TryLocal, Taken, At
  <2>1. job' = [job EXCEPT ![j] = s] /\ lock' = lock /\ dup' = dup
    BY <1>5 DEF TryLocal, Taken, At
  <2>2. /\ s.pc = job[j].pc /\ s.agreed = job[j].agreed
        /\ s.local = job[j].local /\ s.host = job[j].host
    BY <1>0 DEF JobType
  <2>3. s \in JobType
    BY <1>0, <2>0 DEF JobType
  <2> HIDE DEF s
  <2>4. job'[j] = s
    BY <1>0, <2>1 DEF Jobs
  <2>5. Stage(j)'
    BY <1>0, <2>0, <2>2, <2>4 DEF Stage, Settling
  <2> QED
    BY <1>0, <2>0, <2>1, <2>2, <2>3, <2>5, GoesOn DEF Settling
<1>6. ASSUME TryHost(j), Taken(j, HostSlot(job[j].at))
      PROVE  Leases' /\ Jobs'
  <2> DEFINE s == [job[j] EXCEPT !.at = @ + 1]
  <2>0. job[j].pc \in {"local", "host"} /\ job[j].at + 1 \in 0..MaxSlots
    BY <1>0, <1>6 DEF Offered, Usable, Lesser, TryHost, Taken, At
  <2>1. job' = [job EXCEPT ![j] = s] /\ lock' = lock /\ dup' = dup
    BY <1>6 DEF TryHost, Taken, At
  <2>2. /\ s.pc = job[j].pc /\ s.agreed = job[j].agreed
        /\ s.local = job[j].local /\ s.host = job[j].host
    BY <1>0 DEF JobType
  <2>3. s \in JobType
    BY <1>0, <2>0 DEF JobType
  <2> HIDE DEF s
  <2>4. job'[j] = s
    BY <1>0, <2>1 DEF Jobs
  <2>5. Stage(j)'
    BY <1>0, <2>0, <2>2, <2>4 DEF Stage, Settling
  <2> QED
    BY <1>0, <2>0, <2>1, <2>2, <2>3, <2>5, GoesOn DEF Settling
<1> QED
  BY <1>1, <1>2, <1>3, <1>4, <1>5, <1>6 DEF TryLocal, TryHost

\* Steps that let go of locks.
LEMMA DroppingStepKeeps ==
  ASSUME Slots, NEW j \in Job,
         \/ ProbeNext(j) \/ ProbeRefused(j) \/ Settled(j) \/ Refuse(j)
         \/ DropLocal(j) \/ DropHost(j)
  PROVE  Leases' /\ Jobs'
<1>0. /\ Leases /\ Jobs /\ Stage(j) /\ job[j] \in JobType /\ job[j].pc \in PC
      /\ job[j].at \in 0..MaxSlots /\ job[j].agreed \in 0..MaxSlots
      /\ capacity \in 0..MaxSlots /\ Requested[j] \in 1..MaxSlots
      /\ MaxSlots \in Nat /\ 0 \in 0..MaxSlots /\ Requested[j] \in 0..MaxSlots
      /\ LocalMax[LocalOf[j]] \in 1..MaxSlots
  BY StepFacts
<1>00. NoSlot \notin Index /\ Index = 0..(MaxSlots - 1) /\ NoSlot \in 0..MaxSlots
  BY Constants, <1>0 DEF Index, NoSlot
<1>1. ASSUME ProbeNext(j)
      PROVE  Leases' /\ Jobs'
  <2> DEFINE s == [job[j] EXCEPT !.pc = "probe", !.at = @ + 1]
  <2>0. /\ job[j].pc = "probing" /\ job[j].at \in Index
        /\ job[j].at + 1 \in 0..MaxSlots
    BY <1>0, <1>00, <1>1 DEF Stage, Settling, Offered, Usable, Lesser, ProbeNext, At
  <2>1. job' = [job EXCEPT ![j] = s] /\ Unlock(j, {HostSlot(job[j].at)})
    BY <1>1 DEF ProbeNext, At
  <2>2. /\ s.pc = "probe" /\ s.agreed = job[j].agreed /\ s.at = job[j].at + 1
        /\ s.local = job[j].local /\ s.host = job[j].host
    BY <1>0, <1>1 DEF JobType, Idle, ProbeNext, At
  <2>3. s \in JobType
    BY <1>0, <1>00, <1>1, <2>0 DEF JobType, PC, Idle, ProbeNext, At
  <2> HIDE DEF s
  <2>4. job'[j] = s
    BY <1>0, <2>1 DEF Jobs
  <2>5. Stage(j)'
    BY <1>0, <1>00, <1>1, <2>0, <2>2, <2>4 DEF Stage, Settling, ProbeNext, At
  <2>6. Holds(j)' = Holds(j) \ {HostSlot(job[j].at)}
    BY <1>0, <1>00, <1>1, <2>0, <2>2, <2>4, Files DEF Holds, Stage, Settling, ProbeNext, At
  <2>7. {HostSlot(job[j].at)} \in SUBSET Held(j)
    BY <1>0, <1>00, <1>1, <2>0, Files DEF Leases, Holds, Stage, ProbeNext, At
  <2>8. job[j].pc # "dead"
    BY <1>1 DEF ProbeNext, At
  <2> QED
    BY <1>0, <2>1, <2>3, <2>5, <2>6, <2>7, <2>8, DropsLeases, JobsMove
<1>2. ASSUME ProbeRefused(j)
      PROVE  Leases' /\ Jobs'
  <2> DEFINE s == Idle
  <2>0. job[j].pc = "probe"
    BY <1>0, <1>00, <1>2 DEF Stage, Settling, Offered, Usable, Lesser, ProbeRefused, At
  <2>1. job' = [job EXCEPT ![j] = s] /\ Unlock(j, {AgreementLock})
    BY <1>2 DEF ProbeRefused, At
  <2>2. /\ s.pc = "idle" /\ s.agreed = 0 /\ s.at = 0
        /\ s.local = NoSlot /\ s.host = NoSlot
    BY <1>0, <1>2 DEF JobType, Idle, ProbeRefused, At
  <2>3. s \in JobType
    BY <1>0, <1>00, <1>2, <2>0 DEF JobType, PC, Idle, ProbeRefused, At
  <2> HIDE DEF s
  <2>4. job'[j] = s
    BY <1>0, <2>1 DEF Jobs
  <2>5. Stage(j)'
    BY <1>0, <1>00, <1>2, <2>0, <2>2, <2>4 DEF Stage, Settling, ProbeRefused, At
  <2>6. Holds(j)' = Holds(j) \ {AgreementLock}
    BY <1>0, <1>00, <1>2, <2>0, <2>2, <2>4, Files DEF Holds, Stage, Settling, ProbeRefused, At
  <2>7. {AgreementLock} \in SUBSET Held(j)
    BY <1>0, <1>00, <1>2, <2>0, Files DEF Leases, Holds, Stage, ProbeRefused, At
  <2>8. job[j].pc # "dead"
    BY <1>2 DEF ProbeRefused, At
  <2> QED
    BY <1>0, <2>1, <2>3, <2>5, <2>6, <2>7, <2>8, DropsLeases, JobsMove
<1>3. ASSUME Settled(j)
      PROVE  Leases' /\ Jobs'
  <2> DEFINE s == [job[j] EXCEPT !.pc = "local", !.at = 0]
  <2>0. job[j].pc = "settled"
    BY <1>0, <1>00, <1>3 DEF Stage, Settling, Offered, Usable, Lesser, Settled, Goto, At
  <2>1. job' = [job EXCEPT ![j] = s] /\ Unlock(j, {AgreementLock})
    BY <1>3 DEF Settled, Goto, At
  <2>2. /\ s.pc = "local" /\ s.agreed = job[j].agreed /\ s.at = 0
        /\ s.local = job[j].local /\ s.host = job[j].host
    BY <1>0, <1>3 DEF JobType, Idle, Settled, Goto, At
  <2>3. s \in JobType
    BY <1>0, <1>00, <1>3, <2>0 DEF JobType, PC, Idle, Settled, Goto, At
  <2> HIDE DEF s
  <2>4. job'[j] = s
    BY <1>0, <2>1 DEF Jobs
  <2>5. Stage(j)'
    BY <1>0, <1>00, <1>3, <2>0, <2>2, <2>4 DEF Stage, Settling, Settled, Goto, At
  <2>6. Holds(j)' = Holds(j) \ {AgreementLock}
    BY <1>0, <1>00, <1>3, <2>0, <2>2, <2>4, Files DEF Holds, Stage, Settling, Settled, Goto, At
  <2>7. {AgreementLock} \in SUBSET Held(j)
    BY <1>0, <1>00, <1>3, <2>0, Files DEF Leases, Holds, Stage, Settled, Goto, At
  <2>8. job[j].pc # "dead"
    BY <1>3 DEF Settled, Goto, At
  <2> QED
    BY <1>0, <2>1, <2>3, <2>5, <2>6, <2>7, <2>8, DropsLeases, JobsMove
<1>4. ASSUME Refuse(j)
      PROVE  Leases' /\ Jobs'
  <2> DEFINE s == Idle
  <2>0. job[j].pc \in {"local", "host"}
    BY <1>0, <1>00, <1>4 DEF Stage, Settling, Offered, Usable, Lesser, Refuse, Scanned, At
  <2>1. job' = [job EXCEPT ![j] = s] /\ Unlock(j, Held(j))
    BY <1>4 DEF Refuse, Scanned, At
  <2>2. /\ s.pc = "idle" /\ s.agreed = 0 /\ s.at = 0
        /\ s.local = NoSlot /\ s.host = NoSlot
    BY <1>0, <1>4 DEF JobType, Idle, Refuse, Scanned, At
  <2>3. s \in JobType
    BY <1>0, <1>00, <1>4, <2>0 DEF JobType, PC, Idle, Refuse, Scanned, At
  <2> HIDE DEF s
  <2>4. job'[j] = s
    BY <1>0, <2>1 DEF Jobs
  <2>5. Stage(j)'
    BY <1>0, <1>00, <1>4, <2>0, <2>2, <2>4 DEF Stage, Settling, Refuse, Scanned, At
  <2>6. Holds(j)' = Holds(j) \ Held(j)
    BY <1>0, <1>00, <1>4, <2>0, <2>2, <2>4, Files DEF Holds, Stage, Settling, Leases, Refuse, Scanned, At
  <2>7. Held(j) \in SUBSET Held(j)
    BY <1>0, <1>00, <1>4, <2>0, Files DEF Leases, Holds, Stage, Refuse, Scanned, At
  <2>8. job[j].pc # "dead"
    BY <1>4 DEF Refuse, Scanned, At
  <2> QED
    BY <1>0, <2>1, <2>3, <2>5, <2>6, <2>7, <2>8, DropsLeases, JobsMove
<1>5. ASSUME DropLocal(j), j \in Materializing
      PROVE  Leases' /\ Jobs'
  <2> DEFINE s == Idle
  <2>0. job[j].pc = "running" /\ job[j].local \in Index
    BY <1>0, <1>00, <1>5 DEF Stage, Settling, Offered, Usable, Lesser, DropLocal, At
  <2>1. job' = [job EXCEPT ![j] = s] /\ Unlock(j, {LocalSlot(j, job[j].local)})
    BY <1>5 DEF DropLocal, At
  <2>2. /\ s.pc = "idle" /\ s.agreed = 0 /\ s.at = 0
        /\ s.local = NoSlot /\ s.host = NoSlot
    BY <1>0, <1>5 DEF JobType, Idle, DropLocal, At
  <2>3. s \in JobType
    BY <1>0, <1>00, <1>5, <2>0 DEF JobType, PC, Idle, DropLocal, At
  <2> HIDE DEF s
  <2>4. job'[j] = s
    BY <1>0, <2>1 DEF Jobs
  <2>5. Stage(j)'
    BY <1>0, <1>00, <1>5, <2>0, <2>2, <2>4 DEF Stage, Settling, DropLocal, At
  <2>6. Holds(j)' = Holds(j) \ {LocalSlot(j, job[j].local)}
    BY <1>0, <1>00, <1>5, <2>0, <2>2, <2>4, Files DEF Holds, Stage, Settling, DropLocal, At
  <2>7. {LocalSlot(j, job[j].local)} \in SUBSET Held(j)
    BY <1>0, <1>00, <1>5, <2>0, Files DEF Leases, Holds, Stage, DropLocal, At
  <2>8. job[j].pc # "dead"
    BY <1>5 DEF DropLocal, At
  <2> QED
    BY <1>0, <2>1, <2>3, <2>5, <2>6, <2>7, <2>8, DropsLeases, JobsMove
<1>6. ASSUME DropLocal(j), j \notin Materializing
      PROVE  Leases' /\ Jobs'
  <2> DEFINE s == [job[j] EXCEPT !.pc = "leaving", !.local = NoSlot]
  <2>0. /\ job[j].pc = "running" /\ job[j].local \in Index
        /\ job[j].host \in 0..(job[j].agreed - 1) /\ job[j].host \in Index
    BY <1>0, <1>00, <1>6 DEF Stage, Settling, Offered, Usable, Lesser, DropLocal, At
  <2>1. job' = [job EXCEPT ![j] = s] /\ Unlock(j, {LocalSlot(j, job[j].local)})
    BY <1>6 DEF DropLocal, At
  <2>2. /\ s.pc = "leaving" /\ s.agreed = job[j].agreed /\ s.at = job[j].at
        /\ s.local = NoSlot /\ s.host = job[j].host
    BY <1>0, <1>6 DEF JobType, Idle, DropLocal, At
  <2>3. s \in JobType
    BY <1>0, <1>00, <1>6, <2>0 DEF JobType, PC, Idle, DropLocal, At
  <2> HIDE DEF s
  <2>4. job'[j] = s
    BY <1>0, <2>1 DEF Jobs
  <2>5. Stage(j)'
    BY <1>0, <1>00, <1>6, <2>0, <2>2, <2>4 DEF Stage, Settling, DropLocal, At
  <2>6. Holds(j)' = Holds(j) \ {LocalSlot(j, job[j].local)}
    BY <1>0, <1>00, <1>6, <2>0, <2>2, <2>4, Files DEF Holds, Stage, Settling, DropLocal, At
  <2>7. {LocalSlot(j, job[j].local)} \in SUBSET Held(j)
    BY <1>0, <1>00, <1>6, <2>0, Files DEF Leases, Holds, Stage, DropLocal, At
  <2>8. job[j].pc # "dead"
    BY <1>6 DEF DropLocal, At
  <2> QED
    BY <1>0, <2>1, <2>3, <2>5, <2>6, <2>7, <2>8, DropsLeases, JobsMove
<1>7. ASSUME DropHost(j)
      PROVE  Leases' /\ Jobs'
  <2> DEFINE s == Idle
  <2>0. /\ job[j].pc = "leaving" /\ j \notin Materializing
        /\ job[j].host \in Index
    BY <1>0, <1>00, <1>7 DEF Stage, Settling, Offered, Usable, Lesser, DropHost, At
  <2>1. job' = [job EXCEPT ![j] = s] /\ Unlock(j, {HostSlot(job[j].host)})
    BY <1>7 DEF DropHost, At
  <2>2. /\ s.pc = "idle" /\ s.agreed = 0 /\ s.at = 0
        /\ s.local = NoSlot /\ s.host = NoSlot
    BY <1>0, <1>7 DEF JobType, Idle, DropHost, At
  <2>3. s \in JobType
    BY <1>0, <1>00, <1>7, <2>0 DEF JobType, PC, Idle, DropHost, At
  <2> HIDE DEF s
  <2>4. job'[j] = s
    BY <1>0, <2>1 DEF Jobs
  <2>5. Stage(j)'
    BY <1>0, <1>00, <1>7, <2>0, <2>2, <2>4 DEF Stage, Settling, DropHost, At
  <2>6. Holds(j)' = Holds(j) \ {HostSlot(job[j].host)}
    BY <1>0, <1>00, <1>7, <2>0, <2>2, <2>4, Files DEF Holds, Stage, Settling, DropHost, At
  <2>7. {HostSlot(job[j].host)} \in SUBSET Held(j)
    BY <1>0, <1>00, <1>7, <2>0, Files DEF Leases, Holds, Stage, DropHost, At
  <2>8. job[j].pc # "dead"
    BY <1>7 DEF DropHost, At
  <2> QED
    BY <1>0, <2>1, <2>3, <2>5, <2>6, <2>7, <2>8, DropsLeases, JobsMove
<1> QED
  BY <1>1, <1>2, <1>3, <1>4, <1>5, <1>6, <1>7

\* Forks, execs and deaths.
LEMMA ProcessStepKeeps ==
  ASSUME Slots, NEW j \in Job, Fork(j) \/ ChildExecs(j) \/ Die(j)
  PROVE  Leases' /\ Jobs'
<1>0. /\ Leases /\ Jobs /\ Stage(j) /\ job[j] \in JobType /\ Held(j) = Holds(j)
      /\ NoJob \notin Job /\ Orphan \notin Job /\ NoJob # Orphan
  BY StepFacts, Constants DEF Leases
<1>1. CASE Fork(j)
  <2>1. /\ lock' = lock /\ job' = job /\ Held(j) # {}
        /\ dup' = [dup EXCEPT ![j] = Held(j)]
    BY <1>1 DEF Fork
  <2>2. /\ dup' \in [Job -> SUBSET File]
        /\ \A k \in Job \ {j} : dup'[k] = dup[k]
    BY <1>0, <2>1 DEF Leases, Held
  <2>3. ~At(j, "dead")
    BY <1>0, <2>1 DEF Holds, Stage, At
  <2>4. Orphans'
    BY <1>0, <2>1, <2>2, <2>3 DEF Leases, Orphans, At
  <2>5. \A k \in Job : Held(k)' = Held(k) /\ Holds(k)' = Holds(k)
    BY <2>1 DEF Held, Holds, At
  <2>6. Jobs'
    BY <1>0, <2>1 DEF Jobs, Stage
  <2> QED
    BY <1>0, <2>1, <2>2, <2>4, <2>5, <2>6 DEF Leases
<1>2. CASE ChildExecs(j)
  <2>1. /\ lock' = [f \in File |-> IF f \in dup[j] /\ lock[f] = Orphan THEN NoJob ELSE lock[f]]
        /\ dup' = [dup EXCEPT ![j] = {}] /\ job' = job
    BY <1>2 DEF ChildExecs
  <2>2. /\ dup' \in [Job -> SUBSET File] /\ lock' \in [File -> Job \cup {NoJob, Orphan}]
        /\ \A k \in Job \ {j} : dup'[k] = dup[k]
    BY <1>0, <2>1 DEF Leases
  <2>3. Orphans'
    <3> SUFFICES ASSUME NEW f \in File, lock'[f] = Orphan
                 PROVE  \E k \in Job : At(k, "dead")' /\ f \in dup'[k]
      BY DEF Orphans
    <3>1. lock[f] = Orphan /\ f \notin dup[j]
      BY <1>0, <2>1
    <3>2. PICK k \in Job : At(k, "dead") /\ f \in dup[k]
      BY <1>0, <3>1 DEF Leases, Orphans
    <3> QED
      BY <2>1, <2>2, <3>1, <3>2 DEF At
  <2>4. \A k \in Job : Held(k)' = Held(k) /\ Holds(k)' = Holds(k)
    <3> TAKE k \in Job
    <3>1. \A f \in File : lock'[f] = k <=> lock[f] = k
      BY <1>0, <2>1
    <3> QED
      BY <2>1, <3>1 DEF Held, Holds, At
  <2>5. Jobs'
    BY <1>0, <2>1 DEF Jobs, Stage
  <2> QED
    BY <1>0, <2>2, <2>3, <2>4, <2>5 DEF Leases
<1>3. CASE Die(j)
  <2> DEFINE s == [Idle EXCEPT !.pc = "dead"]
  <2>1. /\ lock' = [f \in File |-> IF lock[f] # j THEN lock[f]
                                  ELSE IF f \in dup[j] THEN Orphan ELSE NoJob]
        /\ job' = [job EXCEPT ![j] = s] /\ dup' = dup /\ job[j].pc # "dead"
    BY <1>3 DEF Die
  <2>2. /\ s.pc = "dead" /\ s.agreed = 0 /\ s.local = NoSlot /\ s.host = NoSlot
        /\ s.at = 0 /\ s.live = FALSE
    BY DEF Idle
  <2>0. 0 \in 0..MaxSlots /\ NoSlot \in 0..MaxSlots
    BY Constants
  <2>8. s \in JobType
    BY <2>0 DEF Idle, JobType, PC
  <2> HIDE DEF s
  <2>3. job'[j] = s /\ \A k \in Job \ {j} : job'[k] = job[k] /\ dup'[k] = dup[k]
    BY <1>0, <2>1 DEF Jobs
  <2>4. Stage(j)'
    BY <2>2, <2>3 DEF Stage, Settling
  <2>5. lock' \in [File -> Job \cup {NoJob, Orphan}] /\ dup' \in [Job -> SUBSET File]
    BY <1>0, <2>1 DEF Leases
  <2>6. Held(j)' = Holds(j)'
    <3>1. Held(j)' = {}
      BY <1>0, <2>1 DEF Held
    <3>2. Holds(j)' = {}
      BY <2>2, <2>3 DEF Holds, At
    <3> QED
      BY <3>1, <3>2
  <2>7. Orphans'
    <3> SUFFICES ASSUME NEW f \in File, lock'[f] = Orphan
                 PROVE  \E k \in Job : At(k, "dead")' /\ f \in dup'[k]
      BY DEF Orphans
    <3>1. CASE lock[f] = j
      <4>1. f \in dup'[j] /\ At(j, "dead")'
        BY <1>0, <2>1, <2>2, <2>3, <3>1 DEF At
      <4> QED
        BY <4>1
    <3>2. CASE lock[f] # j
      <4>1. PICK k \in Job : At(k, "dead") /\ f \in dup[k]
        BY <1>0, <2>1, <3>2 DEF Leases, Orphans
      <4>2. k # j
        BY <2>1, <4>1 DEF At
      <4> QED
        BY <2>3, <4>1, <4>2 DEF At
    <3> QED
      BY <3>1, <3>2
  <2> QED
    <3>1. \A f \in File : lock'[f] = lock[f] \/ {lock[f], lock'[f]} \subseteq {j, NoJob, Orphan}
      BY <2>1
    <3>2. Leases'
      BY <1>0, <2>3, <2>5, <2>6, <2>7, <3>1, LeasesFrame
    <3>3. Jobs'
      BY <1>0, <2>1, <2>4, <2>8, JobsMove
    <3> QED
      BY <3>2, <3>3
<1> QED
  BY <1>1, <1>2, <1>3

LEMMA NextKeepsSlots ==
  ASSUME Slots, Next
  PROVE  Leases' /\ Jobs'
BY GoingStepKeeps, TakingStepKeeps, DroppingStepKeeps, ProcessStepKeeps DEF Next, Standing

-----------------------------------------------------------------------------
(* The agreement is read and written by the holder of its lock alone. *)

LEMMA OneSettles ==
  ASSUME Slots, NEW j \in Job, NEW k \in Job,
         job[j].pc \in Settling, job[k].pc \in Settling
  PROVE  j = k
<1>1. AgreementLock \in Held(j) /\ AgreementLock \in Held(k)
  BY DEF Slots, Leases, Holds, Settling
<1> QED
  BY <1>1 DEF Held

\* A step that leaves the agreement alone.
LEMMA AgreementFrame ==
  ASSUME Slots, NEW j \in Job, \A k \in Job \ {j} : job'[k] = job[k],
         capacity' = capacity, word' = word,
         \/ job'[j].agreed = job[j].agreed /\ job'[j].pc # "settled"
         \/ job'[j].agreed \in {0, capacity},
         job'[j].pc = "writing" => capacity = 0,
         job'[j].pc = "write" => capacity = 0 \/ Authority # {},
         job'[j].pc \in {"probe", "probing"} => Authority # {}
  PROVE  Agreement'
<1>1. capacity \in Nat /\ word.most \in Nat /\ job[j].agreed \in Nat
  BY Constants, StepFacts DEF Slots, Agreement
<1> QED
  BY <1>1 DEF Slots, Agreement, At

LEMMA StandingKeepsAgreement ==
  ASSUME Slots, NEW j \in Job, Standing(j)
  PROVE  Agreement'
<1>0. /\ Agreement /\ Jobs /\ job[j] \in JobType /\ Stage(j)
      /\ Requested[j] \in 1..MaxSlots /\ MaxSlots \in Nat
  BY StepFacts DEF Slots
<1>1. CASE Start(j)
  <2>1. job'[j].pc \in {"local", "settle"} /\ job'[j].agreed = job[j].agreed
    BY <1>0, <1>1 DEF Start, Goto, At, Jobs, JobType
  <2>2. /\ \A k \in Job \ {j} : job'[k] = job[k]
        /\ capacity' = capacity /\ word' = word
    BY <1>0, <1>1 DEF Start, Goto, At, Jobs
  <2> QED
    BY <1>0, <1>1, <2>1, <2>2, AgreementFrame DEF Agreement, At
<1>2. CASE Settle(j)
  <2>1. job'[j].pc = "read" /\ job'[j].agreed = job[j].agreed
    BY <1>0, <1>2 DEF Settle, Goto, At, Jobs, JobType
  <2>2. /\ \A k \in Job \ {j} : job'[k] = job[k]
        /\ capacity' = capacity /\ word' = word
    BY <1>0, <1>2 DEF Settle, Goto, At, Jobs
  <2> QED
    BY <1>0, <1>2, <2>1, <2>2, AgreementFrame DEF Agreement, At
<1>3. CASE PoolBusy(j)
  <2>1. job'[j].pc = "idle" /\ job'[j].agreed = job[j].agreed
    BY <1>0, <1>3 DEF PoolBusy, Goto, At, Jobs, JobType
  <2>2. /\ \A k \in Job \ {j} : job'[k] = job[k]
        /\ capacity' = capacity /\ word' = word
    BY <1>0, <1>3 DEF PoolBusy, Goto, At, Jobs
  <2> QED
    BY <1>0, <1>3, <2>1, <2>2, AgreementFrame DEF Agreement, At
<1>4. CASE Read(j)
  <2>1. CASE capacity = 0 /\ Goto(j, "write")
    <3>1. job'[j].pc = "write" /\ job'[j].agreed = job[j].agreed
      BY <1>0, <1>4, <2>1 DEF Read, Goto, At, Jobs, JobType
    <3>2. /\ \A k \in Job \ {j} : job'[k] = job[k]
          /\ capacity' = capacity /\ word' = word
      BY <1>0, <1>4, <2>1 DEF Read, Goto, At, Jobs
    <3> QED
      BY <1>0, <1>4, <2>1, <3>1, <3>2, AgreementFrame DEF Agreement, At
  <2>2. CASE job' = [job EXCEPT ![j].pc = "settled", ![j].agreed = capacity]
    <3>1. job'[j].pc = "settled" /\ job'[j].agreed = capacity
      BY <1>0, <1>4, <2>2 DEF Read, At, Jobs, JobType
    <3>2. /\ \A k \in Job \ {j} : job'[k] = job[k]
          /\ capacity' = capacity /\ word' = word
      BY <1>0, <1>4, <2>2 DEF Read, At, Jobs
    <3> QED
      BY <1>0, <1>4, <2>2, <3>1, <3>2, AgreementFrame DEF Agreement, At
  <2>3. CASE j \in Authority /\ Goto(j, "write")
    <3>1. job'[j].pc = "write" /\ job'[j].agreed = job[j].agreed
      BY <1>0, <1>4, <2>3 DEF Read, Goto, At, Jobs, JobType
    <3>2. /\ \A k \in Job \ {j} : job'[k] = job[k]
          /\ capacity' = capacity /\ word' = word
      BY <1>0, <1>4, <2>3 DEF Read, Goto, At, Jobs
    <3> QED
      BY <1>0, <1>4, <2>3, <3>1, <3>2, AgreementFrame DEF Agreement, At
  <2>4. CASE j \in Authority /\ job' = [job EXCEPT ![j].pc = "probe", ![j].at = Requested[j]]
    <3>1. job'[j].pc = "probe" /\ job'[j].agreed = job[j].agreed
      BY <1>0, <1>4, <2>4 DEF Read, At, Jobs, JobType
    <3>2. /\ \A k \in Job \ {j} : job'[k] = job[k]
          /\ capacity' = capacity /\ word' = word
      BY <1>0, <1>4, <2>4 DEF Read, At, Jobs
    <3> QED
      BY <1>0, <1>4, <2>4, <3>1, <3>2, AgreementFrame DEF Agreement, At
  <2> QED
    BY <1>4, <2>1, <2>2, <2>3, <2>4 DEF Read
<1>5. CASE ProbeFree(j)
  <2>1. job'[j].pc = "probing" /\ job'[j].agreed = job[j].agreed /\ job[j].pc = "probe"
    BY <1>0, <1>5 DEF ProbeFree, At, Jobs, JobType
  <2>2. /\ \A k \in Job \ {j} : job'[k] = job[k]
        /\ capacity' = capacity /\ word' = word
    BY <1>0, <1>5 DEF ProbeFree, At, Jobs
  <2> QED
    BY <1>0, <1>5, <2>1, <2>2, AgreementFrame DEF Agreement, At
<1>6. CASE ProbeNext(j)
  <2>1. job'[j].pc = "probe" /\ job'[j].agreed = job[j].agreed /\ job[j].pc = "probing"
    BY <1>0, <1>6 DEF ProbeNext, At, Jobs, JobType
  <2>2. /\ \A k \in Job \ {j} : job'[k] = job[k]
        /\ capacity' = capacity /\ word' = word
    BY <1>0, <1>6 DEF ProbeNext, At, Jobs
  <2> QED
    BY <1>0, <1>6, <2>1, <2>2, AgreementFrame DEF Agreement, At
<1>7. CASE ProbeLive(j)
  <2>1. job'[j].pc = "probe" /\ job'[j].agreed = job[j].agreed /\ job[j].pc = "probe"
    BY <1>0, <1>7 DEF ProbeLive, At, Jobs, JobType
  <2>2. /\ \A k \in Job \ {j} : job'[k] = job[k]
        /\ capacity' = capacity /\ word' = word
    BY <1>0, <1>7 DEF ProbeLive, At, Jobs
  <2> QED
    BY <1>0, <1>7, <2>1, <2>2, AgreementFrame DEF Agreement, At
<1>8. CASE ProbeDone(j)
  <2>1. job'[j].pc = "write" /\ job'[j].agreed = job[j].agreed /\ job[j].pc = "probe"
    BY <1>0, <1>8 DEF ProbeDone, Goto, At, Jobs, JobType
  <2>2. /\ \A k \in Job \ {j} : job'[k] = job[k]
        /\ capacity' = capacity /\ word' = word
    BY <1>0, <1>8 DEF ProbeDone, Goto, At, Jobs
  <2> QED
    BY <1>0, <1>8, <2>1, <2>2, AgreementFrame DEF Agreement, At
<1>9. CASE ProbeRefused(j)
  <2>1. job'[j].pc = "idle" /\ job'[j].agreed = 0
    BY <1>0, <1>9 DEF ProbeRefused, Idle, At, Jobs, JobType
  <2>2. /\ \A k \in Job \ {j} : job'[k] = job[k]
        /\ capacity' = capacity /\ word' = word
    BY <1>0, <1>9 DEF ProbeRefused, Idle, At, Jobs
  <2> QED
    BY <1>0, <1>9, <2>1, <2>2, AgreementFrame DEF Agreement, At
<1>10. CASE Truncate(j)
  <2>1. /\ capacity' = 0 /\ word' = [word EXCEPT !.recut = @ \/ capacity # 0]
        /\ job[j].pc = "write" /\ job' = [job EXCEPT ![j].pc = "writing", ![j].at = 0]
    BY <1>10 DEF Truncate, Goto, At
  <2>2. /\ job'[j].pc = "writing" /\ job'[j].agreed = 0
        /\ \A k \in Job \ {j} : job'[k] = job[k]
    BY <1>0, <2>1 DEF Jobs, JobType, Stage
  <2>3. \A k \in Job \ {j} : job[k].pc \notin Settling
    BY <2>1, OneSettles DEF Settling
  <2>4. word'.most = word.most /\ word'.recut = (word.recut \/ capacity # 0)
        /\ word' \in [most : 0..MaxSlots, recut : BOOLEAN]
    BY <1>0, <2>1 DEF Agreement
  <2>5. capacity # 0 => Authority # {}
    BY <1>0, <2>1 DEF Agreement, At
  <2>6. \A k \in Job \ {j} : /\ job'[k].agreed <= word'.most
                             /\ job'[k].agreed # 0 /\ ~word'.recut => job'[k].agreed = capacity'
                             /\ job'[k].pc \notin Settling
    BY <1>0, <2>1, <2>2, <2>3, <2>4 DEF Agreement, At
  <2>7. 0 <= word.most /\ capacity \in 0..MaxSlots /\ 0 \in 0..MaxSlots
    BY <1>0 DEF Agreement
  <2> QED
    BY <1>0, <2>1, <2>2, <2>4, <2>5, <2>6, <2>7 DEF Agreement, At, Settling
<1>11. CASE WriteAgreement(j)
  <2>1. /\ capacity' = Requested[j] /\ job[j].pc = "writing" /\ capacity = 0
        /\ word' = [word EXCEPT !.most = IF @ < Requested[j] THEN Requested[j] ELSE @]
        /\ job' = [job EXCEPT ![j].pc = "settled", ![j].agreed = Requested[j]]
    BY <1>0, <1>11 DEF WriteAgreement, At, Agreement
  <2>2. /\ job'[j].pc = "settled" /\ job'[j].agreed = Requested[j]
        /\ \A k \in Job \ {j} : job'[k] = job[k]
    BY <1>0, <2>1 DEF Jobs, JobType
  <2>3. \A k \in Job \ {j} : job[k].pc \notin Settling
    BY <2>1, OneSettles DEF Settling
  <2>4. /\ word'.most \in 0..MaxSlots /\ word.most <= word'.most /\ Requested[j] <= word'.most
        /\ word'.recut = word.recut /\ word' \in [most : 0..MaxSlots, recut : BOOLEAN]
        /\ word.most = 0 => word'.most = Requested[j]
    BY <1>0, <2>1 DEF Agreement
  <2>5. \A k \in Job \ {j} : /\ job'[k].agreed <= word'.most
                             /\ job'[k].agreed # 0 => word'.recut
                             /\ job'[k].pc \notin Settling
    <3> TAKE k \in Job \ {j}
    <3>1. job[k].agreed \in Nat /\ job[k].agreed <= word.most /\ word.most \in Nat
      BY <1>0, StepFacts DEF Agreement
    <3>2. job[k].agreed # 0 => word.recut
      BY <1>0, <2>1 DEF Agreement
    <3> QED
      BY <1>0, <2>2, <2>3, <2>4, <3>1, <3>2
  <2>6. ~word.recut => word.most = 0
    BY <1>0, <2>1 DEF Agreement
  <2>7. ASSUME NEW k \in Job
        PROVE  /\ job'[k].agreed <= word'.most
               /\ job'[k].agreed # 0 /\ (~word'.recut \/ job'[k].pc = "settled")
                    => job'[k].agreed = capacity'
               /\ job'[k].pc \notin {"write", "writing", "probe", "probing"}
    <3>1. CASE k = j
      BY <2>1, <2>2, <2>4, <3>1
    <3>2. CASE k # j
      BY <2>5, <3>2 DEF Settling
    <3> QED
      BY <3>1, <3>2
  <2>8. /\ capacity' \in 0..MaxSlots /\ capacity' <= word'.most
        /\ ~word'.recut => capacity' = word'.most
        /\ word'.recut => Authority # {}
    BY <1>0, <2>1, <2>4, <2>6 DEF Agreement
  <2> QED
    BY <2>4, <2>7, <2>8 DEF Agreement, At
<1>12. CASE Settled(j)
  <2>1. job'[j].pc = "local" /\ job'[j].agreed = job[j].agreed
    BY <1>0, <1>12 DEF Settled, Goto, At, Jobs, JobType
  <2>2. /\ \A k \in Job \ {j} : job'[k] = job[k]
        /\ capacity' = capacity /\ word' = word
    BY <1>0, <1>12 DEF Settled, Goto, At, Jobs
  <2> QED
    BY <1>0, <1>12, <2>1, <2>2, AgreementFrame DEF Agreement, At
<1> QED
  BY <1>1, <1>2, <1>3, <1>4, <1>5, <1>6, <1>7, <1>8, <1>9, <1>10, <1>11, <1>12 DEF Standing

LEMMA RestKeepsAgreement ==
  ASSUME Slots, NEW j \in Job,
         \/ TryLocal(j) \/ TryHost(j) \/ Again(j) \/ Refuse(j)
         \/ DropLocal(j) \/ DropHost(j) \/ Fork(j) \/ ChildExecs(j) \/ Die(j)
  PROVE  Agreement'
<1>0. Agreement /\ Jobs /\ job[j] \in JobType
  BY StepFacts DEF Slots
<1>1. CASE TryLocal(j)
  <2>1. CASE Taken(j, LocalSlot(j, job[j].at))
    <3>1. job'[j].pc \in {"local", "running", "host"} /\ job'[j].agreed = job[j].agreed
      BY <1>0, <1>1, <2>1 DEF TryLocal, Taken, At, Jobs, JobType
    <3>2. /\ \A k \in Job \ {j} : job'[k] = job[k]
          /\ capacity' = capacity /\ word' = word
      BY <1>0, <1>1, <2>1 DEF TryLocal, Taken, At, Jobs
    <3> QED
      BY <1>0, <1>1, <2>1, <3>1, <3>2, AgreementFrame DEF Agreement, At
  <2>2. CASE ~Taken(j, LocalSlot(j, job[j].at))
    <3>1. job'[j].pc \in {"local", "running", "host"} /\ job'[j].agreed = job[j].agreed
      BY <1>0, <1>1, <2>2 DEF TryLocal, At, Jobs, JobType
    <3>2. /\ \A k \in Job \ {j} : job'[k] = job[k]
          /\ capacity' = capacity /\ word' = word
      BY <1>0, <1>1, <2>2 DEF TryLocal, At, Jobs
    <3> QED
      BY <1>0, <1>1, <2>2, <3>1, <3>2, AgreementFrame DEF Agreement, At
  <2> QED
    BY <2>1, <2>2
<1>2. CASE TryHost(j)
  <2>1. CASE Taken(j, HostSlot(job[j].at))
    <3>1. job'[j].pc \in {"host", "running"} /\ job'[j].agreed = job[j].agreed
      BY <1>0, <1>2, <2>1 DEF TryHost, Taken, At, Jobs, JobType
    <3>2. /\ \A k \in Job \ {j} : job'[k] = job[k]
          /\ capacity' = capacity /\ word' = word
      BY <1>0, <1>2, <2>1 DEF TryHost, Taken, At, Jobs
    <3> QED
      BY <1>0, <1>2, <2>1, <3>1, <3>2, AgreementFrame DEF Agreement, At
  <2>2. CASE ~Taken(j, HostSlot(job[j].at))
    <3>1. job'[j].pc \in {"host", "running"} /\ job'[j].agreed = job[j].agreed
      BY <1>0, <1>2, <2>2 DEF TryHost, At, Jobs, JobType
    <3>2. /\ \A k \in Job \ {j} : job'[k] = job[k]
          /\ capacity' = capacity /\ word' = word
      BY <1>0, <1>2, <2>2 DEF TryHost, At, Jobs
    <3> QED
      BY <1>0, <1>2, <2>2, <3>1, <3>2, AgreementFrame DEF Agreement, At
  <2> QED
    BY <2>1, <2>2
<1>3. CASE Again(j)
  <2>1. job'[j].pc \in {"local", "host"} /\ job'[j].agreed = job[j].agreed
    BY <1>0, <1>3 DEF Again, Scanned, At, Jobs, JobType
  <2>2. /\ \A k \in Job \ {j} : job'[k] = job[k]
        /\ capacity' = capacity /\ word' = word
    BY <1>0, <1>3 DEF Again, Scanned, At, Jobs
  <2> QED
    BY <1>0, <1>3, <2>1, <2>2, AgreementFrame DEF Agreement, At
<1>4. CASE Refuse(j)
  <2>1. job'[j].pc = "idle" /\ job'[j].agreed = 0
    BY <1>0, <1>4 DEF Refuse, Idle, At, Jobs, JobType
  <2>2. /\ \A k \in Job \ {j} : job'[k] = job[k]
        /\ capacity' = capacity /\ word' = word
    BY <1>0, <1>4 DEF Refuse, Idle, At, Jobs
  <2> QED
    BY <1>0, <1>4, <2>1, <2>2, AgreementFrame DEF Agreement, At
<1>5. CASE DropLocal(j)
  <2>1. CASE j \in Materializing
    <3>1. job'[j].pc = "idle" /\ job'[j].agreed = 0
      BY <1>0, <1>5, <2>1 DEF DropLocal, Idle, At, Jobs, JobType
    <3>2. /\ \A k \in Job \ {j} : job'[k] = job[k]
          /\ capacity' = capacity /\ word' = word
      BY <1>0, <1>5, <2>1 DEF DropLocal, Idle, At, Jobs
    <3> QED
      BY <1>0, <1>5, <2>1, <3>1, <3>2, AgreementFrame DEF Agreement, At
  <2>2. CASE j \notin Materializing
    <3>1. job'[j].pc = "leaving" /\ job'[j].agreed = job[j].agreed
      BY <1>0, <1>5, <2>2 DEF DropLocal, At, Jobs, JobType
    <3>2. /\ \A k \in Job \ {j} : job'[k] = job[k]
          /\ capacity' = capacity /\ word' = word
      BY <1>0, <1>5, <2>2 DEF DropLocal, At, Jobs
    <3> QED
      BY <1>0, <1>5, <2>2, <3>1, <3>2, AgreementFrame DEF Agreement, At
  <2> QED
    BY <2>1, <2>2
<1>6. CASE DropHost(j)
  <2>1. job'[j].pc = "idle" /\ job'[j].agreed = 0
    BY <1>0, <1>6 DEF DropHost, Idle, At, Jobs, JobType
  <2>2. /\ \A k \in Job \ {j} : job'[k] = job[k]
        /\ capacity' = capacity /\ word' = word
    BY <1>0, <1>6 DEF DropHost, Idle, At, Jobs
  <2> QED
    BY <1>0, <1>6, <2>1, <2>2, AgreementFrame DEF Agreement, At
<1>7. CASE Fork(j) \/ ChildExecs(j)
  BY <1>0, <1>7 DEF Fork, ChildExecs, Agreement, At
<1>8. CASE Die(j)
  <2>1. job'[j].pc = "dead" /\ job'[j].agreed = 0
    BY <1>0, <1>8 DEF Die, Idle, At, Jobs, JobType
  <2>2. /\ \A k \in Job \ {j} : job'[k] = job[k]
        /\ capacity' = capacity /\ word' = word
    BY <1>0, <1>8 DEF Die, Idle, At, Jobs
  <2> QED
    BY <1>0, <1>8, <2>1, <2>2, AgreementFrame DEF Agreement, At
<1> QED
  BY <1>1, <1>2, <1>3, <1>4, <1>5, <1>6, <1>7, <1>8

-----------------------------------------------------------------------------
(* The invariant and what it says of the properties. *)

LEMMA InitSlots == Init => Slots
<1> SUFFICES ASSUME Init
             PROVE  Slots
  OBVIOUS
<1>1. /\ MaxSlots \in Nat /\ 0 \in 0..MaxSlots /\ NoSlot \in 0..MaxSlots
      /\ NoJob \notin Job /\ NoJob # Orphan
  BY Constants
<1>2. Idle \in JobType
  BY <1>1 DEF Idle, JobType, PC
<1>3. \A j \in Job : /\ job[j] = Idle /\ job[j].pc = "idle" /\ job[j].agreed = 0
                     /\ job[j].local = NoSlot /\ job[j].host = NoSlot
  BY DEF Init, Idle
<1>4. Jobs
  BY <1>2, <1>3 DEF Init, Jobs, Stage, Settling
<1>5. \A j \in Job : Held(j) = {} /\ Holds(j) = {}
  BY <1>1, <1>3 DEF Init, Held, Holds, At
<1>6. Leases
  BY <1>1, <1>5 DEF Init, Leases, Orphans
<1>7. Agreement
  BY <1>1, <1>3 DEF Init, Agreement, At
<1> QED
  BY <1>4, <1>6, <1>7 DEF Slots

LEMMA NextSlots == Slots /\ [Next]_vars => Slots'
<1>1. ASSUME Slots, Next
      PROVE  Slots'
  <2>1. Agreement'
    BY <1>1, StandingKeepsAgreement, RestKeepsAgreement DEF Next
  <2> QED
    BY <1>1, <2>1, NextKeepsSlots DEF Slots
<1>2. ASSUME Slots, UNCHANGED vars
      PROVE  Slots'
  <2>1. /\ capacity' = capacity /\ lock' = lock /\ job' = job /\ dup' = dup /\ word' = word
    BY <1>2 DEF vars
  <2>2. \A j \in Job : Held(j)' = Held(j) /\ Holds(j)' = Holds(j)
    BY <2>1 DEF Held, Holds, At
  <2>3. Leases'
    BY <1>2, <2>1, <2>2 DEF Slots, Leases, Orphans, At
  <2>4. Jobs'
    BY <1>2, <2>1 DEF Slots, Jobs, Stage
  <2>5. Agreement'
    BY <1>2, <2>1 DEF Slots, Agreement, At
  <2> QED
    BY <2>3, <2>4, <2>5 DEF Slots
<1> QED
  BY <1>1, <1>2

LEMMA SlotsHold == Spec => []Slots
BY InitSlots, NextSlots, PTL DEF Spec

\* Each flock is held by the job whose place in `admit` says so, or by the
\* child of a process that died: slots return, for every number of them.
THEOREM SlotsReturn == Spec => []SlotReturns
<1>1. Slots => SlotReturns
  <2> SUFFICES ASSUME Slots
               PROVE  SlotReturns
    OBVIOUS
  <2>1. TypeOK
    <3>1. \A j \in Job : job[j].pc \in {"idle", "dead"} => job[j].local = NoSlot /\ job[j].host = NoSlot
      BY JobFacts DEF Slots, Stage
    <3> QED
      BY <3>1 DEF Slots, Leases, Jobs, Agreement, TypeOK, JobType
  <2> QED
    BY <2>1 DEF Slots, Leases, Orphans, SlotReturns
<1> QED
  BY <1>1, SlotsHold, PTL

\* However the first participants race to set the agreement, every one of them
\* acts on the number the pool has, until an estate with authority changes it.
THEOREM OneAgreement == Spec => []AgreedByAll
<1>1. Slots => AgreedByAll
  BY DEF Slots, Agreement, AgreedByAll, At
<1> QED
  BY <1>1, SlotsHold, PTL

-----------------------------------------------------------------------------
(* The pool is a semaphore. *)

\* Takers of different numbers below n, none of which is x, are fewer than n.
LEMMA Room ==
  ASSUME NEW S, NEW n \in Nat, NEW g \in [S -> 0..(n - 1)],
         \A a, b \in S : g[a] = g[b] => a = b,
         NEW x \in 0..(n - 1), \A a \in S : g[a] # x
  PROVE  Cardinality(S) < n
<1> DEFINE T == 0..(n - 1)
<1>1. IsFiniteSet(T) /\ Cardinality(T) = n
  BY FS_Interval
<1>2. IsFiniteSet(T \ {x}) /\ Cardinality(T \ {x}) = n - 1
  <2>1. x \in T
    OBVIOUS
  <2> HIDE DEF T
  <2> QED
    BY <1>1, <2>1, FS_RemoveElement
<1>3. g \in [S -> T \ {x}]
  OBVIOUS
<1>4. g \in Injection(S, T \ {x})
  BY <1>3 DEF Injection, IsInjective
<1>5. IsFiniteSet(S) /\ Cardinality(S) <= n - 1
  BY <1>2, <1>4, FS_Injection
<1> QED
  BY <1>5, FS_CardinalityType

\* A job that took one of its own pool's slots is not one of as many running
\* there as the pool has.
LEMMA RoomInEstate ==
  ASSUME Slots, NEW j \in Job, j \notin Running, NEW i \in 0..(LocalMax[LocalOf[j]] - 1),
         \/ Free(LocalSlot(j, i))
         \/ lock[LocalSlot(j, i)] = j
  PROVE  Cardinality(Pool!Of(LocalOf[j], Running)) < LocalMax[LocalOf[j]]
<1> DEFINE S == {k \in Running : LocalOf[k] = LocalOf[j]}
           n == LocalMax[LocalOf[j]]
           g == [k \in S |-> job[k].local]
<1>1. n \in Nat /\ 0..(n - 1) \subseteq Index /\ NoSlot \notin Index
  BY Constants
<1>2. ASSUME NEW k \in S
      PROVE  job[k].local \in 0..(n - 1) /\ lock[LocalSlot(k, job[k].local)] = k
  <2>1. k \in Job /\ job[k].local \in 0..(n - 1)
    BY JobFacts DEF Slots, Stage, Running, At
  <2>2. LocalSlot(k, job[k].local) \in Held(k)
    BY <1>1, <2>1 DEF Slots, Leases, Holds
  <2> QED
    BY <2>1, <2>2 DEF Held
<1>3. \A a, b \in S : g[a] = g[b] => a = b
  BY <1>2 DEF LocalSlot
<1>4. \A a \in S : g[a] # i
  <2> SUFFICES ASSUME NEW a \in S, job[a].local = i
               PROVE  FALSE
    OBVIOUS
  <2>1. lock[LocalSlot(j, i)] = a /\ a \in Job /\ a # j
    BY <1>2 DEF LocalSlot, Running
  <2> QED
    BY <2>1, Constants DEF Free
<1>5. Cardinality(S) < n
  <2>1. g \in [S -> 0..(n - 1)]
    BY <1>2
  <2> HIDE DEF g, S, n
  <2> QED
    BY <1>1, <1>3, <1>4, <2>1, Room DEF n
<1> QED
  BY <1>5 DEF Pool!Of

LEMMA RoomInHost ==
  ASSUME Slots, NEW j \in Job, NEW i \in 0..(word.most - 1), i \in Index, Free(HostSlot(i))
  PROVE  Cardinality(Pool!Expensive(Running)) < word.most
<1> DEFINE S == Running \ Materializing
           g == [k \in S |-> job[k].host]
<1>1. word.most \in Nat /\ 0..(word.most - 1) \subseteq Index /\ NoSlot \notin Index
  BY Constants DEF Slots, Agreement, Index
<1>2. ASSUME NEW k \in S
      PROVE  job[k].host \in 0..(word.most - 1) /\ lock[HostSlot(job[k].host)] = k
  <2>1. k \in Job /\ job[k].host \in 0..(job[k].agreed - 1) /\ job[k].agreed \in Nat
    BY Constants, JobFacts DEF Slots, Stage, Running, At
  <2>2. job[k].agreed <= word.most
    BY <2>1 DEF Slots, Agreement
  <2>3. job[k].host \in 0..(word.most - 1)
    BY <1>1, <2>1, <2>2
  <2>4. HostSlot(job[k].host) \in Held(k)
    BY <1>1, <2>1, <2>3 DEF Slots, Leases, Holds
  <2> QED
    BY <2>3, <2>4 DEF Held
<1>3. \A a, b \in S : g[a] = g[b] => a = b
  BY <1>2 DEF HostSlot
<1>4. \A a \in S : g[a] # i
  <2> SUFFICES ASSUME NEW a \in S, job[a].host = i
               PROVE  FALSE
    OBVIOUS
  <2>1. lock[HostSlot(i)] = a /\ a \in Job
    BY <1>2 DEF Running
  <2> QED
    BY <2>1, Constants DEF Free
<1>5. Cardinality(S) < word.most
  <2>1. g \in [S -> 0..(word.most - 1)]
    BY <1>2
  <2> HIDE DEF g, S
  <2> QED
    BY <1>1, <1>3, <1>4, <2>1, Room
<1> QED
  BY <1>5 DEF Pool!Expensive

LEMMA RunningMoves ==
  ASSUME NEW j \in Job, \A k \in Job \ {j} : job'[k] = job[k]
  PROVE  /\ (job'[j].pc = "running" <=> job[j].pc = "running") => Running' = Running
         /\ job'[j].pc = "running" => Running' = Running \cup {j}
         /\ job'[j].pc # "running" => Running' = Running \ {j}
BY DEF Running, At

\* Settling the agreement admits and ends nobody; a number higher than ever
\* is the first one or comes from authority.
LEMMA StandingIsAgree ==
  ASSUME Slots, NEW j \in Job, Standing(j)
  PROVE  [Pool!Next]_(Pool!pool)
<1>0. /\ Agreement /\ Jobs /\ job[j] \in JobType
      /\ Requested[j] \in 1..MaxSlots /\ MaxSlots \in Nat
  BY StepFacts DEF Slots
<1>1. /\ \A k \in Job \ {j} : job'[k] = job[k]
      /\ job'[j].pc # "running" /\ job[j].pc # "running"
  <2>1. CASE Start(j)
    BY <1>0, <2>1 DEF Start, Goto, At, Jobs, JobType
  <2>2. CASE Settle(j)
    BY <1>0, <2>2 DEF Settle, Goto, At, Jobs, JobType
  <2>3. CASE PoolBusy(j)
    BY <1>0, <2>3 DEF PoolBusy, Goto, At, Jobs, JobType
  <2>4. CASE Read(j)
    BY <1>0, <2>4 DEF Read, Goto, At, Jobs, JobType
  <2>5. CASE ProbeFree(j)
    BY <1>0, <2>5 DEF ProbeFree, At, Jobs, JobType
  <2>6. CASE ProbeNext(j)
    BY <1>0, <2>6 DEF ProbeNext, At, Jobs, JobType
  <2>7. CASE ProbeLive(j)
    BY <1>0, <2>7 DEF ProbeLive, At, Jobs, JobType
  <2>8. CASE ProbeDone(j)
    BY <1>0, <2>8 DEF ProbeDone, Goto, At, Jobs, JobType
  <2>9. CASE ProbeRefused(j)
    BY <1>0, <2>9 DEF ProbeRefused, Idle, At, Jobs, JobType
  <2>10. CASE Truncate(j)
    BY <1>0, <2>10 DEF Truncate, Goto, At, Jobs, JobType
  <2>11. CASE WriteAgreement(j)
    BY <1>0, <2>11 DEF WriteAgreement, At, Jobs, JobType
  <2>12. CASE Settled(j)
    BY <1>0, <2>12 DEF Settled, Goto, At, Jobs, JobType
  <2> QED
    BY <2>1, <2>2, <2>3, <2>4, <2>5, <2>6, <2>7, <2>8, <2>9, <2>10, <2>11, <2>12 DEF Standing
<1>2. Running' = Running
  BY <1>1, RunningMoves
<1>3. CASE word'.most = word.most
  BY <1>2, <1>3 DEF Pool!pool
<1>4. CASE word'.most # word.most
  <2>1. WriteAgreement(j)
    BY <1>0, <1>4 DEF Standing, Start, Settle, PoolBusy, Read, ProbeFree, ProbeNext, ProbeLive,
         ProbeDone, ProbeRefused, Truncate, Settled, Agreement
  <2>2. /\ capacity = 0 /\ word.most \in Nat /\ word.most < Requested[j]
        /\ word'.most = Requested[j]
    BY <1>0, <1>4, <2>1 DEF WriteAgreement, Agreement
  <2>3. word.most = 0 \/ Authority # {}
    BY <1>0, <2>2 DEF Agreement
  <2>4. word'.most \in word.most + 1 .. MaxSlots
    BY <1>0, <2>2
  <2> QED
    BY <1>2, <2>3, <2>4 DEF Pool!Agree, Pool!Next
<1> QED
  BY <1>3, <1>4

\* The abstract pool counts with its own instance of FiniteSets.
LEMMA SameCardinality == \A S : Pool!Cardinality(S) = Cardinality(S)
BY Zenon DEF Pool!Cardinality, Cardinality

LEMMA TakingIsAdmit ==
  ASSUME Slots, NEW j \in Job, TryLocal(j) \/ TryHost(j)
  PROVE  [Pool!Next]_(Pool!pool)
<1>0. /\ Leases /\ Jobs /\ Agreement /\ job[j] \in JobType /\ Stage(j)
      /\ job[j].at \in 0..MaxSlots /\ job[j].agreed \in 0..MaxSlots
      /\ Requested[j] \in 1..MaxSlots /\ MaxSlots \in Nat
      /\ LocalMax[LocalOf[j]] \in 1..MaxSlots
  BY StepFacts DEF Slots
<1>1. /\ word' = word /\ job[j].pc \in {"local", "host"}
      /\ \A k \in Job \ {j} : job'[k] = job[k]
  BY <1>0 DEF TryLocal, TryHost, Taken, At, Jobs
<1>2. j \notin Running
  BY <1>1 DEF Running, At
<1>3. CASE job'[j].pc # "running"
  <2>1. Running' = Running
    BY <1>1, <1>2, <1>3, RunningMoves
  <2> QED
    BY <1>1, <2>1 DEF Pool!pool
<1>4. CASE job'[j].pc = "running"
  <2>1. Running' = Running \cup {j}
    BY <1>1, <1>4, RunningMoves
  <2>2. Cardinality(Pool!Of(LocalOf[j], Running)) < LocalMax[LocalOf[j]]
    <3>1. CASE TryLocal(j)
      <4>1. job[j].at < Offered(j) /\ Free(LocalSlot(j, job[j].at)) /\ j \in Materializing
        BY <1>0, <1>4, <3>1 DEF TryLocal, Taken, At, Jobs, JobType
      <4>2. job[j].at \in 0..(LocalMax[LocalOf[j]] - 1)
        BY <1>0, <4>1 DEF Offered
      <4> QED
        BY <1>2, <4>1, <4>2, RoomInEstate
    <3>2. CASE TryHost(j)
      <4>1. job[j].local \in 0..(LocalMax[LocalOf[j]] - 1)
        BY <1>0, <3>2 DEF TryHost, Stage, At
      <4>2. LocalSlot(j, job[j].local) \in Holds(j)
        BY <4>1, Constants DEF Holds
      <4>3. lock[LocalSlot(j, job[j].local)] = j
        BY <1>0, <4>2 DEF Leases, Held
      <4> QED
        BY <1>2, <4>1, <4>3, RoomInEstate
    <3> QED
      BY <3>1, <3>2
  <2>3. j \notin Materializing => Cardinality(Pool!Expensive(Running)) < word.most
    <3> SUFFICES ASSUME j \notin Materializing
                 PROVE  Cardinality(Pool!Expensive(Running)) < word.most
      OBVIOUS
    <3>1. TryHost(j) /\ Free(HostSlot(job[j].at)) /\ job[j].at < Usable(j)
      BY <1>0, <1>4 DEF TryLocal, TryHost, Taken, At, Jobs, JobType
    <3>2. job[j].at < job[j].agreed /\ job[j].agreed <= word.most /\ word.most \in 0..MaxSlots
      BY <1>0, <3>1 DEF Usable, Lesser, Agreement
    <3>3. job[j].at \in 0..(word.most - 1) /\ job[j].at \in Index
      BY <1>0, <3>2 DEF Index
    <3> QED
      BY <3>1, <3>3, RoomInHost
  <2>4. UNCHANGED word.most
    BY <1>1
  <2>5. Pool!Admit(j)
    BY <1>2, <2>1, <2>2, <2>3, <2>4, SameCardinality, Zenon DEF Pool!Admit
  <2> QED
    BY <2>5 DEF Pool!Next
<1> QED
  BY <1>3, <1>4

LEMMA RestIsEnd ==
  ASSUME Slots, NEW j \in Job,
         \/ Again(j) \/ Refuse(j) \/ DropLocal(j) \/ DropHost(j)
         \/ Fork(j) \/ ChildExecs(j) \/ Die(j)
  PROVE  [Pool!Next]_(Pool!pool)
<1>0. Jobs /\ job[j] \in JobType
  BY StepFacts
<1>1. CASE Fork(j) \/ ChildExecs(j)
  BY <1>1 DEF Fork, ChildExecs, Pool!pool, Running, At
<1>2. CASE Again(j) \/ Refuse(j) \/ DropLocal(j) \/ DropHost(j) \/ Die(j)
  <2>1. word' = word /\ \A k \in Job \ {j} : job'[k] = job[k]
    BY <1>0, <1>2 DEF Again, Refuse, DropLocal, DropHost, Die, Jobs
  <2>2. job'[j].pc # "running"
    <3>1. CASE Again(j)
      BY <1>0, <3>1 DEF Again, Scanned, At, Jobs, JobType
    <3>2. CASE Refuse(j)
      BY <1>0, <3>2 DEF Refuse, Idle, Jobs
    <3>3. CASE DropLocal(j) /\ j \in Materializing
      BY <1>0, <3>3 DEF DropLocal, Idle, Jobs
    <3>4. CASE DropLocal(j) /\ j \notin Materializing
      BY <1>0, <3>4 DEF DropLocal, Jobs, JobType
    <3>5. CASE DropHost(j)
      BY <1>0, <3>5 DEF DropHost, Idle, Jobs
    <3>6. CASE Die(j)
      BY <1>0, <3>6 DEF Die, Idle, Jobs
    <3> QED
      BY <1>2, <3>1, <3>2, <3>3, <3>4, <3>5, <3>6
  <2>3. Running' = Running \ {j}
    BY <2>1, <2>2, RunningMoves
  <2>4. CASE j \in Running
    <3>1. Pool!End(j)
      BY <2>1, <2>3, <2>4 DEF Pool!End
    <3> QED
      BY <3>1 DEF Pool!Next
  <2>5. CASE j \notin Running
    <3>1. Running' = Running
      BY <2>3, <2>5
    <3> QED
      BY <2>1, <3>1 DEF Pool!pool
  <2> QED
    BY <2>4, <2>5
<1> QED
  BY <1>1, <1>2

\* Lock files, scans, agreement, forks and deaths are, to the estates that
\* share them, a semaphore of the size the pool was ever agreed at.
THEOREM PoolIsImplemented == Spec => ImplementsPool
<1>1. Init => Pool!Init
  BY DEF Init, Pool!Init, Running, At, Idle
<1>2. Slots /\ [Next]_vars => [Pool!Next]_(Pool!pool)
  <2>1. ASSUME Slots, Next
        PROVE  [Pool!Next]_(Pool!pool)
    BY <2>1, StandingIsAgree, TakingIsAdmit, RestIsEnd DEF Next
  <2>2. ASSUME UNCHANGED vars
        PROVE  [Pool!Next]_(Pool!pool)
    BY <2>2 DEF vars, Pool!pool, Running, At
  <2> QED
    BY <2>1, <2>2
<1> QED
  BY <1>1, <1>2, SlotsHold, PTL DEF Spec, ImplementsPool, Pool!Spec

-----------------------------------------------------------------------------
(* The job that was admitted: the invariant. *)

RunType == [pc : RunPC, inside : BOOLEAN, spared : BOOLEAN, child : {"none", "alive", "zombie", "reaped"},
            watchdog : {"none", "watching", "killing", "ending", "gone"},
            writer : {"none", "writing", "ok", "err"},
            ended : BOOLEAN, finished : BOOLEAN, why : BOOLEAN,
            output : {"none", "whole", "part", "error"},
            result : {"none", "Finished", "Cancelled", "Failed"}]

Unstarted == {"new", "created", "recorded", "registered"}
Contained == {"created", "recorded", "registered", "draining", "waiting", "joining", "dropping"}

\* Which of its processes a job may have, by where its caller's thread is.
Descendants(j) ==
  LET r == run[j] IN
  /\ r.pc \in Unstarted => procs[j] = {}
  /\ "child" \in procs[j] => r.pc \in {"draining", "waiting"} /\ r.child = "alive"
  /\ r.pc \in {"clearing", "done"} =>
       procs[j] \cap (IF r.inside /\ ~r.spared THEN Process ELSE Group) = {}
  /\ r.pc = "lost" /\ r.inside /\ j \notin cgroup => procs[j] = {}

\* A job whose child joined a cgroup keeps it until its processes went; only an
\* ended job can have been spared, and its cgroup then stays.
Cgroups(j) ==
  LET r == run[j] IN
  /\ r.inside => r.pc \notin Unstarted
  /\ r.spared => r.pc \in {"clearing", "done", "lost"} /\ j \in cgroup
  /\ j \in cgroup /\ ~r.spared => r.pc \in Contained \cup {"lost"}
  /\ r.inside /\ r.pc \in Contained => j \in cgroup

\* A cgroup is on record before there is a process to put in it, and while it
\* stands until its job's end or a recovery has killed in vain.
OnRecord(j) ==
  /\ j \in cgroup /\ run[j].pc \in Contained \ {"created"} => j \in records
  /\ j \in cgroup /\ procs[j] # {} /\ ~run[j].spared => j \in records
  /\ Up /\ run[j].pc = "lost" /\ run[j].inside /\ ~run[j].spared => procs[j] = {}
  /\ j \in daemon.seen /\ j \in cgroup => run[j].spared

\* What the threads of a job share: the watchdog gives its reason before it
\* kills, and both threads are over when the outcome is told.
Threads(j) ==
  LET r == run[j] IN
  /\ Active(j) => Up
  /\ r.pc \in Unstarted \cup {"lost"} =>
       /\ r.watchdog = "none" /\ r.writer = "none" /\ ~r.ended
       /\ r.child = "none" /\ r.output = "none" /\ ~r.why
  /\ r.pc = "draining" /\ r.ended => r.why
  /\ r.watchdog \in {"killing", "ending"} => r.why
  /\ r.output = "part" => r.why
  /\ r.pc \in {"waiting", "joining", "dropping", "clearing"} => r.output # "none"
  /\ r.pc \in {"dropping", "clearing", "done"} => r.watchdog = "gone" /\ r.writer \in {"ok", "err"}
  /\ r.pc # "done" => r.result = "none"
  /\ r.result = "Finished" => r.output = "whole" /\ r.writer = "ok" /\ ~r.why

Fit(j) ==
  /\ pipes[j] \subseteq procs[j]
  /\ Descendants(j) /\ Cgroups(j) /\ Threads(j)
  /\ ~RecordMayFail => OnRecord(j)

Types ==
  /\ run \in [ChildJob -> RunType]
  /\ procs \in [ChildJob -> SUBSET Process] /\ pipes \in [ChildJob -> SUBSET Process]
  /\ cgroup \subseteq ChildJob /\ records \subseteq ChildJob
  /\ registry \subseteq ChildJob /\ cancelled \subseteq ChildJob
  /\ daemon \in [state : {"up", "down", "recovering"}, deaths : 0..MaxDeaths, seen : SUBSET ChildJob]
  /\ daemon.state # "recovering" => daemon.seen = {}

Owned == Types /\ \A j \in ChildJob : Fit(j)

-----------------------------------------------------------------------------
(* A step of one job is none of another's. *)

Others(j) ==
  /\ daemon'.state = daemon.state
  /\ \A k \in ChildJob \ {j} :
       /\ k \in daemon'.seen <=> k \in daemon.seen
       /\ run'[k] = run[k] /\ procs'[k] = procs[k] /\ pipes'[k] = pipes[k]
       /\ k \in cgroup' <=> k \in cgroup
       /\ k \in records' <=> k \in records

LEMMA JobStep ==
  ASSUME Owned, NEW j \in ChildJob, Others(j), Types', Fit(j)'
  PROVE  Owned'
<1> SUFFICES ASSUME NEW k \in ChildJob \ {j}
             PROVE  Fit(k)'
  BY DEF Owned
<1>1. Fit(k)
  BY DEF Owned
<1>2. /\ run'[k] = run[k] /\ procs'[k] = procs[k] /\ pipes'[k] = pipes[k]
      /\ daemon'.state = daemon.state /\ (k \in daemon'.seen <=> k \in daemon.seen)
      /\ k \in cgroup' <=> k \in cgroup
      /\ k \in records' <=> k \in records
  BY DEF Others
<1>3. Descendants(k)' /\ Cgroups(k)' /\ Threads(k)'
  BY <1>1, <1>2 DEF Fit, Descendants, Cgroups, Threads, Active, Up
<1>4. OnRecord(k) => OnRecord(k)'
  BY <1>2 DEF OnRecord, Up
<1> QED
  BY <1>1, <1>2, <1>3, <1>4 DEF Fit

\* The parts of what is known of a job.
LEMMA OwnedFacts ==
  ASSUME Owned, NEW j \in ChildJob
  PROVE  /\ Types /\ run[j] \in RunType /\ procs[j] \subseteq Process
         /\ pipes[j] \subseteq procs[j]
         /\ Descendants(j) /\ Cgroups(j) /\ Threads(j)
         /\ ~RecordMayFail => OnRecord(j)
BY DEF Owned, Fit, Types

LEMMA InitOwned == OwnedInit => Owned
<1> SUFFICES ASSUME OwnedInit
             PROVE  Owned
  OBVIOUS
<1>1. NotRun \in RunType
  BY DEF NotRun, RunType, RunPC
<1>2. Types
  BY <1>1, OwnedJobsAssumption DEF OwnedInit, Types
<1>3. ASSUME NEW j \in ChildJob
      PROVE  Fit(j)
  <2>1. run[j] = NotRun /\ procs[j] = {} /\ pipes[j] = {} /\ j \notin cgroup
    BY DEF OwnedInit
  <2> QED
    BY <2>1 DEF NotRun, Fit, Descendants, Cgroups, Threads, OnRecord, Active, Unstarted, Contained
<1> QED
  BY <1>2, <1>3 DEF Owned

-----------------------------------------------------------------------------
(* The caller's thread. *)

LEMMA CreateKeeps ==
  ASSUME Owned, NEW j \in ChildJob, Create(j)
  PROVE  Owned'
<1>0. run \in [ChildJob -> RunType] /\ run[j] \in RunType
  BY OwnedFacts DEF Types
<1>1. /\ run' = [run EXCEPT ![j].pc = "created"]
      /\ cgroup' = cgroup \/ cgroup' = cgroup \cup {j}
  BY DEF Create
<1>2. /\ run' \in [ChildJob -> RunType] /\ \A k \in ChildJob \ {j} : run'[k] = run[k]
      /\ run'[j] = [run[j] EXCEPT !.pc = "created"]
  BY <1>0, <1>1 DEF Create, RunAt, RunType, RunPC
<1>3. Types' /\ Others(j)
  BY OwnedFacts, <1>1, <1>2 DEF Create, processes, Types, Others
<1>4. Fit(j)'
  BY OwnedFacts, <1>1, <1>2, <1>3 DEF Create, processes, Types, RunType, Process, Group, Fit, Descendants,
     Cgroups, Threads, OnRecord, Active, Unstarted, Contained, RunAt, Up
<1> QED
  BY <1>3, <1>4, JobStep

LEMMA RecordKeeps ==
  ASSUME Owned, NEW j \in ChildJob, Record(j)
  PROVE  Owned'
<1>0. run \in [ChildJob -> RunType] /\ run[j] \in RunType
  BY OwnedFacts DEF Types
<1>1. /\ run' \in [ChildJob -> RunType] /\ \A k \in ChildJob \ {j} : run'[k] = run[k]
      /\ run'[j] = [run[j] EXCEPT !.pc = "recorded"]
  BY <1>0 DEF Record, RunAt, RunType, RunPC
<1>2. Types' /\ Others(j)
  BY OwnedFacts, <1>1 DEF Record, processes, Types, Others
<1>3. Fit(j)'
  BY OwnedFacts, <1>1, <1>2 DEF Record, processes, Types, RunType, Process, Group, Fit, Descendants,
     Cgroups, Threads, OnRecord, Active, Unstarted, Contained, RunAt, Up
<1> QED
  BY <1>2, <1>3, JobStep

LEMMA RegisterKeeps ==
  ASSUME Owned, NEW j \in ChildJob, Register(j)
  PROVE  Owned'
<1>0. run \in [ChildJob -> RunType] /\ run[j] \in RunType
  BY OwnedFacts DEF Types
<1>1. /\ run' \in [ChildJob -> RunType] /\ \A k \in ChildJob \ {j} : run'[k] = run[k]
      /\ run'[j] = [run[j] EXCEPT !.pc = "registered"]
  BY <1>0 DEF Register, RunAt, RunType, RunPC
<1>2. Types' /\ Others(j)
  BY OwnedFacts, <1>1 DEF Register, processes, Types, Others
<1>3. Fit(j)'
  BY OwnedFacts, <1>1, <1>2 DEF Register, processes, Types, RunType, Process, Group, Fit, Descendants,
     Cgroups, Threads, OnRecord, Active, Unstarted, Contained, RunAt, Up
<1> QED
  BY <1>2, <1>3, JobStep

LEMMA SpawnKeeps ==
  ASSUME Owned, NEW j \in ChildJob, Spawn(j)
  PROVE  Owned'
<1>0. run \in [ChildJob -> RunType] /\ run[j] \in RunType
  BY OwnedFacts DEF Types
<1>a. PICK inside \in BOOLEAN :
        /\ inside => j \in cgroup
        /\ run' = [run EXCEPT ![j].pc = "draining", ![j].inside = inside, ![j].child = "alive",
                              ![j].watchdog = "watching", ![j].writer = "writing"]
  BY DEF Spawn
<1>1. /\ run' \in [ChildJob -> RunType] /\ \A k \in ChildJob \ {j} : run'[k] = run[k]
      /\ run'[j] = [run[j] EXCEPT !.pc = "draining", !.inside = inside, !.child = "alive",
                                !.watchdog = "watching", !.writer = "writing"]
  <2>1. /\ run'[j] = [run[j] EXCEPT !.pc = "draining", !.inside = inside, !.child = "alive",
                                   !.watchdog = "watching", !.writer = "writing"]
        /\ \A k \in ChildJob \ {j} : run'[k] = run[k]
        /\ run' \in [ChildJob -> RunType] <=> run'[j] \in RunType
    BY <1>0, <1>a
  <2> DEFINE outside == [run[j] EXCEPT !.pc = "draining", !.child = "alive",
                                       !.watchdog = "watching", !.writer = "writing"]
  <2>2. outside \in RunType
    BY <1>0 DEF RunType, RunPC
  <2>3. ASSUME NEW r \in RunType
        PROVE  /\ [r EXCEPT !.inside = inside] \in RunType
               /\ [r EXCEPT !.pc = "draining", !.inside = inside, !.child = "alive",
                            !.watchdog = "watching", !.writer = "writing"]
                    = [[r EXCEPT !.pc = "draining", !.child = "alive",
                                 !.watchdog = "watching", !.writer = "writing"]
                        EXCEPT !.inside = inside]
    BY DEF RunType
  <2>4. run'[j] = [outside EXCEPT !.inside = inside]
    BY <1>0, <2>1, <2>3
  <2> HIDE DEF outside
  <2>5. run'[j] \in RunType
    BY <2>2, <2>3, <2>4
  <2> QED
    BY <2>1, <2>5
<1>2. Types' /\ Others(j)
  BY OwnedFacts, <1>1 DEF Spawn, SpawnReady, processes, Types, Process, Others
<1>3. Fit(j)'
  <2>1. /\ Up /\ run[j].pc = "registered" /\ procs'[j] = {"child"} /\ pipes'[j] = {"child"}
        /\ UNCHANGED <<cgroup, records, registry, cancelled, daemon>>
    BY OwnedFacts DEF Spawn, SpawnReady, Types
  <2>2. Fit(j)
    BY DEF Owned
  <2>3. /\ run'[j].inside \in BOOLEAN /\ (run'[j].inside => j \in cgroup)
        /\ run'[j].pc = "draining" /\ run'[j].spared = run[j].spared
        /\ run'[j].child = "alive" /\ run'[j].watchdog = "watching" /\ run'[j].writer = "writing"
        /\ run'[j].ended = run[j].ended /\ run'[j].finished = run[j].finished
        /\ run'[j].why = run[j].why /\ run'[j].output = run[j].output
        /\ run'[j].result = run[j].result
    BY <1>0, <1>a, <1>1 DEF RunType
  <2>4. Descendants(j)'
    BY <2>1, <2>3 DEF Descendants, Unstarted
  <2>5. Cgroups(j)'
    BY <2>1, <2>2, <2>3 DEF Fit, Cgroups, Unstarted, Contained
  <2>6. Threads(j)'
    BY <2>1, <2>2, <2>3 DEF Fit, Threads, Unstarted, Active, Up
  <2>7. OnRecord(j) => OnRecord(j)'
    BY <2>1, <2>2, <2>3 DEF Fit, OnRecord, Contained, Cgroups, Up
  <2> QED
    BY <2>1, <2>2, <2>4, <2>5, <2>6, <2>7 DEF Fit
<1> QED
  BY <1>2, <1>3, JobStep

LEMMA SpawnFailsKeeps ==
  ASSUME Owned, NEW j \in ChildJob, SpawnFails(j)
  PROVE  Owned'
<1>0. run \in [ChildJob -> RunType] /\ run[j] \in RunType
  BY OwnedFacts DEF Types
<1>1. /\ run' \in [ChildJob -> RunType] /\ \A k \in ChildJob \ {j} : run'[k] = run[k]
      /\ run'[j] = [run[j] EXCEPT !.pc = "dropping", !.child = "reaped", !.output = "error",
                                !.watchdog = "gone", !.writer = "err"]
  <2> DEFINE failed == [run[j] EXCEPT !.pc = "dropping", !.child = "reaped", !.output = "error",
                                      !.watchdog = "gone", !.writer = "err"]
  <2>1. failed \in RunType
    BY <1>0 DEF RunType, RunPC
  <2>2. run' = [run EXCEPT ![j] = failed]
    BY <1>0 DEF SpawnFails, RunType
  <2> HIDE DEF failed
  <2>3. run'[j] = failed /\ run' \in [ChildJob -> RunType]
        /\ \A k \in ChildJob \ {j} : run'[k] = run[k]
    BY <1>0, <2>1, <2>2
  <2> QED
    BY <2>3 DEF failed
<1>2. Types' /\ Others(j)
  <2>1. UNCHANGED <<procs, pipes, cgroup, records, registry, cancelled, daemon>>
    BY DEF SpawnFails, processes
  <2> QED
    BY OwnedFacts, <1>1, <2>1 DEF Types, Others
<1>3. Fit(j)'
  BY OwnedFacts, <1>1, <1>2 DEF SpawnFails, processes, Types, RunType, Process, Group, Fit, Descendants,
     Cgroups, Threads, OnRecord, Active, Unstarted, Contained, RunAt, Up
<1> QED
  BY <1>2, <1>3, JobStep

LEMMA DrainToEofKeeps ==
  ASSUME Owned, NEW j \in ChildJob, DrainToEof(j)
  PROVE  Owned'
<1>0. run \in [ChildJob -> RunType] /\ run[j] \in RunType
  BY OwnedFacts DEF Types
<1>1. /\ run' \in [ChildJob -> RunType] /\ \A k \in ChildJob \ {j} : run'[k] = run[k]
      /\ run'[j] = [run[j] EXCEPT !.pc = "waiting", !.output = "whole"]
  BY <1>0 DEF DrainToEof, RunAt, RunType, RunPC
<1>2. Types' /\ Others(j)
  BY OwnedFacts, <1>1 DEF DrainToEof, processes, Types, Others
<1>3. Fit(j)'
  BY OwnedFacts, <1>1, <1>2 DEF DrainToEof, processes, Types, RunType, Process, Group, Fit, Descendants,
     Cgroups, Threads, OnRecord, Active, Unstarted, Contained, RunAt, Up
<1> QED
  BY <1>2, <1>3, JobStep

LEMMA DrainEndedKeeps ==
  ASSUME Owned, NEW j \in ChildJob, DrainEnded(j)
  PROVE  Owned'
<1>0. run \in [ChildJob -> RunType] /\ run[j] \in RunType
  BY OwnedFacts DEF Types
<1>1. /\ run' \in [ChildJob -> RunType] /\ \A k \in ChildJob \ {j} : run'[k] = run[k]
      /\ run'[j] = [run[j] EXCEPT !.pc = "waiting", !.output = "part"]
  BY <1>0 DEF DrainEnded, RunAt, RunType, RunPC
<1>2. Types' /\ Others(j)
  BY OwnedFacts, <1>1 DEF DrainEnded, processes, Types, Others
<1>3. Fit(j)'
  BY OwnedFacts, <1>1, <1>2 DEF DrainEnded, processes, Types, RunType, Process, Group, Fit, Descendants,
     Cgroups, Threads, OnRecord, Active, Unstarted, Contained, RunAt, Up
<1> QED
  BY <1>2, <1>3, JobStep

LEMMA DrainFailsKeeps ==
  ASSUME Owned, NEW j \in ChildJob, DrainFails(j)
  PROVE  Owned'
<1>0. run \in [ChildJob -> RunType] /\ run[j] \in RunType
  BY OwnedFacts DEF Types
<1>a. PICK works \in BOOLEAN : LET ps == Reached(j, works) IN
        /\ procs' = [procs EXCEPT ![j] = @ \ ps]
        /\ pipes' = [pipes EXCEPT ![j] = {}]
        /\ run' = [run EXCEPT ![j] = Bury([@ EXCEPT !.pc = "waiting", !.output = "error",
                                                    !.ended = TRUE], ps)]
  BY DEF DrainFails
<1>1. /\ run' \in [ChildJob -> RunType] /\ \A k \in ChildJob \ {j} : run'[k] = run[k]
      /\ run'[j] = Bury([run[j] EXCEPT !.pc = "waiting", !.output = "error",
                                     !.ended = TRUE], Reached(j, works))
  BY <1>0, <1>a DEF DrainFails, Bury, Reached, InCgroup, RunAt, RunType, RunPC
<1>2. Types' /\ Others(j)
  BY OwnedFacts, <1>a, <1>1 DEF DrainFails, Bury, Reached, InCgroup, processes, Types, Others
<1>3. Fit(j)'
  BY OwnedFacts, <1>a, <1>1, <1>2 DEF DrainFails, Bury, Reached, InCgroup, processes, Types, RunType, Process, Group, Fit, Descendants,
     Cgroups, Threads, OnRecord, Active, Unstarted, Contained, RunAt, Up
<1> QED
  BY <1>2, <1>3, JobStep

LEMMA ReapKeeps ==
  ASSUME Owned, NEW j \in ChildJob, Reap(j)
  PROVE  Owned'
<1>0. run \in [ChildJob -> RunType] /\ run[j] \in RunType
  BY OwnedFacts DEF Types
<1>1. /\ run' \in [ChildJob -> RunType] /\ \A k \in ChildJob \ {j} : run'[k] = run[k]
      /\ run'[j] = [run[j] EXCEPT !.pc = "joining", !.child = "reaped",
                                !.ended = TRUE, !.finished = TRUE]
  BY <1>0 DEF Reap, RunAt, RunType, RunPC
<1>2. Types' /\ Others(j)
  BY OwnedFacts, <1>1 DEF Reap, processes, Types, Others
<1>3. Fit(j)'
  BY OwnedFacts, <1>1, <1>2 DEF Reap, processes, Types, RunType, Process, Group, Fit, Descendants,
     Cgroups, Threads, OnRecord, Active, Unstarted, Contained, RunAt, Up
<1> QED
  BY <1>2, <1>3, JobStep

LEMMA JoinKeeps ==
  ASSUME Owned, NEW j \in ChildJob, Join(j)
  PROVE  Owned'
<1>0. run \in [ChildJob -> RunType] /\ run[j] \in RunType
  BY OwnedFacts DEF Types
<1>1. /\ run' \in [ChildJob -> RunType] /\ \A k \in ChildJob \ {j} : run'[k] = run[k]
      /\ run'[j] = [run[j] EXCEPT !.pc = "dropping"]
  BY <1>0 DEF Join, RunAt, RunType, RunPC
<1>2. Types' /\ Others(j)
  BY OwnedFacts, <1>1 DEF Join, processes, Types, Others
<1>3. Fit(j)'
  BY OwnedFacts, <1>1, <1>2 DEF Join, processes, Types, RunType, Process, Group, Fit, Descendants,
     Cgroups, Threads, OnRecord, Active, Unstarted, Contained, RunAt, Up
<1> QED
  BY <1>2, <1>3, JobStep

LEMMA DropGroupsKeeps ==
  ASSUME Owned, NEW j \in ChildJob, DropGroups(j)
  PROVE  Owned'
<1>0. run \in [ChildJob -> RunType] /\ run[j] \in RunType /\ run[j].pc = "dropping"
  BY OwnedFacts DEF Types, DropGroups, RunAt
<1>a. PICK works \in BOOLEAN : Shut(j, Reached(j, works))
  BY DEF DropGroups
<1> DEFINE left == InCgroup(j) \ Reached(j, works)
<1>1. /\ run' \in [ChildJob -> RunType] /\ \A k \in ChildJob \ {j} : run'[k] = run[k]
      /\ run'[j] = [run[j] EXCEPT !.spared = left # {}, !.pc = "clearing"]
  BY <1>0, <1>a DEF Shut, RunType, RunPC
<1>2. Types' /\ Others(j)
  BY OwnedFacts, <1>a, <1>1 DEF DropGroups, Shut, Kill, processes, Types, Others
<1>3. Fit(j)'
  <2>1. /\ procs'[j] = procs[j] \ Reached(j, works) /\ pipes'[j] = pipes[j] \ Reached(j, works)
        /\ j \in cgroup' <=> j \in cgroup /\ left # {}
        /\ records' = records /\ daemon' = daemon
        /\ run'[j].spared <=> left # {}
        /\ run'[j].pc = "clearing" /\ run'[j].inside = run[j].inside
        /\ run'[j].child = run[j].child /\ run'[j].watchdog = run[j].watchdog
        /\ run'[j].writer = run[j].writer /\ run'[j].ended = run[j].ended
        /\ run'[j].why = run[j].why /\ run'[j].output = run[j].output /\ run'[j].result = run[j].result
    BY OwnedFacts, <1>0, <1>a, <1>1 DEF DropGroups, Shut, Kill, Types, RunType
  <2>2. Group \subseteq Reached(j, works) /\ left = InCgroup(j) \ Reached(j, works)
    BY DEF Reached
  <2>3. run[j].inside => InCgroup(j) = procs[j]
    BY <1>0, OwnedFacts DEF InCgroup, Cgroups, Contained
  <2> HIDE DEF left
  <2>4. Descendants(j)'
    BY <2>1, <2>2, <2>3, <1>0, OwnedFacts DEF Descendants, Group, Process, Unstarted
  <2>5. ~run[j].inside => left = {}
    BY <2>2 DEF InCgroup
  <2>6. j \in cgroup' <=> left # {}
    BY <2>1, <2>5, <1>0, OwnedFacts DEF Cgroups, Contained
  <2>7. Cgroups(j)'
    BY <2>1, <2>6, <1>0, OwnedFacts DEF Cgroups, Contained, Unstarted
  <2>8. Threads(j)'
    BY <2>1, <1>0, OwnedFacts DEF Threads, Active, Unstarted, Up
  <2>9. ~RecordMayFail => OnRecord(j)'
    BY <2>1, <2>6, <1>0, OwnedFacts DEF OnRecord, Contained, Up, Threads, Active, Types
  <2> QED
    BY <2>1, <2>4, <2>7, <2>8, <2>9, OwnedFacts DEF Fit
<1> QED
  BY <1>2, <1>3, JobStep

LEMMA ClearKeeps ==
  ASSUME Owned, NEW j \in ChildJob, Clear(j)
  PROVE  Owned'
<1>0. run \in [ChildJob -> RunType] /\ run[j] \in RunType
  BY OwnedFacts DEF Types
<1>1. /\ run' \in [ChildJob -> RunType] /\ \A k \in ChildJob \ {j} : run'[k] = run[k]
      /\ run'[j] = [run[j] EXCEPT !.pc = "done", !.result = Outcome(run[j])]
  BY <1>0 DEF Clear, Outcome, RunAt, RunType, RunPC
<1>2. Types' /\ Others(j)
  BY OwnedFacts, <1>1 DEF Clear, Outcome, processes, Types, Others
<1>3. Fit(j)'
  BY OwnedFacts, <1>1, <1>2 DEF Clear, Outcome, processes, Types, RunType, Process, Group, Fit, Descendants,
     Cgroups, Threads, OnRecord, Active, Unstarted, Contained, RunAt, Up
<1> QED
  BY <1>2, <1>3, JobStep

-----------------------------------------------------------------------------
(* Its watchdog, its writer and its own processes. *)

LEMMA SeeFinishedKeeps ==
  ASSUME Owned, NEW j \in ChildJob, SeeFinished(j)
  PROVE  Owned'
<1>0. run \in [ChildJob -> RunType] /\ run[j] \in RunType
  BY OwnedFacts DEF Types
<1>1. /\ run' \in [ChildJob -> RunType] /\ \A k \in ChildJob \ {j} : run'[k] = run[k]
      /\ run'[j] = [run[j] EXCEPT !.watchdog = "gone"]
  BY <1>0 DEF SeeFinished, Watchdog, RunAt, RunType, RunPC
<1>2. Types' /\ Others(j)
  BY OwnedFacts, <1>1 DEF SeeFinished, Watchdog, processes, Types, Others
<1>3. Fit(j)'
  BY OwnedFacts, <1>1, <1>2 DEF SeeFinished, Watchdog, processes, Types, RunType, Process, Group, Fit, Descendants,
     Cgroups, Threads, OnRecord, Active, Unstarted, Contained, RunAt, Up
<1> QED
  BY <1>2, <1>3, JobStep

LEMMA SeeWhyKeeps ==
  ASSUME Owned, NEW j \in ChildJob, NEW deadline \in BOOLEAN, SeeWhy(j, deadline)
  PROVE  Owned'
<1>0. run \in [ChildJob -> RunType] /\ run[j] \in RunType
  BY OwnedFacts DEF Types
<1>1. /\ run' \in [ChildJob -> RunType] /\ \A k \in ChildJob \ {j} : run'[k] = run[k]
      /\ run'[j] = [run[j] EXCEPT !.watchdog = "killing", !.why = TRUE]
  BY <1>0 DEF SeeWhy, RunAt, RunType, RunPC
<1>2. Types' /\ Others(j)
  BY OwnedFacts, <1>1 DEF SeeWhy, processes, Types, Others
<1>3. Fit(j)'
  BY OwnedFacts, <1>1, <1>2 DEF SeeWhy, processes, Types, RunType, Process, Group, Fit, Descendants,
     Cgroups, Threads, OnRecord, Active, Unstarted, Contained, RunAt, Up
<1> QED
  BY <1>2, <1>3, JobStep

LEMMA WatchdogKillsKeeps ==
  ASSUME Owned, NEW j \in ChildJob, WatchdogKills(j)
  PROVE  Owned'
<1>0. run \in [ChildJob -> RunType] /\ run[j] \in RunType
  BY OwnedFacts DEF Types
<1>a. PICK works \in BOOLEAN : LET ps == Reached(j, works) IN
        /\ Kill(j, ps)
        /\ run' = [run EXCEPT ![j] = Bury([@ EXCEPT !.watchdog = "ending"], ps)]
  BY DEF WatchdogKills
<1>1. /\ run' \in [ChildJob -> RunType] /\ \A k \in ChildJob \ {j} : run'[k] = run[k]
      /\ run'[j] = Bury([run[j] EXCEPT !.watchdog = "ending"], Reached(j, works))
  BY <1>0, <1>a DEF WatchdogKills, Kill, Bury, Reached, InCgroup, RunAt, RunType, RunPC
<1>2. Types' /\ Others(j)
  BY OwnedFacts, <1>a, <1>1 DEF WatchdogKills, Kill, Bury, Reached, InCgroup, processes, Types, Others
<1>3. Fit(j)'
  BY OwnedFacts, <1>a, <1>1, <1>2 DEF WatchdogKills, Kill, Bury, Reached, InCgroup, processes, Types, RunType, Process, Group, Fit, Descendants,
     Cgroups, Threads, OnRecord, Active, Unstarted, Contained, RunAt, Up
<1> QED
  BY <1>2, <1>3, JobStep

LEMMA WatchdogEndsKeeps ==
  ASSUME Owned, NEW j \in ChildJob, WatchdogEnds(j)
  PROVE  Owned'
<1>0. run \in [ChildJob -> RunType] /\ run[j] \in RunType
  BY OwnedFacts DEF Types
<1>1. /\ run' \in [ChildJob -> RunType] /\ \A k \in ChildJob \ {j} : run'[k] = run[k]
      /\ run'[j] = [run[j] EXCEPT !.watchdog = "gone", !.ended = TRUE]
  BY <1>0 DEF WatchdogEnds, RunAt, RunType, RunPC
<1>2. Types' /\ Others(j)
  BY OwnedFacts, <1>1 DEF WatchdogEnds, processes, Types, Others
<1>3. Fit(j)'
  BY OwnedFacts, <1>1, <1>2 DEF WatchdogEnds, processes, Types, RunType, Process, Group, Fit, Descendants,
     Cgroups, Threads, OnRecord, Active, Unstarted, Contained, RunAt, Up
<1> QED
  BY <1>2, <1>3, JobStep

LEMMA WrittenKeeps ==
  ASSUME Owned, NEW j \in ChildJob, Written(j)
  PROVE  Owned'
<1>0. run \in [ChildJob -> RunType] /\ run[j] \in RunType
  BY OwnedFacts DEF Types
<1>1. /\ run' \in [ChildJob -> RunType] /\ \A k \in ChildJob \ {j} : run'[k] = run[k]
      /\ run'[j] = [run[j] EXCEPT !.writer = "ok"]
  BY <1>0 DEF Written, RunAt, RunType, RunPC
<1>2. Types' /\ Others(j)
  BY OwnedFacts, <1>1 DEF Written, processes, Types, Others
<1>3. Fit(j)'
  BY OwnedFacts, <1>1, <1>2 DEF Written, processes, Types, RunType, Process, Group, Fit, Descendants,
     Cgroups, Threads, OnRecord, Active, Unstarted, Contained, RunAt, Up
<1> QED
  BY <1>2, <1>3, JobStep

LEMMA WriteFailsKeeps ==
  ASSUME Owned, NEW j \in ChildJob, WriteFails(j)
  PROVE  Owned'
<1>0. run \in [ChildJob -> RunType] /\ run[j] \in RunType
  BY OwnedFacts DEF Types
<1>1. /\ run' \in [ChildJob -> RunType] /\ \A k \in ChildJob \ {j} : run'[k] = run[k]
      /\ run'[j] = [run[j] EXCEPT !.writer = "err"]
  BY <1>0 DEF WriteFails, RunAt, RunType, RunPC
<1>2. Types' /\ Others(j)
  BY OwnedFacts, <1>1 DEF WriteFails, processes, Types, Others
<1>3. Fit(j)'
  BY OwnedFacts, <1>1, <1>2 DEF WriteFails, processes, Types, RunType, Process, Group, Fit, Descendants,
     Cgroups, Threads, OnRecord, Active, Unstarted, Contained, RunAt, Up
<1> QED
  BY <1>2, <1>3, JobStep

LEMMA ForksKeeps ==
  ASSUME Owned, NEW j \in ChildJob, Forks(j)
  PROVE  Owned'
<1>0. run \in [ChildJob -> RunType] /\ run[j] \in RunType
  BY OwnedFacts DEF Types
<1>1. PICK p \in {"grandchild", "escaped"} \ procs[j] :
       /\ procs' = [procs EXCEPT ![j] = @ \cup {p}]
       /\ pipes' = [pipes EXCEPT ![j] = IF "child" \in @ THEN @ \cup {p} ELSE @]
  BY DEF Forks
<1>2. run' = run
  BY DEF Forks
<1>3. Types' /\ Others(j)
  BY OwnedFacts, <1>1, <1>2 DEF Forks, Process, Types, Others
<1>4. Fit(j)'
  BY OwnedFacts, <1>0, <1>1, <1>2, <1>3 DEF Forks, Types, RunType, Process, Group, Fit, Descendants,
     Cgroups, Threads, OnRecord, Active, Unstarted, Contained, RunAt, Up
<1> QED
  BY <1>3, <1>4, JobStep

LEMMA ClosesOutputKeeps ==
  ASSUME Owned, NEW j \in ChildJob, ClosesOutput(j)
  PROVE  Owned'
<1>0. run \in [ChildJob -> RunType] /\ run[j] \in RunType
  BY OwnedFacts DEF Types
<1>1. PICK p \in pipes[j] : pipes' = [pipes EXCEPT ![j] = @ \ {p}]
  BY DEF ClosesOutput
<1>2. run' = run
  BY DEF ClosesOutput
<1>3. Types' /\ Others(j)
  BY OwnedFacts, <1>1, <1>2 DEF ClosesOutput, Process, Types, Others
<1>4. Fit(j)'
  BY OwnedFacts, <1>0, <1>1, <1>2, <1>3 DEF ClosesOutput, Types, RunType, Process, Group, Fit, Descendants,
     Cgroups, Threads, OnRecord, Active, Unstarted, Contained, RunAt, Up
<1> QED
  BY <1>3, <1>4, JobStep

LEMMA ExitsKeeps ==
  ASSUME Owned, NEW j \in ChildJob, Exits(j)
  PROVE  Owned'
<1>0. run \in [ChildJob -> RunType] /\ run[j] \in RunType
  BY OwnedFacts DEF Types
<1>1. PICK p \in procs[j] : Kill(j, {p}) /\ run' = [run EXCEPT ![j] = Bury(@, {p})]
  BY DEF Exits
<1>2. /\ run' \in [ChildJob -> RunType] /\ \A k \in ChildJob \ {j} : run'[k] = run[k]
      /\ run'[j] = Bury(run[j], {p})
  BY <1>0, <1>1 DEF Bury, RunType
<1>3. Types' /\ Others(j)
  BY OwnedFacts, <1>1, <1>2 DEF Exits, Kill, Bury, Process, Types, Others
<1>4. Fit(j)'
  BY OwnedFacts, <1>0, <1>1, <1>2, <1>3 DEF Exits, Kill, Bury, Types, RunType, Process, Group, Fit, Descendants,
     Cgroups, Threads, OnRecord, Active, Unstarted, Contained, RunAt, Up
<1> QED
  BY <1>3, <1>4, JobStep

-----------------------------------------------------------------------------
(* The operator, the daemon's end, and the next owner. *)

LEMMA CancelKeeps ==
  ASSUME Owned, NEW j \in ChildJob, Cancel(j)
  PROVE  Owned'
<1>1. Types' /\ Others(j)
  BY OwnedFacts DEF Cancel, processes, Types, Others
<1>2. Fit(j)'
  BY OwnedFacts, <1>1 DEF Cancel, processes, Types, RunType, Process, Group, Fit, Descendants,
     Cgroups, Threads, OnRecord, Active, Unstarted, Contained, RunAt, Up
<1> QED
  BY <1>1, <1>2, JobStep

LEMMA RecoverJobKeeps ==
  ASSUME Owned, NEW j \in ChildJob, RecoverJob(j)
  PROVE  Owned'
<1>0. /\ run \in [ChildJob -> RunType] /\ run[j] \in RunType /\ daemon.state = "recovering"
      /\ j \in cgroup /\ ~Active(j)
  BY OwnedFacts DEF Types, RecoverJob, Threads, Up
<1>a. PICK works \in BOOLEAN : Shut(j, IF works THEN InCgroup(j) ELSE {})
  BY DEF RecoverJob
<1> DEFINE left == InCgroup(j) \ (IF works THEN InCgroup(j) ELSE {})
<1>1. /\ run' \in [ChildJob -> RunType] /\ \A k \in ChildJob \ {j} : run'[k] = run[k]
      /\ run'[j] = [run[j] EXCEPT !.spared = left # {}]
  BY <1>0, <1>a DEF Shut, RunType, RunPC, Active
<1>2. Types' /\ Others(j)
  BY OwnedFacts, <1>0, <1>a, <1>1 DEF RecoverJob, Shut, Kill, Types, Others
<1>3. Fit(j)'
  <2> DEFINE ps == IF works THEN InCgroup(j) ELSE {}
  <2>a. procs'[j] = procs[j] \ ps /\ pipes'[j] = pipes[j] \ ps
    BY OwnedFacts, <1>a DEF Shut, Kill, Types
  <2>b. run[j].inside => InCgroup(j) = procs[j]
    BY <1>0 DEF InCgroup
  <2>c. /\ procs'[j] \subseteq procs[j] /\ pipes'[j] \subseteq procs'[j]
        /\ run[j].inside /\ left = {} => procs'[j] = {}
    BY <2>a, <2>b, OwnedFacts
  <2>d. j \in cgroup' <=> left # {}
    BY <1>0, <1>a DEF Shut
  <2>1. /\ procs'[j] \subseteq procs[j] /\ pipes'[j] \subseteq procs'[j]
        /\ run[j].inside /\ left = {} => procs'[j] = {}
        /\ j \in cgroup' <=> left # {}
        /\ records' = records /\ daemon'.state = "recovering" /\ j \in records
        /\ run'[j].spared <=> left # {}
        /\ run'[j].pc = run[j].pc /\ run'[j].inside = run[j].inside
        /\ run'[j].child = run[j].child /\ run'[j].watchdog = run[j].watchdog
        /\ run'[j].writer = run[j].writer /\ run'[j].ended = run[j].ended
        /\ run'[j].why = run[j].why /\ run'[j].output = run[j].output /\ run'[j].result = run[j].result
    BY <2>c, <2>d, <1>0, <1>1 DEF RecoverJob, RunType
  <2>2. left # {} => run[j].inside
    BY DEF InCgroup
  <2> HIDE DEF left
  <2>3. run[j].pc \in {"new", "done", "lost"}
    BY <1>0 DEF Active
  <2>4. Descendants(j)' /\ Cgroups(j)' /\ Threads(j)'
    <3>1. Cgroups(j)'
      BY <1>0, <2>1, <2>2, <2>3, OwnedFacts DEF Cgroups, Unstarted, Contained
    <3>2. Threads(j)'
      BY <2>1, <2>3, OwnedFacts DEF Threads, Active, Unstarted
    <3>3. run[j].pc \in {"new", "lost"} \/ (run[j].pc = "done" /\ run[j].spared)
      BY <1>0, <2>3, OwnedFacts DEF Cgroups, Contained
    <3>4. Descendants(j)'
      BY <1>0, <2>1, <2>2, <3>3, OwnedFacts DEF Descendants, Cgroups, Unstarted, Group, Process
    <3> QED
      BY <3>1, <3>2, <3>4
  <2>5. ~RecordMayFail => OnRecord(j)'
    BY <2>1, <2>3 DEF OnRecord, Contained, Up
  <2> QED
    BY <2>1, <2>4, <2>5 DEF Fit
<1> QED
  BY <1>2, <1>3, JobStep

LEMMA ForgetJobKeeps ==
  ASSUME Owned, NEW j \in ChildJob, ForgetJob(j)
  PROVE  Owned'
<1>1. Types' /\ Others(j)
  BY OwnedFacts DEF ForgetJob, processes, Types, Others
<1>2. Fit(j)'
  BY OwnedFacts, <1>1 DEF ForgetJob, processes, Types, RunType, Process, Group, Fit, Descendants,
     Cgroups, Threads, OnRecord, Active, Unstarted, Contained, RunAt, Up
<1> QED
  BY <1>1, <1>2, JobStep

\* The daemon's end takes the threads and the direct child; what is left of a
\* job in a cgroup is on record.
LEMMA DaemonDiesKeeps ==
  ASSUME Owned, DaemonDies
  PROVE  Owned'
<1>0. Types
  BY DEF Owned
<1>1. ASSUME NEW j \in ChildJob
      PROVE  /\ run'[j] = IF Active(j) THEN [NotRun EXCEPT !.pc = "lost", !.inside = run[j].inside,
                                                    !.spared = run[j].spared]
                          ELSE run[j]
             /\ run'[j] \in RunType
             /\ procs'[j] = procs[j] \ (IF Active(j) THEN {"child"} ELSE {})
             /\ pipes'[j] = {}
  BY <1>0 DEF DaemonDies, Types, NotRun, RunType, RunPC
<1>2. Types'
  <2>1. /\ run' \in [ChildJob -> RunType] /\ procs' \in [ChildJob -> SUBSET Process]
        /\ pipes' \in [ChildJob -> SUBSET Process]
    BY <1>0, <1>1 DEF DaemonDies, Types
  <2>2. daemon' \in [state : {"up", "down", "recovering"}, deaths : 0..MaxDeaths, seen : SUBSET ChildJob]
    <3>1. daemon.deaths \in 0..MaxDeaths /\ MaxDeaths \in Nat /\ daemon.deaths < MaxDeaths
      BY <1>0, OwnedJobsAssumption DEF DaemonDies, Types
    <3>2. daemon.deaths + 1 \in 0..MaxDeaths
      BY <3>1
    <3>3. daemon' = [state |-> "down", deaths |-> daemon.deaths + 1, seen |-> {}]
      BY DEF DaemonDies
    <3> QED
      BY <3>2, <3>3
  <2> QED
    BY <1>0, <2>1, <2>2 DEF DaemonDies, Types
<1>3. ASSUME NEW j \in ChildJob
      PROVE  Fit(j)'
  <2>1. /\ cgroup' = cgroup /\ records' = records /\ ~Up' /\ daemon'.seen = {}
    BY DEF DaemonDies, Up
  <2>2. /\ run[j] \in RunType /\ procs[j] \subseteq Process /\ pipes[j] \subseteq procs[j]
        /\ Descendants(j) /\ Cgroups(j) /\ Threads(j)
        /\ ~RecordMayFail => OnRecord(j)
    BY OwnedFacts
  <2>3. CASE Active(j)
    <3>1. /\ run'[j].pc = "lost" /\ run'[j].inside = run[j].inside
          /\ run'[j].spared = run[j].spared
          /\ run'[j].watchdog = "none" /\ run'[j].writer = "none" /\ ~run'[j].ended
          /\ run'[j].child = "none" /\ run'[j].output = "none" /\ ~run'[j].why
          /\ run'[j].result = "none"
          /\ procs'[j] = procs[j] \ {"child"}
      BY <1>1, <2>3 DEF NotRun
    <3>2. Descendants(j)'
      BY <2>1, <2>2, <2>3, <3>1 DEF Descendants, Cgroups, Active, RunType, RunPC, Unstarted, Contained,
           Process, Group
    <3>3. Cgroups(j)' /\ Threads(j)'
      BY <2>1, <2>2, <3>1 DEF Cgroups, Threads, Active, Unstarted, Contained
    <3>4. ~RecordMayFail => OnRecord(j)'
      BY <2>1, <2>2, <2>3, <3>1 DEF OnRecord, Cgroups, Active, Contained
    <3> QED
      BY <1>1, <3>2, <3>3, <3>4 DEF Fit
  <2>4. CASE ~Active(j)
    <3>1. run'[j] = run[j] /\ procs'[j] = procs[j]
      BY <1>1, <2>4
    <3>2. Descendants(j)' /\ Cgroups(j)' /\ Threads(j)'
      BY <2>1, <2>2, <2>4, <3>1 DEF Descendants, Cgroups, Threads, Active
    <3>3. ~RecordMayFail => OnRecord(j)'
      BY <2>1, <2>2, <3>1 DEF OnRecord
    <3> QED
      BY <1>1, <3>2, <3>3 DEF Fit
  <2> QED
    BY <2>3, <2>4
<1> QED
  BY <1>2, <1>3 DEF Owned

\* The next owner serves only when no record is left to recover.
LEMMA NextOwnerKeeps ==
  ASSUME Owned, Reopen \/ Recovered
  PROVE  Owned'
<1>1. /\ run' = run /\ procs' = procs /\ pipes' = pipes /\ cgroup' = cgroup /\ records' = records
      /\ registry' = registry /\ cancelled' = cancelled
      /\ daemon.state # "up" /\ (Up' => records = {}) /\ daemon'.seen \subseteq daemon.seen
  BY DEF Reopen, Recovered, processes, Up, Owned, Types
<1>2. Types'
  BY <1>1 DEF Owned, Types, Reopen, Recovered
<1>3. ASSUME NEW j \in ChildJob
      PROVE  Fit(j)'
  BY <1>1, OwnedFacts DEF Fit, Descendants, Cgroups, Threads, OnRecord, Active, Up
<1> QED
  BY <1>2, <1>3 DEF Owned

-----------------------------------------------------------------------------
(* The invariant and what it says of the properties. *)

LEMMA NextOwned == Owned /\ [OwnedNext]_ownedVars => Owned'
<1>1. ASSUME Owned, NEW j \in ChildJob,
             \/ Create(j) \/ Main(j) \/ SpawnFails(j) \/ DrainFails(j)
             \/ Guarding(j) \/ SeeWhy(j, TRUE) \/ Written(j) \/ WriteFails(j)
             \/ Forks(j) \/ ClosesOutput(j) \/ Exits(j) \/ Cancel(j)
      PROVE  Owned'
  BY <1>1, CreateKeeps, RecordKeeps, RegisterKeeps, SpawnKeeps, SpawnFailsKeeps, DrainToEofKeeps,
     DrainEndedKeeps, DrainFailsKeeps, ReapKeeps, JoinKeeps, DropGroupsKeeps, ClearKeeps,
     SeeFinishedKeeps, SeeWhyKeeps, WatchdogKillsKeeps, WatchdogEndsKeeps, WrittenKeeps,
     WriteFailsKeeps, ForksKeeps, ClosesOutputKeeps, ExitsKeeps, CancelKeeps DEF Main, Guarding
<1>2. ASSUME Owned, DaemonDies \/ Reopen \/ Recovery
      PROVE  Owned'
  BY <1>2, DaemonDiesKeeps, NextOwnerKeeps, RecoverJobKeeps, ForgetJobKeeps DEF Recovery
<1>3. ASSUME Owned, UNCHANGED ownedVars
      PROVE  Owned'
  BY <1>3 DEF ownedVars, processes, Owned, Types, Fit, Descendants, Cgroups, Threads, OnRecord, Active, Up
<1> QED
  BY <1>1, <1>2, <1>3 DEF OwnedNext

LEMMA OwnedHolds == OwnedSpec => []Owned
BY InitOwned, NextOwned, PTL DEF OwnedSpec

\* Where a record is written before its job is started, what outlives the
\* daemon in a cgroup is always on record for the next owner of the store, until
\* that cgroup has been killed in vain.
THEOREM RecordBeforeLife ==
  ASSUME ~RecordMayFail
  PROVE  OwnedSpec => []LiveIsRecorded
<1>1. Owned => LiveIsRecorded
  BY DEF Owned, Types, Fit, OnRecord, LiveIsRecorded
<1> QED
  BY <1>1, OwnedHolds, PTL

\* Finished means the whole request and the whole answer, with or without the
\* job's record: the watchdog gives its reason before it kills, and is joined.
THEOREM FinishedIsSo == OwnedSpec => [](OwnedTypeOK /\ FinishedIsWhole)
<1>1. Owned => OwnedTypeOK /\ FinishedIsWhole
  BY OwnedFacts DEF Owned, Types, RunType, Threads, OwnedTypeOK, FinishedIsWhole
<1> QED
  BY <1>1, OwnedHolds, PTL

\* Nothing that the end of a job reaches runs on while the daemon serves, however
\* many daemons died over it: all of a job that was in its cgroup, if the last
\* kill of that worked, whatever an earlier kill or recovery left; and otherwise
\* its group, or its direct child where the daemon died before it.
THEOREM OverMeansOver ==
  ASSUME ~RecordMayFail
  PROVE  OwnedSpec => []OverIsOver
<1>1. Owned => OverIsOver
  <2> SUFFICES ASSUME Owned
               PROVE  OverIsOver
    OBVIOUS
  <2>1. ASSUME NEW j \in ChildJob, Up, run[j].pc \in {"done", "lost"}
        PROVE  procs[j] \cap Ended(j) = {}
    BY <2>1, OwnedFacts DEF Descendants, OnRecord, Ended
  <2>2. OwnedTypeOK /\ FinishedIsWhole
    BY OwnedFacts DEF Owned, Types, RunType, Threads, OwnedTypeOK, FinishedIsWhole
  <2> QED
    BY <2>1, <2>2 DEF NothingIsLeft, OverIsOver
<1> QED
  BY <1>1, OwnedHolds, PTL

=============================================================================
