------------------------ MODULE FindingsIndexProofs ------------------------
(***************************************************************************)
(* Theorems of FindingsIndex, for every set of rows, Works and threads,    *)
(* every set of faults and every bound.                                    *)
(*                                                                         *)
(* The argument, in three invariants.  Kept: what was on disk stays in the *)
(* file, as a row or damaged, or in its copies, until a person reviews it. *)
(* OnDisk: a rename that no fsync confirmed is still being confirmed or is *)
(* said to be unconfirmed.  Sweeping: a walk that missed a row was taken   *)
(* before the row's own sweep took its ticket, so the record of that walk  *)
(* is superseded already, or will be by that sweep's own.                  *)
(***************************************************************************)
EXTENDS FindingsIndex, TLAPS

-----------------------------------------------------------------------------
(* Types. *)

FileType == [file : BOOLEAN, rows : SUBSET Row, bad : SUBSET Row, preserved : SUBSET Row]

TaskType ==
  [pc : PC, rows : SUBSET Row, ticket : Nat, held : SUBSET Row, known : BOOLEAN,
   walk : SUBSET Row, short : BOOLEAN, wrote : BOOLEAN, found : BOOLEAN,
   outcome : {"none", "ok", "uncertain", "failed"}]

WellFormed(d) ==
  d \in FileType /\ d.rows \cap d.bad = {} /\ (~d.file => d.rows \cup d.bad = {})

Holding == {"renamed", "publishing", "rebuild"}

FilesTyped == WellFormed(dir) /\ WellFormed(disk)

HealthType ==
  [projection : {"unreconciled", "synchronized", "unconfirmed", "behind"}, observation : Nat,
   backing : {"unknown", "present", "absent"}, unconfirmed : BOOLEAN]

HealthTyped ==
  /\ health \in HealthType
  /\ tickets \in Nat /\ health.observation <= tickets

TasksTyped ==
  /\ task \in [Threads -> TaskType]
  /\ atlas \in Threads \cup {"free"} /\ daemon \in {"down", "starting", "up"}
  /\ \A t \in Threads :
       /\ task[t].ticket <= tickets
       /\ task[t].pc \in Holding <=> atlas = t
       /\ task[t].pc = "idle" => task[t] = Idle
       /\ daemon = "down" => task[t].pc = "idle"
       /\ task[t].pc = "rebuild" => t = "admin"

Synchronized == health.projection = "synchronized"

EstateTyped == journaled \subseteq Row /\ journal \in [Work -> {"ok", "unreadable", "gone"}]

Types == EstateTyped /\ FilesTyped /\ HealthTyped /\ TasksTyped

LEMMA TypesGive == Types => TypeOK
BY DEF Types, EstateTyped, FilesTyped, HealthTyped, HealthType, TasksTyped, TypeOK, WellFormed,
       FileType, TaskType, Holding

LEMMA Names == "admin" \in Threads /\ "free" \notin Threads
BY FindingsIndexAssumption DEF Threads

LEMMA IdleTask == Idle \in TaskType /\ Idle.pc = "idle" /\ Idle.ticket = 0 /\ Idle.rows = {}
BY DEF Idle, TaskType, PC

LEMMA TypesInit == Init => Types
BY IdleTask, Names
   DEF Init, Types, EstateTyped, FilesTyped, HealthTyped, HealthType, TasksTyped, WellFormed,
       FileType, NoFile, Unreconciled, Holding

\* One thread goes on; the others stand.
LEMMA TaskMoves ==
  ASSUME Types, NEW t \in Threads, NEW s \in TaskType, task' = [task EXCEPT ![t] = s],
         daemon # "down", daemon' = daemon, tickets' \in {tickets, tickets + 1},
         s.ticket <= tickets', s.pc # "idle" \/ s = Idle, s.pc # "rebuild" \/ t = "admin",
         \/ atlas' = atlas /\ s.pc \in Holding /\ task[t].pc \in Holding
         \/ atlas' = atlas /\ s.pc \notin Holding /\ task[t].pc \notin Holding
         \/ atlas = "free" /\ atlas' = t /\ s.pc \in Holding
  PROVE  TasksTyped'
<1>1. /\ task \in [Threads -> TaskType] /\ task' \in [Threads -> TaskType]
      /\ \A u \in Threads : task[u].ticket \in Nat
      /\ tickets \in Nat /\ tickets' \in Nat /\ tickets <= tickets'
  BY DEF Types, TasksTyped, TaskType, HealthTyped, HealthType
<1>2. \A u \in Threads : u # t => task'[u] = task[u]
  BY <1>1
<1>3. task'[t] = s
  BY <1>1
<1>4. ASSUME NEW u \in Threads
      PROVE  /\ task'[u].ticket <= tickets'
             /\ task'[u].pc \in Holding <=> atlas' = u
             /\ task'[u].pc = "idle" => task'[u] = Idle
             /\ task'[u].pc = "rebuild" => u = "admin"
  <2>1. CASE u = t
    BY <1>3, <2>1, Names DEF Types, TasksTyped
  <2>2. CASE u # t
    <3>1. task[u].ticket <= tickets /\ (task[u].pc \in Holding <=> atlas = u)
      BY DEF Types, TasksTyped
    <3>2. task[u].ticket <= tickets'
      BY <1>1, <3>1
    <3> QED
      BY <1>2, <2>2, <3>1, <3>2, Names DEF Types, TasksTyped
  <2> QED
    BY <2>1, <2>2
<1> QED
  BY <1>1, <1>4 DEF Types, TasksTyped

\* The record of an attempt; what it makes of the standing one.
Means(h, o, p, d, e) ==
  /\ h \in HealthType
  /\ h.observation >= health.observation /\ h.observation >= o
  /\ h.observation \in {health.observation, o}
  /\ h.unconfirmed = IF d = "confirmed" THEN FALSE
                     ELSE IF d = "uncertain" THEN TRUE ELSE health.unconfirmed
  /\ h.projection = "synchronized" =>
       /\ p = "synchronized" /\ dir.preserved = {} /\ ~h.unconfirmed
       /\ \/ /\ o >= health.observation /\ h.observation = o
             /\ h.backing # "present" => e # "present" /\ ~dir.file
          \/ /\ o < health.observation /\ Synchronized
             /\ h.observation = health.observation /\ h.backing = health.backing

LEMMA Records ==
  ASSUME HealthTyped, FilesTyped, NEW o \in Nat,
         NEW p \in {"synchronized", "unconfirmed", "behind"},
         NEW d \in {"confirmed", "uncertain", "unestablished"}, NEW e \in {"unknown", "present", "absent"},
         NEW h, h = Recorded(health, o, p, d, e)
  PROVE  Means(h, o, p, d, e)
<1> DEFINE h1 == Applied(health, d)
<1>1. /\ h1 \in HealthType
      /\ h1.observation = health.observation /\ h1.backing = health.backing
      /\ h1.projection = "synchronized" => health.projection = "synchronized"
      /\ h1.unconfirmed = IF d = "confirmed" THEN FALSE
                          ELSE IF d = "uncertain" THEN TRUE ELSE health.unconfirmed
  BY DEF Applied, HealthTyped, HealthType
<1> DEFINE q == QualifiedByCopies(QualifiedByDirectory(p, h1.unconfirmed), dir.preserved)
           b == Backing(e, IF dir.file THEN "present" ELSE "absent")
<1>2. /\ q \in {"synchronized", "unconfirmed", "behind"}
      /\ q = "synchronized" => p = "synchronized" /\ dir.preserved = {} /\ ~h1.unconfirmed
  BY DEF QualifiedByCopies, QualifiedByDirectory
<1>3. b \in {"unknown", "present", "absent"} /\ (b # "present" => e # "present" /\ ~dir.file)
  BY DEF Backing
<1>4. h = IF o < h1.observation /\ ~Weakens(q, h1.projection) THEN h1
          ELSE [h1 EXCEPT !.projection = q, !.backing = b,
                          !.observation = IF o < h1.observation THEN h1.observation ELSE o]
  BY DEF Recorded
<1> HIDE DEF h1, q, b
<1>5. health.observation \in Nat /\ h1.observation \in Nat
  BY <1>1 DEF HealthTyped, HealthType
<1>6. CASE o < h1.observation /\ ~Weakens(q, h1.projection)
  <2>1. h = h1
    BY <1>4, <1>6
  <2>2. h.projection = "synchronized" => q = "synchronized"
    BY <1>6, <2>1 DEF Weakens
  <2>3. /\ h \in HealthType
        /\ h.observation = health.observation /\ o < health.observation
        /\ h.backing = health.backing /\ h.unconfirmed = h1.unconfirmed
    BY <1>1, <1>6, <2>1
  <2>4. h.projection = "synchronized" => health.projection = "synchronized" /\ ~h.unconfirmed
    BY <1>1, <1>2, <2>1, <2>2
  <2> QED
    BY <1>1, <1>2, <1>5, <2>2, <2>3, <2>4 DEF Means, Synchronized
<1>7. CASE o < h1.observation /\ Weakens(q, h1.projection)
  <2>1. h = [h1 EXCEPT !.projection = q, !.backing = b, !.observation = h1.observation]
    BY <1>4, <1>7
  <2>2. /\ h \in HealthType
        /\ h.observation = health.observation /\ h.projection # "synchronized"
        /\ h.unconfirmed = h1.unconfirmed
    BY <1>1, <1>2, <1>3, <1>7, <2>1 DEF Weakens, HealthType
  <2> QED
    BY <1>1, <1>5, <1>7, <2>2 DEF Means
<1>8. CASE ~(o < h1.observation)
  <2>1. h = [h1 EXCEPT !.projection = q, !.backing = b, !.observation = o]
    BY <1>4, <1>8
  <2>2. /\ h \in HealthType
        /\ h.observation = o /\ h.projection = q /\ h.backing = b
        /\ h.unconfirmed = h1.unconfirmed
    BY <1>1, <1>2, <1>3, <2>1 DEF HealthType
  <2> QED
    BY <1>1, <1>2, <1>3, <1>5, <1>8, <2>2 DEF Means
<1> QED
  BY <1>6, <1>7, <1>8

LEMMA AttemptRecords ==
  ASSUME NEW s \in TaskType
  PROVE  /\ ProjectionOf(s) \in {"synchronized", "unconfirmed", "behind"}
         /\ EstablishedBy(s) \in {"unknown", "present", "absent"}
         /\ ProjectionOf(s) = "synchronized" => ~s.short /\ s.outcome \in {"none", "ok"}
         /\ EstablishedBy(s) # "present" /\ s.outcome # "failed" => ~s.wrote /\ ~s.found
         /\ DurabilityOf(s) = "confirmed" => s.outcome = "ok" /\ s.wrote
         /\ DurabilityOf(s) = "uncertain" <=> s.outcome = "uncertain"
         /\ DurabilityOf(s) \in {"confirmed", "uncertain", "unestablished"}
BY DEF TaskType, ProjectionOf, EstablishedBy, DurabilityOf

LEMMA RecordGives ==
  ASSUME Types, NEW t \in Threads, Record(t), NEW h, h = health'
  PROVE  /\ h \in HealthType
         /\ h.observation >= health.observation /\ h.observation >= task[t].ticket
         /\ h.observation \in {health.observation, task[t].ticket}
         /\ task[t].outcome = "uncertain" => h.unconfirmed
         /\ ~h.unconfirmed => \/ ~health.unconfirmed
                             \/ (task[t].outcome = "ok" /\ task[t].wrote)
         /\ h.projection = "synchronized" =>
              /\ ~task[t].short /\ task[t].outcome \in {"none", "ok"}
              /\ dir.preserved = {} /\ ~h.unconfirmed
              /\ \/ /\ task[t].ticket >= health.observation /\ h.observation = task[t].ticket
                    /\ h.backing # "present" => ~task[t].wrote /\ ~task[t].found
                 \/ /\ task[t].ticket < health.observation /\ Synchronized
                    /\ h.observation = health.observation /\ h.backing = health.backing
<1> DEFINE o == task[t].ticket
           p == ProjectionOf(task[t])
           d == DurabilityOf(task[t])
           e == EstablishedBy(task[t])
<1>1. HealthTyped /\ FilesTyped /\ task[t] \in TaskType /\ o \in Nat
  BY DEF Types, TasksTyped, TaskType
<1>2. /\ p \in {"synchronized", "unconfirmed", "behind"}
      /\ e \in {"unknown", "present", "absent"}
      /\ p = "synchronized" => ~task[t].short /\ task[t].outcome \in {"none", "ok"}
      /\ e # "present" /\ task[t].outcome # "failed" => ~task[t].wrote /\ ~task[t].found
      /\ d = "confirmed" => task[t].outcome = "ok" /\ task[t].wrote
      /\ d = "uncertain" <=> task[t].outcome = "uncertain"
      /\ d \in {"confirmed", "uncertain", "unestablished"}
  BY <1>1, AttemptRecords
<1>3. h = Recorded(health, o, p, d, e)
  BY DEF Record
<1> HIDE DEF o, p, d, e
<1>4. Means(h, o, p, d, e)
  BY <1>1, <1>2, <1>3, Records
<1>5. health.unconfirmed \in BOOLEAN
  BY <1>1 DEF HealthTyped, HealthType
<1> QED
  BY <1>2, <1>4, <1>5 DEF o, Means

LEMMA MutateTypes == ASSUME Types, NEW t \in Threads, NEW r \in Row, Mutate(t, r) PROVE Types'
<1> DEFINE s == [Idle EXCEPT !.pc = "due", !.rows = {r}]
<1>1. s \in TaskType /\ s.pc = "due" /\ s.ticket = 0
  BY DEF Idle, TaskType, PC
<1>2. /\ task' = [task EXCEPT ![t] = s] /\ UNCHANGED <<atlas, daemon, tickets>>
      /\ daemon # "down" /\ task[t].pc = "idle" /\ tickets \in Nat
  BY DEF Mutate, At, Types, HealthTyped, HealthType
<1> HIDE DEF s
<1>3. s.ticket <= tickets' /\ s.pc \notin Holding /\ task[t].pc \notin Holding
  BY <1>1, <1>2 DEF Holding
<1>4. TasksTyped'
  BY <1>1, <1>2, <1>3, TaskMoves DEF Holding
<1> QED
  BY <1>4 DEF Mutate, Types, EstateTyped, FilesTyped, HealthTyped, HealthType

LEMMA LoseSweepTypes == ASSUME Types, NEW t \in Threads, LoseSweep(t) PROVE Types'
<1>1. /\ task' = [task EXCEPT ![t] = Idle] /\ UNCHANGED <<atlas, daemon, tickets>>
      /\ daemon # "down" /\ task[t].pc = "due" /\ tickets \in Nat
  BY DEF LoseSweep, At, Types, HealthTyped, HealthType
<1>2. Idle.ticket <= tickets' /\ Idle.pc \notin Holding /\ task[t].pc \notin Holding
  BY <1>1, IdleTask DEF Holding
<1>3. TasksTyped'
  BY <1>1, <1>2, IdleTask, TaskMoves
<1> QED
  BY <1>3 DEF LoseSweep, Types, EstateTyped, FilesTyped, HealthTyped, HealthType, estate

LEMMA TakeTicketTypes == ASSUME Types, NEW t \in Threads, TakeTicket(t) PROVE Types'
<1> DEFINE s == [task[t] EXCEPT !.pc = "ticket", !.ticket = tickets + 1]
<1>1. task[t] \in TaskType /\ task \in [Threads -> TaskType] /\ tickets \in Nat
  BY DEF Types, HealthTyped, HealthType, TasksTyped
<1>2. s \in TaskType /\ s.pc = "ticket" /\ s.ticket = tickets + 1
  <2>1. tickets + 1 \in Nat
    BY <1>1
  <2> QED
    BY <1>1, <2>1 DEF TaskType, PC
<1>3. /\ task' = [task EXCEPT ![t] = s] /\ UNCHANGED <<atlas, daemon>>
      /\ daemon # "down" /\ task[t].pc = "due" /\ tickets' = tickets + 1
  BY <1>1 DEF TakeTicket, At
<1> HIDE DEF s
<1>4. s.ticket <= tickets' /\ s.pc \notin Holding /\ task[t].pc \notin Holding
  BY <1>1, <1>2, <1>3 DEF Holding
<1>5. TasksTyped'
  BY <1>2, <1>3, <1>4, TaskMoves
<1> QED
  BY <1>1, <1>5 DEF TakeTicket, Types, EstateTyped, FilesTyped, HealthTyped, HealthType, estate

LEMMA ReadBasisTypes == ASSUME Types, NEW t \in Threads, ReadBasis(t) PROVE Types'
<1> DEFINE s == [task[t] EXCEPT !.pc = "basis", !.held = dir.rows, !.known = (dir.bad = {})]
<1>1. /\ task[t] \in TaskType /\ task \in [Threads -> TaskType] /\ tickets \in Nat
      /\ dir.rows \subseteq Row /\ task[t].ticket <= tickets
  BY DEF Types, HealthTyped, HealthType, TasksTyped, FilesTyped, WellFormed, FileType
<1>2. s \in TaskType /\ s.pc = "basis" /\ s.ticket = task[t].ticket
  BY <1>1 DEF TaskType, PC
<1>3. /\ task' = [task EXCEPT ![t] = s] /\ UNCHANGED <<atlas, daemon, tickets>>
      /\ daemon # "down" /\ task[t].pc = "ticket"
  BY <1>1 DEF ReadBasis, At
<1> HIDE DEF s
<1>4. TasksTyped'
  BY <1>1, <1>2, <1>3, TaskMoves DEF Holding
<1> QED
  BY <1>4 DEF ReadBasis, Types, EstateTyped, FilesTyped, HealthTyped, HealthType, estate

LEMMA WalkEstateTypes == ASSUME Types, NEW t \in Threads, WalkEstate(t) PROVE Types'
<1> DEFINE s == [task[t] EXCEPT !.pc = "walked", !.walk = Readable,
                                !.short = WalkShort(task[t].known, task[t].held),
                                !.held = {}, !.known = FALSE]
<1>1. /\ task[t] \in TaskType /\ task \in [Threads -> TaskType] /\ tickets \in Nat
      /\ Readable \subseteq Row /\ task[t].ticket <= tickets
      /\ WalkShort(task[t].known, task[t].held) \in BOOLEAN
  BY DEF Types, HealthTyped, HealthType, TasksTyped, EstateTyped, Readable, WalkShort, SomeUnreadable
<1>2. s \in TaskType /\ s.pc = "walked" /\ s.ticket = task[t].ticket
  BY <1>1 DEF TaskType, PC
<1>3. /\ task' = [task EXCEPT ![t] = s] /\ UNCHANGED <<atlas, daemon, tickets>>
      /\ daemon # "down" /\ task[t].pc = "basis"
  BY <1>1 DEF WalkEstate, At
<1> HIDE DEF s
<1>4. TasksTyped'
  BY <1>1, <1>2, <1>3, TaskMoves DEF Holding
<1> QED
  BY <1>4 DEF WalkEstate, Types, EstateTyped, FilesTyped, HealthTyped, HealthType, estate

LEMMA AppendTypes == ASSUME Types, NEW t \in Threads, Append(t) PROVE Types'
<1>1. /\ task[t] \in TaskType /\ task \in [Threads -> TaskType] /\ tickets \in Nat
      /\ task[t].ticket <= tickets /\ daemon # "down" /\ atlas = "free"
      /\ UNCHANGED <<journaled, journal, disk, health, tickets, daemon>> /\ atlas' = t
  BY DEF Append, At, Types, HealthTyped, HealthType, TasksTyped, estate
<1>2. \E s \in TaskType : /\ task' = [task EXCEPT ![t] = s] /\ s.ticket = task[t].ticket
                          /\ s.pc \in {"renamed", "publishing"}
  <2> DEFINE a == [task[t] EXCEPT !.pc = "publishing", !.outcome = "failed"]
             b == [task[t] EXCEPT !.pc = "publishing", !.outcome = "ok", !.found = dir.file]
             c == [task[t] EXCEPT !.pc = "renamed"]
  <2>1. /\ a \in TaskType /\ a.ticket = task[t].ticket /\ a.pc = "publishing"
        /\ c \in TaskType /\ c.ticket = task[t].ticket /\ c.pc = "renamed"
    BY <1>1 DEF TaskType, PC
  <2>3. b \in TaskType /\ b.ticket = task[t].ticket /\ b.pc = "publishing"
    <3>1. dir.file \in BOOLEAN
      BY DEF Types, FilesTyped, WellFormed, FileType
    <3> QED
      BY <1>1, <3>1 DEF TaskType, PC
  <2>2. \/ task' = [task EXCEPT ![t] = a] \/ task' = [task EXCEPT ![t] = b]
        \/ task' = [task EXCEPT ![t] = c]
    BY <1>1 DEF Append
  <2> QED
    BY <2>1, <2>2, <2>3
<1>3. TasksTyped'
  BY <1>1, <1>2, TaskMoves DEF Holding
<1>4. WellFormed(dir)'
  <2>1. dir' = dir \/ (dir.bad = {} /\ dir' = [dir EXCEPT !.file = TRUE, !.rows = @ \cup task[t].walk])
    BY DEF Append
  <2>2. task[t].walk \subseteq Row
    BY <1>1 DEF TaskType
  <2> QED
    BY <2>1, <2>2 DEF WellFormed, FileType, Types, FilesTyped
<1> QED
  BY <1>1, <1>3, <1>4 DEF Types, EstateTyped, FilesTyped, HealthTyped, HealthType, WellFormed

LEMMA FsyncTypes == ASSUME Types, NEW t \in Threads, Fsync(t) PROVE Types'
<1>1. /\ task[t] \in TaskType /\ task \in [Threads -> TaskType] /\ tickets \in Nat
      /\ task[t].ticket <= tickets /\ daemon # "down" /\ task[t].pc = "renamed"
      /\ UNCHANGED <<journaled, journal, dir, health, tickets, daemon, atlas>>
      /\ disk' \in {dir, disk}
  BY DEF Fsync, At, Types, HealthTyped, HealthType, TasksTyped, estate
<1>2. \E s \in TaskType : /\ task' = [task EXCEPT ![t] = s] /\ s.ticket = task[t].ticket
                          /\ s.pc = "publishing"
  <2> DEFINE a == [task[t] EXCEPT !.pc = "publishing", !.wrote = TRUE, !.outcome = "ok"]
             b == [task[t] EXCEPT !.pc = "publishing", !.wrote = TRUE, !.outcome = "uncertain"]
  <2>1. \A s \in {a, b} : s \in TaskType /\ s.ticket = task[t].ticket /\ s.pc = "publishing"
    BY <1>1 DEF TaskType, PC
  <2>2. task' = [task EXCEPT ![t] = a] \/ task' = [task EXCEPT ![t] = b]
    BY <1>1 DEF Fsync
  <2> QED
    BY <2>1, <2>2
<1>3. TasksTyped'
  BY <1>1, <1>2, TaskMoves DEF Holding
<1> QED
  BY <1>1, <1>3 DEF Types, EstateTyped, FilesTyped, HealthTyped, HealthType, WellFormed

LEMMA RecordTypes == ASSUME Types, NEW t \in Threads, Record(t) PROVE Types'
<1>1. /\ task[t] \in TaskType /\ task \in [Threads -> TaskType] /\ tickets \in Nat
      /\ task[t].ticket \in Nat /\ task[t].ticket <= tickets
      /\ task[t].pc = "publishing" /\ daemon # "down" /\ task' = [task EXCEPT ![t] = Idle]
      /\ UNCHANGED <<journaled, journal, dir, disk, tickets>> /\ atlas = t /\ atlas' = "free"
      /\ daemon' = "up"
  BY DEF Record, At, Types, HealthTyped, HealthType, TasksTyped, TaskType, estate
<1>2. HealthTyped'
  <2> SUFFICES ASSUME NEW h, h = health'
               PROVE  HealthTyped'
    OBVIOUS
  <2> QED
    BY <1>1, RecordGives DEF Types, HealthTyped, HealthType
<1>3. ASSUME NEW u \in Threads
      PROVE  /\ task'[u].ticket <= tickets
             /\ task'[u].pc \notin Holding
             /\ task'[u].pc = "idle" => task'[u] = Idle
             /\ task'[u].pc = "rebuild" => u = "admin"
  BY <1>1, IdleTask DEF Types, TasksTyped, Holding
<1>4. TasksTyped'
  BY <1>1, <1>3, IdleTask, Names DEF TasksTyped
<1> QED
  BY <1>1, <1>2, <1>4 DEF Types, EstateTyped, FilesTyped, WellFormed

LEMMA CallsAdmin ==
  ASSUME Types, daemon = "up" /\ At("admin", "idle") /\ atlas = "free"
  PROVE  /\ task["admin"] = Idle /\ daemon # "down" /\ "admin" \in Threads
         /\ task \in [Threads -> TaskType] /\ tickets \in Nat /\ "idle" \notin Holding
BY Names DEF At, Types, TasksTyped, HealthTyped, Holding

LEMMA RebuildWalkTypes == ASSUME Types, RebuildWalk PROVE Types'
<1> DEFINE s == [Idle EXCEPT !.pc = "rebuild", !.ticket = tickets + 1, !.walk = Readable,
                             !.short = WalkShort(TRUE, dir.rows), !.known = (dir.bad = {})]
<1>1. /\ task["admin"] = Idle /\ daemon # "down" /\ "admin" \in Threads
      /\ tickets \in Nat /\ tickets + 1 \in Nat
  BY CallsAdmin DEF RebuildWalk, Call
<1>2. Readable \subseteq Row /\ WalkShort(TRUE, dir.rows) \in BOOLEAN
  BY DEF Types, EstateTyped, Readable, WalkShort, SomeUnreadable
<1>3. s \in TaskType /\ s.pc = "rebuild" /\ s.ticket = tickets + 1
  BY <1>1, <1>2 DEF Idle, TaskType, PC
<1>4. /\ task' = [task EXCEPT !["admin"] = s] /\ atlas = "free" /\ atlas' = "admin"
      /\ UNCHANGED daemon /\ tickets' = tickets + 1
  BY DEF RebuildWalk, Call
<1> HIDE DEF s
<1>5. s.ticket <= tickets' /\ s.pc \in Holding
  BY <1>1, <1>3, <1>4 DEF Holding
<1>6. TasksTyped'
  BY <1>1, <1>3, <1>4, <1>5, TaskMoves
<1>7. HealthTyped'
  BY <1>1 DEF RebuildWalk, Types, HealthTyped, HealthType
<1> QED
  BY <1>6, <1>7 DEF RebuildWalk, Types, EstateTyped, FilesTyped, estate

\* A rebuild that goes on holding the mutex.
LEMMA RebuildMoves ==
  ASSUME Types, At("admin", "rebuild"), UNCHANGED <<tickets, atlas, daemon>>,
         NEW s \in TaskType, s.pc \in Holding, s.ticket = task["admin"].ticket,
         task' = [task EXCEPT !["admin"] = s]
  PROVE  TasksTyped'
<1>1. /\ daemon # "down" /\ "admin" \in Threads /\ tickets \in Nat
      /\ task["admin"].ticket <= tickets /\ task["admin"].pc \in Holding /\ s.pc # "idle"
  BY Names DEF At, Types, TasksTyped, HealthTyped, Holding
<1> QED
  BY <1>1, TaskMoves

LEMMA RebuildRefuseTypes == ASSUME Types, RebuildRefuse PROVE Types'
<1> DEFINE s == [task["admin"] EXCEPT !.pc = "publishing", !.outcome = "failed"]
<1>1. task["admin"] \in TaskType /\ task \in [Threads -> TaskType] /\ "admin" \in Threads
  BY Names DEF Types, TasksTyped
<1>2. s \in TaskType /\ s.pc = "publishing" /\ s.ticket = task["admin"].ticket
  BY <1>1 DEF TaskType, PC
<1>3. task' = [task EXCEPT !["admin"] = s] /\ UNCHANGED <<tickets, atlas, daemon>>
  BY <1>1 DEF RebuildRefuse
<1> HIDE DEF s
<1>4. TasksTyped'
  BY <1>2, <1>3, RebuildMoves DEF RebuildRefuse, Holding
<1> QED
  BY <1>4 DEF RebuildRefuse, Types, EstateTyped, FilesTyped, HealthTyped, HealthType, estate

LEMMA RebuildPreserveTypes == ASSUME Types, RebuildPreserve PROVE Types'
<1> DEFINE a == [task["admin"] EXCEPT !.known = TRUE]
           b == [task["admin"] EXCEPT !.pc = "publishing", !.outcome = "failed"]
           kept == [dir EXCEPT !.preserved = @ \cup dir.bad]
<1>1. /\ task["admin"] \in TaskType /\ task \in [Threads -> TaskType] /\ "admin" \in Threads
      /\ task["admin"].pc = "rebuild"
  BY Names DEF RebuildPreserve, At, Types, TasksTyped
<1>2. /\ a \in TaskType /\ a.pc = "rebuild" /\ a.ticket = task["admin"].ticket
      /\ b \in TaskType /\ b.pc = "publishing" /\ b.ticket = task["admin"].ticket
  BY <1>1 DEF TaskType, PC
<1>3. /\ task' = [task EXCEPT !["admin"] = a] \/ task' = [task EXCEPT !["admin"] = b]
      /\ UNCHANGED <<tickets, atlas, daemon>>
      /\ dir' = kept /\ disk' \in {kept, disk}
  BY <1>1 DEF RebuildPreserve
<1>4. WellFormed(kept)
  BY DEF Types, FilesTyped, WellFormed, FileType
<1> HIDE DEF a, b, kept
<1>5. TasksTyped'
  BY <1>2, <1>3, RebuildMoves DEF RebuildPreserve, Holding
<1>6. FilesTyped'
  BY <1>3, <1>4 DEF Types, FilesTyped, WellFormed
<1> QED
  BY <1>5, <1>6 DEF RebuildPreserve, Types, EstateTyped, HealthTyped, HealthType, estate

LEMMA RebuildWriteTypes == ASSUME Types, RebuildWrite PROVE Types'
<1> DEFINE a == [task["admin"] EXCEPT !.pc = "renamed"]
           b == [task["admin"] EXCEPT !.pc = "publishing", !.outcome = "failed"]
           new == [dir EXCEPT !.file = TRUE, !.rows = task["admin"].walk, !.bad = {}]
<1>1. /\ task["admin"] \in TaskType /\ task \in [Threads -> TaskType] /\ "admin" \in Threads
      /\ task["admin"].walk \subseteq Row
  BY Names DEF Types, TasksTyped, TaskType
<1>2. /\ a \in TaskType /\ a.pc = "renamed" /\ a.ticket = task["admin"].ticket
      /\ b \in TaskType /\ b.pc = "publishing" /\ b.ticket = task["admin"].ticket
  BY <1>1 DEF TaskType, PC
<1>3. /\ task' = [task EXCEPT !["admin"] = a] \/ task' = [task EXCEPT !["admin"] = b]
      /\ UNCHANGED <<disk, tickets, atlas, daemon>>
      /\ dir' \in {new, dir}
  BY <1>1 DEF RebuildWrite
<1>4. WellFormed(new)
  BY <1>1 DEF Types, FilesTyped, WellFormed, FileType
<1> HIDE DEF a, b, new
<1>5. TasksTyped'
  BY <1>2, <1>3, RebuildMoves DEF RebuildWrite, Holding
<1>6. FilesTyped'
  BY <1>3, <1>4 DEF Types, FilesTyped, WellFormed
<1> QED
  BY <1>5, <1>6 DEF RebuildWrite, Types, EstateTyped, HealthTyped, HealthType, estate

LEMMA RetireTypes == ASSUME Types, Retire PROVE Types'
<1> DEFINE s == [Idle EXCEPT !.pc = "due"]
           rest == [dir EXCEPT !.preserved = {}]
<1>1. /\ task["admin"] = Idle /\ daemon # "down" /\ "admin" \in Threads
      /\ task \in [Threads -> TaskType] /\ tickets \in Nat /\ "idle" \notin Holding
  BY CallsAdmin DEF Retire, Call
<1>2. s \in TaskType /\ s.pc = "due" /\ s.ticket = 0
  BY DEF Idle, TaskType, PC
<1>3. /\ task' = [task EXCEPT !["admin"] = s] /\ UNCHANGED <<tickets, atlas, daemon>>
      /\ dir' = rest /\ disk' \in {rest, disk}
      /\ \E d \in {"confirmed", "uncertain"} : health' = Applied(health, d)
  BY <1>1 DEF Retire
<1>4. WellFormed(rest)
  BY DEF Types, FilesTyped, WellFormed, FileType
<1> HIDE DEF s, rest
<1>5. s.ticket <= tickets' /\ s.pc \notin Holding /\ task["admin"].pc \notin Holding
  BY <1>1, <1>2, <1>3, IdleTask DEF Holding
<1>6. TasksTyped'
  BY <1>1, <1>2, <1>3, <1>5, TaskMoves
<1>7. FilesTyped'
  BY <1>3, <1>4 DEF Types, FilesTyped, WellFormed
<1>8. HealthTyped'
  BY <1>3 DEF Applied, Types, HealthTyped, HealthType
<1> QED
  BY <1>6, <1>7, <1>8 DEF Retire, Types, EstateTyped, estate

LEMMA CorruptLineTypes == ASSUME Types, CorruptLine PROVE Types'
<1>1. PICK r \in dir.rows :
        /\ dir' = [dir EXCEPT !.rows = @ \ {r}, !.bad = @ \cup {r}]
        /\ disk' = [disk EXCEPT !.rows = @ \ {r},
                                !.bad = IF r \in disk.rows THEN @ \cup {r} ELSE @]
  BY DEF CorruptLine
<1>2. r \in Row
  BY DEF Types, FilesTyped, WellFormed, FileType
<1>3. WellFormed(dir)'
  BY <1>1, <1>2 DEF Types, FilesTyped, WellFormed, FileType
<1>4. WellFormed(disk)'
  <2>1. CASE r \in disk.rows
    BY <1>1, <1>2, <2>1 DEF Types, FilesTyped, WellFormed, FileType
  <2>2. CASE r \notin disk.rows
    BY <1>1, <1>2, <2>2 DEF Types, FilesTyped, WellFormed, FileType
  <2> QED
    BY <2>1, <2>2
<1> QED
  BY <1>3, <1>4
     DEF CorruptLine, Types, EstateTyped, FilesTyped, HealthTyped, HealthType, TasksTyped, estate

LEMMA DeleteIndexTypes == ASSUME Types, DeleteIndex PROVE Types'
<1>1. WellFormed(dir)' /\ WellFormed(disk)'
  BY DEF DeleteIndex, Types, FilesTyped, WellFormed, FileType
<1> QED
  BY <1>1
     DEF DeleteIndex, Types, EstateTyped, FilesTyped, HealthTyped, HealthType, TasksTyped, estate

LEMMA JournalTypes ==
  ASSUME Types, NEW w \in Work, Obscure(w) \/ Restore(w) \/ LoseJournal(w)
  PROVE  Types'
<1>1. /\ UNCHANGED <<journaled, dir, disk, health, tickets, task, atlas, daemon>>
      /\ \E j \in {"ok", "unreadable", "gone"} : journal' = [journal EXCEPT ![w] = j]
  BY DEF Obscure, Restore, LoseJournal
<1> QED
  BY <1>1 DEF Types, EstateTyped, FilesTyped, WellFormed, HealthTyped, HealthType, TasksTyped

LEMMA StopTypes == ASSUME Types, NEW powerLoss \in BOOLEAN, Stop(powerLoss) PROVE Types'
<1>1. /\ UNCHANGED <<journaled, journal, disk>> /\ dir' \in {dir, disk}
      /\ health' = Unreconciled /\ tickets' = 0 /\ atlas' = "free" /\ daemon' = "down"
      /\ task' = [t \in Threads |-> Idle]
  BY DEF Stop, estate
<1>2. HealthTyped'
  BY <1>1 DEF HealthTyped, HealthType, Unreconciled
<1>3. TasksTyped'
  BY <1>1, IdleTask, Names DEF TasksTyped, Holding
<1>4. FilesTyped'
  BY <1>1 DEF Types, FilesTyped, WellFormed
<1> QED
  BY <1>1, <1>2, <1>3, <1>4 DEF Types, EstateTyped

LEMMA StartTypes == ASSUME Types, Start PROVE Types'
<1> DEFINE s == [Idle EXCEPT !.pc = "due"]
<1>1. /\ UNCHANGED <<journaled, journal, dir, health, tickets, atlas>> /\ disk' \in {dir, disk}
      /\ daemon = "down" /\ daemon' = "starting" /\ task' = [task EXCEPT !["admin"] = s]
  BY DEF Start, estate
<1>2. s \in TaskType /\ s.pc = "due" /\ s.ticket = 0
  BY DEF Idle, TaskType, PC
<1>3. task \in [Threads -> TaskType] /\ "admin" \in Threads /\ tickets \in Nat /\ atlas # "admin"
  BY <1>1, Names DEF Types, TasksTyped, HealthTyped, Holding
<1> HIDE DEF s
<1>4. ASSUME NEW u \in Threads
      PROVE  /\ task'[u].ticket <= tickets'
             /\ task'[u].pc \in Holding <=> atlas' = u
             /\ task'[u].pc = "idle" => task'[u] = Idle
             /\ task'[u].pc = "rebuild" => u = "admin"
  <2>1. CASE u = "admin"
    BY <1>1, <1>2, <1>3, <2>1 DEF Holding
  <2>2. CASE u # "admin"
    BY <1>1, <1>3, <2>2 DEF Types, TasksTyped
  <2> QED
    BY <2>1, <2>2
<1>5. TasksTyped'
  BY <1>1, <1>2, <1>3, <1>4 DEF Types, TasksTyped
<1>6. FilesTyped'
  BY <1>1 DEF Types, FilesTyped, WellFormed
<1> QED
  BY <1>1, <1>5, <1>6 DEF Types, EstateTyped, HealthTyped, HealthType

LEMMA TypesStep == Types /\ [Next]_vars => Types'
<1> SUFFICES ASSUME Types, [Next]_vars PROVE Types'
  OBVIOUS
<1>1. ASSUME NEW t \in Threads,
             \/ \E r \in Row : Mutate(t, r)
             \/ LoseSweep(t) \/ TakeTicket(t) \/ ReadBasis(t) \/ WalkEstate(t)
             \/ Append(t) \/ Fsync(t) \/ Record(t)
      PROVE  Types'
  BY <1>1, MutateTypes, LoseSweepTypes, TakeTicketTypes, ReadBasisTypes, WalkEstateTypes,
     AppendTypes, FsyncTypes, RecordTypes
<1>2. CASE RebuildWalk \/ RebuildRefuse \/ RebuildPreserve \/ RebuildWrite \/ Retire
  BY <1>2, RebuildWalkTypes, RebuildRefuseTypes, RebuildPreserveTypes, RebuildWriteTypes,
     RetireTypes
<1>3. CASE \/ CorruptLine \/ DeleteIndex \/ Start
           \/ \E w \in Work : Obscure(w) \/ Restore(w) \/ LoseJournal(w)
           \/ \E powerLoss \in BOOLEAN : Stop(powerLoss)
  BY <1>3, CorruptLineTypes, DeleteIndexTypes, StartTypes, JournalTypes, StopTypes
<1>4. CASE UNCHANGED vars
  BY <1>4 DEF vars, estate, Types, EstateTyped, FilesTyped, WellFormed, HealthTyped, HealthType,
              TasksTyped
<1> QED
  BY <1>1, <1>2, <1>3, <1>4 DEF Next

LEMMA TypesAlways == Spec => []Types
<1> QED
  BY TypesInit, TypesStep, PTL DEF Spec

-----------------------------------------------------------------------------
(* What was published is kept, on disk and as a reader sees it. *)

LossesKnown ==
  /\ (\E w \in Work : journal[w] = "gone") => "lose" \in faults
  /\ ~("lose" \in faults /\ "delete" \in faults)

PublishedIsHeld ==
  /\ disk.rows \subseteq published /\ published \subseteq Row
  /\ "delete" \notin faults =>
       /\ published \subseteq dir.rows \cup dir.bad \cup dir.preserved \cup reviewed
       /\ published \subseteq disk.rows \cup disk.bad \cup disk.preserved \cup reviewed

CopiesQualify == dir.preserved # {} => ~Synchronized \/ atlas = "admin"

\* A rebuild that will write: what it drops is in its walk or copied aside.
RebuildKeeps ==
  task["admin"].pc = "rebuild" /\ ~task["admin"].short =>
    /\ dir.rows \subseteq task["admin"].walk
    /\ task["admin"].known => dir.bad \subseteq task["admin"].walk \cup dir.preserved

Kept == LossesKnown /\ PublishedIsHeld /\ CopiesQualify /\ RebuildKeeps

\* A fault is added to those that were; no other step forgets one.
LEMMA FaultsStand ==
  ASSUME [Next]_vars, ~\E w \in Work : LoseJournal(w), ~DeleteIndex
  PROVE  /\ faults \subseteq faults'
         /\ "delete" \in faults' <=> "delete" \in faults
         /\ "lose" \in faults' <=> "lose" \in faults
<1>1. ASSUME NEW t \in Threads,
             \/ \E r \in Row : Mutate(t, r)
             \/ LoseSweep(t) \/ TakeTicket(t) \/ ReadBasis(t) \/ WalkEstate(t)
             \/ Append(t) \/ Fsync(t) \/ Record(t)
      PROVE  \/ faults' = faults
             \/ \E k \in {"sweep", "write", "fsync"} : faults' = faults \cup {k}
  BY <1>1 DEF Mutate, LoseSweep, TakeTicket, ReadBasis, WalkEstate, Append, Fsync, Record, Fault,
              bounds
<1>2. CASE RebuildWalk \/ RebuildRefuse \/ RebuildPreserve \/ RebuildWrite \/ Retire
  BY <1>2 DEF RebuildWalk, RebuildRefuse, RebuildPreserve, RebuildWrite, Retire, Call, Fault,
              bounds
<1>3. CASE \/ CorruptLine \/ Start \/ \E w \in Work : Obscure(w) \/ Restore(w)
           \/ \E powerLoss \in BOOLEAN : Stop(powerLoss)
  BY <1>3 DEF CorruptLine, Start, Obscure, Restore, Stop, Fault, bounds
<1>4. CASE UNCHANGED vars
  BY <1>4 DEF vars, bounds
<1> QED
  BY <1>1, <1>2, <1>3, <1>4 DEF Next

\* A journal is gone only once it was lost.
LEMMA JournalsStand ==
  ASSUME Types, [Next]_vars, ~\E w \in Work : LoseJournal(w), NEW w \in Work,
         journal'[w] = "gone"
  PROVE  journal[w] = "gone"
<1>1. ASSUME NEW t \in Threads,
             \/ \E r \in Row : Mutate(t, r)
             \/ LoseSweep(t) \/ TakeTicket(t) \/ ReadBasis(t) \/ WalkEstate(t)
             \/ Append(t) \/ Fsync(t) \/ Record(t)
      PROVE  journal' = journal
  BY <1>1 DEF Mutate, LoseSweep, TakeTicket, ReadBasis, WalkEstate, Append, Fsync, Record, estate
<1>2. CASE RebuildWalk \/ RebuildRefuse \/ RebuildPreserve \/ RebuildWrite \/ Retire
  BY <1>2 DEF RebuildWalk, RebuildRefuse, RebuildPreserve, RebuildWrite, Retire, estate
<1>3. CASE \/ CorruptLine \/ Start \/ DeleteIndex
           \/ \E powerLoss \in BOOLEAN : Stop(powerLoss)
  BY <1>3 DEF CorruptLine, Start, DeleteIndex, Stop, estate
<1>4. CASE \E v \in Work : Obscure(v) \/ Restore(v)
  BY <1>4 DEF Obscure, Restore, Types, EstateTyped
<1>5. CASE UNCHANGED vars
  BY <1>5 DEF vars, estate
<1> QED
  BY <1>1, <1>2, <1>3, <1>4, <1>5 DEF Next

LEMMA LossesKnownStep == Types /\ LossesKnown /\ [Next]_vars => LossesKnown'
<1> SUFFICES ASSUME Types, LossesKnown, [Next]_vars PROVE LossesKnown'
  OBVIOUS
<1>1. CASE \E w \in Work : LoseJournal(w)
  BY <1>1 DEF LoseJournal, Fault, LossesKnown
<1>2. CASE DeleteIndex
  BY <1>2 DEF DeleteIndex, Fault, LossesKnown, estate
<1>3. CASE (~\E w \in Work : LoseJournal(w)) /\ ~DeleteIndex
  BY <1>3, FaultsStand, JournalsStand DEF LossesKnown
<1> QED
  BY <1>1, <1>2, <1>3

\* The steps that neither write a file nor publish one.
LEMMA FilesStand ==
  ASSUME NEW t \in Threads,
         \/ \E r \in Row : Mutate(t, r)
         \/ LoseSweep(t) \/ TakeTicket(t) \/ ReadBasis(t) \/ WalkEstate(t) \/ Record(t)
         \/ RebuildWalk \/ RebuildRefuse
         \/ \E w \in Work : Obscure(w) \/ Restore(w) \/ LoseJournal(w)
  PROVE  UNCHANGED <<dir, disk, published, reviewed>>
<1>1. CASE \/ \E r \in Row : Mutate(t, r)
           \/ LoseSweep(t) \/ TakeTicket(t) \/ ReadBasis(t) \/ WalkEstate(t) \/ Record(t)
  BY <1>1 DEF Mutate, LoseSweep, TakeTicket, ReadBasis, WalkEstate, Record, history
<1>2. CASE RebuildWalk \/ RebuildRefuse \/ \E w \in Work : Obscure(w) \/ Restore(w) \/ LoseJournal(w)
  BY <1>2 DEF RebuildWalk, RebuildRefuse, Obscure, Restore, LoseJournal, history
<1> QED
  BY <1>1, <1>2

LEMMA PublishedIsHeldStep ==
  Types /\ PublishedIsHeld /\ RebuildKeeps /\ [Next]_vars => PublishedIsHeld'
<1> SUFFICES ASSUME Types, PublishedIsHeld, RebuildKeeps, [Next]_vars PROVE PublishedIsHeld'
  OBVIOUS
<1>12. /\ dir \in FileType /\ disk \in FileType /\ task \in [Threads -> TaskType]
      /\ "admin" \in Threads
  BY Names DEF Types, FilesTyped, WellFormed, TasksTyped
<1>14. dir.rows \subseteq Row /\ disk.rows \subseteq Row
  BY <1>12 DEF FileType
<1>13. "delete" \notin faults' => "delete" \notin faults
  BY FaultsStand DEF DeleteIndex, LoseJournal, Fault
<1>1. ASSUME NEW t \in Threads, Append(t) PROVE PublishedIsHeld'
  <2>1. /\ UNCHANGED <<disk, published, reviewed>>
        /\ dir' = dir \/ dir' = [dir EXCEPT !.file = TRUE, !.rows = @ \cup task[t].walk]
    BY <1>1 DEF Append, history
  <2> QED
    BY <1>12, <1>13, <1>14, <2>1 DEF PublishedIsHeld, FileType
<1>2. ASSUME NEW t \in Threads, Fsync(t) PROVE PublishedIsHeld'
  <2>1. /\ UNCHANGED <<dir, reviewed>>
        /\ \/ disk' = dir /\ published' = published \cup dir.rows
           \/ UNCHANGED <<disk, published>>
    BY <1>2 DEF Fsync
  <2> QED
    BY <1>13, <1>14, <2>1 DEF PublishedIsHeld
<1>3. CASE RebuildPreserve
  <2> DEFINE kept == [dir EXCEPT !.preserved = @ \cup dir.bad]
  <2>1. /\ kept.rows = dir.rows /\ kept.bad = dir.bad
        /\ kept.preserved = dir.preserved \cup dir.bad
    BY <1>12 DEF FileType
  <2>2. /\ dir' = kept /\ disk' \in {kept, disk} /\ published' = published \cup disk'.rows
        /\ UNCHANGED reviewed
    BY <1>3 DEF RebuildPreserve
  <2> QED
    BY <1>13, <1>14, <2>1, <2>2 DEF PublishedIsHeld
<1>4. CASE RebuildWrite
  <2>1. /\ UNCHANGED <<disk, published, reviewed>>
        /\ \/ dir' = dir
           \/ dir' = [dir EXCEPT !.file = TRUE, !.rows = task["admin"].walk, !.bad = {}]
        /\ task["admin"].pc = "rebuild" /\ ~task["admin"].short /\ task["admin"].known
    BY <1>4 DEF RebuildWrite, At, history
  <2>2. dir.rows \cup dir.bad \subseteq task["admin"].walk \cup dir.preserved
    BY <2>1 DEF RebuildKeeps
  <2> QED
    BY <1>12, <1>13, <1>14, <2>1, <2>2 DEF PublishedIsHeld, FileType
<1>5. CASE Retire
  <2> DEFINE rest == [dir EXCEPT !.preserved = {}]
  <2>1. rest.rows = dir.rows /\ rest.bad = dir.bad /\ rest.preserved = {}
    BY <1>12 DEF FileType
  <2>2. /\ dir' = rest /\ disk' \in {rest, disk} /\ published' = published \cup disk'.rows
        /\ reviewed' = reviewed \cup dir.preserved
    BY <1>5 DEF Retire
  <2> QED
    BY <1>13, <1>14, <2>1, <2>2 DEF PublishedIsHeld
<1>6. CASE CorruptLine
  <2>1. PICK r \in dir.rows :
          /\ dir' = [dir EXCEPT !.rows = @ \ {r}, !.bad = @ \cup {r}]
          /\ disk' = [disk EXCEPT !.rows = @ \ {r},
                                  !.bad = IF r \in disk.rows THEN @ \cup {r} ELSE @]
          /\ UNCHANGED <<published, reviewed>>
    BY <1>6 DEF CorruptLine, history
  <2> QED
    BY <1>12, <1>13, <1>14, <2>1 DEF PublishedIsHeld, FileType
<1>7. CASE DeleteIndex
  BY <1>7 DEF DeleteIndex, Fault, PublishedIsHeld, history
<1>8. ASSUME NEW powerLoss \in BOOLEAN, Stop(powerLoss) PROVE PublishedIsHeld'
  <2>1. dir' \in {dir, disk} /\ UNCHANGED <<disk, published, reviewed>>
    BY <1>8 DEF Stop, history
  <2> QED
    BY <1>13, <1>14, <2>1 DEF PublishedIsHeld
<1>9. CASE Start
  <2>1. /\ disk' \in {dir, disk} /\ published' = published \cup disk'.rows
        /\ UNCHANGED <<dir, reviewed>>
    BY <1>9 DEF Start
  <2> QED
    BY <1>13, <1>14, <2>1 DEF PublishedIsHeld
<1>10. ASSUME NEW t \in Threads,
              \/ \E r \in Row : Mutate(t, r)
              \/ LoseSweep(t) \/ TakeTicket(t) \/ ReadBasis(t) \/ WalkEstate(t) \/ Record(t)
              \/ RebuildWalk \/ RebuildRefuse
              \/ \E w \in Work : Obscure(w) \/ Restore(w) \/ LoseJournal(w)
       PROVE  PublishedIsHeld'
  <2>1. UNCHANGED <<dir, disk, published, reviewed>>
    BY <1>10, FilesStand
  <2> QED
    BY <1>13, <1>14, <2>1 DEF PublishedIsHeld
<1>11. CASE UNCHANGED vars
  BY <1>11 DEF vars, bounds, history, PublishedIsHeld
<1> QED
  BY <1>1, <1>2, <1>3, <1>4, <1>5, <1>6, <1>7, <1>8, <1>9, <1>10, <1>11, <1>12 DEF Next

\* A thread's step is its own.
LEMMA OthersStand ==
  ASSUME Types, NEW t \in Threads, NEW u \in Threads, u # t,
         \/ \E r \in Row : Mutate(t, r)
         \/ LoseSweep(t) \/ TakeTicket(t) \/ ReadBasis(t) \/ WalkEstate(t)
         \/ Append(t) \/ Fsync(t) \/ Record(t)
         \/ t = "admin" /\ (\/ RebuildWalk \/ RebuildRefuse \/ RebuildPreserve
                            \/ RebuildWrite \/ Retire \/ Start)
  PROVE  task'[u] = task[u]
<1>1. task \in [Threads -> TaskType]
  BY DEF Types, TasksTyped
<1>2. CASE \/ \E r \in Row : Mutate(t, r)
           \/ LoseSweep(t) \/ TakeTicket(t) \/ ReadBasis(t) \/ WalkEstate(t)
           \/ Append(t) \/ Fsync(t) \/ Record(t)
  BY <1>1, <1>2 DEF Mutate, LoseSweep, TakeTicket, ReadBasis, WalkEstate, Append, Fsync, Record
<1>3. CASE t = "admin" /\ (\/ RebuildWalk \/ RebuildRefuse \/ RebuildPreserve
                           \/ RebuildWrite \/ Retire \/ Start)
  BY <1>1, <1>3 DEF RebuildWalk, RebuildRefuse, RebuildPreserve, RebuildWrite, Retire, Start
<1> QED
  BY <1>2, <1>3

\* Where a thread's own step leaves it.
LEMMA OwnPC ==
  ASSUME Types, NEW t \in Threads
  PROVE  /\ (\E r \in Row : Mutate(t, r)) => task'[t].pc = "due"
         /\ LoseSweep(t) \/ Record(t) => task'[t].pc = "idle"
         /\ TakeTicket(t) => task'[t].pc = "ticket"
         /\ ReadBasis(t) => task'[t].pc = "basis"
         /\ WalkEstate(t) => task'[t].pc = "walked"
         /\ Append(t) => task'[t].pc \in {"renamed", "publishing"}
         /\ Fsync(t) => task'[t].pc = "publishing"
         /\ RebuildRefuse => task'["admin"].pc = "publishing"
         /\ Retire \/ Start => task'["admin"].pc = "due"
         /\ RebuildWrite => task'["admin"].pc \in {"renamed", "publishing"}
<1>1. task \in [Threads -> TaskType] /\ "admin" \in Threads
  BY Names DEF Types, TasksTyped
<1>2. task[t] \in TaskType /\ task["admin"] \in TaskType
  BY <1>1
<1>3. (\E r \in Row : Mutate(t, r)) => task'[t].pc = "due"
  BY <1>1 DEF Mutate, Idle
<1>4. LoseSweep(t) \/ Record(t) => task'[t].pc = "idle"
  BY <1>1, IdleTask DEF LoseSweep, Record
<1>5. TakeTicket(t) => task'[t].pc = "ticket"
  BY <1>1, <1>2 DEF TakeTicket, TaskType
<1>6. ReadBasis(t) => task'[t].pc = "basis"
  BY <1>1, <1>2 DEF ReadBasis, TaskType
<1>7. WalkEstate(t) => task'[t].pc = "walked"
  BY <1>1, <1>2 DEF WalkEstate, TaskType
<1>8. Append(t) => task'[t].pc \in {"renamed", "publishing"}
  BY <1>1, <1>2 DEF Append, TaskType
<1>9. Fsync(t) => task'[t].pc = "publishing"
  BY <1>1, <1>2 DEF Fsync, TaskType
<1>10. RebuildRefuse => task'["admin"].pc = "publishing"
  BY <1>1, <1>2 DEF RebuildRefuse, TaskType
<1>11. Retire \/ Start => task'["admin"].pc = "due"
  BY <1>1, <1>2 DEF Retire, Start, Idle, TaskType
<1>12. RebuildWrite => task'["admin"].pc \in {"renamed", "publishing"}
  BY <1>1, <1>2 DEF RebuildWrite, TaskType
<1> QED
  BY <1>3, <1>4, <1>5, <1>6, <1>7, <1>8, <1>9, <1>10, <1>11, <1>12

LEMMA CopiesQualifyStep == Types /\ CopiesQualify /\ [Next]_vars => CopiesQualify'
<1> SUFFICES ASSUME Types, CopiesQualify, [Next]_vars PROVE CopiesQualify'
  OBVIOUS
<1>12. /\ dir \in FileType /\ disk \in FileType /\ task \in [Threads -> TaskType]
       /\ health \in HealthType /\ "admin" \in Threads
  BY Names DEF Types, FilesTyped, WellFormed, TasksTyped, HealthTyped
<1>1. ASSUME NEW t \in Threads, Append(t) PROVE CopiesQualify'
  <2>1. /\ UNCHANGED health /\ atlas = "free"
        /\ dir' = dir \/ dir' = [dir EXCEPT !.file = TRUE, !.rows = @ \cup task[t].walk]
    BY <1>1 DEF Append
  <2> QED
    BY <1>12, <2>1, Names DEF CopiesQualify, FileType, Synchronized
<1>2. ASSUME NEW t \in Threads, Record(t) PROVE CopiesQualify'
  <2>1. health'.projection = "synchronized" => dir.preserved = {}
    BY <1>2, RecordGives
  <2>2. dir' = dir
    BY <1>2 DEF Record
  <2> QED
    BY <2>1, <2>2 DEF CopiesQualify, Synchronized
<1>3. CASE RebuildPreserve \/ RebuildWrite
  <2>1. atlas' = atlas /\ task["admin"].pc = "rebuild"
    BY <1>3 DEF RebuildPreserve, RebuildWrite, At
  <2>2. atlas = "admin"
    BY <1>12, <2>1 DEF Types, TasksTyped, Holding
  <2> QED
    BY <2>1, <2>2 DEF CopiesQualify
<1>4. CASE Retire
  BY <1>4, <1>12 DEF Retire, CopiesQualify, FileType
<1>5. CASE CorruptLine \/ DeleteIndex
  <2>1. dir'.preserved = dir.preserved /\ UNCHANGED <<health, atlas>>
    BY <1>5, <1>12 DEF CorruptLine, DeleteIndex, FileType
  <2> QED
    BY <2>1 DEF CopiesQualify, Synchronized
<1>6. ASSUME NEW powerLoss \in BOOLEAN, Stop(powerLoss) PROVE CopiesQualify'
  BY <1>6 DEF Stop, CopiesQualify, Synchronized, Unreconciled
<1>7. ASSUME NEW t \in Threads,
             \/ \E r \in Row : Mutate(t, r)
             \/ LoseSweep(t) \/ TakeTicket(t) \/ ReadBasis(t) \/ WalkEstate(t) \/ Fsync(t)
      PROVE  CopiesQualify'
  BY <1>7 DEF Mutate, LoseSweep, TakeTicket, ReadBasis, WalkEstate, Fsync, CopiesQualify,
              Synchronized
<1>8. CASE RebuildWalk \/ RebuildRefuse \/ Start
  BY <1>8 DEF RebuildWalk, RebuildRefuse, Start, CopiesQualify, Synchronized
<1>9. CASE \E w \in Work : Obscure(w) \/ Restore(w) \/ LoseJournal(w)
  BY <1>9 DEF Obscure, Restore, LoseJournal, CopiesQualify, Synchronized
<1>10. CASE UNCHANGED vars
  BY <1>10 DEF vars, CopiesQualify, Synchronized
<1> QED
  BY <1>1, <1>2, <1>3, <1>4, <1>5, <1>6, <1>7, <1>8, <1>9, <1>10 DEF Next

LEMMA RebuildKeepsStep == Types /\ RebuildKeeps /\ [Next]_vars => RebuildKeeps'
<1> SUFFICES ASSUME Types, RebuildKeeps, [Next]_vars, task'["admin"].pc = "rebuild",
                    ~task'["admin"].short
             PROVE  /\ dir'.rows \subseteq task'["admin"].walk
                    /\ task'["admin"].known => dir'.bad \subseteq task'["admin"].walk \cup dir'.preserved
  BY DEF RebuildKeeps
<1>12. /\ dir \in FileType /\ disk \in FileType /\ task \in [Threads -> TaskType]
       /\ "admin" \in Threads /\ task["admin"] \in TaskType
  BY Names DEF Types, FilesTyped, WellFormed, TasksTyped
<1>1. ASSUME NEW t \in Threads,
             \/ \E r \in Row : Mutate(t, r)
             \/ LoseSweep(t) \/ TakeTicket(t) \/ ReadBasis(t) \/ WalkEstate(t)
             \/ Append(t) \/ Fsync(t) \/ Record(t)
      PROVE  dir' = dir /\ task'["admin"] = task["admin"]
  <2>1. t # "admin"
    BY <1>1, OwnPC
  <2>2. task'["admin"] = task["admin"]
    BY <1>1, <1>12, <2>1, OthersStand
  <2>3. ~Append(t)
    BY <2>2, <1>12, Names DEF Append, Types, TasksTyped, Holding
  <2>4. dir' = dir
    BY <1>1, <2>3
       DEF Mutate, LoseSweep, TakeTicket, ReadBasis, WalkEstate, Fsync, Record
  <2> QED
    BY <2>2, <2>4
<1>2. CASE RebuildWalk
  <2>1. /\ dir' = dir /\ task'["admin"].walk = Readable
        /\ task'["admin"].short = WalkShort(TRUE, dir.rows) /\ task'["admin"].known = (dir.bad = {})
    BY <1>2, <1>12 DEF RebuildWalk, Idle
  <2> QED
    BY <2>1 DEF WalkShort
<1>3. CASE RebuildRefuse \/ RebuildWrite \/ Retire \/ Start
  BY <1>3, <1>12, OwnPC
<1>4. CASE RebuildPreserve
  <2>1. /\ dir'.rows = dir.rows /\ dir'.bad = dir.bad
        /\ dir'.preserved = dir.preserved \cup dir.bad
        /\ task["admin"].pc = "rebuild" /\ ~task["admin"].short
        /\ task'["admin"].walk = task["admin"].walk
    BY <1>4, <1>12 DEF RebuildPreserve, At, FileType, TaskType
  <2> QED
    BY <2>1 DEF RebuildKeeps
<1>5. CASE CorruptLine
  <2>1. PICK r \in dir.rows : dir' = [dir EXCEPT !.rows = @ \ {r}, !.bad = @ \cup {r}]
    BY <1>5 DEF CorruptLine
  <2>2. /\ dir'.rows = dir.rows \ {r} /\ dir'.bad = dir.bad \cup {r}
        /\ dir'.preserved = dir.preserved /\ task' = task
    BY <1>5, <1>12, <2>1 DEF CorruptLine, FileType
  <2> QED
    BY <2>2 DEF RebuildKeeps
<1>6. CASE DeleteIndex
  <2>1. dir'.rows = {} /\ dir'.bad = {} /\ task' = task
    BY <1>6, <1>12 DEF DeleteIndex, FileType
  <2> QED
    BY <2>1
<1>7. ASSUME NEW powerLoss \in BOOLEAN, Stop(powerLoss) PROVE FALSE
  BY <1>7, <1>12, IdleTask DEF Stop
<1>8. CASE UNCHANGED vars \/ \E w \in Work : Obscure(w) \/ Restore(w) \/ LoseJournal(w)
  <2>1. dir' = dir /\ task' = task
    BY <1>8 DEF Obscure, Restore, LoseJournal, vars
  <2> QED
    BY <2>1 DEF RebuildKeeps
<1> QED
  BY <1>1, <1>2, <1>3, <1>4, <1>5, <1>6, <1>7, <1>8 DEF Next, RebuildKeeps

LEMMA KeptInit == Init => Kept
BY DEF Init, Kept, LossesKnown, PublishedIsHeld, CopiesQualify, RebuildKeeps, NoFile, Idle

LEMMA KeptShows == Types /\ Kept => NoLaundering
<1> SUFFICES ASSUME Types, Kept, Complete, NEW r \in published, journal[WorkOf[r]] = "gone"
             PROVE  r \in dir.rows \cup reviewed
  BY DEF NoLaundering
<1>1. dir.preserved = {}
  BY Names DEF Kept, CopiesQualify, Complete, Answers, Synchronized
<1>2. dir.bad = {}
  BY DEF Complete, Answers
<1>3. WorkOf[r] \in Work
  BY FindingsIndexAssumption DEF Kept, PublishedIsHeld
<1> QED
  BY <1>1, <1>2, <1>3 DEF Kept, LossesKnown, PublishedIsHeld

\* NoLaundering, for every set of rows and threads and every choice of faults: a
\* complete answer never forgets a published row whose journal was lost, unless
\* a person retired the bytes that held it.
THEOREM NothingLaundered == Spec => []NoLaundering
<1>1. Init => Types /\ Kept
  BY TypesInit, KeptInit
<1>2. Types /\ Kept /\ [Next]_vars => (Types /\ Kept)'
  BY TypesStep, LossesKnownStep, PublishedIsHeldStep, CopiesQualifyStep, RebuildKeepsStep DEF Kept
<1>3. Types /\ Kept => NoLaundering
  BY KeptShows
<1> QED
  BY <1>1, <1>2, <1>3, PTL DEF Spec

-----------------------------------------------------------------------------
(* A standing record is on disk. *)

\* What an attempt did is said only between its write and its record.
AttemptsFresh ==
  \A t \in Threads :
    task[t].pc # "publishing" => ~task[t].wrote /\ ~task[t].found /\ task[t].outcome = "none"

\* A rename nobody has confirmed is being confirmed, or the record says so.
NothingPending ==
  \A t \in Threads :
    /\ task[t].pc # "renamed"
    /\ ~(task[t].pc = "publishing" /\ task[t].outcome = "uncertain")

RecordConfirmed == Synchronized => ~health.unconfirmed

WriteConfirmed ==
  \A t \in Threads :
    task[t].pc = "publishing" /\ task[t].outcome = "ok" /\ task[t].wrote => dir.rows \subseteq disk.rows

DirectoryConfirmed ==
  daemon # "down" /\ ~health.unconfirmed /\ NothingPending => dir.rows \subseteq disk.rows

OnDisk == AttemptsFresh /\ RecordConfirmed /\ WriteConfirmed /\ DirectoryConfirmed

LEMMA RecordConfirmedStep == Types /\ RecordConfirmed /\ [Next]_vars => RecordConfirmed'
<1> SUFFICES ASSUME Types, RecordConfirmed, [Next]_vars PROVE RecordConfirmed'
  OBVIOUS
<1>1. ASSUME NEW t \in Threads, Record(t) PROVE RecordConfirmed'
  BY <1>1, RecordGives DEF RecordConfirmed, Synchronized
<1>2. CASE Retire
  <2>1. health \in HealthType
    BY DEF Types, HealthTyped
  <2>2. health' \in {Applied(health, "confirmed"), Applied(health, "uncertain")}
    BY <1>2 DEF Retire
  <2> QED
    BY <2>1, <2>2 DEF Applied, HealthType, RecordConfirmed, Synchronized
<1>3. ASSUME NEW powerLoss \in BOOLEAN, Stop(powerLoss) PROVE RecordConfirmed'
  BY <1>3 DEF Stop, Unreconciled, RecordConfirmed, Synchronized
<1>4. ASSUME NEW t \in Threads,
             \/ \E r \in Row : Mutate(t, r)
             \/ LoseSweep(t) \/ TakeTicket(t) \/ ReadBasis(t) \/ WalkEstate(t)
             \/ Append(t) \/ Fsync(t)
      PROVE  health' = health
  BY <1>4 DEF Mutate, LoseSweep, TakeTicket, ReadBasis, WalkEstate, Append, Fsync
<1>5. CASE \/ RebuildWalk \/ RebuildRefuse \/ RebuildPreserve \/ RebuildWrite
           \/ CorruptLine \/ DeleteIndex \/ Start
  BY <1>5 DEF RebuildWalk, RebuildRefuse, RebuildPreserve, RebuildWrite, CorruptLine, DeleteIndex,
              Start, RecordConfirmed, Synchronized
<1>6. CASE \E w \in Work : Obscure(w) \/ Restore(w) \/ LoseJournal(w)
  BY <1>6 DEF Obscure, Restore, LoseJournal, RecordConfirmed, Synchronized
<1>7. CASE UNCHANGED vars
  BY <1>7 DEF vars, RecordConfirmed, Synchronized
<1> QED
  BY <1>1, <1>2, <1>3, <1>4, <1>5, <1>6, <1>7 DEF Next, RecordConfirmed, Synchronized

\* The steps of a sweep before it appends.
LEMMA SweepSteps ==
  ASSUME Types, NEW t \in Threads,
         \/ \E r \in Row : Mutate(t, r)
         \/ LoseSweep(t) \/ TakeTicket(t) \/ ReadBasis(t) \/ WalkEstate(t)
  PROVE  /\ UNCHANGED <<dir, disk, health, atlas, daemon>>
         /\ task[t].pc \in {"idle", "due", "ticket", "basis"}
         /\ task'[t].pc \in {"idle", "due", "ticket", "basis", "walked"}
<1>1. task'[t].pc \in {"idle", "due", "ticket", "basis", "walked"}
  BY OwnPC
<1>2. /\ UNCHANGED <<dir, disk, health, atlas, daemon>>
      /\ task[t].pc \in {"idle", "due", "ticket", "basis"}
  BY DEF Mutate, LoseSweep, TakeTicket, ReadBasis, WalkEstate, At
<1> QED
  BY <1>1, <1>2

\* Nobody is between a write and its record while the mutex is free, and nobody
\* but its holder else.
LEMMA OneHolder ==
  ASSUME Types, NEW t \in Threads, task[t].pc \in Holding
  PROVE  atlas = t /\ \A u \in Threads : u # t => task[u].pc \notin Holding
BY DEF Types, TasksTyped

LEMMA AttemptsFreshStep == Types /\ AttemptsFresh /\ [Next]_vars => AttemptsFresh'
<1> SUFFICES ASSUME Types, AttemptsFresh, [Next]_vars, NEW u \in Threads,
                    task'[u].pc # "publishing"
             PROVE  ~task'[u].wrote /\ ~task'[u].found /\ task'[u].outcome = "none"
  BY DEF AttemptsFresh
<1>12. /\ task \in [Threads -> TaskType] /\ "admin" \in Threads /\ task[u] \in TaskType
       /\ task["admin"] \in TaskType
  BY Names DEF Types, TasksTyped
<1>13. ~Idle.wrote /\ ~Idle.found /\ Idle.outcome = "none"
  BY DEF Idle
<1>1. ASSUME NEW t \in Threads,
             \/ \E r \in Row : Mutate(t, r)
             \/ LoseSweep(t) \/ TakeTicket(t) \/ ReadBasis(t) \/ WalkEstate(t)
             \/ Append(t) \/ Fsync(t) \/ Record(t)
      PROVE  ~task'[u].wrote /\ ~task'[u].found /\ task'[u].outcome = "none"
  <2>1. CASE u # t
    BY <1>1, <2>1, OthersStand DEF AttemptsFresh
  <2>2. CASE u = t
    <3>1. CASE LoseSweep(t) \/ Record(t)
      BY <1>12, <1>13, <2>2, <3>1 DEF LoseSweep, Record
    <3>2. CASE \E r \in Row : Mutate(t, r)
      BY <1>12, <1>13, <2>2, <3>2 DEF Mutate, Idle
    <3>3. CASE TakeTicket(t)
      BY <1>12, <2>2, <3>3 DEF TakeTicket, At, AttemptsFresh, TaskType
    <3>4. CASE ReadBasis(t)
      BY <1>12, <2>2, <3>4 DEF ReadBasis, At, AttemptsFresh, TaskType
    <3>5. CASE WalkEstate(t)
      BY <1>12, <2>2, <3>5 DEF WalkEstate, At, AttemptsFresh, TaskType
    <3>6. CASE Append(t)
      <4>1. task[t].pc = "walked" /\ task' = [task EXCEPT ![t].pc = "renamed"]
        BY <1>12, <2>2, <3>6 DEF Append, At, TaskType
      <4> QED
        BY <1>12, <2>2, <4>1 DEF AttemptsFresh, TaskType
    <3>7. CASE Fsync(t)
      BY <2>2, <3>7, OwnPC
    <3> QED
      BY <1>1, <3>1, <3>2, <3>3, <3>4, <3>5, <3>6, <3>7
  <2> QED
    BY <2>1, <2>2
<1>2. CASE RebuildWalk \/ RebuildRefuse \/ RebuildPreserve \/ RebuildWrite \/ Retire \/ Start
  <2>1. CASE u # "admin"
    BY <1>2, <1>12, <2>1, OthersStand DEF AttemptsFresh
  <2>2. CASE u = "admin"
    <3>1. CASE RebuildWalk
      BY <1>12, <2>2, <3>1 DEF RebuildWalk, Idle
    <3>2. CASE RebuildRefuse
      BY <1>12, <2>2, <3>2, OwnPC
    <3>3. CASE RebuildPreserve
      <4>1. /\ task["admin"].pc = "rebuild"
            /\ task' = [task EXCEPT !["admin"].known = TRUE]
        BY <1>12, <2>2, <3>3 DEF RebuildPreserve, At, TaskType
      <4> QED
        BY <1>12, <2>2, <4>1 DEF AttemptsFresh, TaskType
    <3>4. CASE RebuildWrite
      <4>1. /\ task["admin"].pc = "rebuild"
            /\ task' = [task EXCEPT !["admin"].pc = "renamed"]
        BY <1>12, <2>2, <3>4 DEF RebuildWrite, At, TaskType
      <4> QED
        BY <1>12, <2>2, <4>1 DEF AttemptsFresh, TaskType
    <3>5. CASE Retire
      <4>1. task["admin"] = Idle /\ task' = [task EXCEPT !["admin"].pc = "due"]
        BY <3>5, CallsAdmin DEF Retire, Call
      <4> QED
        BY <1>12, <1>13, <2>2, <4>1 DEF TaskType
    <3>6. CASE Start
      BY <1>12, <1>13, <2>2, <3>6 DEF Start, Idle
    <3> QED
      BY <1>2, <3>1, <3>2, <3>3, <3>4, <3>5, <3>6
  <2> QED
    BY <2>1, <2>2
<1>3. ASSUME NEW powerLoss \in BOOLEAN, Stop(powerLoss)
      PROVE  ~task'[u].wrote /\ ~task'[u].found /\ task'[u].outcome = "none"
  BY <1>3, <1>13 DEF Stop
<1>4. CASE \/ CorruptLine \/ DeleteIndex \/ UNCHANGED vars
           \/ \E w \in Work : Obscure(w) \/ Restore(w) \/ LoseJournal(w)
  <2>1. task' = task
    BY <1>4 DEF CorruptLine, DeleteIndex, vars, Obscure, Restore, LoseJournal
  <2> QED
    BY <2>1 DEF AttemptsFresh
<1> QED
  BY <1>1, <1>2, <1>3, <1>4 DEF Next

LEMMA WriteConfirmedStep ==
  Types /\ AttemptsFresh /\ WriteConfirmed /\ [Next]_vars => WriteConfirmed'
<1> SUFFICES ASSUME Types, AttemptsFresh, WriteConfirmed, [Next]_vars, NEW u \in Threads,
                    task'[u].pc = "publishing", task'[u].outcome = "ok", task'[u].wrote
             PROVE  dir'.rows \subseteq disk'.rows
  BY DEF WriteConfirmed
<1>12. /\ dir \in FileType /\ disk \in FileType /\ task \in [Threads -> TaskType]
       /\ "admin" \in Threads /\ task["admin"] \in TaskType /\ task[u] \in TaskType
  BY Names DEF Types, FilesTyped, WellFormed, TasksTyped
<1>1. ASSUME NEW t \in Threads,
             \/ \E r \in Row : Mutate(t, r)
             \/ LoseSweep(t) \/ TakeTicket(t) \/ ReadBasis(t) \/ WalkEstate(t)
      PROVE  dir'.rows \subseteq disk'.rows
  <2>1. u # t
    BY <1>1, SweepSteps
  <2>2. task'[u] = task[u] /\ UNCHANGED <<dir, disk>>
    BY <1>1, <2>1, OthersStand, SweepSteps
  <2> QED
    BY <2>2 DEF WriteConfirmed
<1>2. ASSUME NEW t \in Threads, Append(t) PROVE dir'.rows \subseteq disk'.rows
  <2>1. CASE u = t
    <3>1. task[t].pc = "walked" /\ atlas = "free" /\ task[t].pc \notin Holding
      BY <1>2 DEF Append, At, Holding
    <3>2. /\ dir' = dir /\ disk' = disk
          /\ task' = [task EXCEPT ![t].pc = "publishing", ![t].outcome = "ok",
                                  ![t].found = dir.file]
      BY <1>2, <1>12, <2>1 DEF Append, TaskType
    <3>3. task'[t].wrote = task[t].wrote
      BY <1>12, <2>1, <3>2 DEF TaskType
    <3> QED
      BY <2>1, <3>1, <3>3 DEF AttemptsFresh
  <2>2. CASE u # t
    <3>1. task'[u] = task[u] /\ atlas = "free"
      BY <1>2, <2>2, OthersStand DEF Append
    <3> QED
      BY <3>1, OneHolder, Names DEF Holding
  <2> QED
    BY <2>1, <2>2
<1>3. ASSUME NEW t \in Threads, Fsync(t) PROVE dir'.rows \subseteq disk'.rows
  <2>1. CASE u = t
    <3>1. task'[t].outcome = "ok"
      BY <2>1
    <3>2. dir' = dir /\ disk' = dir
      BY <1>3, <1>12, <3>1 DEF Fsync, TaskType
    <3> QED
      BY <3>2
  <2>2. CASE u # t
    <3>1. task'[u] = task[u] /\ task[t].pc \in Holding
      BY <1>3, <2>2, OthersStand DEF Fsync, At, Holding
    <3> QED
      BY <2>2, <3>1, OneHolder DEF Holding
  <2> QED
    BY <2>1, <2>2
<1>4. ASSUME NEW t \in Threads, Record(t) PROVE dir'.rows \subseteq disk'.rows
  <2>1. u # t
    BY <1>4, OwnPC
  <2>2. task'[u] = task[u] /\ UNCHANGED <<dir, disk>>
    BY <1>4, <2>1, OthersStand DEF Record
  <2> QED
    BY <2>2 DEF WriteConfirmed
<1>5. CASE RebuildWalk \/ RebuildRefuse \/ RebuildPreserve \/ RebuildWrite
  <2>1. CASE u = "admin"
    <3>1. task'["admin"].pc = "publishing" /\ task'["admin"].outcome = "ok"
      BY <2>1
    <3>2. CASE RebuildWalk
      BY <1>12, <3>1, <3>2 DEF RebuildWalk, Idle
    <3>3. CASE RebuildRefuse
      BY <1>12, <3>1, <3>3 DEF RebuildRefuse, TaskType
    <3>4. CASE RebuildPreserve
      BY <1>12, <3>1, <3>4 DEF RebuildPreserve, At, TaskType
    <3>5. CASE RebuildWrite
      BY <1>12, <3>1, <3>5 DEF RebuildWrite, TaskType
    <3> QED
      BY <1>5, <3>2, <3>3, <3>4, <3>5
  <2>2. CASE u # "admin"
    <3>1. task'[u] = task[u]
      BY <1>5, <1>12, <2>2, OthersStand
    <3>2. atlas \in {"admin", "free"}
      BY <1>5, <1>12, OneHolder
         DEF RebuildWalk, RebuildRefuse, RebuildPreserve, RebuildWrite, At, Call, Holding
    <3> QED
      BY <2>2, <3>1, <3>2, OneHolder, Names DEF Holding
  <2> QED
    BY <2>1, <2>2
<1>6. CASE Retire
  <2>1. u # "admin" /\ atlas = "free"
    BY <1>6, OwnPC DEF Retire, Call
  <2>2. task'[u] = task[u]
    BY <1>6, <1>12, <2>1, OthersStand
  <2> QED
    BY <2>1, <2>2, OneHolder, Names DEF Holding
<1>7. CASE CorruptLine
  <2>1. PICK r \in dir.rows :
          /\ dir' = [dir EXCEPT !.rows = @ \ {r}, !.bad = @ \cup {r}]
          /\ disk' = [disk EXCEPT !.rows = @ \ {r},
                                  !.bad = IF r \in disk.rows THEN @ \cup {r} ELSE @]
          /\ task' = task
    BY <1>7 DEF CorruptLine
  <2> QED
    BY <1>12, <2>1 DEF WriteConfirmed, FileType
<1>8. CASE DeleteIndex
  BY <1>8, <1>12 DEF DeleteIndex, FileType
<1>9. ASSUME NEW powerLoss \in BOOLEAN, Stop(powerLoss) PROVE FALSE
  BY <1>9, IdleTask DEF Stop
<1>10. CASE Start
  <2>1. u # "admin" /\ daemon = "down"
    BY <1>10, OwnPC DEF Start
  <2>2. task'[u] = task[u] /\ task[u].pc = "idle"
    BY <1>10, <1>12, <2>1, OthersStand DEF Types, TasksTyped
  <2> QED
    BY <2>2
<1>11. CASE UNCHANGED vars \/ \E w \in Work : Obscure(w) \/ Restore(w) \/ LoseJournal(w)
  <2>1. UNCHANGED <<dir, disk, task>>
    BY <1>11 DEF vars, Obscure, Restore, LoseJournal
  <2> QED
    BY <2>1 DEF WriteConfirmed
<1> QED
  BY <1>1, <1>2, <1>3, <1>4, <1>5, <1>6, <1>7, <1>8, <1>9, <1>10, <1>11 DEF Next

LEMMA DirectoryConfirmedStep ==
  ASSUME Catalog, Types, WriteConfirmed, DirectoryConfirmed, [Next]_vars
  PROVE  DirectoryConfirmed'
<1> SUFFICES ASSUME daemon' # "down", ~health'.unconfirmed, NothingPending'
             PROVE  dir'.rows \subseteq disk'.rows
  BY DEF DirectoryConfirmed
<1>12. /\ dir \in FileType /\ disk \in FileType /\ task \in [Threads -> TaskType]
       /\ "admin" \in Threads /\ task["admin"] \in TaskType /\ health \in HealthType
  BY Names DEF Types, FilesTyped, WellFormed, TasksTyped, HealthTyped
<1>1. ASSUME NEW t \in Threads, daemon # "down", ~health.unconfirmed,
             \A u \in Threads : u # t => task'[u] = task[u],
             /\ task[t].pc # "renamed"
             /\ ~(task[t].pc = "publishing" /\ task[t].outcome = "uncertain")
      PROVE  dir.rows \subseteq disk.rows
  BY <1>1 DEF NothingPending, DirectoryConfirmed
<1>2. ASSUME NEW t \in Threads,
             \/ \E r \in Row : Mutate(t, r)
             \/ LoseSweep(t) \/ TakeTicket(t) \/ ReadBasis(t) \/ WalkEstate(t)
      PROVE  dir'.rows \subseteq disk'.rows
  <2>1. \A u \in Threads : u # t => task'[u] = task[u]
    BY <1>2, OthersStand
  <2> QED
    BY <1>1, <1>2, <2>1, SweepSteps
<1>3. ASSUME NEW t \in Threads, Append(t) PROVE dir'.rows \subseteq disk'.rows
  <2>1. /\ UNCHANGED <<disk, health, daemon>> /\ task[t].pc = "walked"
        /\ \A u \in Threads : u # t => task'[u] = task[u]
    BY <1>3, OthersStand DEF Append, At
  <2>2. task'[t].pc # "renamed"
    BY DEF NothingPending
  <2>3. dir' = dir
    BY <1>3, <1>12, <2>2 DEF Append, TaskType
  <2> QED
    BY <1>1, <2>1, <2>3
<1>4. ASSUME NEW t \in Threads, Fsync(t) PROVE dir'.rows \subseteq disk'.rows
  <2>1. ~(task'[t].pc = "publishing" /\ task'[t].outcome = "uncertain")
    BY DEF NothingPending
  <2>2. dir' = dir /\ disk' = dir
    BY <1>4, <1>12, <2>1 DEF Fsync, TaskType
  <2> QED
    BY <2>2
<1>5. ASSUME NEW t \in Threads, Record(t) PROVE dir'.rows \subseteq disk'.rows
  <2>1. /\ UNCHANGED <<dir, disk>> /\ daemon # "down" /\ task[t].pc = "publishing"
        /\ \A u \in Threads : u # t => task'[u] = task[u]
    BY <1>5, OthersStand DEF Record, At
  <2>2. CASE task[t].outcome = "ok" /\ task[t].wrote
    BY <2>1, <2>2 DEF WriteConfirmed
  <2>3. CASE ~(task[t].outcome = "ok" /\ task[t].wrote)
    <3>1. ~health.unconfirmed /\ task[t].outcome # "uncertain"
      BY <1>5, <2>3, RecordGives
    <3> QED
      BY <1>1, <2>1, <3>1
  <2> QED
    BY <2>2, <2>3
<1>6. CASE RebuildWalk \/ RebuildRefuse \/ RebuildPreserve \/ RebuildWrite
  <2>1. /\ health' = health /\ daemon' = daemon /\ task["admin"].pc \in {"idle", "rebuild"}
        /\ \A u \in Threads : u # "admin" => task'[u] = task[u]
    BY <1>6, <1>12, OthersStand
       DEF RebuildWalk, RebuildRefuse, RebuildPreserve, RebuildWrite, At, Call
  <2>2. dir.rows \subseteq disk.rows
    BY <1>1, <1>12, <2>1
  <2>3. task'["admin"].pc # "renamed"
    BY <1>12 DEF NothingPending
  <2>4. dir'.rows = dir.rows /\ disk' \in {dir', disk}
    <3>1. CASE RebuildWalk \/ RebuildRefuse
      BY <3>1 DEF RebuildWalk, RebuildRefuse
    <3>2. CASE RebuildPreserve
      BY <1>12, <3>2 DEF RebuildPreserve, FileType
    <3>3. CASE RebuildWrite
      BY <1>12, <2>3, <3>3 DEF RebuildWrite, TaskType
    <3> QED
      BY <1>6, <3>1, <3>2, <3>3
  <2> QED
    BY <2>2, <2>4
<1>7. CASE Retire
  <2>1. CASE disk' = [dir EXCEPT !.preserved = {}]
    BY <1>7, <1>12, <2>1 DEF Retire, FileType
  <2>2. CASE disk' # [dir EXCEPT !.preserved = {}]
    <3>1. health' = Applied(health, "uncertain")
      BY <1>7, <2>2 DEF Retire
    <3>2. health'.unconfirmed
      BY <1>12, <3>1 DEF Applied, HealthType
    <3> QED
      BY <3>2
  <2> QED
    BY <2>1, <2>2
<1>8. CASE CorruptLine
  <2>1. PICK r \in dir.rows :
          /\ dir' = [dir EXCEPT !.rows = @ \ {r}, !.bad = @ \cup {r}]
          /\ disk' = [disk EXCEPT !.rows = @ \ {r},
                                  !.bad = IF r \in disk.rows THEN @ \cup {r} ELSE @]
          /\ task' = task /\ health' = health /\ daemon' = daemon
    BY <1>8 DEF CorruptLine
  <2> QED
    BY <1>1, <1>12, <2>1 DEF NothingPending, FileType
<1>9. CASE DeleteIndex
  BY <1>9, <1>12 DEF DeleteIndex, FileType
<1>10. CASE Start \/ \E powerLoss \in BOOLEAN : Stop(powerLoss)
  BY <1>10 DEF Start, Stop
<1>11. CASE UNCHANGED vars \/ \E w \in Work : Obscure(w) \/ Restore(w) \/ LoseJournal(w)
  <2>1. UNCHANGED <<dir, disk, task, health, daemon>>
    BY <1>11 DEF vars, Obscure, Restore, LoseJournal
  <2> QED
    BY <2>1 DEF DirectoryConfirmed, NothingPending
<1> QED
  BY <1>2, <1>3, <1>4, <1>5, <1>6, <1>7, <1>8, <1>9, <1>10, <1>11 DEF Next

LEMMA OnDiskInit == Init => OnDisk
BY DEF Init, OnDisk, AttemptsFresh, RecordConfirmed, WriteConfirmed, DirectoryConfirmed, NothingPending,
       Synchronized, Unreconciled, Idle

LEMMA OnDiskStep ==
  ASSUME Catalog, Types, OnDisk, [Next]_vars
  PROVE  OnDisk'
BY AttemptsFreshStep, RecordConfirmedStep, WriteConfirmedStep, DirectoryConfirmedStep DEF OnDisk

LEMMA OnDiskShows == Types /\ OnDisk => (Complete => dir.rows \subseteq disk.rows)
<1> SUFFICES ASSUME Types, OnDisk, Complete PROVE dir.rows \subseteq disk.rows
  OBVIOUS
<1>1. daemon # "down" /\ atlas = "free" /\ ~health.unconfirmed
  BY DEF Complete, Answers, OnDisk, RecordConfirmed, Synchronized
<1>2. NothingPending
  BY <1>1, OneHolder, Names DEF NothingPending, Holding
<1> QED
  BY <1>1, <1>2 DEF OnDisk, DirectoryConfirmed

-----------------------------------------------------------------------------
(* Whose sweep sees what, and whose record stands. *)

\* The rows a complete answer owes its reader.
Owed == {q \in journaled \ unswept : journal[WorkOf[q]] # "gone"}

Later(u, k) == task[u].pc = "due" \/ task[u].ticket > k

\* A sweep that sees q is to be recorded over whatever has the ticket k.
Claimed(q, k) == \E u \in Threads : q \in task[u].rows /\ Later(u, k)

RowsJournaled == \A t \in Threads : task[t].rows \subseteq journaled

Walked(t) ==
  task[t].pc \in {"walked", "renamed", "publishing", "rebuild"} /\ ~task[t].short

\* A walk that missed a row was taken before the row's own sweep began.
WalksSee ==
  \A t \in Threads : Walked(t) =>
    \A q \in Owed :
      /\ \A k \in Nat : k = task[t].ticket =>
           q \in task[t].walk \/ k < health.observation \/ Claimed(q, k)
      /\ q \in task[t].rows => q \in task[t].walk

\* A walk that was appended is in the file.
WalksLand ==
  \A t \in Threads :
    /\ (task[t].pc = "renamed" \/ (task[t].pc = "publishing" /\ task[t].outcome # "failed"))
         /\ "delete" \notin faults
       => task[t].walk \subseteq dir.rows \cup dir.bad
    /\ task[t].pc = "publishing" /\ task[t].outcome # "failed"
         /\ ~task[t].wrote /\ ~task[t].found
       => task[t].walk = {}

RebuildIsNewest ==
  task["admin"].pc = "rebuild" => health.observation < task["admin"].ticket

\* A row a standing record owes is in the file or in flight; and a record of an
\* absent file owes only what is swept after it.
StandingIsTrue ==
  Synchronized =>
    \A q \in Owed :
      /\ "delete" \notin faults => q \in dir.rows \cup dir.bad \/ InFlight(q)
      /\ \A k \in Nat : k = health.observation /\ health.backing # "present" => Claimed(q, k)

Sweeping == RowsJournaled /\ WalksSee /\ WalksLand /\ RebuildIsNewest /\ StandingIsTrue

LEMMA TaskFields ==
  ASSUME Types, NEW u \in Threads
  PROVE  /\ task[u].ticket \in Nat /\ task[u].rows \subseteq Row /\ task[u].ticket <= tickets
         /\ task[u] \in TaskType /\ tickets \in Nat /\ health.observation \in Nat
         /\ health.observation <= tickets
BY DEF Types, TasksTyped, TaskType, HealthTyped, HealthType

\* A row becomes owed when it is journaled.
LEMMA OwedStands ==
  ASSUME Types, [Next]_vars, NEW q \in Owed', ~\E v \in Threads : Mutate(v, q)
  PROVE  q \in Owed
<1>1. ASSUME NEW t \in Threads, NEW r \in Row, Mutate(t, r) PROVE q \in Owed
  BY <1>1 DEF Mutate, Owed, history
<1>2. ASSUME NEW t \in Threads,
             \/ LoseSweep(t) \/ TakeTicket(t) \/ ReadBasis(t) \/ WalkEstate(t)
             \/ Append(t) \/ Fsync(t) \/ Record(t)
      PROVE  q \in Owed
  BY <1>2 DEF LoseSweep, TakeTicket, ReadBasis, WalkEstate, Append, Fsync, Record, Owed, estate,
              history
<1>3. CASE \/ RebuildWalk \/ RebuildRefuse \/ RebuildPreserve \/ RebuildWrite \/ Retire
           \/ CorruptLine \/ DeleteIndex \/ Start \/ UNCHANGED vars
           \/ \E powerLoss \in BOOLEAN : Stop(powerLoss)
  BY <1>3 DEF RebuildWalk, RebuildRefuse, RebuildPreserve, RebuildWrite, Retire, CorruptLine,
              DeleteIndex, Start, Stop, vars, Owed, estate, history
<1>4. CASE \E w \in Work : Obscure(w) \/ Restore(w) \/ LoseJournal(w)
  <2>1. q \in journaled \ unswept /\ journal'[WorkOf[q]] # "gone"
    BY <1>4 DEF Obscure, Restore, LoseJournal, Owed, history
  <2>2. WorkOf[q] \in Work
    BY <2>1, FindingsIndexAssumption DEF Types, EstateTyped
  <2>3. journal[WorkOf[q]] # "gone"
    BY <1>4, <2>1, <2>2 DEF Obscure, Restore, LoseJournal, Types, EstateTyped
  <2> QED
    BY <2>1, <2>3 DEF Owed
<1> QED
  BY <1>1, <1>2, <1>3, <1>4 DEF Next

\* A sweep keeps its rows, and its place after k, until it is lost or recorded.
LEMMA ClaimMoves ==
  ASSUME Types, [Next]_vars, NEW u \in Threads, NEW q \in task[u].rows,
         ~LoseSweep(u), ~Record(u), ~\E powerLoss \in BOOLEAN : Stop(powerLoss)
  PROVE  /\ q \in task'[u].rows
         /\ \A k \in Nat : k <= tickets /\ Later(u, k) => Later(u, k)'
<1>1. /\ task \in [Threads -> TaskType] /\ task[u] \in TaskType /\ tickets \in Nat
      /\ "admin" \in Threads /\ task[u] # Idle
  BY Names, IdleTask DEF Types, TasksTyped, HealthTyped
<1>2. CASE task'[u].rows = task[u].rows /\ task'[u].ticket = task[u].ticket /\ task[u].pc # "due"
  BY <1>2 DEF Later
<1>3. CASE task'[u] = task[u]
  BY <1>3 DEF Later
<1>4. CASE TakeTicket(u)
  <2>1. task'[u].rows = task[u].rows /\ task'[u].ticket = tickets + 1
    BY <1>1, <1>4 DEF TakeTicket, TaskType
  <2>2. \A k \in Nat : k <= tickets => tickets + 1 > k
    BY <1>1
  <2> QED
    BY <2>1, <2>2 DEF Later
<1>5. ASSUME NEW t \in Threads,
             \/ \E r \in Row : Mutate(t, r)
             \/ LoseSweep(t) \/ TakeTicket(t) \/ ReadBasis(t) \/ WalkEstate(t)
             \/ Append(t) \/ Fsync(t) \/ Record(t)
      PROVE  \/ task'[u] = task[u] \/ TakeTicket(u)
             \/ task'[u].rows = task[u].rows /\ task'[u].ticket = task[u].ticket /\ task[u].pc # "due"
  <2>1. CASE t # u
    BY <1>5, <2>1, OthersStand
  <2>2. CASE t = u
    <3>1. ~\E r \in Row : Mutate(t, r)
      BY <1>1, <2>2 DEF Mutate, At, Types, TasksTyped
    <3>2. CASE ReadBasis(t)
      BY <1>1, <2>2, <3>2 DEF ReadBasis, At, TaskType
    <3>3. CASE WalkEstate(t)
      BY <1>1, <2>2, <3>3 DEF WalkEstate, At, TaskType
    <3>4. CASE Append(t)
      BY <1>1, <2>2, <3>4 DEF Append, At, TaskType
    <3>5. CASE Fsync(t)
      BY <1>1, <2>2, <3>5 DEF Fsync, At, TaskType
    <3> QED
      BY <1>5, <2>2, <3>1, <3>2, <3>3, <3>4, <3>5
  <2> QED
    BY <2>1, <2>2
<1>6. CASE \/ RebuildWalk \/ RebuildRefuse \/ RebuildPreserve \/ RebuildWrite \/ Retire \/ Start
  <2>1. CASE u # "admin"
    BY <1>1, <1>3, <1>6, <2>1, OthersStand
  <2>2. CASE u = "admin"
    <3>1. ~RebuildWalk /\ ~Retire
      BY <1>1, <2>2 DEF RebuildWalk, Retire, Call, At, Types, TasksTyped
    <3>2. ~Start
      BY <1>1, <2>2 DEF Start, Types, TasksTyped
    <3>3. task'[u].rows = task[u].rows /\ task'[u].ticket = task[u].ticket /\ task[u].pc # "due"
      <4>1. CASE RebuildRefuse
        BY <1>1, <2>2, <4>1 DEF RebuildRefuse, At, TaskType
      <4>2. CASE RebuildPreserve
        BY <1>1, <2>2, <4>2 DEF RebuildPreserve, At, TaskType
      <4>3. CASE RebuildWrite
        BY <1>1, <2>2, <4>3 DEF RebuildWrite, At, TaskType
      <4> QED
        BY <1>6, <3>1, <3>2, <4>1, <4>2, <4>3
    <3> QED
      BY <1>2, <3>3
  <2> QED
    BY <2>1, <2>2
<1>7. CASE \/ CorruptLine \/ DeleteIndex \/ UNCHANGED vars
           \/ \E w \in Work : Obscure(w) \/ Restore(w) \/ LoseJournal(w)
  <2>1. task' = task
    BY <1>7 DEF CorruptLine, DeleteIndex, vars, Obscure, Restore, LoseJournal
  <2> QED
    BY <1>3, <2>1
<1> QED
  BY <1>2, <1>3, <1>4, <1>5, <1>6, <1>7 DEF Next

\* A lost sweep's rows are owed no more.
LEMMA LostIsNotOwed ==
  ASSUME NEW u \in Threads, LoseSweep(u), NEW q \in task[u].rows
  PROVE  q \notin Owed'
BY DEF LoseSweep, Owed

\* The record's number never falls while the daemon runs.
LEMMA ObservationGrows ==
  ASSUME Types, [Next]_vars, ~\E powerLoss \in BOOLEAN : Stop(powerLoss)
  PROVE  /\ health'.observation >= health.observation
         /\ (~\E t \in Threads : Record(t)) =>
              /\ health'.observation = health.observation /\ health'.backing = health.backing
              /\ health'.projection = "synchronized" => Synchronized
<1>1. health \in HealthType /\ health.observation \in Nat
  BY DEF Types, HealthTyped, HealthType
<1>2. ASSUME NEW t \in Threads, Record(t) PROVE health'.observation >= health.observation
  BY <1>2, RecordGives
<1>3. CASE Retire
  <2>1. health' \in {Applied(health, "confirmed"), Applied(health, "uncertain")}
    BY <1>3 DEF Retire
  <2>2. /\ health'.observation = health.observation /\ health'.backing = health.backing
        /\ health'.projection = "synchronized" => health.projection = "synchronized"
    BY <1>1, <2>1 DEF Applied, HealthType
  <2> QED
    BY <1>1, <2>2 DEF Synchronized
<1>4. ASSUME NEW t \in Threads,
             \/ \E r \in Row : Mutate(t, r)
             \/ LoseSweep(t) \/ TakeTicket(t) \/ ReadBasis(t) \/ WalkEstate(t)
             \/ Append(t) \/ Fsync(t)
      PROVE  health' = health
  BY <1>4 DEF Mutate, LoseSweep, TakeTicket, ReadBasis, WalkEstate, Append, Fsync
<1>5. CASE \/ RebuildWalk \/ RebuildRefuse \/ RebuildPreserve \/ RebuildWrite
           \/ CorruptLine \/ DeleteIndex \/ Start \/ UNCHANGED vars
           \/ \E w \in Work : Obscure(w) \/ Restore(w) \/ LoseJournal(w)
  <2>1. health' = health
    BY <1>5 DEF RebuildWalk, RebuildRefuse, RebuildPreserve, RebuildWrite, CorruptLine, DeleteIndex,
                Start, vars, Obscure, Restore, LoseJournal
  <2> QED
    BY <1>1, <2>1 DEF Synchronized
<1> QED
  BY <1>1, <1>2, <1>3, <1>4, <1>5 DEF Next, Synchronized

\* A claim stands until it is recorded, and the record then stands above k.
LEMMA ClaimStands ==
  ASSUME Types, [Next]_vars, ~\E powerLoss \in BOOLEAN : Stop(powerLoss),
         NEW q \in Owed', NEW k \in Nat, k <= tickets, Claimed(q, k)
  PROVE  \/ Claimed(q, k)'
         \/ k < health'.observation /\ \E u \in Threads : Record(u) /\ q \in task[u].rows /\ Later(u, k)
<1>1. PICK u \in Threads : q \in task[u].rows /\ Later(u, k)
  BY DEF Claimed
<1>2. CASE Record(u)
  <2>1. task[u].pc = "publishing" /\ task[u].ticket > k
    BY <1>1, <1>2 DEF Record, At, Later
  <2>2. health'.observation >= task[u].ticket /\ task[u].ticket \in Nat
    BY <1>2, RecordGives, TaskFields
  <2>3. health'.observation \in Nat
    <3> SUFFICES ASSUME NEW h, h = health' PROVE h.observation \in Nat
      OBVIOUS
    <3>1. h \in HealthType
      BY <1>2, RecordGives
    <3> QED
      BY <3>1 DEF HealthType
  <2> QED
    BY <1>1, <1>2, <2>1, <2>2, <2>3
<1>3. CASE ~Record(u)
  <2>1. ~LoseSweep(u)
    BY <1>1, LostIsNotOwed
  <2>2. q \in task'[u].rows /\ Later(u, k)'
    BY <1>1, <1>3, <2>1, ClaimMoves
  <2> QED
    BY <2>2 DEF Claimed
<1> QED
  BY <1>2, <1>3

LEMMA NewRowIsClaimed ==
  ASSUME Types, NEW v \in Threads, NEW q, Mutate(v, q), NEW k \in Nat
  PROVE  Claimed(q, k)'
<1>1. task \in [Threads -> TaskType]
  BY DEF Types, TasksTyped
<1>2. q \in task'[v].rows /\ task'[v].pc = "due"
  BY <1>1 DEF Mutate, Idle
<1> QED
  BY <1>2 DEF Claimed, Later

\* A walk over an estate that can all be read sees every owed row.
LEMMA WalkSeesAll ==
  ASSUME Types, ~SomeUnreadable
  PROVE  Owed \subseteq Readable
<1> SUFFICES ASSUME NEW q \in Owed PROVE q \in Readable
  OBVIOUS
<1>1. WorkOf[q] \in Work
  BY FindingsIndexAssumption DEF Owed, Types, EstateTyped
<1> QED
  BY <1>1 DEF Owed, Readable, SomeUnreadable, Types, EstateTyped

LEMMA WalkMoves ==
  ASSUME Types, [Next]_vars, NEW t \in Threads, Walked(t)'
  PROVE  \/ /\ Walked(t) /\ task'[t].walk = task[t].walk
            /\ task'[t].ticket = task[t].ticket /\ task'[t].rows = task[t].rows
         \/ Owed' \subseteq task'[t].walk
<1>1. /\ task \in [Threads -> TaskType] /\ task[t] \in TaskType /\ "admin" \in Threads
  BY Names DEF Types, TasksTyped
<1>2. CASE task'[t] = task[t]
  BY <1>2 DEF Walked
<1>3. ASSUME NEW v \in Threads,
             \/ \E r \in Row : Mutate(v, r)
             \/ LoseSweep(v) \/ TakeTicket(v) \/ ReadBasis(v) \/ WalkEstate(v)
             \/ Append(v) \/ Fsync(v) \/ Record(v)
      PROVE  \/ /\ Walked(t) /\ task'[t].walk = task[t].walk
                /\ task'[t].ticket = task[t].ticket /\ task'[t].rows = task[t].rows
             \/ Owed' \subseteq task'[t].walk
  <2>1. CASE v # t
    BY <1>2, <1>3, <2>1, OthersStand
  <2>2. CASE v = t
    <3>1. /\ ~\E r \in Row : Mutate(v, r)
          /\ ~LoseSweep(v) /\ ~TakeTicket(v) /\ ~ReadBasis(v) /\ ~Record(v)
      BY <2>2, OwnPC DEF Walked
    <3>2. CASE WalkEstate(v)
      <4>1. /\ task'[t].walk = Readable /\ ~SomeUnreadable
            /\ UNCHANGED <<journaled, journal, unswept>>
        BY <1>1, <2>2, <3>2 DEF WalkEstate, Walked, WalkShort, TaskType, estate, history
      <4>2. Owed' = Owed
        BY <4>1 DEF Owed
      <4> QED
        BY <4>1, <4>2, WalkSeesAll
    <3>3. CASE Append(v)
      BY <1>1, <2>2, <3>3 DEF Append, At, Walked, TaskType
    <3>4. CASE Fsync(v)
      BY <1>1, <2>2, <3>4 DEF Fsync, At, Walked, TaskType
    <3> QED
      BY <1>3, <3>1, <3>2, <3>3, <3>4
  <2> QED
    BY <2>1, <2>2
<1>4. CASE \/ RebuildWalk \/ RebuildRefuse \/ RebuildPreserve \/ RebuildWrite \/ Retire \/ Start
  <2>1. CASE t # "admin"
    BY <1>1, <1>2, <1>4, <2>1, OthersStand
  <2>2. CASE t = "admin"
    <3>1. ~Retire /\ ~Start
      BY <2>2, OwnPC DEF Walked
    <3>2. CASE RebuildWalk
      <4>1. /\ task'[t].walk = Readable /\ ~SomeUnreadable
            /\ UNCHANGED <<journaled, journal, unswept>>
        BY <1>1, <2>2, <3>2 DEF RebuildWalk, Walked, WalkShort, Idle, estate, history
      <4>2. Owed' = Owed
        BY <4>1 DEF Owed
      <4> QED
        BY <4>1, <4>2, WalkSeesAll
    <3>3. CASE RebuildRefuse
      BY <1>1, <2>2, <3>3 DEF RebuildRefuse, At, Walked, TaskType
    <3>4. CASE RebuildPreserve
      BY <1>1, <2>2, <3>4 DEF RebuildPreserve, At, Walked, TaskType
    <3>5. CASE RebuildWrite
      BY <1>1, <2>2, <3>5 DEF RebuildWrite, At, Walked, TaskType
    <3> QED
      BY <1>4, <3>1, <3>2, <3>3, <3>4, <3>5
  <2> QED
    BY <2>1, <2>2
<1>5. CASE \E powerLoss \in BOOLEAN : Stop(powerLoss)
  BY <1>5, IdleTask DEF Stop, Walked
<1>6. CASE \/ CorruptLine \/ DeleteIndex \/ UNCHANGED vars
           \/ \E w \in Work : Obscure(w) \/ Restore(w) \/ LoseJournal(w)
  <2>1. task' = task
    BY <1>6 DEF CorruptLine, DeleteIndex, vars, Obscure, Restore, LoseJournal
  <2> QED
    BY <1>2, <2>1
<1> QED
  BY <1>2, <1>3, <1>4, <1>5, <1>6 DEF Next

\* Rows are journaled before their sweep.
LEMMA RowsJournaledStep == Types /\ RowsJournaled /\ [Next]_vars => RowsJournaled'
<1> SUFFICES ASSUME Types, RowsJournaled, [Next]_vars, NEW u \in Threads
             PROVE  task'[u].rows \subseteq journaled'
  BY DEF RowsJournaled
<1>1. /\ task \in [Threads -> TaskType] /\ task[u] \in TaskType /\ "admin" \in Threads
      /\ task["admin"] \in TaskType
  BY Names DEF Types, TasksTyped
<1>2. CASE task'[u].rows \in {{}, task[u].rows} /\ journaled \subseteq journaled'
  BY <1>2 DEF RowsJournaled
<1>3. ASSUME NEW t \in Threads, NEW r \in Row, Mutate(t, r) PROVE task'[u].rows \subseteq journaled'
  <2>1. task'[u] = task[u] \/ task'[u].rows = {r}
    BY <1>1, <1>3, OthersStand DEF Mutate, Idle
  <2>2. journaled' = journaled \cup {r}
    BY <1>3 DEF Mutate
  <2> QED
    BY <2>1, <2>2 DEF RowsJournaled
<1>4. ASSUME NEW t \in Threads,
             \/ LoseSweep(t) \/ TakeTicket(t) \/ ReadBasis(t) \/ WalkEstate(t)
             \/ Append(t) \/ Fsync(t) \/ Record(t)
      PROVE  task'[u].rows \in {{}, task[u].rows}
  <2>1. CASE u # t
    BY <1>4, <2>1, OthersStand
  <2>2. CASE u = t
    <3>1. CASE LoseSweep(t) \/ Record(t)
      BY <1>1, <2>2, <3>1, IdleTask DEF LoseSweep, Record
    <3>2. CASE TakeTicket(t)
      BY <1>1, <2>2, <3>2 DEF TakeTicket, TaskType
    <3>3. CASE ReadBasis(t)
      BY <1>1, <2>2, <3>3 DEF ReadBasis, TaskType
    <3>4. CASE WalkEstate(t)
      BY <1>1, <2>2, <3>4 DEF WalkEstate, TaskType
    <3>5. CASE Append(t)
      BY <1>1, <2>2, <3>5 DEF Append, TaskType
    <3>6. CASE Fsync(t)
      BY <1>1, <2>2, <3>6 DEF Fsync, TaskType
    <3> QED
      BY <1>4, <3>1, <3>2, <3>3, <3>4, <3>5, <3>6
  <2> QED
    BY <2>1, <2>2
<1>5. ASSUME NEW t \in Threads,
             \/ LoseSweep(t) \/ TakeTicket(t) \/ ReadBasis(t) \/ WalkEstate(t)
             \/ Append(t) \/ Fsync(t) \/ Record(t)
      PROVE  journaled' = journaled
  BY <1>5 DEF LoseSweep, TakeTicket, ReadBasis, WalkEstate, Append, Fsync, Record, estate
<1>6. CASE \/ RebuildWalk \/ RebuildRefuse \/ RebuildPreserve \/ RebuildWrite \/ Retire \/ Start
  <2>1. journaled' = journaled
    BY <1>6 DEF RebuildWalk, RebuildRefuse, RebuildPreserve, RebuildWrite, Retire, Start, estate
  <2>2. CASE u # "admin"
    BY <1>1, <1>2, <1>6, <2>1, <2>2, OthersStand
  <2>3. CASE u = "admin"
    <3> SUFFICES task'[u].rows \in {{}, task[u].rows}
      BY <1>2, <2>1
    <3>1. CASE RebuildWalk \/ Start
      BY <1>1, <2>3, <3>1 DEF RebuildWalk, Start, Idle
    <3>2. CASE RebuildRefuse \/ Retire
      BY <1>1, <2>3, <3>2 DEF RebuildRefuse, Retire, TaskType
    <3>3. CASE RebuildPreserve
      BY <1>1, <2>3, <3>3 DEF RebuildPreserve, TaskType
    <3>4. CASE RebuildWrite
      BY <1>1, <2>3, <3>4 DEF RebuildWrite, TaskType
    <3> QED
      BY <1>6, <3>1, <3>2, <3>3, <3>4
  <2> QED
    BY <2>2, <2>3
<1>7. CASE \/ CorruptLine \/ DeleteIndex \/ UNCHANGED vars
           \/ \E w \in Work : Obscure(w) \/ Restore(w) \/ LoseJournal(w)
           \/ \E powerLoss \in BOOLEAN : Stop(powerLoss)
  <2>1. task'[u] \in {task[u], Idle} /\ journaled' = journaled
    BY <1>7 DEF CorruptLine, DeleteIndex, vars, Obscure, Restore, LoseJournal, Stop, estate
  <2> QED
    BY <1>2, <2>1, IdleTask
<1> QED
  BY <1>2, <1>3, <1>4, <1>5, <1>6, <1>7 DEF Next

LEMMA WalksSeeStep ==
  Types /\ RowsJournaled /\ WalksSee /\ [Next]_vars => WalksSee'
<1> SUFFICES ASSUME Types, RowsJournaled, WalksSee, [Next]_vars,
                    NEW t \in Threads, Walked(t)', NEW q \in Owed', q \notin task'[t].walk
             PROVE  /\ \A k \in Nat : k = task'[t].ticket => k < health'.observation \/ Claimed(q, k)'
                    /\ q \notin task'[t].rows
  BY DEF WalksSee
<1>1. /\ Walked(t) /\ task'[t].walk = task[t].walk
      /\ task'[t].ticket = task[t].ticket /\ task'[t].rows = task[t].rows
  BY WalkMoves
<1>2. ~\E powerLoss \in BOOLEAN : Stop(powerLoss)
  BY IdleTask DEF Stop, Walked
<1>3. task[t].ticket \in Nat /\ task[t].ticket <= tickets /\ health.observation \in Nat
  BY TaskFields
<1>4. health'.observation >= health.observation
  BY <1>2, ObservationGrows
<1>5. health'.observation \in Nat
  BY TypesStep DEF Types, HealthTyped, HealthType
<1>6. CASE \E v \in Threads : Mutate(v, q)
  <2>1. \A k \in Nat : Claimed(q, k)'
    BY <1>6, NewRowIsClaimed
  <2>2. q \notin journaled
    BY <1>6 DEF Mutate
  <2>3. q \notin task[t].rows
    BY <2>2 DEF RowsJournaled
  <2> QED
    BY <1>1, <2>1, <2>3
<1>7. CASE ~\E v \in Threads : Mutate(v, q)
  <2>1. q \in Owed
    BY <1>7, OwedStands
  <2>2. q \notin task[t].rows
    BY <1>1, <2>1 DEF WalksSee
  <2>3. ASSUME NEW k \in Nat, k = task[t].ticket PROVE k < health'.observation \/ Claimed(q, k)'
    <3>1. k < health.observation \/ Claimed(q, k)
      BY <1>1, <2>1, <2>3 DEF WalksSee
    <3>2. CASE k < health.observation
      BY <1>3, <1>4, <1>5, <3>2
    <3>3. CASE Claimed(q, k)
      BY <1>2, <1>3, <2>3, <3>3, ClaimStands
    <3> QED
      BY <3>1, <3>2, <3>3
  <2> QED
    BY <1>1, <2>2, <2>3
<1> QED
  BY <1>6, <1>7

\* Only a rebuild, a removal and a loss of power take a row from the file.
LEMMA FileKeeps ==
  ASSUME Types, [Next]_vars, ~RebuildWrite, ~DeleteIndex,
         ~\E powerLoss \in BOOLEAN : Stop(powerLoss)
  PROVE  dir.rows \cup dir.bad \subseteq dir'.rows \cup dir'.bad
<1>1. dir \in FileType
  BY DEF Types, FilesTyped, WellFormed
<1>2. ASSUME NEW t \in Threads, Append(t)
      PROVE  dir.rows \cup dir.bad \subseteq dir'.rows \cup dir'.bad
  <2>1. dir' = dir \/ dir' = [dir EXCEPT !.file = TRUE, !.rows = @ \cup task[t].walk]
    BY <1>2 DEF Append
  <2> QED
    BY <1>1, <2>1 DEF FileType
<1>3. CASE RebuildPreserve \/ Retire
  BY <1>1, <1>3 DEF RebuildPreserve, Retire, FileType
<1>4. CASE CorruptLine
  <2>1. PICK r \in dir.rows : dir' = [dir EXCEPT !.rows = @ \ {r}, !.bad = @ \cup {r}]
    BY <1>4 DEF CorruptLine
  <2> QED
    BY <1>1, <2>1 DEF FileType
<1>5. CASE Start \/ UNCHANGED vars
  BY <1>5 DEF Start, vars
<1>6. ASSUME NEW t \in Threads, Fsync(t) PROVE dir' = dir
  BY <1>6 DEF Fsync
<1>7. ASSUME NEW t \in Threads,
             \/ \E r \in Row : Mutate(t, r)
             \/ LoseSweep(t) \/ TakeTicket(t) \/ ReadBasis(t) \/ WalkEstate(t) \/ Record(t)
             \/ RebuildWalk \/ RebuildRefuse
             \/ \E w \in Work : Obscure(w) \/ Restore(w) \/ LoseJournal(w)
      PROVE  dir' = dir
  BY <1>7, FilesStand
<1> QED
  BY <1>2, <1>3, <1>4, <1>5, <1>6, <1>7, Names DEF Next

LEMMA WalksLandStep == Types /\ WalksLand /\ [Next]_vars => WalksLand'
<1> SUFFICES ASSUME Types, WalksLand, [Next]_vars, NEW u \in Threads,
                    \/ task'[u].pc = "renamed"
                    \/ task'[u].pc = "publishing" /\ task'[u].outcome # "failed"
             PROVE  /\ "delete" \notin faults' => task'[u].walk \subseteq dir'.rows \cup dir'.bad
                    /\ task'[u].pc = "publishing" /\ ~task'[u].wrote /\ ~task'[u].found
                         => task'[u].walk = {}
  BY DEF WalksLand
<1>12. /\ task \in [Threads -> TaskType] /\ task[u] \in TaskType /\ "admin" \in Threads
       /\ task["admin"] \in TaskType /\ dir \in FileType
  BY Names DEF Types, TasksTyped, FilesTyped, WellFormed
<1>13. "delete" \notin faults' => "delete" \notin faults /\ ~DeleteIndex
  BY FaultsStand DEF DeleteIndex, LoseJournal, Fault
<1>14. ~\E powerLoss \in BOOLEAN : Stop(powerLoss)
  BY IdleTask DEF Stop
<1>15. CASE task'[u] = task[u] /\ ~RebuildWrite
  BY <1>13, <1>14, <1>15, FileKeeps DEF WalksLand
<1>1. ASSUME NEW t \in Threads,
             \/ \E r \in Row : Mutate(t, r)
             \/ LoseSweep(t) \/ TakeTicket(t) \/ ReadBasis(t) \/ WalkEstate(t) \/ Record(t)
      PROVE  task'[u] = task[u] /\ ~RebuildWrite
  <2>1. u # t
    BY <1>1, OwnPC
  <2>2. task'[u] = task[u]
    BY <1>1, <2>1, OthersStand
  <2>3. ~RebuildWrite
    <3>1. CASE Record(t)
      <4>1. task'[t].pc = "idle" /\ task[t].pc = "publishing"
        BY <3>1, OwnPC DEF Record, At
      <4>2. RebuildWrite => t = "admin"
        BY <4>1, <1>12, OthersStand DEF RebuildWrite
      <4> QED
        BY <4>1, <4>2 DEF RebuildWrite, At
    <3>2. CASE ~Record(t)
      BY <1>1, <1>12, <3>2, OneHolder, SweepSteps, OwnPC, OthersStand DEF RebuildWrite, At, Holding
    <3> QED
      BY <3>1, <3>2
  <2> QED
    BY <2>2, <2>3
<1>2. ASSUME NEW t \in Threads, Append(t)
      PROVE  /\ "delete" \notin faults' => task'[u].walk \subseteq dir'.rows \cup dir'.bad
             /\ task'[u].pc = "publishing" /\ ~task'[u].wrote /\ ~task'[u].found
                  => task'[u].walk = {}
  <2>1. CASE u # t
    <3>1. task'[u] = task[u] /\ atlas = "free"
      BY <1>2, <2>1, OthersStand DEF Append
    <3> QED
      BY <3>1, OneHolder, Names DEF Holding
  <2>2. CASE u = t
    <3>1. CASE /\ dir.bad = {} /\ task[t].walk \subseteq dir.rows /\ dir' = dir
               /\ task' = [task EXCEPT ![t].pc = "publishing", ![t].outcome = "ok",
                                       ![t].found = dir.file]
      <4>1. task'[t].walk = task[t].walk /\ task'[t].found = dir.file
        BY <1>12, <2>2, <3>1 DEF TaskType
      <4>2. ~dir.file => dir.rows = {}
        BY DEF Types, FilesTyped, WellFormed
      <4> QED
        BY <2>2, <3>1, <4>1, <4>2
    <3>2. CASE /\ dir' = [dir EXCEPT !.file = TRUE, !.rows = @ \cup task[t].walk]
               /\ task' = [task EXCEPT ![t].pc = "renamed"]
      <4>1. task'[t].walk = task[t].walk /\ task'[t].pc = "renamed"
        BY <1>12, <2>2, <3>2 DEF TaskType
      <4>2. dir'.rows = dir.rows \cup task[t].walk
        BY <1>12, <3>2 DEF FileType
      <4> QED
        BY <2>2, <4>1, <4>2
    <3>3. CASE task' = [task EXCEPT ![t].pc = "publishing", ![t].outcome = "failed"]
      BY <1>12, <2>2, <3>3 DEF TaskType
    <3> QED
      BY <1>2, <3>1, <3>2, <3>3 DEF Append
  <2> QED
    BY <2>1, <2>2
<1>3. ASSUME NEW t \in Threads, Fsync(t)
      PROVE  /\ "delete" \notin faults' => task'[u].walk \subseteq dir'.rows \cup dir'.bad
             /\ task'[u].pc = "publishing" /\ ~task'[u].wrote /\ ~task'[u].found
                  => task'[u].walk = {}
  <2>1. CASE u # t
    <3>1. task'[u] = task[u] /\ task[t].pc \in Holding
      BY <1>3, <2>1, OthersStand DEF Fsync, At, Holding
    <3> QED
      BY <2>1, <3>1, OneHolder DEF Holding
  <2>2. CASE u = t
    <3>1. /\ task'[t].walk = task[t].walk /\ task'[t].wrote
          /\ dir' = dir /\ task[t].pc = "renamed"
      BY <1>3, <1>12, <2>2 DEF Fsync, At, TaskType
    <3> QED
      BY <1>13, <2>2, <3>1 DEF WalksLand
  <2> QED
    BY <2>1, <2>2
<1>4. CASE RebuildWalk \/ RebuildRefuse \/ RebuildPreserve
  <2>1. u # "admin"
    <3>1. CASE RebuildWalk
      BY <1>12, <3>1 DEF RebuildWalk, Idle
    <3>2. CASE RebuildRefuse
      BY <1>12, <3>2 DEF RebuildRefuse, TaskType
    <3>3. CASE RebuildPreserve
      BY <1>12, <3>3 DEF RebuildPreserve, At, TaskType
    <3> QED
      BY <1>4, <3>1, <3>2, <3>3
  <2>2. task'[u] = task[u]
    BY <1>4, <1>12, <2>1, OthersStand
  <2>3. atlas \in {"free", "admin"}
    BY <1>4, <1>12, OneHolder DEF RebuildWalk, RebuildRefuse, RebuildPreserve, Call, At, Holding
  <2> QED
    BY <2>1, <2>2, <2>3, OneHolder, Names DEF Holding
<1>5. CASE RebuildWrite
  <2>1. CASE u # "admin"
    <3>1. task'[u] = task[u] /\ task["admin"].pc \in Holding
      BY <1>5, <1>12, <2>1, OthersStand DEF RebuildWrite, At, Holding
    <3> QED
      BY <1>12, <2>1, <3>1, OneHolder DEF Holding
  <2>2. CASE u = "admin"
    <3>1. CASE task' = [task EXCEPT !["admin"].pc = "publishing", !["admin"].outcome = "failed"]
      BY <1>12, <2>2, <3>1 DEF TaskType
    <3>2. CASE /\ dir' = [dir EXCEPT !.file = TRUE, !.rows = task["admin"].walk, !.bad = {}]
               /\ task' = [task EXCEPT !["admin"].pc = "renamed"]
      <4>1. /\ dir'.rows = task["admin"].walk /\ task'["admin"].walk = task["admin"].walk
            /\ task'["admin"].pc = "renamed"
        BY <1>12, <3>2 DEF FileType, TaskType
      <4> QED
        BY <2>2, <4>1
    <3> QED
      BY <1>5, <3>1, <3>2 DEF RebuildWrite
  <2> QED
    BY <2>1, <2>2
<1>6. CASE Retire \/ Start
  <2>1. u # "admin"
    BY <1>6, OwnPC
  <2>2. task'[u] = task[u]
    BY <1>6, <1>12, <2>1, OthersStand
  <2>3. task[u].pc \notin Holding
    BY <1>6, OneHolder, Names DEF Retire, Start, Call, Types, TasksTyped, Holding
  <2> QED
    BY <2>2, <2>3 DEF Holding
<1>7. CASE \/ CorruptLine \/ DeleteIndex \/ UNCHANGED vars
           \/ \E w \in Work : Obscure(w) \/ Restore(w) \/ LoseJournal(w)
  <2>1. task' = task
    BY <1>7 DEF CorruptLine, DeleteIndex, vars, Obscure, Restore, LoseJournal
  <2>2. CASE ~RebuildWrite
    BY <1>15, <2>1, <2>2
  <2> QED
    BY <1>5, <2>2
<1> QED
  BY <1>1, <1>2, <1>3, <1>4, <1>5, <1>6, <1>7, <1>14, <1>15 DEF Next

LEMMA RebuildIsNewestStep == Types /\ RebuildIsNewest /\ [Next]_vars => RebuildIsNewest'
<1> SUFFICES ASSUME Types, RebuildIsNewest, [Next]_vars, task'["admin"].pc = "rebuild"
             PROVE  health'.observation < task'["admin"].ticket
  BY DEF RebuildIsNewest
<1>12. /\ task \in [Threads -> TaskType] /\ "admin" \in Threads /\ task["admin"] \in TaskType
       /\ health.observation \in Nat /\ tickets \in Nat /\ health.observation <= tickets
  BY Names, TaskFields DEF Types, TasksTyped
<1>1. ASSUME NEW t \in Threads,
             \/ \E r \in Row : Mutate(t, r)
             \/ LoseSweep(t) \/ TakeTicket(t) \/ ReadBasis(t) \/ WalkEstate(t)
             \/ Append(t) \/ Fsync(t) \/ Record(t)
      PROVE  health'.observation < task'["admin"].ticket
  <2>1. t # "admin"
    BY <1>1, OwnPC
  <2>2. task'["admin"] = task["admin"]
    BY <1>1, <1>12, <2>1, OthersStand
  <2>3. ~Record(t)
    BY <1>12, <2>1, <2>2, OneHolder DEF Record, At, Holding
  <2>4. health' = health
    BY <1>1, <2>3 DEF Mutate, LoseSweep, TakeTicket, ReadBasis, WalkEstate, Append, Fsync
  <2> QED
    BY <2>2, <2>4 DEF RebuildIsNewest
<1>2. CASE RebuildWalk
  <2>1. task'["admin"].ticket = tickets + 1 /\ health' = health
    BY <1>2, <1>12 DEF RebuildWalk, Idle
  <2> QED
    BY <1>12, <2>1
<1>3. CASE RebuildPreserve
  <2>1. /\ health' = health /\ task["admin"].pc = "rebuild"
        /\ task'["admin"].ticket = task["admin"].ticket
    BY <1>3, <1>12 DEF RebuildPreserve, At, TaskType
  <2> QED
    BY <2>1 DEF RebuildIsNewest
<1>4. CASE RebuildRefuse \/ RebuildWrite \/ Retire \/ Start
  BY <1>4, <1>12, OwnPC
<1>5. CASE \E powerLoss \in BOOLEAN : Stop(powerLoss)
  BY <1>5, <1>12, IdleTask DEF Stop
<1>6. CASE \/ CorruptLine \/ DeleteIndex \/ UNCHANGED vars
           \/ \E w \in Work : Obscure(w) \/ Restore(w) \/ LoseJournal(w)
  <2>1. task' = task /\ health' = health
    BY <1>6 DEF CorruptLine, DeleteIndex, vars, Obscure, Restore, LoseJournal
  <2> QED
    BY <2>1 DEF RebuildIsNewest
<1> QED
  BY <1>1, <1>2, <1>3, <1>4, <1>5, <1>6 DEF Next

\* A record that leaves the health synchronized owes no more than it did, or than
\* the walk it records.
LEMMA RecordIsTrue ==
  ASSUME Types, WalksSee, WalksLand, StandingIsTrue, NEW t \in Threads, Record(t), [Next]_vars,
         health'.projection = "synchronized", NEW q \in Owed'
  PROVE  /\ "delete" \notin faults' => q \in dir'.rows \cup dir'.bad \/ InFlight(q)'
         /\ \A k \in Nat :
              k = health'.observation /\ health'.backing # "present" => Claimed(q, k)'
<1>1. /\ task[t].pc = "publishing" /\ UNCHANGED <<dir, faults, journaled, journal, unswept>>
      /\ task[t].ticket \in Nat /\ health.observation \in Nat
      /\ \A u \in Threads : u # t => task'[u] = task[u]
  BY TaskFields, OthersStand DEF Record, At, estate, bounds, history
<1>2. q \in Owed
  BY <1>1 DEF Owed
<1>3. ~task[t].short /\ task[t].outcome # "failed"
  BY RecordGives
<1>4. Walked(t)
  BY <1>1, <1>3 DEF Walked
<1>5. "delete" \notin faults => task[t].walk \subseteq dir.rows \cup dir.bad
  BY <1>1, <1>3 DEF WalksLand
\* Whoever else claims the row still does.
<1>6. ASSUME NEW k \in Nat, k >= task[t].ticket, Claimed(q, k) PROVE Claimed(q, k)' /\ InFlight(q)'
  <2>1. PICK u \in Threads : q \in task[u].rows /\ Later(u, k)
    BY <1>6 DEF Claimed
  <2>2. u # t
    BY <1>1, <1>6, <2>1 DEF Later
  <2> QED
    BY <1>1, <2>1, <2>2 DEF Claimed, Later, InFlight
<1>7. CASE task[t].ticket >= health.observation /\ health'.observation = task[t].ticket
           /\ (health'.backing # "present" => ~task[t].wrote /\ ~task[t].found)
  <2>1. q \in task[t].walk \/ Claimed(q, task[t].ticket)
    BY <1>1, <1>2, <1>4, <1>7 DEF WalksSee
  <2>2. health'.backing # "present" => task[t].walk = {}
    BY <1>1, <1>3, <1>7 DEF WalksLand
  <2>3. CASE q \in task[t].walk
    BY <1>1, <1>5, <2>2, <2>3
  <2>4. CASE Claimed(q, task[t].ticket)
    <3> SUFFICES ASSUME NEW k \in Nat, k = task[t].ticket PROVE Claimed(q, k)' /\ InFlight(q)'
      BY <1>1, <1>7
    <3>1. Claimed(q, k) /\ k >= task[t].ticket
      BY <1>1, <2>4
    <3> QED
      BY <1>6, <3>1
  <2> QED
    BY <2>1, <2>3, <2>4
<1>8. CASE /\ task[t].ticket < health.observation /\ Synchronized
           /\ health'.observation = health.observation /\ health'.backing = health.backing
  <2>1. "delete" \notin faults => q \in dir.rows \cup dir.bad \/ InFlight(q)'
    <3>1. CASE InFlight(q) /\ "delete" \notin faults
      <4>1. PICK u \in Threads : q \in task[u].rows
        BY <3>1 DEF InFlight
      <4>2. CASE u = t
        BY <1>2, <1>4, <1>5, <3>1, <4>1, <4>2 DEF WalksSee
      <4>3. CASE u # t
        BY <1>1, <4>1, <4>3 DEF InFlight
      <4> QED
        BY <4>2, <4>3
    <3> QED
      BY <1>2, <1>8, <3>1 DEF StandingIsTrue
  <2>2. ASSUME NEW k \in Nat, k = health'.observation, health'.backing # "present"
        PROVE  Claimed(q, k)'
    <3>1. Claimed(q, k) /\ k >= task[t].ticket
      BY <1>1, <1>2, <1>8, <2>2 DEF StandingIsTrue
    <3> QED
      BY <1>6, <3>1
  <2> QED
    BY <1>1, <2>1, <2>2
<1>9. \/ /\ task[t].ticket >= health.observation /\ health'.observation = task[t].ticket
         /\ health'.backing # "present" => ~task[t].wrote /\ ~task[t].found
      \/ /\ task[t].ticket < health.observation /\ Synchronized
         /\ health'.observation = health.observation /\ health'.backing = health.backing
  BY RecordGives
<1> QED
  BY <1>7, <1>8, <1>9

\* The file a rebuild replaces: what it drops is in flight.
LEMMA RebuildIsTrue ==
  ASSUME Types, WalksSee, RebuildIsNewest, RebuildWrite, NEW q \in Owed,
         q \in dir.rows \cup dir.bad
  PROVE  q \in dir'.rows \cup dir'.bad \/ InFlight(q)
<1>1. /\ "admin" \in Threads /\ dir \in FileType /\ task["admin"].pc = "rebuild"
      /\ ~task["admin"].short
      /\ \/ dir' = dir
         \/ dir' = [dir EXCEPT !.file = TRUE, !.rows = task["admin"].walk, !.bad = {}]
  BY Names DEF RebuildWrite, At, Types, FilesTyped, WellFormed
<1>2. CASE q \in task["admin"].walk
  BY <1>1, <1>2 DEF FileType
<1>3. CASE q \notin task["admin"].walk
  <2>1. task["admin"].ticket \in Nat /\ health.observation \in Nat /\ Walked("admin")
    BY <1>1, TaskFields DEF Walked
  <2>2. task["admin"].ticket < health.observation \/ Claimed(q, task["admin"].ticket)
    BY <1>1, <1>3, <2>1 DEF WalksSee
  <2>3. Claimed(q, task["admin"].ticket)
    BY <1>1, <2>1, <2>2 DEF RebuildIsNewest
  <2> QED
    BY <2>3 DEF Claimed, InFlight
<1> QED
  BY <1>2, <1>3

LEMMA StandingIsTrueStep ==
  Types /\ Sweeping /\ [Next]_vars => StandingIsTrue'
<1> SUFFICES ASSUME Types, Sweeping, [Next]_vars, health'.projection = "synchronized",
                    NEW q \in Owed'
             PROVE  /\ "delete" \notin faults' => q \in dir'.rows \cup dir'.bad \/ InFlight(q)'
                    /\ \A k \in Nat :
                         k = health'.observation /\ health'.backing # "present" => Claimed(q, k)'
  BY DEF StandingIsTrue, Synchronized
<1>1. CASE \E t \in Threads : Record(t)
  BY <1>1, RecordIsTrue DEF Sweeping
<1>2. CASE \E v \in Threads : Mutate(v, q)
  <2>1. \A k \in Nat : Claimed(q, k)'
    BY <1>2, NewRowIsClaimed
  <2>2. Claimed(q, 0)'
    BY <2>1
  <2> QED
    BY <2>1, <2>2 DEF Claimed, InFlight
<1>3. CASE (~\E t \in Threads : Record(t)) /\ ~\E v \in Threads : Mutate(v, q)
  <2>1. ~\E powerLoss \in BOOLEAN : Stop(powerLoss)
    BY DEF Stop, Unreconciled
  <2>2. /\ health'.observation = health.observation /\ health'.backing = health.backing
        /\ Synchronized
    BY <1>3, <2>1, ObservationGrows
  <2>3. q \in Owed
    BY <1>3, OwedStands
  <2>4. health.observation \in Nat /\ health.observation <= tickets
    BY Names, TaskFields
  <2>5. ASSUME NEW k \in Nat, k = health'.observation, health'.backing # "present"
        PROVE  Claimed(q, k)'
    <3>1. Claimed(q, k) /\ k <= tickets
      BY <2>2, <2>3, <2>4, <2>5 DEF Sweeping, StandingIsTrue
    <3> QED
      BY <1>3, <2>1, <3>1, ClaimStands
  <2>6. ASSUME InFlight(q) PROVE InFlight(q)'
    <3>1. PICK u \in Threads : q \in task[u].rows
      BY <2>6 DEF InFlight
    <3>2. ~LoseSweep(u)
      BY <3>1, LostIsNotOwed
    <3>3. q \in task'[u].rows
      BY <1>3, <2>1, <3>1, <3>2, ClaimMoves
    <3> QED
      BY <3>3 DEF InFlight
  <2>7. ASSUME "delete" \notin faults' PROVE q \in dir'.rows \cup dir'.bad \/ InFlight(q)'
    <3>1. "delete" \notin faults /\ ~DeleteIndex
      BY <2>7, FaultsStand DEF DeleteIndex, LoseJournal, Fault
    <3>2. q \in dir.rows \cup dir.bad \/ InFlight(q)
      BY <2>2, <2>3, <3>1 DEF Sweeping, StandingIsTrue
    <3>3. CASE RebuildWrite /\ q \in dir.rows \cup dir.bad
      BY <2>3, <2>6, <3>3, RebuildIsTrue DEF Sweeping
    <3>4. CASE ~RebuildWrite /\ q \in dir.rows \cup dir.bad
      BY <2>1, <3>1, <3>4, FileKeeps
    <3> QED
      BY <2>6, <3>2, <3>3, <3>4
  <2> QED
    BY <2>5, <2>7
<1> QED
  BY <1>1, <1>2, <1>3

LEMMA SweepingInit == Init => Sweeping
<1> SUFFICES ASSUME Init PROVE Sweeping
  OBVIOUS
<1>1. \A t \in Threads : task[t].pc = "idle" /\ task[t].rows = {}
  BY IdleTask DEF Init
<1>2. RowsJournaled /\ RebuildIsNewest /\ WalksLand
  BY <1>1, Names DEF RowsJournaled, RebuildIsNewest, WalksLand
<1>3. WalksSee
  BY <1>1 DEF WalksSee, Walked
<1>4. StandingIsTrue
  BY DEF Init, StandingIsTrue, Synchronized, Unreconciled
<1> QED
  BY <1>2, <1>3, <1>4 DEF Sweeping

LEMMA SweepingStep == Types /\ Sweeping /\ [Next]_vars => Sweeping'
BY RowsJournaledStep, WalksSeeStep, WalksLandStep, RebuildIsNewestStep, StandingIsTrueStep
   DEF Sweeping

LEMMA SweepingShows ==
  ASSUME Types, Sweeping, Complete, ~dir.file \/ "delete" \notin faults, NEW q \in Owed
  PROVE  Projected(q)
<1>1. Synchronized /\ dir.bad = {} /\ health.observation \in Nat
  BY Names, TaskFields DEF Complete, Answers, Synchronized
<1>2. CASE "delete" \notin faults
  BY <1>1, <1>2 DEF Sweeping, StandingIsTrue, Projected
<1>3. CASE ~dir.file
  <2>1. health.backing # "present"
    BY <1>3 DEF Complete
  <2>2. Claimed(q, health.observation)
    BY <1>1, <2>1 DEF Sweeping, StandingIsTrue
  <2> QED
    BY <2>2 DEF Claimed, Projected, InFlight
<1> QED
  BY <1>2, <1>3

LEMMA SweepingHolds ==
  ASSUME Types, Sweeping, ~dir.file \/ "delete" \notin faults
  PROVE  Holds(journaled \ unswept)
BY SweepingShows DEF Holds, Owed

\* AbsentIsNotEmpty, for every set of rows and threads and every choice of faults:
\* an answer from an absent file says complete only when it owes nothing.
THEOREM AbsentOwesNothing == Spec => []AbsentIsNotEmpty
<1>1. Init => Types /\ Sweeping
  BY TypesInit, SweepingInit
<1>2. Types /\ Sweeping /\ [Next]_vars => (Types /\ Sweeping)'
  BY TypesStep, SweepingStep
<1>3. Types /\ Sweeping => AbsentIsNotEmpty
  BY SweepingHolds DEF AbsentIsNotEmpty
<1> QED
  BY <1>1, <1>2, <1>3, PTL DEF Spec

\* CompleteIsTrue, for every set of rows and threads and every choice of faults,
\* in an estate with a catalog (the start then syncs the directory): an answer
\* that says complete holds every row swept for, and is on disk.
THEOREM CompleteAnswers ==
  ASSUME Catalog
  PROVE  Spec => []CompleteIsTrue
<1>1. Init => Types /\ Sweeping /\ OnDisk
  BY TypesInit, SweepingInit, OnDiskInit
<1>2. Types /\ Sweeping /\ OnDisk /\ [Next]_vars => (Types /\ Sweeping /\ OnDisk)'
  BY TypesStep, SweepingStep, OnDiskStep
<1>3. Types /\ Sweeping /\ OnDisk => CompleteIsTrue
  BY TypesGive, SweepingHolds, OnDiskShows DEF CompleteIsTrue
<1> QED
  BY <1>1, <1>2, <1>3, PTL DEF Spec

=============================================================================
