--------------------------- MODULE FindingsIndex ---------------------------
(***************************************************************************)
(* The estate's Findings index: a file of rows derived from the journals,  *)
(* and the health record that says whether it is a complete projection of  *)
(* them.                                                                   *)
(*                                                                         *)
(* A thread that journals a row sweeps the estate: it takes a ticket, reads*)
(* the index, walks the journals with no lock, then appends what is missing*)
(* and records the outcome in one hold of the Atlas mutex.  A rebuild does *)
(* all of that in one hold and replaces the file; a retirement renames the *)
(* preserved copies of an index that could not be parsed, then sweeps.     *)
(* Beside them the file system fails, an operator removes and damages      *)
(* files, and the daemon and the machine stop.                             *)
(***************************************************************************)
EXTENDS Naturals, FiniteSets

CONSTANTS
  Row, Work, WorkOf,  \* index rows and the Work each is journaled by
  Thread,             \* connections that journal a row
  Faults,             \* kinds of fault that may happen, each once
  MaxFaults,          \* bound: faults in a behaviour
  MaxDeaths,          \* bound: ends of the daemon
  MaxAdmin,           \* bound: rebuilds and retirements
  Catalog             \* has the estate a catalog.json, whose reopening syncs

FaultKinds == {"corrupt", "delete", "unreadable", "lose", "fsync", "write", "sweep"}

ASSUME FindingsIndexAssumption ==
  /\ WorkOf \in [Row -> Work] /\ Faults \subseteq FaultKinds
  /\ MaxFaults \in Nat /\ MaxDeaths \in Nat /\ MaxAdmin \in Nat
  /\ Catalog \in BOOLEAN
  /\ {"admin", "free"} \cap Thread = {}

VARIABLES
  journaled,  \* rows durably in a journal
  journal,    \* per Work: its journal is "ok", "unreadable" or "gone"
  dir,        \* atlas/ as a reader sees it
  disk,       \* atlas/ as it would be after a power loss
  health,     \* IndexHealth, in memory
  tickets,    \* index_observations
  task,       \* per thread: how far its reconciliation is
  atlas,      \* who holds the Atlas mutex
  daemon,     \* "down", "starting", "up"
  faults, deaths, calls,   \* what has happened, for the bounds
  published, reviewed,     \* history: rows once on disk; rows an operator reviewed
  unswept                  \* history: rows whose own sweep was lost

estate == <<journaled, journal>>
bounds == <<faults, deaths, calls>>
history == <<published, reviewed, unswept>>
vars == <<estate, dir, disk, health, tickets, task, atlas, daemon, bounds, history>>

Threads == Thread \cup {"admin"}   \* "admin" also is the daemon's own start

Idle == [pc |-> "idle", rows |-> {}, ticket |-> 0, held |-> {}, known |-> FALSE,
         walk |-> {}, short |-> FALSE, wrote |-> FALSE, found |-> FALSE, outcome |-> "none"]

\* file: is there a findings.ndjson.  bad: rows whose line no longer parses.
\* preserved: the bad rows of the copies kept aside.
NoFile == [file |-> FALSE, rows |-> {}, bad |-> {}, preserved |-> {}]

Unreconciled == [projection |-> "unreconciled", observation |-> 0,
                 backing |-> "unknown", unconfirmed |-> FALSE]

Init ==
  /\ journaled = {} /\ journal = [w \in Work |-> "ok"]
  /\ dir = NoFile /\ disk = NoFile
  /\ health = Unreconciled /\ tickets = 0
  /\ task = [t \in Threads |-> Idle] /\ atlas = "free" /\ daemon = "down"
  /\ faults = {} /\ deaths = 0 /\ calls = 0
  /\ published = {} /\ reviewed = {} /\ unswept = {}

At(t, pc) == daemon # "down" /\ task[t].pc = pc

CanFail(kind) == kind \in Faults /\ kind \notin faults /\ Cardinality(faults) < MaxFaults

Fault(kind) == CanFail(kind) /\ faults' = faults \cup {kind} /\ UNCHANGED <<deaths, calls>>

-----------------------------------------------------------------------------
(* The health record. *)

\* The attempt's own fsync of the directory, in the order of the holds.
Applied(h, durability) ==
  CASE durability = "confirmed" -> [h EXCEPT !.unconfirmed = FALSE]
    [] durability = "uncertain" ->
         [h EXCEPT !.unconfirmed = TRUE,
                   !.projection = IF @ = "synchronized" THEN "unconfirmed" ELSE @]
    [] OTHER -> h

QualifiedByDirectory(p, unconfirmed) ==
  IF p = "synchronized" /\ unconfirmed THEN "unconfirmed" ELSE p

QualifiedNotByCopies(p, copies) == p   \* mutant: the next sweep clears it

QualifiedByCopies(p, copies) == IF copies # {} /\ p # "unreconciled" THEN "behind" ELSE p

\* What the attempt saw of the file, and what the listing after it sees.
BackingListed(established, listed) == listed   \* mutant: the listing decides

Backing(established, listed) ==
  IF "present" \in {established, listed} THEN "present"
  ELSE IF established = "unknown" THEN listed
  ELSE "absent"

Weakens(older, standing) == standing = "synchronized" /\ older # "synchronized"

RecordedWhenever(h, observation, projection, durability, established) ==   \* mutant: no ticket
  LET h1 == Applied(h, durability)
      p  == QualifiedByCopies(QualifiedByDirectory(projection, h1.unconfirmed), dir.preserved)
      b  == Backing(established, IF dir.file THEN "present" ELSE "absent")
  IN [h1 EXCEPT !.projection = p, !.backing = b, !.observation = observation]

Recorded(h, observation, projection, durability, established) ==
  LET h1 == Applied(h, durability)
      p  == QualifiedByCopies(QualifiedByDirectory(projection, h1.unconfirmed), dir.preserved)
      b  == Backing(established, IF dir.file THEN "present" ELSE "absent")
      stale == observation < h1.observation
  IN IF stale /\ ~Weakens(p, h1.projection) THEN h1
     ELSE [h1 EXCEPT !.projection = p, !.backing = b,
                     !.observation = IF stale THEN @ ELSE observation]

-----------------------------------------------------------------------------
(* The sweep: reconcile_findings_index. *)

\* finding assert, applied and settle: the journal first.
Mutate(t, r) ==
  /\ daemon = "up" /\ t \in Thread /\ At(t, "idle")
  /\ r \notin journaled /\ journal[WorkOf[r]] = "ok"
  /\ journaled' = journaled \cup {r}
  /\ task' = [task EXCEPT ![t] = [Idle EXCEPT !.pc = "due", !.rows = {r}]]
  /\ UNCHANGED <<journal, dir, disk, health, tickets, atlas, daemon, bounds, history>>

\* The replay after the append fails, or the next append does: no sweep.
LoseSweep(t) ==
  /\ At(t, "due") /\ task[t].rows # {} /\ Fault("sweep")
  /\ task' = [task EXCEPT ![t] = Idle]
  /\ unswept' = unswept \cup task[t].rows
  /\ UNCHANGED <<estate, dir, disk, health, tickets, atlas, daemon, published, reviewed>>

TakeTicket(t) ==
  /\ At(t, "due")
  /\ tickets' = tickets + 1
  /\ task' = [task EXCEPT ![t].pc = "ticket", ![t].ticket = tickets + 1]
  /\ UNCHANGED <<estate, dir, disk, health, atlas, daemon, bounds, history>>

ReadBasis(t) ==
  /\ At(t, "ticket") /\ atlas = "free"
  /\ task' = [task EXCEPT ![t].pc = "basis", ![t].held = dir.rows, ![t].known = dir.bad = {}]
  /\ UNCHANGED <<estate, dir, disk, health, tickets, atlas, daemon, bounds, history>>

Readable == {r \in journaled : journal[WorkOf[r]] = "ok"}

SomeUnreadable == \E w \in Work : journal[w] = "unreadable"

WalkShort(known, held) == SomeUnreadable \/ (known /\ ~(held \subseteq Readable))

WalkEstate(t) ==
  /\ At(t, "basis")
  /\ task' = [task EXCEPT ![t].pc = "walked", ![t].walk = Readable,
                          ![t].short = WalkShort(task[t].known, task[t].held),
                          ![t].held = {}, ![t].known = FALSE]
  /\ UNCHANGED <<estate, dir, disk, health, tickets, atlas, daemon, bounds, history>>

Append(t) ==
  /\ At(t, "walked") /\ atlas = "free"
  /\ atlas' = t
  /\ \/ /\ dir.bad # {}
        /\ task' = [task EXCEPT ![t].pc = "publishing", ![t].outcome = "failed"]
        /\ UNCHANGED <<dir, bounds>>
     \/ /\ dir.bad = {} /\ task[t].walk \subseteq dir.rows
        /\ task' = [task EXCEPT ![t].pc = "publishing", ![t].outcome = "ok",
                                ![t].found = dir.file]
        /\ UNCHANGED <<dir, bounds>>
     \/ /\ dir.bad = {} /\ ~(task[t].walk \subseteq dir.rows)
        /\ dir' = [dir EXCEPT !.file = TRUE, !.rows = @ \cup task[t].walk]
        /\ task' = [task EXCEPT ![t].pc = "renamed"]
        /\ UNCHANGED bounds
     \/ /\ dir.bad = {} /\ ~(task[t].walk \subseteq dir.rows) /\ Fault("write")
        /\ task' = [task EXCEPT ![t].pc = "publishing", ![t].outcome = "failed"]
        /\ UNCHANGED dir
  /\ UNCHANGED <<estate, disk, health, tickets, daemon, history>>

\* The fsync of the directory: every entry pending in it is on disk, or not.
Fsync(t) ==
  /\ At(t, "renamed")
  /\ \/ /\ disk' = dir /\ published' = published \cup dir.rows
        /\ task' = [task EXCEPT ![t].pc = "publishing", ![t].wrote = TRUE, ![t].outcome = "ok"]
        /\ UNCHANGED bounds
     \/ /\ Fault("fsync")
        /\ task' = [task EXCEPT ![t].pc = "publishing", ![t].wrote = TRUE,
                                ![t].outcome = "uncertain"]
        /\ UNCHANGED <<disk, published>>
  /\ UNCHANGED <<estate, dir, health, tickets, atlas, daemon, reviewed, unswept>>

ProjectionOf(s) ==
  IF s.short \/ s.outcome = "failed" THEN "behind"
  ELSE IF s.outcome = "uncertain" THEN "unconfirmed" ELSE "synchronized"

DurabilityOf(s) ==
  IF s.outcome = "uncertain" THEN "uncertain"
  ELSE IF s.outcome = "ok" /\ s.wrote THEN "confirmed" ELSE "unestablished"

EstablishedBy(s) ==
  IF s.outcome = "failed" THEN "unknown"
  ELSE IF s.wrote \/ s.found THEN "present" ELSE "absent"

\* record_index_projection, under the same hold.
Record(t) ==
  /\ At(t, "publishing") /\ atlas = t
  /\ health' = Recorded(health, task[t].ticket, ProjectionOf(task[t]),
                        DurabilityOf(task[t]), EstablishedBy(task[t]))
  /\ task' = [task EXCEPT ![t] = Idle] /\ atlas' = "free"
  /\ daemon' = "up"
  /\ UNCHANGED <<estate, dir, disk, tickets, bounds, history>>

-----------------------------------------------------------------------------
(* The administrative calls. *)

Call ==
  /\ daemon = "up" /\ At("admin", "idle") /\ atlas = "free" /\ calls < MaxAdmin
  /\ calls' = calls + 1 /\ UNCHANGED <<faults, deaths>>

\* --rebuild: the ticket, the basis and the walk under the hold.
RebuildWalk ==
  /\ Call
  /\ atlas' = "admin" /\ tickets' = tickets + 1
  /\ task' = [task EXCEPT !["admin"] =
       [Idle EXCEPT !.pc = "rebuild", !.ticket = tickets + 1, !.walk = Readable,
                    !.short = WalkShort(TRUE, dir.rows), !.known = dir.bad = {}]]
  /\ UNCHANGED <<estate, dir, disk, health, daemon, history>>

\* A partial walk is a refusal, never an overwrite.
RebuildRefuse ==
  /\ At("admin", "rebuild") /\ task["admin"].short
  /\ task' = [task EXCEPT !["admin"].pc = "publishing", !["admin"].outcome = "failed"]
  /\ UNCHANGED <<estate, dir, disk, health, tickets, atlas, daemon, bounds, history>>

\* Bytes that did not parse are copied aside, and synced, before the file goes.
RebuildPreserve ==
  /\ At("admin", "rebuild") /\ ~task["admin"].short /\ ~task["admin"].known
  /\ LET kept == [dir EXCEPT !.preserved = @ \cup dir.bad] IN
       /\ dir' = kept
       /\ \/ /\ disk' = kept
             /\ task' = [task EXCEPT !["admin"].known = TRUE]
             /\ UNCHANGED bounds
          \/ /\ Fault("fsync")
             /\ task' = [task EXCEPT !["admin"].pc = "publishing", !["admin"].outcome = "failed"]
             /\ UNCHANGED disk
  /\ published' = published \cup disk'.rows
  /\ UNCHANGED <<estate, health, tickets, atlas, daemon, reviewed, unswept>>

RebuildWrite ==
  /\ At("admin", "rebuild") /\ ~task["admin"].short /\ task["admin"].known
  /\ \/ /\ dir' = [dir EXCEPT !.file = TRUE, !.rows = task["admin"].walk, !.bad = {}]
        /\ task' = [task EXCEPT !["admin"].pc = "renamed"]
        /\ UNCHANGED bounds
     \/ /\ Fault("write")
        /\ task' = [task EXCEPT !["admin"].pc = "publishing", !["admin"].outcome = "failed"]
        /\ UNCHANGED dir
  /\ UNCHANGED <<estate, disk, health, tickets, atlas, daemon, history>>

\* --retire-preserved-index: the renames, their fsync and its record in one hold;
\* then a sweep.
Retire ==
  /\ \/ /\ Call /\ dir.preserved # {}
        /\ disk' = [dir EXCEPT !.preserved = {}]
        /\ health' = Applied(health, "confirmed")
     \/ /\ daemon = "up" /\ At("admin", "idle") /\ atlas = "free" /\ calls < MaxAdmin
        /\ dir.preserved # {} /\ CanFail("fsync")
        /\ calls' = calls + 1 /\ faults' = faults \cup {"fsync"} /\ UNCHANGED deaths
        /\ health' = Applied(health, "uncertain") /\ UNCHANGED disk
  /\ dir' = [dir EXCEPT !.preserved = {}]
  /\ reviewed' = reviewed \cup dir.preserved
  /\ published' = published \cup disk'.rows
  /\ task' = [task EXCEPT !["admin"].pc = "due"]
  /\ UNCHANGED <<estate, tickets, atlas, daemon, unswept>>

-----------------------------------------------------------------------------
(* What happens to the files, the daemon and the machine. *)

CorruptLine ==
  /\ Fault("corrupt")
  /\ \E r \in dir.rows :
       /\ dir' = [dir EXCEPT !.rows = @ \ {r}, !.bad = @ \cup {r}]
       /\ disk' = [disk EXCEPT !.rows = @ \ {r},
                               !.bad = IF r \in disk.rows THEN @ \cup {r} ELSE @]
  /\ UNCHANGED <<estate, health, tickets, task, atlas, daemon, history>>

\* One external loss is assumed, not two: see LoseJournal.
DeleteIndex ==
  /\ dir.file /\ "lose" \notin faults /\ Fault("delete")
  /\ dir' = [dir EXCEPT !.file = FALSE, !.rows = {}, !.bad = {}]
  /\ UNCHANGED <<estate, disk, health, tickets, task, atlas, daemon, history>>

Obscure(w) ==
  /\ journal[w] = "ok" /\ Fault("unreadable")
  /\ journal' = [journal EXCEPT ![w] = "unreadable"]
  /\ UNCHANGED <<journaled, dir, disk, health, tickets, task, atlas, daemon, history>>

Restore(w) ==
  /\ journal[w] = "unreadable"
  /\ journal' = [journal EXCEPT ![w] = "ok"]
  /\ UNCHANGED <<journaled, dir, disk, health, tickets, task, atlas, daemon, bounds, history>>

LoseJournal(w) ==
  /\ journal[w] = "ok" /\ "delete" \notin faults /\ Fault("lose")
  /\ journal' = [journal EXCEPT ![w] = "gone"]
  /\ UNCHANGED <<journaled, dir, disk, health, tickets, task, atlas, daemon, history>>

\* The daemon ends; with the machine, what was not synced may be lost too.
Stop(powerLoss) ==
  /\ daemon # "down" /\ deaths < MaxDeaths
  /\ daemon' = "down" /\ deaths' = deaths + 1
  /\ dir' = IF powerLoss THEN disk ELSE dir
  /\ health' = Unreconciled /\ tickets' = 0 /\ atlas' = "free"
  /\ task' = [t \in Threads |-> Idle]
  /\ UNCHANGED <<estate, disk, faults, calls, history>>

\* AtlasStore::open confirms the directory where there is a catalog to read; the
\* sweep of the start comes before the first connection.
Start ==
  /\ daemon = "down"
  /\ daemon' = "starting"
  /\ disk' = IF Catalog THEN dir ELSE disk
  /\ published' = published \cup disk'.rows
  /\ task' = [task EXCEPT !["admin"] = [Idle EXCEPT !.pc = "due"]]
  /\ UNCHANGED <<estate, dir, health, tickets, atlas, bounds, reviewed, unswept>>

-----------------------------------------------------------------------------

Next ==
  \/ \E t \in Threads :
       \/ \E r \in Row : Mutate(t, r)
       \/ LoseSweep(t) \/ TakeTicket(t) \/ ReadBasis(t) \/ WalkEstate(t)
       \/ Append(t) \/ Fsync(t) \/ Record(t)
  \/ RebuildWalk \/ RebuildRefuse \/ RebuildPreserve \/ RebuildWrite \/ Retire
  \/ CorruptLine \/ DeleteIndex
  \/ \E w \in Work : Obscure(w) \/ Restore(w) \/ LoseJournal(w)
  \/ \E powerLoss \in BOOLEAN : Stop(powerLoss)
  \/ Start

Spec == Init /\ [][Next]_vars

-----------------------------------------------------------------------------
(* Properties: what a reader is told. *)

PC == {"idle", "due", "ticket", "basis", "walked", "renamed", "publishing", "rebuild"}

\* Types; a line parses or it does not; and the mutex is held exactly by the one
\* thread that is between its write and its record.
TypeOK ==
  /\ journaled \subseteq Row /\ journal \in [Work -> {"ok", "unreadable", "gone"}]
  /\ \A d \in {dir, disk} :
       /\ d.file \in BOOLEAN /\ d.rows \subseteq Row /\ d.bad \subseteq Row
       /\ d.preserved \subseteq Row
       /\ d.rows \cap d.bad = {} /\ (~d.file => d.rows \cup d.bad = {})
  /\ health \in [projection : {"unreconciled", "synchronized", "unconfirmed", "behind"},
                 observation : 0..tickets, backing : {"unknown", "present", "absent"},
                 unconfirmed : BOOLEAN]
  /\ \A t \in Threads :
       /\ task[t].pc \in PC /\ task[t].ticket \in 0..tickets
       /\ task[t].rows \cup task[t].held \cup task[t].walk \subseteq Row
       /\ task[t].pc \in {"renamed", "publishing", "rebuild"} <=> atlas = t
  /\ atlas \in Threads \cup {"free"} /\ daemon \in {"down", "starting", "up"}

\* read_findings_with_health: the rows, and the health that describes them.
Answers == daemon = "up" /\ atlas = "free" /\ dir.bad = {}

Complete ==
  /\ Answers /\ health.projection = "synchronized"
  /\ ~(~dir.file /\ health.backing = "present")

\* Its own thread has not recorded its sweep yet.
InFlight(r) == \E t \in Threads : r \in task[t].rows

Projected(r) == r \in dir.rows \/ InFlight(r)

Holds(rows) == Complete => \A r \in rows : journal[WorkOf[r]] # "gone" => Projected(r)

\* An answer that says complete holds every row the journals hold, but for those
\* whose own sweep is still under way.
CompleteAlways == Holds(journaled)

\* The same for the rows that were swept for, as long as nobody removed the index
\* behind the daemon's back, and every row of such an answer survives a loss of power ...
CompleteIsTrue ==
  /\ TypeOK
  /\ "delete" \notin faults => Holds(journaled \ unswept)
  /\ Complete => dir.rows \subseteq disk.rows

\* ... and, when somebody did, as long as the file is not there.
AbsentIsNotEmpty == ~dir.file => Holds(journaled \ unswept)

\* A row once on disk whose journal is gone is still in a complete answer, or
\* a person has reviewed the bytes it was last seen in: no reconciliation,
\* rebuild or restart makes the estate forget that it lost something.
NoLaundering ==
  Complete => \A r \in published : journal[WorkOf[r]] = "gone" => r \in dir.rows \cup reviewed

=============================================================================
