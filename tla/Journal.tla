------------------------------- MODULE Journal -------------------------------
(***************************************************************************)
(* One Work's journal.ndjson (Journal, EnvelopeIter in                     *)
(* src/wirk-core/src/lib.rs): appends through the daemon's one handle,     *)
(* writes that stop half way, a failed fsync, the end of the process and   *)
(* the loss of power.                                                      *)
(*                                                                         *)
(* `file` holds what each write put into the file, in file order.  A line  *)
(* is what stands between two newlines, so a piece without its newline     *)
(* and the piece written after it are one line, and no envelope.           *)
(***************************************************************************)
EXTENDS Naturals, Sequences

CONSTANTS
  MaxAppends,   \* bound: events handed to append
  MaxFaults,    \* bound: writes and fsyncs that fail
  MaxLosses,    \* bound: losses of power
  MaxKills      \* bound: ends of the process

ASSUME JournalAssumption ==
  MaxAppends \in Nat /\ MaxFaults \in Nat /\ MaxLosses \in Nat /\ MaxKills \in Nat

VARIABLES
  file,      \* the pieces written, each [seq, event, whole, ended]
  synced,    \* how many of them are on the disk for good
  nextSeq,   \* Journal.next_seq, 0 while no handle is open
  writing,   \* a handler has replayed the journal and is appending to it
  pending,   \* the event written and not yet fsynced, 0 when none
  minted,    \* events handed to append so far; the n-th is n
  acked,     \* events whose append returned Ok
  faults,
  losses,
  kills

handle == <<nextSeq, writing, pending>>
vars == <<file, synced, handle, minted, acked, faults, losses, kills>>

-----------------------------------------------------------------------------
(* Reading (EnvelopeIter::next). *)

\* The i-th line parses as one envelope and carries the expected number.
Good(i) ==
  /\ file[i].whole
  /\ i < Len(file) => file[i].ended
  /\ file[i].seq = i

\* replay returns Ok: one bad line and it returns nothing but the error.
Readable == \A i \in 1..Len(file) : Good(i)

-----------------------------------------------------------------------------

Init ==
  /\ file = <<>>
  /\ synced = 0
  /\ nextSeq = 0
  /\ writing = FALSE
  /\ pending = 0
  /\ minted = 0
  /\ acked = {}
  /\ faults = 0
  /\ losses = 0
  /\ kills = 0

OpenAtOne ==   \* mutant: next_seq is not recovered from the file
  /\ nextSeq = 0
  /\ Readable
  /\ nextSeq' = 1
  /\ UNCHANGED <<file, synced, writing, pending, minted, acked, faults, losses,
                 kills>>

\* Journal::open.  A journal that does not replay is not opened.
Open ==
  /\ nextSeq = 0
  /\ Readable
  /\ nextSeq' = Len(file) + 1
  /\ UNCHANGED <<file, synced, writing, pending, minted, acked, faults, losses,
                 kills>>

\* A handler takes the guard and replays before it appends anything.
Begin ==
  /\ nextSeq # 0
  /\ ~writing
  /\ Readable
  /\ writing' = TRUE
  /\ UNCHANGED <<file, synced, nextSeq, pending, minted, acked, faults, losses,
                 kills>>

\* clean_work and record_transition_failure take it again and append unread.
BeginUnread ==
  /\ nextSeq # 0
  /\ ~writing
  /\ writing' = TRUE
  /\ UNCHANGED <<file, synced, nextSeq, pending, minted, acked, faults, losses,
                 kills>>

End ==
  /\ writing
  /\ pending = 0
  /\ writing' = FALSE
  /\ UNCHANGED <<file, synced, nextSeq, pending, minted, acked, faults, losses,
                 kills>>

Appending ==
  /\ writing
  /\ pending = 0
  /\ minted < MaxAppends

Piece(whole, ended) ==
  [seq |-> nextSeq, event |-> minted + 1, whole |-> whole, ended |-> ended]

WriteAcknowledged ==   \* mutant: append returns before the fsync
  /\ Appending
  /\ file' = Append(file, Piece(TRUE, TRUE))
  /\ minted' = minted + 1
  /\ nextSeq' = nextSeq + 1
  /\ acked' = acked \cup {minted + 1}
  /\ UNCHANGED <<synced, writing, pending, faults, losses, kills>>

\* append: write_all, then sync_all, then the acknowledgement.
Write ==
  /\ Appending
  /\ file' = Append(file, Piece(TRUE, TRUE))
  /\ minted' = minted + 1
  /\ pending' = minted + 1
  /\ UNCHANGED <<synced, nextSeq, writing, acked, faults, losses, kills>>

Sync ==
  /\ pending # 0
  /\ synced' = Len(file)
  /\ nextSeq' = nextSeq + 1
  /\ acked' = acked \cup {pending}
  /\ pending' = 0
  /\ UNCHANGED <<file, writing, minted, faults, losses, kills>>

\* write_all fails, with nothing, part or all but the newline of the line in
\* the file.  The handler returns the error or, as a Claim's does, carries on.
WriteFails ==
  /\ Appending
  /\ faults < MaxFaults
  /\ faults' = faults + 1
  /\ \/ UNCHANGED file
     \/ \E whole \in BOOLEAN : file' = Append(file, Piece(whole, FALSE))
  /\ minted' = minted + 1
  /\ writing' \in BOOLEAN
  /\ UNCHANGED <<synced, nextSeq, pending, acked, losses, kills>>

\* sync_all fails: append returns the error, next_seq stays, the line too.
SyncFails ==
  /\ pending # 0
  /\ faults < MaxFaults
  /\ faults' = faults + 1
  /\ pending' = 0
  /\ writing' \in BOOLEAN
  /\ UNCHANGED <<file, synced, nextSeq, minted, acked, losses, kills>>

-----------------------------------------------------------------------------

\* The process ends; what it wrote stays in the file.
Kill ==
  /\ nextSeq # 0
  /\ kills < MaxKills
  /\ kills' = kills + 1
  /\ nextSeq' = 0
  /\ writing' = FALSE
  /\ pending' = 0
  /\ UNCHANGED <<file, synced, minted, acked, faults, losses>>

Torn(piece, whole) == [piece EXCEPT !.whole = whole, !.ended = FALSE]

\* What was fsynced stays; of the rest some is lost, the last piece left
\* perhaps in part.
PowerLoss ==
  /\ losses < MaxLosses
  /\ losses' = losses + 1
  /\ \E n \in synced..Len(file) :
       \/ file' = SubSeq(file, 1, n)
       \/ /\ n < Len(file)
          /\ \E whole \in BOOLEAN :
               file' = Append(SubSeq(file, 1, n), Torn(file[n + 1], whole))
  /\ synced' = Len(file')
  /\ nextSeq' = 0
  /\ writing' = FALSE
  /\ pending' = 0
  /\ UNCHANGED <<minted, acked, faults, kills>>

Next ==
  \/ Open
  \/ Begin
  \/ BeginUnread
  \/ End
  \/ Write
  \/ Sync
  \/ WriteFails
  \/ SyncFails
  \/ Kill
  \/ PowerLoss

Spec == Init /\ [][Next]_vars

-----------------------------------------------------------------------------

PieceType ==
  [seq : 1..(MaxAppends + 1), event : 1..MaxAppends, whole : BOOLEAN,
   ended : BOOLEAN]

\* Every variable in its range; a written piece waits for its fsync only at
\* the end of the file, and no more is on the disk than was written.
TypeOK ==
  /\ file \in Seq(PieceType)
  /\ synced \in 0..Len(file)
  /\ nextSeq \in 0..(MaxAppends + 1)
  /\ writing \in BOOLEAN
  /\ pending \in 0..MaxAppends
  /\ pending # 0 => Len(file) > 0 /\ file[Len(file)].event = pending
  /\ minted \in 0..MaxAppends
  /\ acked \subseteq 1..MaxAppends
  /\ faults \in 0..MaxFaults
  /\ losses \in 0..MaxLosses
  /\ kills \in 0..MaxKills

\* A replay that succeeds returns every acknowledged event, once each and in
\* the order they were appended, however many writes and processes failed
\* meanwhile: whatever was lost was never acknowledged (Journal::append,
\* "every acknowledged append is durable"; "never silently skipped").
FailsClosed ==
  Readable =>
    /\ \A e \in acked : \E i \in 1..Len(file) : file[i].event = e
    /\ \A i, j \in 1..Len(file) : i < j => file[i].event < file[j].event

\* A process that only ends, however often and between whichever two steps,
\* never leaves a journal that does not replay.
KillsAreHarmless == (faults = 0 /\ losses = 0) => Readable

\* Between two appends, the handle of a journal that replays numbers the next
\* line after the last one ("Every append goes through one write path that
\* keeps any derived state contiguous with the journal", Journal).
StaysContiguous ==
  (nextSeq # 0 /\ pending = 0 /\ Readable) => nextSeq = Len(file) + 1

=============================================================================
