------------------------------- MODULE Custody -------------------------------
(***************************************************************************)
(* What a Work's journal says was claimed is there to be read: the outputs *)
(* of validated Claims, published write-once under outputs/claims before   *)
(* the ClaimRecorded that names them, the receipts of files that stay in a *)
(* checkout, and `wirk work clean`, which removes checkout and staging.    *)
(*                                                                         *)
(* The journal is Journal's, with its failed writes, kills and losses of   *)
(* power.  A Claim publishes under the Work's guard; clean reads the       *)
(* journal under the guard, then decides and removes with no guard held.   *)
(* Every step is one of Journal or leaves its variables alone, so that     *)
(* what JournalProofs proves holds here as well.                           *)
(***************************************************************************)
EXTENDS Journal

CONSTANTS
  MaxClaims,   \* bound: Claims
  MaxEdits,    \* bound: contents the actor gives its output
  ParentsKept  \* does fsync of a directory keep the directory's own name?

ASSUME CustodyAssumption ==
  MaxClaims \in Nat /\ MaxEdits \in Nat \ {0} /\ ParentsKept \in BOOLEAN

VARIABLES
  said,       \* what each event handed to append says
  output,     \* the content of the actor's output, 0 when it is gone
  checkout,   \* does the checkout or owned directory stand, whole?
  snapshot,   \* per Claim: its file under outputs/claims
  claim,      \* the Claim that is being decided
  clean,      \* how far a `work clean` is
  uncertain   \* history: Claims whose directory fsync failed, which is logged

store == <<output, checkout, snapshot, uncertain>>
held  == <<claim, clean>>

Claims  == 1..MaxClaims
Content == 1..MaxEdits
Part    == MaxEdits + 1   \* some of a content

\* How a Claim's artifact is kept: staged bytes, read when it is validated; a
\* file of an owned directory, streamed as it is published; a file that stays.
Managed == {"bytes", "stream"}

NoSnapshot == [at |-> "none", body |-> 0, synced |-> FALSE, kept |-> FALSE]
NoClaim    == [pc |-> "idle", n |-> 0, artifact |-> "bytes", digest |-> 0]

Event(k) == [k |-> k, n |-> 0, artifact |-> "none", digest |-> 0]

CustodyInit ==
  /\ Init
  /\ said = <<>>
  /\ output = 1 /\ checkout = TRUE
  /\ snapshot = [c \in Claims |-> NoSnapshot]
  /\ claim = NoClaim /\ clean = "idle"
  /\ uncertain = {}

-----------------------------------------------------------------------------
(* What a replay returns. *)

Told == {said[file[i].event] : i \in 1..Len(file)}

Ended == \E e \in Told : e.k = "ended"

Receipts == {e \in Told : e.k = "claimed"}

InCheckout(receipts) == {e \in receipts : e.artifact = "worktree"}

-----------------------------------------------------------------------------
(* Handlers of the Work, one at a time under its guard. *)

Free == claim.pc = "idle" /\ clean # "recording"

Takes == Begin /\ Free /\ UNCHANGED <<said, store, held>>

Returns == End /\ Free /\ UNCHANGED <<said, store, held>>

\* The next event says e; its append succeeds so far, or fails.
Says(e) == (Write \/ WriteFails) /\ said' = Append(said, e)

AnyEvent ==
  /\ Free
  /\ \E k \in {"other"} \cup (IF Ended THEN {} ELSE {"ended"}) : Says(Event(k))
  /\ UNCHANGED <<store, held>>

\* handle_claim: everything else validated, and the artifact read or opened.
Validate ==
  /\ Begin /\ Free
  /\ ~Ended /\ output # 0
  /\ claim.n < MaxClaims
  /\ \E artifact \in Managed \cup {"worktree"} :
       /\ artifact # "bytes" => checkout
       /\ claim' = [n |-> claim.n + 1, artifact |-> artifact, digest |-> output,
                    pc |-> IF artifact \in Managed THEN "publish" ELSE "record"]
  /\ UNCHANGED <<said, store, clean>>

-----------------------------------------------------------------------------
(* publish, of the Claim's one output. *)

Publishing(pc) == claim.pc = pc /\ UNCHANGED <<said, output, checkout, clean>>

Quietly == UNCHANGED vars

Goto(pc) == claim' = [claim EXCEPT !.pc = pc]

Stored(s) == snapshot' = [snapshot EXCEPT ![claim.n] = s]

\* A stream is hashed as it is copied.
Fill ==
  /\ Publishing("publish")
  /\ LET body == IF claim.artifact = "stream" THEN output ELSE claim.digest IN
       /\ Stored([at |-> "temp", body |-> body, synced |-> FALSE, kept |-> FALSE])
       /\ claim' = [claim EXCEPT !.pc = "filled", !.digest = body]
  /\ Quietly /\ UNCHANGED uncertain

SyncBodyLater ==   \* mutant: renamed before its content is on the disk
  /\ Publishing("filled")
  /\ Goto("synced")
  /\ Quietly /\ UNCHANGED <<snapshot, uncertain>>

SyncBody ==
  /\ Publishing("filled")
  /\ Goto("synced") /\ Stored([snapshot[claim.n] EXCEPT !.synced = TRUE])
  /\ Quietly /\ UNCHANGED uncertain

Rename ==
  /\ Publishing("synced")
  /\ Goto("renamed") /\ Stored([snapshot[claim.n] EXCEPT !.at = "named"])
  /\ Quietly /\ UNCHANGED uncertain

SyncName ==
  /\ Publishing("renamed")
  /\ Goto("record") /\ Stored([snapshot[claim.n] EXCEPT !.kept = TRUE])
  /\ Quietly /\ UNCHANGED uncertain

\* DurabilityUncertain: logged, and the receipt is recorded.
SyncNameFails ==
  /\ Publishing("renamed")
  /\ Goto("record") /\ uncertain' = uncertain \cup {claim.n}
  /\ Quietly /\ UNCHANGED snapshot

\* Any other failure, or a stream whose file changed its length: refused.
\* What is left of the temporary file is never looked at again.
PublishFails ==
  /\ claim.pc \in {"publish", "filled", "synced"}
  /\ Publishing(claim.pc)
  /\ Goto("refuse") /\ Stored(NoSnapshot)
  /\ Quietly /\ UNCHANGED uncertain

-----------------------------------------------------------------------------
(* record_and_reply; what follows a recorded Claim is AnyEvent. *)

Receipt == [k |-> "claimed", n |-> claim.n, artifact |-> claim.artifact,
            digest |-> claim.digest]

Answers == Goto("idle") /\ UNCHANGED <<store, clean>>

\* ClaimFiled first; without it nothing is recorded of the Claim.
FileClaim ==
  /\ claim.pc \in {"record", "refuse"}
  /\ Write /\ said' = Append(said, Event("filed"))
  /\ Goto(IF claim.pc = "record" THEN "filed" ELSE "refused")
  /\ UNCHANGED <<store, clean>>

FilingFails ==
  /\ \/ /\ claim.pc \in {"record", "refuse"}
        /\ WriteFails /\ said' = Append(said, Event("filed"))
     \/ /\ claim.pc \in {"filed", "refused"}
        /\ SyncFails /\ UNCHANGED said
  /\ Answers

RecordClaim ==
  /\ claim.pc \in {"filed", "refused"}
  /\ Says(IF claim.pc = "filed" THEN Receipt ELSE Event("refused"))
  /\ Answers

-----------------------------------------------------------------------------
(* clean_work. *)

Cleaning(pc) == nextSeq # 0 /\ clean = pc

\* Under the guard, for the replay; the checks follow with no guard held.
CleanReadAny ==   \* mutant: the Work need not have ended
  /\ Cleaning("idle") /\ ~writing /\ Readable
  /\ InCheckout(Receipts) = {}
  /\ clean' = "checked"
  /\ Quietly /\ UNCHANGED <<said, store, claim>>

CleanRead ==
  /\ Cleaning("idle") /\ ~writing /\ Readable
  /\ Ended
  /\ InCheckout(Receipts) = {}
  /\ clean' = "checked"
  /\ Quietly /\ UNCHANGED <<said, store, claim>>

\* What cannot be proven to be this Work's own directory is left alone.
RemoveCheckout ==
  /\ Cleaning("checked")
  /\ checkout' \in {FALSE, checkout}
  /\ clean' = "removed"
  /\ Quietly /\ UNCHANGED <<said, output, snapshot, claim, uncertain>>

\* RemovalFailed: perhaps half way, and nothing is journaled.
RemovalFails ==
  /\ Cleaning("checked")
  /\ checkout' \in {FALSE, checkout}
  /\ clean' = "idle"
  /\ Quietly /\ UNCHANGED <<said, output, snapshot, claim, uncertain>>

\* Pins, and staging when asked to; a failure ends the loop, not the call.
RemoveRest ==
  /\ Cleaning("removed")
  /\ output' \in {0, output}
  /\ clean' = "cleared"
  /\ Quietly /\ UNCHANGED <<said, checkout, snapshot, claim, uncertain>>

CleanTakes ==
  /\ Cleaning("cleared") /\ claim.pc = "idle"
  /\ BeginUnread
  /\ clean' = "recording"
  /\ UNCHANGED <<said, store, claim>>

RecordCleaned ==
  /\ Cleaning("recording")
  /\ Says(Event("cleaned"))
  /\ clean' = "idle"
  /\ UNCHANGED <<store, claim>>

-----------------------------------------------------------------------------
(* The actor, and what ends everything. *)

Edits ==
  /\ output # 0 /\ checkout
  /\ output < MaxEdits
  /\ output' = output + 1
  /\ Quietly /\ UNCHANGED <<said, checkout, snapshot, held, uncertain>>

Syncs == Sync /\ UNCHANGED <<said, store, held>>

SyncsNot == SyncFails /\ claim.pc = "idle" /\ UNCHANGED <<said, store, held>>

Opens == Open /\ UNCHANGED <<said, store, held>>

Forgets ==
  /\ claim' = [NoClaim EXCEPT !.n = claim.n]
  /\ clean' = "idle"
  /\ UNCHANGED <<said, output, checkout, uncertain>>

\* A temporary file is never found again: the next Claim has another id.
Named(s) == IF s.at = "named" THEN s ELSE NoSnapshot

KillAll == Kill /\ Forgets /\ snapshot' = [c \in Claims |-> Named(snapshot[c])]

\* A file that was renamed may be back under its old name, or whole
\* directories gone; what was not fsynced of its content may be lost.
AfterLoss(s) ==
  {IF s.synced THEN Named(s) ELSE [Named(s) EXCEPT !.body = Part]}
    \cup (IF s.kept /\ ParentsKept THEN {} ELSE {NoSnapshot})

PowerLossAll ==
  /\ PowerLoss /\ Forgets
  /\ \E f \in [Claims -> UNION {AfterLoss(snapshot[c]) : c \in Claims}] :
       /\ \A c \in Claims : f[c] \in AfterLoss(snapshot[c])
       /\ snapshot' = f

-----------------------------------------------------------------------------

CustodyNext ==
  \/ Opens \/ Takes \/ AnyEvent \/ Syncs \/ SyncsNot \/ Returns
  \/ Validate \/ Fill \/ SyncBody \/ Rename \/ SyncName \/ SyncNameFails
  \/ PublishFails \/ FileClaim \/ FilingFails \/ RecordClaim
  \/ CleanRead \/ RemoveCheckout \/ RemovalFails \/ RemoveRest \/ CleanTakes
  \/ RecordCleaned
  \/ Edits \/ KillAll \/ PowerLossAll

CustodySpec == CustodyInit /\ [][CustodyNext]_<<vars, said, store, held>>

-----------------------------------------------------------------------------

EventType == [k : {"other", "ended", "filed", "claimed", "refused", "cleaned"}, n : 0..MaxClaims,
              artifact : Managed \cup {"worktree", "none"}, digest : 0..MaxEdits]

SnapshotType == [at : {"none", "temp", "named"}, body : 0..Part,
                 synced : BOOLEAN, kept : BOOLEAN]

ClaimType == [pc : {"idle", "publish", "filled", "synced", "renamed", "record", "refuse",
                    "filed", "refused"},
              n : 0..MaxClaims, artifact : Managed \cup {"worktree"}, digest : 0..MaxEdits]

CustodyTypeOK ==
  /\ TypeOK
  /\ said \in Seq(EventType) /\ Len(said) = minted
  /\ output \in 0..MaxEdits /\ checkout \in BOOLEAN
  /\ snapshot \in [Claims -> SnapshotType]
  /\ claim \in ClaimType
  /\ clean \in {"idle", "checked", "removed", "cleared", "recording"}
  /\ uncertain \subseteq Claims
  /\ claim.pc # "idle" \/ clean = "recording" => writing

\* A file under outputs/claims has the content whole that was published there.
NamedIsWhole == \A c \in Claims : snapshot[c].at = "named" => snapshot[c].body \in Content

\* What a replay says was claimed is in custody with the digest the receipt
\* records, unless wirkd has logged that it may not be.
ClaimedIsKept ==
  \A e \in Receipts :
    e.artifact \in Managed /\ e.n \notin uncertain =>
      snapshot[e.n].at = "named" /\ snapshot[e.n].body = e.digest

\* clean has not removed the checkout that is the only place of a receipt.
CleanSpares == InCheckout(Receipts) # {} => checkout

\* A journal that replays names no evidence that is not there, whatever was
\* rewritten, removed, killed or lost between the reading of an output and the
\* record of its Claim, or after ("durable before referenced", handle_claim;
\* ClaimEvidenceInCheckout, clean_work).
EvidenceStands ==
  CustodyTypeOK /\ NamedIsWhole /\ (Readable => ClaimedIsKept /\ CleanSpares)

=============================================================================
