---------------------------- MODULE JournalProofs ----------------------------
(***************************************************************************)
(* A journal that replays returns what was acknowledged (FailsClosed), for *)
(* every number of appends, faults, losses of power and processes.  The    *)
(* invariant: the events on the disk for good contain the acknowledged     *)
(* ones, and the file holds events in the order they were handed over.     *)
(* Then, for the Work that writes it: what its receipts name is kept.      *)
(***************************************************************************)
EXTENDS Custody, SequenceTheorems, TLAPS

\* Every acknowledged event is in the part of the file that was fsynced.
AckedIsSynced == \A e \in acked : \E i \in 1..synced : file[i].event = e

\* Events stand in the file in the order they were handed to append.
InOrder ==
  /\ \A i, j \in 1..Len(file) : i < j => file[i].event < file[j].event
  /\ \A i \in 1..Len(file) : file[i].event <= minted

\* Only an open journal is written to, and its next number is never ahead of
\* the events handed to append.
SeqBehind ==
  /\ writing => nextSeq # 0
  /\ pending # 0 => writing /\ nextSeq <= minted
  /\ nextSeq <= minted + 1
  /\ Len(file) <= minted

JInv == TypeOK /\ AckedIsSynced /\ InOrder /\ SeqBehind

-----------------------------------------------------------------------------

\* Putting a piece at the end of the file leaves the pieces before it.
LEMMA AppendKeeps ==
  ASSUME NEW S, NEW s \in Seq(S), NEW e \in S
  PROVE  /\ Append(s, e) \in Seq(S)
         /\ Len(Append(s, e)) = Len(s) + 1
         /\ \A i \in 1..Len(s) : Append(s, e)[i] = s[i]
         /\ Append(s, e)[Len(s) + 1] = e
BY AppendProperties

LEMMA FileFacts ==
  ASSUME TypeOK
  PROVE  /\ file \in Seq(PieceType)
         /\ Len(file) \in Nat
         /\ synced \in Nat /\ synced <= Len(file)
         /\ nextSeq \in Nat /\ minted \in Nat /\ pending \in Nat
         /\ \A i \in 1..Len(file) : file[i] \in PieceType /\ file[i].event \in Nat
<1>1. file \in Seq(PieceType) /\ Len(file) \in Nat
  BY DEF TypeOK
<1>2. \A i \in 1..Len(file) : file[i] \in PieceType
  BY <1>1
<1>3. \A i \in 1..Len(file) : file[i].event \in Nat
  BY <1>2, JournalAssumption DEF PieceType
<1>4. QED
  BY <1>1, <1>2, <1>3, JournalAssumption DEF TypeOK

\* The pieces up to the n-th, and one more that holds the event it held.
LEMMA TornKeeps ==
  ASSUME TypeOK, NEW n \in Nat, n < Len(file), synced <= n,
         NEW piece \in PieceType, piece.event = file[n + 1].event,
         NEW f, f = Append(SubSeq(file, 1, n), piece)
  PROVE  /\ f \in Seq(PieceType)
         /\ synced <= Len(f)
         /\ Len(f) <= Len(file)
         /\ \A i \in 1..Len(f) : f[i].event = file[i].event
<1>1. PICK s : s = SubSeq(file, 1, n)
  OBVIOUS
<1>2. s \in Seq(PieceType) /\ Len(s) = n /\ \A i \in 1..n : s[i] = file[i]
  BY <1>1, FileFacts
<1>3. f = Append(s, piece)
  BY <1>1
<1>4. /\ f \in Seq(PieceType)
      /\ Len(f) = n + 1
      /\ \A i \in 1..n : f[i] = s[i]
      /\ f[n + 1] = piece
  BY <1>2, <1>3, AppendKeeps
<1>5. \A i \in 1..n : f[i].event = file[i].event
  BY <1>2, <1>4
<1>6. f[n + 1].event = file[n + 1].event
  BY <1>4
<1>7. \A i \in 1..(n + 1) : i \in 1..n \/ i = n + 1
  OBVIOUS
<1>8. \A i \in 1..(n + 1) : f[i].event = file[i].event
  BY <1>5, <1>6, <1>7
<1>9. QED
  BY <1>4, <1>8, FileFacts

\* What remains after a loss of power: at least what was fsynced, each piece
\* with the event it had.
LEMMA PowerLossKeeps ==
  ASSUME TypeOK, PowerLoss
  PROVE  /\ file' \in Seq(PieceType)
         /\ synced <= Len(file')
         /\ Len(file') <= Len(file)
         /\ \A i \in 1..Len(file') : file'[i].event = file[i].event
<1>1. PICK n \in synced..Len(file) :
        \/ file' = SubSeq(file, 1, n)
        \/ /\ n < Len(file)
           /\ \E whole \in BOOLEAN :
                file' = Append(SubSeq(file, 1, n), Torn(file[n + 1], whole))
  BY DEF PowerLoss
<1>2. n \in Nat /\ n <= Len(file) /\ synced <= n
  BY <1>1, FileFacts
<1>3. CASE file' = SubSeq(file, 1, n)
  <2>1. file' \in Seq(PieceType) /\ Len(file') = n /\ \A i \in 1..n : file'[i] = file[i]
    BY <1>2, <1>3, FileFacts
  <2>2. QED
    BY <1>2, <2>1, FileFacts
<1>4. ASSUME n < Len(file), NEW whole \in BOOLEAN,
             file' = Append(SubSeq(file, 1, n), Torn(file[n + 1], whole))
      PROVE  /\ file' \in Seq(PieceType)
             /\ synced <= Len(file')
             /\ Len(file') <= Len(file)
             /\ \A i \in 1..Len(file') : file'[i].event = file[i].event
  <2>1. file[n + 1] \in PieceType
    BY <1>2, <1>4, FileFacts
  <2>2. /\ Torn(file[n + 1], whole) \in PieceType
        /\ Torn(file[n + 1], whole).event = file[n + 1].event
    BY <2>1 DEF Torn, PieceType
  <2>3. QED
    BY <1>2, <1>4, <2>2, TornKeeps
<1>5. QED
  BY <1>1, <1>3, <1>4

-----------------------------------------------------------------------------

LEMMA InitInv == ASSUME Init PROVE JInv
<1>1. file = <<>> /\ Len(file) = 0 /\ file \in Seq(PieceType)
  BY DEF Init
<1>2. 0 \in 0..(MaxAppends + 1)
  BY JournalAssumption
<1>3. writing \in BOOLEAN
  BY DEF Init
<1>4. pending = 0 => (pending # 0 => Len(file) > 0 /\ file[Len(file)].event = pending)
  OBVIOUS
<1>5. TypeOK
  BY <1>1, <1>2, <1>3, <1>4, JournalAssumption DEF Init, TypeOK
<1>6. QED
  BY <1>1, <1>5 DEF Init, JInv, AckedIsSynced, InOrder, SeqBehind

\* A piece written at the end of the file, however it ended, keeps the order.
LEMMA PieceKeeps ==
  ASSUME JInv, Appending, NEW whole \in BOOLEAN, NEW ended \in BOOLEAN,
         file' = Append(file, Piece(whole, ended)),
         minted' = minted + 1, UNCHANGED <<synced, acked>>
  PROVE  /\ file' \in Seq(PieceType)
         /\ Len(file') = Len(file) + 1
         /\ file'[Len(file')].event = minted + 1
         /\ AckedIsSynced'
         /\ InOrder'
<1>1. Piece(whole, ended) \in PieceType /\ Piece(whole, ended).event = minted + 1
  BY JournalAssumption DEF JInv, TypeOK, SeqBehind, Appending, Piece, PieceType
<1>2. file \in Seq(PieceType) /\ Len(file) \in Nat
  BY DEF JInv, TypeOK
<1>3. /\ file' \in Seq(PieceType)
      /\ Len(file') = Len(file) + 1
      /\ \A i \in 1..Len(file) : file'[i] = file[i]
      /\ file'[Len(file) + 1] = Piece(whole, ended)
  BY <1>1, <1>2, AppendKeeps
<1>4. synced \in 0..Len(file) /\ synced' = synced /\ acked' = acked
  BY DEF JInv, TypeOK
<1>5. AckedIsSynced'
  BY <1>2, <1>3, <1>4 DEF JInv, AckedIsSynced
<1>6. \A i \in 1..Len(file) : file[i].event \in Nat /\ file[i].event <= minted
  BY FileFacts DEF JInv, InOrder
<1>7. InOrder'
  <2>1. minted \in Nat /\ minted' = minted + 1
    BY FileFacts DEF JInv
  <2>2. \A i \in 1..Len(file') : file'[i].event <= minted'
    BY <1>1, <1>2, <1>3, <1>6, <2>1
  <2>3. \A i, j \in 1..Len(file') : i < j => file'[i].event < file'[j].event
    <3>1. TAKE i, j \in 1..Len(file')
    <3>2. HAVE i < j
    <3>3. i \in 1..Len(file) /\ file'[i] = file[i]
      BY <1>2, <1>3, <3>2
    <3>4. CASE j \in 1..Len(file)
      BY <1>3, <3>2, <3>3, <3>4 DEF JInv, InOrder
    <3>5. CASE j = Len(file) + 1
      BY <1>1, <1>3, <1>6, <2>1, <3>3, <3>5
    <3>6. QED
      BY <1>2, <1>3, <3>4, <3>5
  <2>4. QED
    BY <2>2, <2>3 DEF InOrder
<1>8. QED
  BY <1>1, <1>2, <1>3, <1>5, <1>7

\* A step that leaves the file, what is on the disk and what was acknowledged.
LEMMA SameFile ==
  ASSUME JInv, UNCHANGED <<file, synced, acked, minted>>
  PROVE  AckedIsSynced' /\ InOrder' /\ Len(file') <= minted'
BY DEF JInv, AckedIsSynced, InOrder, SeqBehind

LEMMA NextInv == ASSUME JInv, [Next]_vars PROVE JInv'
<1> USE JournalAssumption
<1>0. TypeOK /\ AckedIsSynced /\ InOrder /\ SeqBehind
  BY DEF JInv
<1>a. /\ file \in Seq(PieceType) /\ Len(file) \in Nat
      /\ synced \in Nat /\ synced <= Len(file)
      /\ nextSeq \in Nat /\ minted \in Nat /\ pending \in Nat
  BY <1>0, FileFacts
<1>c. 0 \in 0..(MaxAppends + 1)
  OBVIOUS
<1>b. minted <= MaxAppends /\ Len(file) <= minted
  BY <1>0 DEF TypeOK, SeqBehind
<1>1. CASE Open
  <2>1. UNCHANGED <<file, synced, writing, pending, minted, acked, faults, losses, kills>>
          /\ nextSeq = 0 /\ nextSeq' = Len(file) + 1
    BY <1>1 DEF Open
  <2>2. nextSeq' \in 0..(MaxAppends + 1)
    BY <1>a, <1>b, <2>1
  <2>3. TypeOK'
    BY <1>0, <2>1, <2>2 DEF TypeOK
  <2>4. SeqBehind'
    BY <1>0, <1>a, <1>b, <2>1 DEF SeqBehind
  <2>5. QED
    BY <2>1, <2>3, <2>4, SameFile DEF JInv
<1>2. CASE Begin
  <2>1. TypeOK' /\ SeqBehind'
    BY <1>0, <1>2 DEF Begin, TypeOK, SeqBehind
  <2>2. QED
    BY <1>2, <2>1, SameFile DEF Begin, JInv
<1>2a. CASE BeginUnread
  <2>1. TypeOK' /\ SeqBehind'
    BY <1>0, <1>2a DEF BeginUnread, TypeOK, SeqBehind
  <2>2. QED
    BY <1>2a, <2>1, SameFile DEF BeginUnread, JInv
<1>3. CASE End
  <2>1. TypeOK' /\ SeqBehind'
    BY <1>0, <1>3 DEF End, TypeOK, SeqBehind
  <2>2. QED
    BY <1>3, <2>1, SameFile DEF End, JInv
<1>4. CASE Write
  <2>1. Appending /\ UNCHANGED <<synced, nextSeq, writing, acked, faults, losses, kills>>
          /\ minted' = minted + 1 /\ pending' = minted + 1
          /\ file' = Append(file, Piece(TRUE, TRUE))
    BY <1>4 DEF Write
  <2>2. /\ file' \in Seq(PieceType)
        /\ Len(file') = Len(file) + 1
        /\ file'[Len(file')].event = minted + 1
        /\ AckedIsSynced'
        /\ InOrder'
    BY <2>1, PieceKeeps
  <2>3. writing /\ minted + 1 <= MaxAppends /\ pending' # 0
    BY <1>a, <2>1 DEF Appending
  <2>4. writing' \in BOOLEAN
    BY <1>0, <2>1 DEF TypeOK
  <2>5. minted' = minted + 1 /\ pending' = minted + 1
    BY <1>4 DEF Write
  <2>6. pending' # 0 => Len(file') > 0 /\ file'[Len(file')].event = pending'
    BY <1>a, <2>5, <2>2
  <2>7. UNCHANGED <<synced, nextSeq, acked, faults, losses, kills>>
    BY <2>1
  <2>8. synced' \in 0..Len(file')
    BY <1>a, <2>2, <2>7
  <2>9. minted' \in 0..MaxAppends /\ pending' \in 0..MaxAppends
    BY <1>a, <2>3, <2>5
  <2>10. TypeOK'
    BY <1>0, <2>2, <2>4, <2>6, <2>7, <2>8, <2>9 DEF TypeOK
  <2>11. SeqBehind'
    BY <1>0, <1>a, <1>b, <2>1, <2>2, <2>3 DEF SeqBehind
  <2>12. QED
    BY <2>2, <2>10, <2>11 DEF JInv
<1>5. CASE Sync
  <2>1. /\ pending # 0 /\ pending' = 0
        /\ synced' = Len(file) /\ nextSeq' = nextSeq + 1
        /\ acked' = acked \cup {pending}
        /\ UNCHANGED <<file, writing, minted, faults, losses, kills>>
    BY <1>5 DEF Sync
  <2>2. Len(file) > 0 /\ file[Len(file)].event = pending /\ nextSeq <= minted
    BY <1>0, <2>1 DEF TypeOK, SeqBehind
  <2>3. AckedIsSynced'
    <3>1. SUFFICES ASSUME NEW e \in acked'
                   PROVE  \E i \in 1..synced' : file'[i].event = e
      BY DEF AckedIsSynced
    <3>2. CASE e \in acked
      <4>1. PICK i \in 1..synced : file[i].event = e
        BY <1>0, <3>2 DEF AckedIsSynced
      <4>2. i \in 1..synced' /\ file'[i].event = e
        BY <1>a, <2>1, <4>1
      <4>3. QED
        BY <4>2
    <3>3. CASE e = pending
      <4>1. Len(file) \in 1..synced' /\ file'[Len(file)].event = e
        BY <1>a, <2>1, <2>2, <3>3
      <4>2. QED
        BY <4>1
    <3>4. QED
      BY <2>1, <3>2, <3>3
  <2>4. InOrder'
    BY <1>0, <2>1 DEF InOrder
  <2>5. TypeOK'
    BY <1>0, <1>a, <1>b, <2>1, <2>2 DEF TypeOK
  <2>6. SeqBehind'
    BY <1>0, <1>a, <1>b, <2>1, <2>2 DEF SeqBehind
  <2>7. QED
    BY <2>3, <2>4, <2>5, <2>6 DEF JInv
<1>6. CASE WriteFails
  <2>1. Appending /\ UNCHANGED <<synced, nextSeq, pending, acked, losses, kills>>
          /\ minted' = minted + 1 /\ writing' \in BOOLEAN
          /\ faults' = faults + 1 /\ faults' \in 0..MaxFaults
    BY <1>0, <1>6 DEF WriteFails, TypeOK
  <2>2. writing /\ pending = 0 /\ minted + 1 <= MaxAppends
    BY <1>a, <2>1 DEF Appending
  <2>3. CASE file' = file
    <3>1. TypeOK'
      BY <1>0, <1>a, <1>b, <2>1, <2>2, <2>3 DEF TypeOK
    <3>2. SeqBehind'
      BY <1>0, <1>a, <1>b, <2>1, <2>2, <2>3 DEF SeqBehind
    <3>3. AckedIsSynced'
      BY <1>0, <2>1, <2>3 DEF AckedIsSynced
    <3>4. \A i \in 1..Len(file) : file[i].event \in Nat
      BY <1>0, FileFacts
    <3>5. InOrder'
      BY <1>0, <1>a, <2>1, <2>3, <3>4 DEF InOrder
    <3>6. QED
      BY <3>1, <3>2, <3>3, <3>5 DEF JInv
  <2>4. ASSUME NEW whole \in BOOLEAN, file' = Append(file, Piece(whole, FALSE))
        PROVE  JInv'
    <3>1. /\ file' \in Seq(PieceType)
          /\ Len(file') = Len(file) + 1
          /\ AckedIsSynced'
          /\ InOrder'
      BY <2>1, <2>4, PieceKeeps
    <3>2. TypeOK'
      BY <1>0, <1>a, <1>b, <2>1, <2>2, <3>1 DEF TypeOK
    <3>3. SeqBehind'
      BY <1>0, <1>a, <1>b, <2>1, <2>2, <3>1 DEF SeqBehind
    <3>4. QED
      BY <3>1, <3>2, <3>3 DEF JInv
  <2>5. QED
    BY <1>6, <2>3, <2>4 DEF WriteFails
<1>7. CASE SyncFails
  <2>1. TypeOK' /\ SeqBehind'
    BY <1>0, <1>7 DEF SyncFails, TypeOK, SeqBehind
  <2>2. QED
    BY <1>7, <2>1, SameFile DEF SyncFails, JInv
<1>8. CASE Kill
  <2>1. writing' \in BOOLEAN
    BY <1>8 DEF Kill
  <2>2. TypeOK'
    BY <1>0, <1>c, <1>8, <2>1 DEF Kill, TypeOK
  <2>3. SeqBehind'
    <3>1. ~writing' /\ nextSeq' = 0 /\ pending' = 0 /\ UNCHANGED <<file, minted>>
      BY <1>8 DEF Kill
    <3>2. QED
      BY <1>0, <1>a, <3>1 DEF SeqBehind
  <2>4. QED
    BY <1>8, <2>2, <2>3, SameFile DEF Kill, JInv
<1>9. CASE PowerLoss
  <2>1. /\ synced' = Len(file') /\ nextSeq' = 0 /\ pending' = 0
        /\ UNCHANGED <<minted, acked, faults, kills>>
        /\ ~writing'
    BY <1>9 DEF PowerLoss
  <2>2. writing' \in BOOLEAN
    BY <1>9 DEF PowerLoss
  <2>3. losses' \in 0..MaxLosses
    BY <1>0, <1>9 DEF PowerLoss, TypeOK
  <2>4. /\ file' \in Seq(PieceType)
        /\ synced <= Len(file')
        /\ Len(file') <= Len(file)
        /\ \A i \in 1..Len(file') : file'[i].event = file[i].event
    BY <1>0, <1>9, PowerLossKeeps
  <2>5. Len(file') \in Nat
    BY <2>4
  <2>6. AckedIsSynced'
    <3>1. SUFFICES ASSUME NEW e \in acked
                   PROVE  \E i \in 1..synced' : file'[i].event = e
      BY <2>1 DEF AckedIsSynced
    <3>2. PICK i \in 1..synced : file[i].event = e
      BY <1>0, <3>1 DEF AckedIsSynced
    <3>3. i \in 1..synced' /\ file'[i].event = e
      BY <1>a, <2>1, <2>4, <2>5, <3>2
    <3>4. QED
      BY <3>3
  <2>7. InOrder'
    <3>1. 1..Len(file') \subseteq 1..Len(file)
      BY <1>a, <2>4, <2>5
    <3>2. QED
      BY <1>0, <2>1, <2>4, <3>1 DEF InOrder
  <2>8. TypeOK'
    BY <1>0, <1>a, <1>c, <2>1, <2>4, <2>5, <2>2, <2>3 DEF TypeOK
  <2>9. SeqBehind'
    BY <1>0, <1>a, <1>b, <2>1, <2>4, <2>5 DEF SeqBehind
  <2>10. QED
    BY <2>6, <2>7, <2>8, <2>9 DEF JInv
<1>10. CASE UNCHANGED vars
  <2>1. TypeOK' /\ SeqBehind'
    BY <1>0, <1>10 DEF vars, handle, TypeOK, SeqBehind
  <2>2. QED
    BY <1>10, <2>1, SameFile DEF vars, JInv
<1>11. QED
  BY <1>1, <1>2, <1>2a, <1>3, <1>4, <1>5, <1>6, <1>7, <1>8, <1>9, <1>10 DEF Next

\* The journal's variables stay in their ranges and an append that waits for
\* its fsync is the last piece of the file (Journal::append, lib.rs).
THEOREM JournalTypeCorrect == Spec => []TypeOK
<1>1. JInv => TypeOK
  BY DEF JInv
<1>2. QED
  BY <1>1, InitInv, NextInv, PTL DEF Spec

\* A replay that succeeds returns every acknowledged event, once and in order,
\* whatever failed (Journal::append and EnvelopeIter, lib.rs).
THEOREM ReplayIsComplete == Spec => []FailsClosed
<1>1. JInv => FailsClosed
  <2>1. SUFFICES ASSUME JInv
                 PROVE  /\ \A e \in acked : \E i \in 1..Len(file) : file[i].event = e
                        /\ \A i, j \in 1..Len(file) :
                             i < j => file[i].event < file[j].event
    BY DEF FailsClosed
  <2>2. 1..synced \subseteq 1..Len(file)
    BY <2>1, FileFacts DEF JInv
  <2>3. QED
    BY <2>1, <2>2 DEF JInv, AckedIsSynced, InOrder
<1>2. QED
  BY <1>1, InitInv, NextInv, PTL DEF Spec

-----------------------------------------------------------------------------
(* A process that only ends damages nothing: until a write or an fsync     *)
(* fails or power is lost, the file is whole lines in sequence, and the    *)
(* handle numbers the next one after the last.                             *)

Sound ==
  (faults = 0 /\ losses = 0) =>
    /\ \A i \in 1..Len(file) : file[i].whole /\ file[i].ended /\ file[i].seq = i
    /\ nextSeq # 0 => nextSeq = IF pending = 0 THEN Len(file) + 1 ELSE Len(file)

\* A step that changes neither the file nor the handle's place in it.
LEMMA SoundStays ==
  ASSUME Sound, UNCHANGED <<file, faults, losses>>, pending' = pending,
         nextSeq' = nextSeq \/ nextSeq' = 0
  PROVE  Sound'
BY DEF Sound

LEMMA SoundNext == ASSUME JInv, Sound, [Next]_vars PROVE Sound'
<1>a. /\ file \in Seq(PieceType) /\ Len(file) \in Nat
      /\ nextSeq \in Nat /\ pending \in Nat /\ faults \in Nat /\ losses \in Nat
      /\ writing => nextSeq # 0
      /\ pending # 0 => nextSeq # 0
  BY FileFacts, JournalAssumption DEF JInv, TypeOK, SeqBehind
<1>1. CASE Open
  <2>1. nextSeq' = Len(file) + 1 /\ UNCHANGED <<file, pending, faults, losses>> /\ nextSeq = 0
    BY <1>1 DEF Open
  <2>2. pending = 0
    BY <1>a, <2>1
  <2>3. QED
    BY <2>1, <2>2 DEF Sound
<1>2. CASE Begin \/ BeginUnread \/ End
  BY <1>2, SoundStays DEF Begin, BeginUnread, End
<1>3. CASE Write
  <2>1. /\ writing /\ pending = 0 /\ pending' = minted + 1
        /\ file' = Append(file, Piece(TRUE, TRUE))
        /\ UNCHANGED <<nextSeq, faults, losses>>
    BY <1>3 DEF Write, Appending
  <2>2. Piece(TRUE, TRUE) \in PieceType
    <3>1. /\ nextSeq \in 1..(MaxAppends + 1) /\ minted + 1 \in 1..MaxAppends
          /\ TRUE \in BOOLEAN
      BY <1>3, <1>a, <2>1, JournalAssumption DEF JInv, TypeOK, Write, Appending
    <3>2. QED
      BY <3>1 DEF Piece, PieceType
  <2>3. /\ Len(file') = Len(file) + 1
        /\ \A i \in 1..Len(file) : file'[i] = file[i]
        /\ file'[Len(file) + 1] = Piece(TRUE, TRUE)
    BY <1>a, <2>1, <2>2, AppendKeeps
  <2>4. minted \in Nat
    BY FileFacts DEF JInv
  <2>5. SUFFICES ASSUME faults = 0, losses = 0
        PROVE  /\ \A i \in 1..Len(file') : file'[i].whole /\ file'[i].ended /\ file'[i].seq = i
               /\ nextSeq' = Len(file')
    <3>1. pending' # 0
      BY <2>1, <2>4
    <3>2. QED
      BY <2>1, <3>1 DEF Sound
  <2>6. nextSeq = Len(file) + 1
    BY <1>a, <2>1, <2>5 DEF Sound
  <2>7. \A i \in 1..Len(file) : file'[i].whole /\ file'[i].ended /\ file'[i].seq = i
    BY <2>3, <2>5 DEF Sound
  <2>8. LET p == file'[Len(file) + 1] IN p.whole /\ p.ended /\ p.seq = Len(file) + 1
    BY <2>3, <2>6 DEF Piece
  <2>9. ASSUME NEW i \in 1..Len(file')
        PROVE  file'[i].whole /\ file'[i].ended /\ file'[i].seq = i
    <3>1. i \in 1..Len(file) \/ i = Len(file) + 1
      BY <1>a, <2>3
    <3>2. QED
      BY <2>7, <2>8, <3>1
  <2>10. QED
    BY <2>1, <2>3, <2>6, <2>9
<1>4. CASE Sync
  <2>1. /\ pending # 0 /\ pending' = 0 /\ nextSeq' = nextSeq + 1
        /\ UNCHANGED <<file, faults, losses>>
    BY <1>4 DEF Sync
  <2>2. QED
    BY <1>a, <2>1 DEF Sound
<1>5. CASE WriteFails \/ SyncFails
  <2>1. faults' = faults + 1
    BY <1>5 DEF WriteFails, SyncFails
  <2>2. QED
    BY <1>a, <2>1 DEF Sound
<1>6. CASE Kill
  BY <1>6 DEF Kill, Sound
<1>7. CASE PowerLoss
  <2>1. losses' = losses + 1
    BY <1>7 DEF PowerLoss
  <2>2. QED
    BY <1>a, <2>1 DEF Sound
<1>8. CASE UNCHANGED vars
  BY <1>8, SoundStays DEF vars, handle
<1>9. QED
  BY <1>1, <1>2, <1>3, <1>4, <1>5, <1>6, <1>7, <1>8 DEF Next

\* However many processes end, between whichever two steps, the journal
\* replays (Journal::append writes a line with one write_all, lib.rs).
THEOREM KilledReplays == Spec => []KillsAreHarmless
<1>1. Init => Sound
  BY DEF Init, Sound
<1>2. Sound => KillsAreHarmless
  BY DEF Sound, KillsAreHarmless, Readable, Good
<1>3. QED
  BY <1>1, <1>2, InitInv, NextInv, SoundNext, PTL DEF Spec

-----------------------------------------------------------------------------
(* Custody.  Every step of the Work is one of its journal or leaves the    *)
(* journal alone.                                                          *)

cvars == <<vars, said, store, held>>

LEMMA StepIsJournals == [CustodyNext]_cvars => [Next]_vars
<1>1. SUFFICES ASSUME [CustodyNext]_cvars PROVE [Next]_vars
  OBVIOUS
<1>2. CASE Opens \/ Takes \/ Syncs \/ SyncsNot \/ Returns \/ KillAll \/ PowerLossAll
  BY <1>2 DEF Opens, Takes, Syncs, SyncsNot, Returns, KillAll, PowerLossAll, Next
<1>3. CASE AnyEvent \/ RecordClaim \/ RecordCleaned
  BY <1>3 DEF AnyEvent, RecordClaim, RecordCleaned, Says, Next
<1>4. CASE FileClaim \/ FilingFails \/ CleanTakes \/ Validate
  BY <1>4 DEF FileClaim, FilingFails, CleanTakes, Validate, Next
<1>5. CASE Fill \/ SyncBody \/ Rename \/ SyncName \/ SyncNameFails \/ PublishFails
  BY <1>5 DEF Fill, SyncBody, Rename, SyncName, SyncNameFails, PublishFails, Quietly
<1>6. CASE CleanRead \/ RemoveCheckout \/ RemovalFails \/ RemoveRest \/ Edits
  BY <1>6 DEF CleanRead, RemoveCheckout, RemovalFails, RemoveRest, Edits, Quietly
<1>7. CASE UNCHANGED cvars
  BY <1>7 DEF cvars
<1>8. QED
  BY <1>1, <1>2, <1>3, <1>4, <1>5, <1>6, <1>7 DEF CustodyNext

\* A Work whose Claims publish and whose directories are cleaned writes its
\* journal as any other does (append_event, server.rs; Journal, lib.rs).
THEOREM CustodyIsJournal == CustodySpec => Spec
<1>1. CustodyInit => Init
  BY DEF CustodyInit
<1>2. QED
  BY <1>1, StepIsJournals, PTL DEF CustodySpec, Spec, cvars

-----------------------------------------------------------------------------
(* What custody rests on: a receipt is said only once its snapshot is whole,
   named and kept; clean has read that the Work ended before it removes. *)

Is(s, at, body, onDisk, kept) ==
  s.at = at /\ s.body = body /\ (s.synced <=> onDisk) /\ (s.kept <=> kept)

Made(at, onDisk, kept) == Is(snapshot[claim.n], at, claim.digest, onDisk, kept)

\* What a Claim that is being decided has on the disk.
InFlight ==
  claim.pc # "idle" =>
    /\ claim.n # 0 /\ claim.digest # 0
    /\ clean = "idle"
    /\ claim.artifact # "bytes" => checkout
    /\ claim.pc \in {"publish", "filled", "synced", "renamed"} =>
         claim.artifact \in Managed /\ output # 0
    /\ claim.pc = "filled" => Made("temp", FALSE, FALSE)
    /\ claim.pc = "synced" => Made("temp", TRUE, FALSE)
    /\ claim.pc = "renamed" => Made("named", TRUE, FALSE)
    /\ (claim.pc \in {"record", "filed"} /\ claim.artifact \in Managed
          /\ claim.n \notin uncertain) => Made("named", TRUE, TRUE)

\* What a receipt that was ever handed to append names.
Firm ==
  \A j \in 1..Len(said) : said[j].k = "claimed" =>
    /\ said[j].n \in 1..claim.n
    /\ claim.pc # "idle" => said[j].n # claim.n
    /\ (said[j].artifact \in Managed /\ said[j].n \notin uncertain) =>
         Is(snapshot[said[j].n], "named", said[j].digest, TRUE, TRUE)

NamedSynced ==
  \A c \in Claims : snapshot[c].at = "named" => snapshot[c].synced /\ snapshot[c].body \in Content

CleanKnows ==
  /\ clean # "idle" => claim.pc = "idle" /\ Ended
  /\ clean = "checked" => InCheckout(Receipts) = {}
  /\ clean = "recording" => pending = 0
  /\ InCheckout(Receipts) # {} => checkout

CInv == JInv /\ CustodyTypeOK /\ InFlight /\ Firm /\ NamedSynced /\ CleanKnows

\* Where the events of the file's pieces stand in what was said.
LEMMA EventFacts ==
  ASSUME JInv, CustodyTypeOK
  PROVE  /\ said \in Seq(EventType) /\ Len(said) = minted /\ minted \in Nat
         /\ file \in Seq(PieceType) /\ Len(file) \in Nat
         /\ \A i \in 1..Len(file) : file[i].event \in 1..Len(said)
         /\ \A j \in 1..Len(said) : said[j] \in EventType
<1>1. /\ said \in Seq(EventType) /\ Len(said) = minted
      /\ file \in Seq(PieceType) /\ Len(file) \in Nat /\ minted \in Nat
  BY FileFacts DEF JInv, CustodyTypeOK
<1>2. \A i \in 1..Len(file) : file[i] \in PieceType
  BY <1>1
<1>3. \A i \in 1..Len(file) : file[i].event \in 1..MaxAppends /\ file[i].event <= minted
  BY <1>2 DEF PieceType, JInv, InOrder
<1>4. QED
  BY <1>1, <1>3, JournalAssumption

\* A piece written holds the event handed over, however its write ended.
LEMMA PieceWritten ==
  ASSUME JInv, CustodyTypeOK, Write \/ WriteFails
  PROVE  /\ minted' = minted + 1
         /\ Len(file') \in Nat /\ Len(file) <= Len(file')
         /\ \A i \in 1..Len(file) : file'[i] = file[i]
         /\ \A i \in 1..Len(file') : i \in 1..Len(file) \/ file'[i].event = minted + 1
<1>1. minted' = minted + 1 /\ Appending
  BY DEF Write, WriteFails
<1>2. CASE file' = file
  BY <1>1, <1>2, EventFacts
<1>3. ASSUME NEW whole \in BOOLEAN, NEW ended \in BOOLEAN,
             file' = Append(file, Piece(whole, ended))
      PROVE  /\ Len(file') \in Nat /\ Len(file) <= Len(file')
             /\ \A i \in 1..Len(file) : file'[i] = file[i]
             /\ \A i \in 1..Len(file') : i \in 1..Len(file) \/ file'[i].event = minted + 1
  <2>1. Piece(whole, ended) \in PieceType /\ Piece(whole, ended).event = minted + 1
    BY <1>1, JournalAssumption DEF JInv, TypeOK, SeqBehind, Appending, Piece, PieceType
  <2>2. /\ Len(file') = Len(file) + 1
        /\ \A i \in 1..Len(file) : file'[i] = file[i]
        /\ file'[Len(file) + 1] = Piece(whole, ended)
    BY <1>3, <2>1, AppendKeeps, EventFacts
  <2>3. \A i \in 1..(Len(file) + 1) : i \in 1..Len(file) \/ i = Len(file) + 1
    BY EventFacts
  <2>4. QED
    BY <2>1, <2>2, <2>3, EventFacts
<1>4. TRUE \in BOOLEAN /\ FALSE \in BOOLEAN
  OBVIOUS
<1>5. QED
  BY <1>1, <1>2, <1>3, <1>4 DEF Write, WriteFails

\* What is told once one more event is said: what was told, and it perhaps.
LEMMA Tells ==
  ASSUME JInv, CustodyTypeOK, Write \/ WriteFails, NEW e \in EventType,
         said' = Append(said, e)
  PROVE  /\ said' \in Seq(EventType) /\ Len(said') = minted' /\ Len(said') = Len(said) + 1
         /\ \A j \in 1..Len(said) : said'[j] = said[j]
         /\ said'[Len(said) + 1] = e
         /\ Told \subseteq Told'
         /\ Told' \subseteq Told \cup {e}
<1>1. /\ said' \in Seq(EventType) /\ Len(said') = Len(said) + 1
      /\ \A j \in 1..Len(said) : said'[j] = said[j]
      /\ said'[Len(said) + 1] = e
  BY AppendKeeps, EventFacts
<1>2. Told \subseteq Told'
  <2>1. SUFFICES ASSUME NEW i \in 1..Len(file)
                 PROVE  \E k \in 1..Len(file') : said'[file'[k].event] = said[file[i].event]
    BY DEF Told
  <2>2. i \in 1..Len(file') /\ file'[i] = file[i] /\ file[i].event \in 1..Len(said)
    BY PieceWritten, EventFacts
  <2>3. said'[file'[i].event] = said[file[i].event]
    BY <1>1, <2>2
  <2>4. QED
    BY <2>2, <2>3
<1>3. Told' \subseteq Told \cup {e}
  <2>1. SUFFICES ASSUME NEW i \in 1..Len(file')
                 PROVE  said'[file'[i].event] \in Told \cup {e}
    BY DEF Told
  <2>2. CASE i \in 1..Len(file)
    <3>1. file'[i] = file[i] /\ file[i].event \in 1..Len(said)
      BY <2>2, PieceWritten, EventFacts
    <3>2. said'[file'[i].event] = said[file[i].event]
      BY <1>1, <3>1
    <3>3. QED
      BY <2>2, <3>2 DEF Told
  <2>3. CASE file'[i].event = minted + 1
    BY <1>1, <2>3, EventFacts
  <2>4. QED
    BY <2>2, <2>3, PieceWritten
<1>4. QED
  BY <1>1, <1>2, <1>3, PieceWritten, EventFacts

\* A loss of power tells nothing that was not told before.
LEMMA LossTells ==
  ASSUME JInv, CustodyTypeOK, PowerLoss, UNCHANGED said
  PROVE  Told' \subseteq Told
<1>1. SUFFICES ASSUME NEW i \in 1..Len(file')
               PROVE  said'[file'[i].event] \in Told
  BY DEF Told
<1>2. Len(file') <= Len(file) /\ \A k \in 1..Len(file') : file'[k].event = file[k].event
  BY PowerLossKeeps DEF JInv
<1>3. Len(file') \in Nat
  BY PowerLossKeeps DEF JInv
<1>4. i \in 1..Len(file) /\ file'[i].event = file[i].event
  BY <1>2, <1>3, EventFacts
<1>5. QED
  BY <1>4 DEF Told

\* A step that says nothing and leaves the file tells what was told.
LEMMA Silent == ASSUME UNCHANGED <<file, said>> PROVE Told' = Told
BY DEF Told

-----------------------------------------------------------------------------

LEMMA CustodyInitInv == ASSUME CustodyInit PROVE CInv
<1> USE CustodyAssumption
<1>1. JInv
  BY InitInv DEF CustodyInit
<1>2. said = <<>> /\ said \in Seq(EventType) /\ Len(said) = 0 /\ minted = 0
  BY DEF CustodyInit, Init
<1>3. Told = {}
  BY DEF CustodyInit, Init, Told
<1>4. claim = NoClaim /\ clean = "idle" /\ snapshot = [c \in Claims |-> NoSnapshot]
  BY DEF CustodyInit
<1>5. CustodyTypeOK
  <2>1. NoSnapshot \in SnapshotType
    BY DEF NoSnapshot, SnapshotType, Part
  <2>2. /\ claim.pc = "idle" /\ claim.n = 0 /\ claim.artifact = "bytes" /\ claim.digest = 0
        /\ claim \in ClaimType
    BY <1>4 DEF NoClaim, Managed, ClaimType
  <2>3. TypeOK /\ output \in 0..MaxEdits /\ checkout \in BOOLEAN /\ uncertain \subseteq Claims
    BY <1>1 DEF CustodyInit, JInv
  <2>4. QED
    BY <1>2, <1>4, <2>1, <2>2, <2>3 DEF CustodyTypeOK
<1>6. InFlight /\ Firm
  BY <1>2, <1>4 DEF InFlight, Firm, NoClaim
<1>7. NamedSynced
  BY <1>4 DEF NamedSynced, NoSnapshot
<1>8. CleanKnows
  BY <1>3, <1>4 DEF CleanKnows, InCheckout, Receipts
<1>9. QED
  BY <1>1, <1>5, <1>6, <1>7, <1>8 DEF CInv

-----------------------------------------------------------------------------
(* The steps. *)

\* A claim, clean, output and checkout that stay, with nothing said.
LEMMA Stands ==
  ASSUME CInv, UNCHANGED <<file, said, store, held>>,
         clean = "recording" => pending' = 0
  PROVE  InFlight' /\ Firm' /\ NamedSynced' /\ CleanKnows'
<1>1. Told' = Told
  BY Silent
<1>2. UNCHANGED <<claim, clean, output, checkout, snapshot, uncertain, said>>
  BY DEF held, store
<1>3. InFlight'
  BY <1>2 DEF CInv, InFlight, Made, Is
<1>4. Firm'
  BY <1>2 DEF CInv, Firm, Is
<1>5. NamedSynced'
  BY <1>2 DEF CInv, NamedSynced
<1>6. CleanKnows'
  BY <1>1, <1>2 DEF CInv, CleanKnows, Ended, InCheckout, Receipts
<1>7. QED
  BY <1>3, <1>4, <1>5, <1>6

\* The journal's own steps, with nothing in flight or with no change to who writes.
LEMMA QuietStep ==
  ASSUME CInv, JInv', Opens \/ Takes \/ Syncs \/ SyncsNot \/ Returns
  PROVE  CInv'
<1>1. UNCHANGED <<file, said, store, held, minted>>
  BY DEF Opens, Takes, Syncs, SyncsNot, Returns, Open, Begin, Sync, SyncFails, End
<1>2. clean = "recording" => pending' = 0
  BY DEF Opens, Takes, Syncs, SyncsNot, Returns, Open, Begin, Sync, SyncFails, End, CInv,
         CleanKnows
<1>3. claim.pc # "idle" \/ clean = "recording" => writing'
  <2>1. claim.pc # "idle" \/ clean = "recording" => writing
    BY DEF CInv, CustodyTypeOK
  <2>2. CASE Opens \/ Takes \/ Syncs
    BY <2>1, <2>2 DEF Opens, Takes, Syncs, Open, Begin, Sync
  <2>3. CASE Returns
    BY <2>3 DEF Returns, Free
  <2>4. CASE SyncsNot
    BY <2>4 DEF SyncsNot, SyncFails, CInv, CleanKnows
  <2>5. QED
    BY <2>2, <2>3, <2>4
<1>4. UNCHANGED <<claim, clean, output, checkout, snapshot, uncertain, said>>
  BY <1>1 DEF held, store
<1>5. CustodyTypeOK'
  BY <1>1, <1>3, <1>4 DEF CustodyTypeOK, CInv, JInv
<1>6. QED
  BY <1>1, <1>2, <1>5, Stands DEF CInv

\* An event that is no receipt, and a handler that ends or goes on as it was.
LEMMA OtherSaid ==
  ASSUME CInv, JInv', Write \/ WriteFails, NEW e \in EventType, e.k # "claimed",
         said' = Append(said, e), UNCHANGED store,
         (clean' = clean /\ clean # "recording") \/ clean' = "idle",
         claim'.n = claim.n,
         claim.pc = "idle" => claim'.pc = "idle"
  PROVE  Firm' /\ NamedSynced' /\ CleanKnows'
<1>1. /\ Len(said') = Len(said) + 1 /\ Len(said) \in Nat
      /\ \A j \in 1..Len(said) : said'[j] = said[j]
      /\ said'[Len(said) + 1] = e
      /\ Told \subseteq Told' /\ Told' \subseteq Told \cup {e}
  BY Tells, EventFacts DEF CInv
<1>2. UNCHANGED <<output, checkout, snapshot, uncertain>>
  BY DEF store
<1>3. Firm'
  <2>1. SUFFICES ASSUME NEW j \in 1..Len(said'), said'[j].k = "claimed"
                 PROVE  /\ said'[j].n \in 1..claim'.n
                        /\ claim'.pc # "idle" => said'[j].n # claim'.n
                        /\ (said'[j].artifact \in Managed /\ said'[j].n \notin uncertain) =>
                             Is(snapshot[said'[j].n], "named", said'[j].digest, TRUE, TRUE)
    BY <1>2 DEF Firm, Is
  <2>2. j \in 1..Len(said) /\ said'[j] = said[j]
    BY <1>1, <2>1
  <2>3. QED
    BY <2>1, <2>2 DEF CInv, Firm, Is
<1>4. NamedSynced'
  BY <1>2 DEF CInv, NamedSynced
<1>5. Receipts' = Receipts
  BY <1>1 DEF Receipts
<1>6. Ended => Ended'
  BY <1>1 DEF Ended
<1>7. CleanKnows'
  BY <1>2, <1>5, <1>6 DEF CInv, CleanKnows, InCheckout
<1>8. QED
  BY <1>3, <1>4, <1>7

\* A Claim goes on to another step, or is over.
LEMMA ClaimMoves ==
  ASSUME claim \in ClaimType,
         NEW pc \in {"idle", "publish", "filled", "synced", "renamed", "record", "refuse",
                     "filed", "refused"},
         claim' = [claim EXCEPT !.pc = pc]
  PROVE  /\ claim' \in ClaimType
         /\ claim'.n = claim.n /\ claim'.pc = pc /\ claim'.digest = claim.digest
         /\ claim'.artifact = claim.artifact
BY DEF ClaimType

\* The events that are no receipts.
LEMMA PlainEvent ==
  ASSUME NEW k \in {"other", "ended", "filed", "refused", "cleaned"}
  PROVE  Event(k) \in EventType /\ Event(k).k # "claimed"
BY CustodyAssumption DEF Event, EventType

\* A step that writes to the journal as its handler's last act.
LEMMA LastWrite ==
  ASSUME CInv, JInv', Write \/ WriteFails, NEW e \in EventType, said' = Append(said, e),
         UNCHANGED store, clean' \in {clean, "idle"}, clean' # "recording",
         claim' = [claim EXCEPT !.pc = "idle"]
  PROVE  CustodyTypeOK' /\ InFlight'
<1>1. said' \in Seq(EventType) /\ Len(said') = minted'
  BY Tells DEF CInv
<1>2. claim'.pc = "idle" /\ claim'.n = claim.n /\ claim' \in ClaimType
  BY ClaimMoves DEF CInv, CustodyTypeOK
<1>4. /\ output' \in 0..MaxEdits /\ checkout' \in BOOLEAN
      /\ snapshot' \in [Claims -> SnapshotType] /\ uncertain' \subseteq Claims
      /\ clean' \in {"idle", "checked", "removed", "cleared", "recording"}
  BY DEF CInv, CustodyTypeOK, store
<1>5. CustodyTypeOK'
  BY <1>1, <1>2, <1>4 DEF CustodyTypeOK, JInv
<1>6. QED
  BY <1>2, <1>5 DEF InFlight

\* A handler that says something else than a receipt and is not in a Claim.
LEMMA SaidStep ==
  ASSUME CInv, JInv', AnyEvent \/ RecordCleaned
  PROVE  CInv'
<1>1. \E k \in {"other", "ended", "filed", "refused", "cleaned"} : Says(Event(k))
  BY DEF AnyEvent, RecordCleaned
<1>2. PICK k \in {"other", "ended", "filed", "refused", "cleaned"} : Says(Event(k))
  BY <1>1
<1>3. (Write \/ WriteFails) /\ said' = Append(said, Event(k))
  BY <1>2 DEF Says
<1>4. /\ claim.pc = "idle" /\ UNCHANGED <<store, claim>>
      /\ (clean' = clean /\ clean # "recording") \/ clean' = "idle"
  BY DEF AnyEvent, RecordCleaned, Cleaning, Free, held, CInv, CleanKnows
<1>5. claim' = [claim EXCEPT !.pc = "idle"]
  BY <1>4 DEF CInv, CustodyTypeOK, ClaimType
<1>6. Firm' /\ NamedSynced' /\ CleanKnows'
  BY <1>3, <1>4, PlainEvent, OtherSaid
<1>7. CustodyTypeOK' /\ InFlight'
  BY <1>3, <1>4, <1>5, PlainEvent, LastWrite
<1>8. QED
  BY <1>6, <1>7 DEF CInv

\* The Claim is answered without its receipt.
LEMMA AnsweredStep ==
  ASSUME CInv, JInv', claim.pc # "idle", Answers,
         NEW k \in {"filed", "refused"}, Write \/ WriteFails, said' = Append(said, Event(k))
  PROVE  CInv'
<1>1. clean = "idle" /\ claim' = [claim EXCEPT !.pc = "idle"] /\ UNCHANGED <<store, clean>>
  BY DEF Answers, Goto, CInv, InFlight
<1>2. claim'.n = claim.n /\ claim'.pc = "idle"
  BY <1>1, ClaimMoves DEF CInv, CustodyTypeOK
<1>3. Firm' /\ NamedSynced' /\ CleanKnows'
  BY <1>1, <1>2, PlainEvent, OtherSaid
<1>4. CustodyTypeOK' /\ InFlight'
  BY <1>1, PlainEvent, LastWrite
<1>5. QED
  BY <1>3, <1>4 DEF CInv

LEMMA FileStep ==
  ASSUME CInv, JInv', FileClaim
  PROVE  CInv'
<1>1. /\ claim.pc \in {"record", "refuse"}
      /\ Write /\ said' = Append(said, Event("filed"))
      /\ claim' = [claim EXCEPT !.pc = IF claim.pc = "record" THEN "filed" ELSE "refused"]
      /\ UNCHANGED <<store, clean>>
  BY DEF FileClaim, Goto
<1>2. /\ claim'.n = claim.n /\ claim'.digest = claim.digest /\ claim'.artifact = claim.artifact
      /\ claim'.pc = IF claim.pc = "record" THEN "filed" ELSE "refused"
      /\ claim' \in ClaimType
  BY <1>1, ClaimMoves DEF CInv, CustodyTypeOK
<1>3. clean = "idle"
  BY <1>1 DEF CInv, InFlight
<1>4. Firm' /\ NamedSynced' /\ CleanKnows'
  BY <1>1, <1>2, <1>3, PlainEvent, OtherSaid
<1>5. UNCHANGED <<output, checkout, snapshot, uncertain, clean>>
  BY <1>1 DEF store
<1>6. InFlight'
  BY <1>1, <1>2, <1>5 DEF CInv, InFlight, Made, Is
<1>7. CustodyTypeOK'
  <2>1. said' \in Seq(EventType) /\ Len(said') = minted'
    BY <1>1, PlainEvent, Tells DEF CInv
  <2>2. writing'
    BY <1>1 DEF Write, Appending
  <2>3. QED
    BY <1>2, <1>5, <2>1, <2>2 DEF CustodyTypeOK, CInv, JInv
<1>8. QED
  BY <1>4, <1>6, <1>7 DEF CInv

\* The append of ClaimFiled fails, at its write or at its fsync.
LEMMA FilingFailsStep ==
  ASSUME CInv, JInv', FilingFails
  PROVE  CInv'
<1>1. CASE claim.pc \in {"record", "refuse"} /\ WriteFails /\ said' = Append(said, Event("filed"))
  BY <1>1, AnsweredStep DEF FilingFails
<1>2. CASE claim.pc \in {"filed", "refused"} /\ SyncFails /\ UNCHANGED said
  <2>1. /\ clean = "idle" /\ claim' = [claim EXCEPT !.pc = "idle"]
        /\ UNCHANGED <<file, said, store, clean, minted>>
    BY <1>2 DEF FilingFails, Answers, Goto, CInv, InFlight, SyncFails
  <2>2. claim'.n = claim.n /\ claim'.pc = "idle" /\ claim' \in ClaimType
    BY <2>1, ClaimMoves DEF CInv, CustodyTypeOK
  <2>3. UNCHANGED <<output, checkout, snapshot, uncertain, clean, said>>
    BY <2>1 DEF store
  <2>4. Firm'
    BY <2>2, <2>3 DEF CInv, Firm, Is
  <2>5. InFlight' /\ NamedSynced'
    BY <2>2, <2>3 DEF CInv, InFlight, NamedSynced
  <2>6. Told' = Told
    BY <2>1, Silent
  <2>7. CleanKnows'
    BY <2>1, <2>3, <2>6 DEF CInv, CleanKnows, InCheckout, Receipts
  <2>9. CustodyTypeOK'
    BY <2>1, <2>2, <2>3 DEF CustodyTypeOK, CInv, JInv
  <2>10. QED
    BY <2>4, <2>5, <2>7, <2>9 DEF CInv
<1>3. QED
  BY <1>1, <1>2 DEF FilingFails

\* The receipt is handed over: what it names was made so before.
LEMMA RecordStep ==
  ASSUME CInv, JInv', RecordClaim
  PROVE  CInv'
<1>1. CASE claim.pc = "refused"
  <2>1. (Write \/ WriteFails) /\ said' = Append(said, Event("refused")) /\ Answers
    BY <1>1 DEF RecordClaim, Says
  <2>2. QED
    BY <1>1, <2>1, AnsweredStep
<1>2. CASE claim.pc = "filed"
  <2>1. /\ Write \/ WriteFails
        /\ said' = Append(said, Receipt)
        /\ claim' = [claim EXCEPT !.pc = "idle"]
        /\ UNCHANGED <<store, clean>> /\ clean = "idle"
    BY <1>2 DEF RecordClaim, Says, Answers, Goto, CInv, InFlight
  <2>2. Receipt \in EventType
    BY DEF Receipt, EventType, CInv, CustodyTypeOK, ClaimType
  <2>3. claim'.n = claim.n /\ claim'.pc = "idle"
    BY <2>1, ClaimMoves DEF CInv, CustodyTypeOK
  <2>4. UNCHANGED <<output, checkout, snapshot, uncertain, clean>>
    BY <2>1 DEF store
  <2>5. /\ Len(said') = Len(said) + 1 /\ Len(said) \in Nat
        /\ \A j \in 1..Len(said) : said'[j] = said[j]
        /\ said'[Len(said) + 1] = Receipt
        /\ Told' \subseteq Told \cup {Receipt}
    BY <2>1, <2>2, Tells, EventFacts DEF CInv
  <2>6. CustodyTypeOK' /\ InFlight'
    BY <2>1, <2>2, LastWrite
  <2>7. Firm'
    <3>1. SUFFICES ASSUME NEW j \in 1..Len(said'), said'[j].k = "claimed"
                   PROVE  /\ said'[j].n \in 1..claim.n
                          /\ (said'[j].artifact \in Managed /\ said'[j].n \notin uncertain) =>
                               Is(snapshot[said'[j].n], "named", said'[j].digest, TRUE, TRUE)
      BY <2>3, <2>4 DEF Firm, Is
    <3>2. CASE j \in 1..Len(said)
      <4>1. said'[j] = said[j] /\ said[j].k = "claimed"
        BY <2>5, <3>1, <3>2
      <4>2. /\ said[j].n \in 1..claim.n
            /\ (said[j].artifact \in Managed /\ said[j].n \notin uncertain) =>
                 Is(snapshot[said[j].n], "named", said[j].digest, TRUE, TRUE)
        BY <3>2, <4>1 DEF CInv, Firm
      <4>3. QED
        BY <4>1, <4>2
    <3>3. CASE j = Len(said) + 1
      <4>1. /\ said'[j].n = claim.n /\ said'[j].artifact = claim.artifact
            /\ said'[j].digest = claim.digest
        BY <2>5, <3>3 DEF Receipt
      <4>2. claim.n \in 1..claim.n
        BY <1>2, CustodyAssumption DEF CInv, CustodyTypeOK, ClaimType, InFlight
      <4>3. QED
        BY <1>2, <4>1, <4>2 DEF CInv, InFlight, Made, Is
    <3>4. QED
      <4>1. j \in 1..Len(said) \/ j = Len(said) + 1
        BY <2>5, <3>1
      <4>2. QED
        BY <3>2, <3>3, <4>1
  <2>8. NamedSynced'
    BY <2>4 DEF CInv, NamedSynced
  <2>9. CleanKnows'
    <3>1. ASSUME InCheckout(Receipts)' # {}
          PROVE  checkout
      <4>1. PICK e \in Told' : e.k = "claimed" /\ e.artifact = "worktree"
        BY <3>1 DEF InCheckout, Receipts
      <4>2. CASE e \in Told
        BY <4>1, <4>2 DEF CInv, CleanKnows, InCheckout, Receipts
      <4>3. CASE e = Receipt
        BY <1>2, <4>1, <4>3 DEF Receipt, CInv, InFlight
      <4>4. QED
        BY <2>5, <4>2, <4>3
    <3>2. QED
      BY <2>1, <2>4, <3>1 DEF CleanKnows
  <2>10. QED
    BY <2>6, <2>7, <2>8, <2>9 DEF CInv
<1>3. QED
  BY <1>1, <1>2 DEF RecordClaim

-----------------------------------------------------------------------------
(* Publishing.  Only the Claim's own snapshot is written, and no receipt   *)
(* names it yet.                                                           *)

LEMMA SnapshotMade ==
  ASSUME NEW at \in {"none", "temp", "named"}, NEW d \in 0..MaxEdits, NEW y \in BOOLEAN,
         NEW k \in BOOLEAN
  PROVE  [at |-> at, body |-> d, synced |-> y, kept |-> k] \in SnapshotType
<1>1. d \in 0..Part
  BY CustodyAssumption DEF Part
<1>2. QED
  BY <1>1 DEF SnapshotType

LEMMA NothingMade == NoSnapshot \in SnapshotType /\ NoSnapshot.at # "named"
<1>1. 0 \in 0..Part
  BY CustodyAssumption DEF Part
<1>2. QED
  BY <1>1 DEF NoSnapshot, SnapshotType

\* A step of publish that leaves the Claim with what it has to have.
LEMMA PublishedStep ==
  ASSUME CInv, JInv', NEW pc \in {"publish", "filled", "synced", "renamed"}, Publishing(pc),
         UNCHANGED vars,
         NEW s \in SnapshotType, snapshot' = [snapshot EXCEPT ![claim.n] = s],
         s.at = "named" => s.synced /\ s.body \in Content,
         claim'.n = claim.n,
         claim' \in ClaimType,
         uncertain' \subseteq Claims, uncertain \subseteq uncertain',
         InFlight'
  PROVE  CInv'
<1>1. /\ claim.pc = pc /\ claim.pc # "idle" /\ clean = "idle" /\ claim.n # 0
      /\ UNCHANGED <<said, output, checkout, clean>>
      /\ claim.n \in 0..MaxClaims
  BY DEF Publishing, CInv, InFlight, CustodyTypeOK, ClaimType
<1>2. claim.n \in Claims /\ snapshot \in [Claims -> SnapshotType]
  BY <1>1, CustodyAssumption DEF CInv, CustodyTypeOK, Claims
<1>3. snapshot' \in [Claims -> SnapshotType] /\ \A c \in Claims : c # claim.n => snapshot'[c] = snapshot[c]
  BY <1>2
<1>4. UNCHANGED <<file, minted, writing>> /\ Told' = Told
  BY <1>1, Silent DEF vars, handle
<1>5. CustodyTypeOK'
  BY <1>1, <1>3, <1>4 DEF CInv, CustodyTypeOK, JInv
<1>6. Firm'
  <2>1. SUFFICES ASSUME NEW j \in 1..Len(said), said[j].k = "claimed"
                 PROVE  /\ said[j].n \in 1..claim'.n
                        /\ claim'.pc # "idle" => said[j].n # claim'.n
                        /\ (said[j].artifact \in Managed /\ said[j].n \notin uncertain') =>
                             Is(snapshot'[said[j].n], "named", said[j].digest, TRUE, TRUE)
    BY <1>1 DEF Firm, Is
  <2>2. /\ said[j].n \in 1..claim.n /\ said[j].n # claim.n
        /\ (said[j].artifact \in Managed /\ said[j].n \notin uncertain) =>
             Is(snapshot[said[j].n], "named", said[j].digest, TRUE, TRUE)
    BY <1>1, <2>1 DEF CInv, Firm, Is
  <2>3. said[j].n \in Claims
    BY <1>1, <2>2, CustodyAssumption DEF Claims
  <2>4. QED
    BY <1>3, <2>2, <2>3
<1>7. NamedSynced'
  BY <1>2, <1>3 DEF CInv, NamedSynced
<1>8. CleanKnows'
  BY <1>1, <1>4 DEF CInv, CleanKnows, InCheckout, Receipts
<1>9. QED
  BY <1>5, <1>6, <1>7, <1>8 DEF CInv

\* What a Claim has while it publishes.
LEMMA PublishingFacts ==
  ASSUME CInv, NEW pc \in {"publish", "filled", "synced", "renamed"}, Publishing(pc)
  PROVE  /\ claim.pc = pc /\ claim.n \in Claims /\ claim.n # 0
         /\ claim.digest \in 1..MaxEdits /\ claim.digest \in 0..MaxEdits
         /\ claim.artifact \in Managed /\ output \in 1..MaxEdits
         /\ claim.digest # 0 /\ output # 0
         /\ claim.artifact # "bytes" => checkout
         /\ clean = "idle" /\ claim \in ClaimType
         /\ snapshot \in [Claims -> SnapshotType] /\ uncertain \subseteq Claims
         /\ UNCHANGED <<output, checkout, clean, said>>
<1>1. /\ claim \in ClaimType /\ output \in 0..MaxEdits
      /\ snapshot \in [Claims -> SnapshotType] /\ uncertain \subseteq Claims
  BY DEF CInv, CustodyTypeOK
<1>2. /\ claim.pc = pc /\ claim.n # 0 /\ claim.digest # 0 /\ clean = "idle"
      /\ claim.artifact # "bytes" => checkout
      /\ claim.artifact \in Managed /\ output # 0
      /\ UNCHANGED <<output, checkout, clean, said>>
  BY DEF Publishing, CInv, InFlight
<1>3. claim.n \in 0..MaxClaims /\ claim.digest \in 0..MaxEdits
  BY <1>1 DEF ClaimType
<1>4. claim.n \in Claims /\ claim.digest \in 1..MaxEdits /\ output \in 1..MaxEdits
  BY <1>1, <1>2, <1>3, CustodyAssumption DEF Claims
<1>5. QED
  BY <1>1, <1>2, <1>3, <1>4

LEMMA FillStep ==
  ASSUME CInv, JInv', Fill
  PROVE  CInv'
<1>1. Publishing("publish") /\ UNCHANGED vars /\ UNCHANGED uncertain
  BY DEF Fill, Quietly
<1>2. /\ claim.n \in Claims /\ claim.n # 0 /\ claim.artifact \in Managed
      /\ claim.digest \in 1..MaxEdits /\ output \in 1..MaxEdits
      /\ claim.artifact # "bytes" => checkout
      /\ clean = "idle" /\ claim \in ClaimType
      /\ snapshot \in [Claims -> SnapshotType] /\ uncertain \subseteq Claims
      /\ UNCHANGED <<output, checkout, clean, said>>
  BY <1>1, PublishingFacts
<1>3. PICK body \in 1..MaxEdits :
        /\ snapshot' = [snapshot EXCEPT ![claim.n] =
                          [at |-> "temp", body |-> body, synced |-> FALSE, kept |-> FALSE]]
        /\ claim' = [claim EXCEPT !.pc = "filled", !.digest = body]
  BY <1>2 DEF Fill, Stored
<1>4. body \in 0..MaxEdits /\ body # 0
  BY CustodyAssumption
<1>5. DEFINE s == [at |-> "temp", body |-> body, synced |-> FALSE, kept |-> FALSE]
<1>6. s \in SnapshotType /\ s.at # "named"
  BY <1>4, SnapshotMade
<1>7. /\ claim'.n = claim.n /\ claim'.pc = "filled" /\ claim'.digest = body
      /\ claim'.artifact = claim.artifact /\ claim' \in ClaimType
  BY <1>2, <1>3, <1>4 DEF ClaimType
<1>8. snapshot'[claim'.n] = s
  BY <1>2, <1>3, <1>7
<1>9. InFlight'
  BY <1>2, <1>4, <1>7, <1>8 DEF InFlight, Made, Is
<1> HIDE DEF s
<1>10. snapshot' = [snapshot EXCEPT ![claim.n] = s]
  BY <1>3 DEF s
<1>11. QED
  BY <1>1, <1>2, <1>6, <1>7, <1>9, <1>10, PublishedStep

\* The three steps between the content and its name, and past it.
LEMMA DurableStep ==
  ASSUME CInv, JInv', SyncBody \/ Rename \/ SyncName \/ SyncNameFails
  PROVE  CInv'
<1>1. PICK pc \in {"filled", "synced", "renamed"} :
        /\ Publishing(pc) /\ UNCHANGED vars
        /\ pc = "filled" <=> SyncBody
        /\ pc = "synced" <=> Rename
        /\ pc = "renamed" <=> SyncName \/ SyncNameFails
  BY DEF SyncBody, Rename, SyncName, SyncNameFails, Publishing, Quietly
<1>2. /\ claim.pc = pc /\ claim.n \in Claims /\ claim.n # 0 /\ claim.artifact \in Managed
      /\ claim.digest \in 1..MaxEdits /\ claim.digest \in 0..MaxEdits
      /\ output \in 1..MaxEdits /\ claim.digest # 0 /\ output # 0
      /\ claim.artifact # "bytes" => checkout
      /\ clean = "idle" /\ claim \in ClaimType
      /\ snapshot \in [Claims -> SnapshotType] /\ uncertain \subseteq Claims
      /\ UNCHANGED <<output, checkout, clean, said>>
  BY <1>1, PublishingFacts
<1>3. snapshot[claim.n] \in SnapshotType
  BY <1>2
<1>4. \E s \in SnapshotType, next \in {"synced", "renamed", "record"} :
        /\ snapshot' = [snapshot EXCEPT ![claim.n] = s]
        /\ claim' = [claim EXCEPT !.pc = next]
        /\ next = "synced" => Is(s, "temp", claim.digest, TRUE, FALSE)
        /\ next = "renamed" => Is(s, "named", claim.digest, TRUE, FALSE)
        /\ next = "record" => \/ Is(s, "named", claim.digest, TRUE, TRUE)
                              \/ claim.n \in uncertain' /\ s.at = "named" /\ s.synced
                                   /\ s.body = claim.digest
  <2>1. CASE pc = "filled"
    <3>1. Is(snapshot[claim.n], "temp", claim.digest, FALSE, FALSE)
      BY <1>2, <2>1 DEF CInv, InFlight, Made
    <3>2. PICK s : s = [snapshot[claim.n] EXCEPT !.synced = TRUE]
      OBVIOUS
    <3>3. snapshot' = [snapshot EXCEPT ![claim.n] = s] /\ claim' = [claim EXCEPT !.pc = "synced"]
      BY <1>1, <2>1, <3>2 DEF SyncBody, Goto, Stored
    <3>4. s \in SnapshotType /\ Is(s, "temp", claim.digest, TRUE, FALSE)
      BY <1>3, <3>1, <3>2 DEF SnapshotType, Is
    <3>5. QED
      BY <3>3, <3>4
  <2>2. CASE pc = "synced"
    <3>1. Is(snapshot[claim.n], "temp", claim.digest, TRUE, FALSE)
      BY <1>2, <2>2 DEF CInv, InFlight, Made
    <3>2. PICK s : s = [snapshot[claim.n] EXCEPT !.at = "named"]
      OBVIOUS
    <3>3. snapshot' = [snapshot EXCEPT ![claim.n] = s] /\ claim' = [claim EXCEPT !.pc = "renamed"]
      BY <1>1, <2>2, <3>2 DEF Rename, Goto, Stored
    <3>4. s \in SnapshotType /\ Is(s, "named", claim.digest, TRUE, FALSE)
      BY <1>3, <3>1, <3>2 DEF SnapshotType, Is
    <3>5. QED
      BY <3>3, <3>4
  <2>3. CASE pc = "renamed"
    <3>1. Is(snapshot[claim.n], "named", claim.digest, TRUE, FALSE)
      BY <1>2, <2>3 DEF CInv, InFlight, Made
    <3>2. claim' = [claim EXCEPT !.pc = "record"]
      BY <1>1, <2>3 DEF SyncName, SyncNameFails, Goto
    <3>3. CASE SyncName
      <4>1. PICK s : s = [snapshot[claim.n] EXCEPT !.kept = TRUE]
        OBVIOUS
      <4>2. snapshot' = [snapshot EXCEPT ![claim.n] = s]
        BY <3>3, <4>1 DEF SyncName, Stored
      <4>3. s \in SnapshotType /\ Is(s, "named", claim.digest, TRUE, TRUE)
        BY <1>3, <3>1, <4>1 DEF SnapshotType, Is
      <4>4. QED
        BY <3>2, <4>2, <4>3
    <3>4. CASE SyncNameFails
      <4>1. /\ snapshot' = [snapshot EXCEPT ![claim.n] = snapshot[claim.n]]
            /\ claim.n \in uncertain'
        BY <1>2, <3>4 DEF SyncNameFails
      <4>2. QED
        BY <1>3, <3>1, <3>2, <4>1 DEF Is
    <3>5. QED
      BY <1>1, <2>3, <3>3, <3>4
  <2>4. QED
    BY <2>1, <2>2, <2>3
<1>5. PICK s \in SnapshotType, next \in {"synced", "renamed", "record"} :
        /\ snapshot' = [snapshot EXCEPT ![claim.n] = s]
        /\ claim' = [claim EXCEPT !.pc = next]
        /\ next = "synced" => Is(s, "temp", claim.digest, TRUE, FALSE)
        /\ next = "renamed" => Is(s, "named", claim.digest, TRUE, FALSE)
        /\ next = "record" => \/ Is(s, "named", claim.digest, TRUE, TRUE)
                              \/ claim.n \in uncertain' /\ s.at = "named" /\ s.synced
                                   /\ s.body = claim.digest
  BY <1>4
<1>6. s.at = "named" => s.synced /\ s.body \in Content
  BY <1>2, <1>5 DEF Content, Is
<1>7. /\ claim'.n = claim.n /\ claim'.pc = next /\ claim'.digest = claim.digest
      /\ claim'.artifact = claim.artifact /\ claim' \in ClaimType
  BY <1>2, <1>5, ClaimMoves
<1>8. snapshot'[claim'.n] = s
  BY <1>2, <1>5, <1>7
<1>9. uncertain' \subseteq Claims /\ uncertain \subseteq uncertain'
  BY <1>1, <1>2 DEF SyncBody, Rename, SyncName, SyncNameFails
<1>10. InFlight'
  <2>1. /\ next = "synced" => Made("temp", TRUE, FALSE)'
        /\ next = "renamed" => Made("named", TRUE, FALSE)'
        /\ next = "record" /\ claim'.n \notin uncertain' => Made("named", TRUE, TRUE)'
    BY <1>5, <1>7, <1>8 DEF Made, Is
  <2>2. QED
    BY <1>2, <1>7, <2>1 DEF InFlight
<1>11. QED
  BY <1>1, <1>5, <1>6, <1>7, <1>9, <1>10, PublishedStep

LEMMA PublishFailsStep ==
  ASSUME CInv, JInv', PublishFails
  PROVE  CInv'
<1>1. PICK pc \in {"publish", "filled", "synced"} :
        /\ snapshot' = [snapshot EXCEPT ![claim.n] = NoSnapshot]
        /\ claim' = [claim EXCEPT !.pc = "refuse"]
        /\ Publishing(pc) /\ UNCHANGED vars /\ UNCHANGED uncertain
  BY DEF PublishFails, Goto, Stored, Quietly
<1>2. /\ claim.n # 0 /\ claim.digest # 0 /\ clean = "idle" /\ claim \in ClaimType
      /\ claim.artifact # "bytes" => checkout
      /\ uncertain \subseteq Claims
      /\ UNCHANGED <<output, checkout, clean, said>>
  BY <1>1, PublishingFacts
<1>3. /\ claim'.n = claim.n /\ claim'.pc = "refuse" /\ claim'.digest = claim.digest
      /\ claim'.artifact = claim.artifact /\ claim' \in ClaimType
  BY <1>1, <1>2, ClaimMoves
<1>4. InFlight'
  BY <1>2, <1>3 DEF InFlight
<1>5. QED
  BY <1>1, <1>2, <1>3, <1>4, NothingMade, PublishedStep

-----------------------------------------------------------------------------
(* The Claim that begins, clean, the actor, and what ends everything.      *)

LEMMA ValidateStep ==
  ASSUME CInv, JInv', Validate
  PROVE  CInv'
<1>1. PICK artifact \in Managed \cup {"worktree"} :
        /\ artifact # "bytes" => checkout
        /\ claim' = [n |-> claim.n + 1, artifact |-> artifact, digest |-> output,
                     pc |-> IF artifact \in Managed THEN "publish" ELSE "record"]
  BY DEF Validate
<1>2. /\ Begin /\ claim.pc = "idle" /\ clean # "recording" /\ ~Ended /\ output # 0
      /\ claim.n < MaxClaims
      /\ UNCHANGED <<said, store, clean>>
  BY DEF Validate, Free
<1>3. /\ claim.n \in Nat /\ claim.n \in 0..MaxClaims /\ output \in 0..MaxEdits
  BY CustodyAssumption DEF CInv, CustodyTypeOK, ClaimType
<1>4. claim.n + 1 \in 0..MaxClaims /\ claim.n + 1 # 0
  BY <1>2, <1>3, CustodyAssumption
<1>5. DEFINE pc == IF artifact \in Managed THEN "publish" ELSE "record"
<1>6. /\ claim'.n = claim.n + 1 /\ claim'.artifact = artifact /\ claim'.digest = output
      /\ claim'.pc = pc
      /\ claim' \in ClaimType
  BY <1>1, <1>3, <1>4 DEF ClaimType
<1>7. clean = "idle"
  BY <1>2 DEF CInv, CleanKnows
<1>8. UNCHANGED <<output, checkout, snapshot, uncertain, clean, said>>
  BY <1>2 DEF store
<1>9. Told' = Told /\ minted' = minted /\ writing'
  BY <1>2, <1>8, Silent DEF Begin
<1>10. InFlight'
  BY <1>1, <1>2, <1>4, <1>6, <1>7, <1>8 DEF InFlight
<1>11. CustodyTypeOK'
  BY <1>6, <1>8, <1>9 DEF CInv, CustodyTypeOK, JInv
<1>12. Firm'
  <2>1. \A m \in 1..claim.n : m \in 1..(claim.n + 1) /\ m # claim.n + 1
    BY <1>3
  <2>2. QED
    BY <1>6, <1>8, <2>1 DEF CInv, Firm
<1>13. NamedSynced' /\ CleanKnows'
  BY <1>7, <1>8, <1>9 DEF CInv, NamedSynced, CleanKnows, InCheckout, Receipts
<1>14. QED
  BY <1>10, <1>11, <1>12, <1>13 DEF CInv

\* A step of clean, or of the actor: nothing is said and nothing is in flight
\* that it could disturb.
LEMMA CleanStep ==
  ASSUME CInv, JInv',
         CleanRead \/ RemoveCheckout \/ RemovalFails \/ RemoveRest \/ CleanTakes
  PROVE  CInv'
<1>1. /\ UNCHANGED <<file, said, claim, snapshot, uncertain, minted>>
      /\ clean' \in {"idle", "checked", "removed", "cleared", "recording"}
      /\ output' \in {0, output} /\ checkout' \in {FALSE, checkout}
  BY DEF CleanRead, RemoveCheckout, RemovalFails, RemoveRest, CleanTakes, BeginUnread, Quietly,
         vars, store
<1>2. claim.pc = "idle"
  <2>1. CASE CleanRead
    BY <2>1 DEF CleanRead, CInv, CustodyTypeOK
  <2>2. CASE RemoveCheckout \/ RemovalFails \/ RemoveRest \/ CleanTakes
    BY <2>2 DEF RemoveCheckout, RemovalFails, RemoveRest, CleanTakes, Cleaning, CInv, CleanKnows
  <2>3. QED
    BY <2>1, <2>2
<1>3. Told' = Told
  BY <1>1, Silent
<1>4. Ended' = Ended /\ Receipts' = Receipts
  BY <1>3 DEF Ended, Receipts
<1>5. InFlight' /\ Firm' /\ NamedSynced'
  BY <1>1, <1>2 DEF CInv, InFlight, Firm, NamedSynced
<1>6. Ended
  BY DEF CleanRead, RemoveCheckout, RemovalFails, RemoveRest, CleanTakes, Cleaning, CInv,
         CleanKnows
<1>7. clean' = "checked" => InCheckout(Receipts) = {}
  BY DEF CleanRead, RemoveCheckout, RemovalFails, RemoveRest, CleanTakes
<1>8. clean' = "recording" => pending' = 0 /\ writing'
  <2>1. CASE CleanTakes
    <3>1. ~writing /\ pending' = pending /\ writing'
      BY <2>1 DEF CleanTakes, BeginUnread
    <3>2. pending = 0
      BY <3>1 DEF CInv, JInv, SeqBehind
    <3>3. QED
      BY <3>1, <3>2
  <2>2. CASE CleanRead \/ RemoveCheckout \/ RemovalFails \/ RemoveRest
    BY <2>2 DEF CleanRead, RemoveCheckout, RemovalFails, RemoveRest
  <2>3. QED
    BY <2>1, <2>2
<1>9. InCheckout(Receipts) # {} => checkout'
  <2>1. CASE RemoveCheckout \/ RemovalFails
    BY <2>1 DEF RemoveCheckout, RemovalFails, Cleaning, CInv, CleanKnows
  <2>2. CASE CleanRead \/ RemoveRest \/ CleanTakes
    BY <2>2 DEF CleanRead, RemoveRest, CleanTakes, store, CInv, CleanKnows
  <2>3. QED
    BY <2>1, <2>2
<1>10. CleanKnows'
  BY <1>1, <1>2, <1>4, <1>6, <1>7, <1>8, <1>9 DEF CleanKnows, InCheckout
<1>11. output' \in 0..MaxEdits /\ checkout' \in BOOLEAN
  <2>1. 0 \in 0..MaxEdits /\ FALSE \in BOOLEAN
    BY CustodyAssumption
  <2>2. output \in 0..MaxEdits /\ checkout \in BOOLEAN
    BY DEF CInv, CustodyTypeOK
  <2>3. output' \in 0..MaxEdits
    BY <1>1, <2>1, <2>2
  <2>4. checkout' \in BOOLEAN
    BY <1>1, <2>1, <2>2
  <2>5. QED
    BY <2>3, <2>4
<1>12. CustodyTypeOK'
  BY <1>1, <1>2, <1>8, <1>11 DEF CInv, CustodyTypeOK, JInv
<1>13. QED
  BY <1>5, <1>10, <1>12 DEF CInv

LEMMA EditStep ==
  ASSUME CInv, JInv', Edits
  PROVE  CInv'
<1>1. /\ output' = output + 1 /\ output < MaxEdits
      /\ UNCHANGED <<vars, said, checkout, snapshot, claim, clean, uncertain>>
  BY DEF Edits, Quietly, held
<1>2. UNCHANGED <<file, said, minted, writing, pending>> /\ Told' = Told
  BY <1>1, Silent DEF vars, handle
<1>3. output' \in 0..MaxEdits /\ output' # 0
  BY <1>1, CustodyAssumption DEF CInv, CustodyTypeOK
<1>4. CustodyTypeOK'
  BY <1>1, <1>2, <1>3 DEF CInv, CustodyTypeOK, JInv
<1>5. InFlight' /\ Firm' /\ NamedSynced'
  BY <1>1, <1>3 DEF CInv, InFlight, Firm, NamedSynced, Made
<1>6. CleanKnows'
  BY <1>1, <1>2 DEF CInv, CleanKnows, Ended, InCheckout, Receipts
<1>7. QED
  BY <1>4, <1>5, <1>6 DEF CInv

\* All that a kill or a loss of power leaves of a Claim or a clean: nothing.
LEMMA ForgetStep ==
  ASSUME CInv, JInv', Forgets, UNCHANGED <<said, minted>>, Told' \subseteq Told,
         NEW f \in [Claims -> SnapshotType], snapshot' = f,
         \A c \in Claims :
           snapshot[c].at = "named" /\ snapshot[c].synced /\ snapshot[c].kept =>
             f[c] = snapshot[c],
         \A c \in Claims : f[c].at = "named" => f[c] = snapshot[c]
  PROVE  CInv'
<1>1. /\ claim' = [NoClaim EXCEPT !.n = claim.n] /\ clean' = "idle"
      /\ UNCHANGED <<output, checkout, uncertain>>
  BY DEF Forgets
<1>2. claim'.pc = "idle" /\ claim'.n = claim.n /\ claim' \in ClaimType
  BY <1>1, CustodyAssumption DEF NoClaim, ClaimType, Managed, CInv, CustodyTypeOK
<1>3. CustodyTypeOK'
  BY <1>1, <1>2 DEF CInv, CustodyTypeOK, JInv
<1>4. InFlight'
  BY <1>2 DEF InFlight
<1>5. Firm'
  <2>1. SUFFICES ASSUME NEW j \in 1..Len(said), said[j].k = "claimed"
                 PROVE  /\ said[j].n \in 1..claim.n
                        /\ (said[j].artifact \in Managed /\ said[j].n \notin uncertain) =>
                             Is(f[said[j].n], "named", said[j].digest, TRUE, TRUE)
    BY <1>1, <1>2 DEF Firm
  <2>2. /\ said[j].n \in 1..claim.n
        /\ (said[j].artifact \in Managed /\ said[j].n \notin uncertain) =>
             Is(snapshot[said[j].n], "named", said[j].digest, TRUE, TRUE)
    BY <2>1 DEF CInv, Firm
  <2>3. claim.n \in 0..MaxClaims
    BY DEF CInv, CustodyTypeOK, ClaimType
  <2>4. said[j].n \in Claims
    BY <2>2, <2>3, CustodyAssumption DEF Claims
  <2>5. QED
    BY <2>2, <2>4 DEF Is
<1>6. NamedSynced'
  BY DEF CInv, NamedSynced
<1>7. InCheckout(Receipts)' \subseteq InCheckout(Receipts)
  BY DEF InCheckout, Receipts
<1>8. CleanKnows'
  BY <1>1, <1>7 DEF CInv, CleanKnows
<1>9. QED
  BY <1>3, <1>4, <1>5, <1>6, <1>8 DEF CInv

LEMMA NamedIs ==
  ASSUME NEW s \in SnapshotType
  PROVE  /\ Named(s) \in SnapshotType
         /\ s.at = "named" => Named(s) = s
         /\ Named(s).at = "named" => Named(s) = s
BY NothingMade DEF Named

LEMMA KillStep ==
  ASSUME CInv, JInv', KillAll
  PROVE  CInv'
<1>1. Forgets /\ UNCHANGED <<file, said, minted>> /\ snapshot' = [c \in Claims |-> Named(snapshot[c])]
  BY DEF KillAll, Kill, Forgets
<1>2. Told' = Told
  BY <1>1, Silent
<1>3. DEFINE f == [c \in Claims |-> Named(snapshot[c])]
<1>4. \A c \in Claims : snapshot[c] \in SnapshotType
  BY DEF CInv, CustodyTypeOK
<1>5. f \in [Claims -> SnapshotType]
  BY <1>4, NamedIs
<1>6. \A c \in Claims : /\ snapshot[c].at = "named" => f[c] = snapshot[c]
                        /\ f[c].at = "named" => f[c] = snapshot[c]
  BY <1>4, NamedIs
<1> HIDE DEF f
<1>7. snapshot' = f
  BY <1>1 DEF f
<1>8. QED
  BY <1>1, <1>2, <1>5, <1>6, <1>7, ForgetStep

LEMMA LossOf ==
  ASSUME NEW s \in SnapshotType, s.at = "named" => s.synced, NEW r \in AfterLoss(s)
  PROVE  /\ r \in SnapshotType
         /\ r.at = "named" => r = s
         /\ (ParentsKept /\ s.at = "named" /\ s.kept) => r = s
<1>1. CASE r = NoSnapshot /\ ~(s.kept /\ ParentsKept)
  BY <1>1, NothingMade
<1>2. CASE s.synced /\ r = Named(s)
  BY <1>2, NamedIs
<1>3. CASE ~s.synced /\ r = [Named(s) EXCEPT !.body = Part]
  <2>1. Named(s) = NoSnapshot
    BY <1>3 DEF Named
  <2>2. Part \in 0..Part
    BY CustodyAssumption DEF Part
  <2>3. r \in SnapshotType /\ r.at = "none"
    BY <1>3, <2>1, <2>2, NothingMade DEF SnapshotType, NoSnapshot
  <2>4. QED
    BY <1>3, <2>3
<1>4. QED
  BY <1>1, <1>2, <1>3 DEF AfterLoss

\* A directory that was fsynced is where it was, with every name in it.
LEMMA LossStep ==
  ASSUME CInv, JInv', PowerLossAll, ParentsKept
  PROVE  CInv'
<1>1. PowerLoss /\ Forgets /\ UNCHANGED <<said, minted>>
  BY DEF PowerLossAll, Forgets, PowerLoss
<1>2. Told' \subseteq Told
  BY <1>1, LossTells DEF CInv
<1>3. PICK f \in [Claims -> UNION {AfterLoss(snapshot[c]) : c \in Claims}] :
        /\ \A c \in Claims : f[c] \in AfterLoss(snapshot[c])
        /\ snapshot' = f
  BY DEF PowerLossAll
<1>4. \A c \in Claims : snapshot[c] \in SnapshotType /\ (snapshot[c].at = "named" => snapshot[c].synced)
  BY DEF CInv, CustodyTypeOK, NamedSynced
<1>5. \A c \in Claims :
        /\ f[c] \in SnapshotType
        /\ f[c].at = "named" => f[c] = snapshot[c]
        /\ snapshot[c].at = "named" /\ snapshot[c].kept => f[c] = snapshot[c]
  BY <1>3, <1>4, LossOf
<1>6. f \in [Claims -> SnapshotType]
  BY <1>3, <1>5
<1>7. QED
  BY <1>1, <1>2, <1>3, <1>5, <1>6, ForgetStep

LEMMA CustodyNextInv ==
  ASSUME CInv, [CustodyNext]_cvars, ParentsKept
  PROVE  CInv'
<1>1. JInv'
  BY StepIsJournals, NextInv DEF CInv
<1>2. CASE Opens \/ Takes \/ Syncs \/ SyncsNot \/ Returns
  BY <1>1, <1>2, QuietStep
<1>3. CASE AnyEvent \/ RecordCleaned
  BY <1>1, <1>3, SaidStep
<1>4. CASE Validate
  BY <1>1, <1>4, ValidateStep
<1>5. CASE Fill
  BY <1>1, <1>5, FillStep
<1>6. CASE SyncBody \/ Rename \/ SyncName \/ SyncNameFails
  BY <1>1, <1>6, DurableStep
<1>7. CASE PublishFails
  BY <1>1, <1>7, PublishFailsStep
<1>8. CASE FileClaim
  BY <1>1, <1>8, FileStep
<1>9. CASE FilingFails
  BY <1>1, <1>9, FilingFailsStep
<1>10. CASE RecordClaim
  BY <1>1, <1>10, RecordStep
<1>11. CASE CleanRead \/ RemoveCheckout \/ RemovalFails \/ RemoveRest \/ CleanTakes
  BY <1>1, <1>11, CleanStep
<1>12. CASE Edits
  BY <1>1, <1>12, EditStep
<1>13. CASE KillAll
  BY <1>1, <1>13, KillStep
<1>14. CASE PowerLossAll
  BY <1>1, <1>14, LossStep
<1>15. CASE UNCHANGED cvars
  <2>1. UNCHANGED <<file, said, store, held, minted, pending, writing>>
    BY <1>15 DEF cvars, vars, handle
  <2>2. InFlight' /\ Firm' /\ NamedSynced' /\ CleanKnows'
    BY <2>1, Stands DEF CInv, CleanKnows
  <2>3. CustodyTypeOK'
    BY <1>1, <2>1 DEF CInv, CustodyTypeOK, JInv, store, held
  <2>4. QED
    BY <1>1, <2>2, <2>3 DEF CInv
<1>16. QED
  BY <1>2, <1>3, <1>4, <1>5, <1>6, <1>7, <1>8, <1>9, <1>10, <1>11, <1>12, <1>13, <1>14, <1>15
     DEF CustodyNext

\* Where fsync of a directory keeps the directory, the evidence that a journal
\* names is there, however many Claims, edits, cleans, failures, kills and
\* losses of power there were (handle_claim, publish, clean_work).
THEOREM EvidenceIsKept ==
  ASSUME ParentsKept
  PROVE  CustodySpec => []EvidenceStands
<1>1. CInv => EvidenceStands
  <2>1. SUFFICES ASSUME CInv PROVE EvidenceStands
    OBVIOUS
  <2>2. NamedIsWhole
    BY <2>1 DEF CInv, NamedSynced, NamedIsWhole
  <2>3. ClaimedIsKept
    <3>1. SUFFICES ASSUME NEW e \in Told, e.k = "claimed", e.artifact \in Managed,
                          e.n \notin uncertain
                   PROVE  snapshot[e.n].at = "named" /\ snapshot[e.n].body = e.digest
      BY DEF ClaimedIsKept, Receipts
    <3>2. PICK i \in 1..Len(file) : e = said[file[i].event]
      BY <3>1 DEF Told
    <3>3. file[i].event \in 1..Len(said)
      BY <2>1, <3>2, EventFacts DEF CInv
    <3>4. Is(snapshot[e.n], "named", e.digest, TRUE, TRUE)
      BY <2>1, <3>1, <3>2, <3>3 DEF CInv, Firm
    <3>5. QED
      BY <3>4 DEF Is
  <2>4. CleanSpares
    BY <2>1 DEF CInv, CleanKnows, CleanSpares
  <2>5. QED
    BY <2>1, <2>2, <2>3, <2>4 DEF CInv, EvidenceStands
<1>2. CustodyInit => CInv
  BY CustodyInitInv
<1>3. CInv /\ [CustodyNext]_cvars => CInv'
  BY CustodyNextInv
<1>4. QED
  BY <1>1, <1>2, <1>3, PTL DEF CustodySpec, cvars

=============================================================================
