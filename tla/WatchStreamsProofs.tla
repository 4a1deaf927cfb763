-------------------------- MODULE WatchStreamsProofs --------------------------
(***************************************************************************)
(* The daemon's streams implement WatchFeed, and nothing they owe a client *)
(* is lost, for every number of Works, events and connections.             *)
(*                                                                         *)
(* The invariant has three parts beside the types: what a watcher has in   *)
(* hand continues what its client has read and ends at the journal; what   *)
(* an estate stream has in hand ends at its cursor; and an estate stream   *)
(* that is past its listing will be woken for whatever it has not read.    *)
(***************************************************************************)
EXTENDS WatchStreams, SequenceTheorems, TLAPS

Line == Works \X (1..MaxEvents)

Ranges ==
  /\ journal \in [Works -> 0..MaxEvents]
  /\ step \in [Works -> {"idle", "written", "sent", "waking"}]
  /\ guard \in [Works -> {"free", "append"} \cup Watchers]
  /\ toWake \in [Works -> SUBSET Estates]
  /\ senders \subseteq Watchers /\ wakes \subseteq Estates
  /\ ready \in [Estates -> BOOLEAN]
  /\ pc \in [Clients -> {"off", "replayed", "live", "dialed", "list", "drain",
                         "wait", "gone"}]
  /\ queue \in [Clients -> Seq(Line)]
  /\ todo \in [Estates -> SUBSET Works]
  /\ cursor \in [Estates -> [Works -> 0..MaxEvents]]
  /\ got \in [Clients -> [Works -> Seq(1..MaxEvents)]]

\* A guard is held by whoever is in the middle of what it guards.
Tied ==
  /\ \A w \in Works : guard[w] = "append" <=> step[w] # "idle"
  /\ \A w \in Works, x \in Watchers :
       guard[w] = x <=> (pc[x] = "replayed" /\ Subject[x] = w)

Phases ==
  /\ \A w \in Works : step[w] # "idle" => journal[w] # 0
  /\ \A x \in Watchers : pc[x] \in {"off", "replayed", "live", "gone"}
  /\ \A y \in Estates : pc[y] \in {"off", "dialed", "list", "drain", "wait", "gone"}

Kinds == Ranges /\ Tied /\ Phases

\* The lines q are the events of w after the n-th.
Continues(q, w, n) == \A i \in 1..Len(q) : q[i] = <<w, n + i>>

Count(c, w) == Len(got[c][w])

\* What has been sent to whoever is registered.
Sent(w) == IF step[w] = "written" THEN journal[w] - 1 ELSE journal[w]

WatcherInHand(x) ==
  LET w == Subject[x] IN
  /\ pc[x] = "live" => x \in senders
  /\ x \in senders => pc[x] \in {"live", "gone"}
  /\ pc[x] \in {"off", "gone"} => queue[x] = <<>>
  /\ pc[x] = "off" => Count(x, w) = 0
  /\ pc[x] \in {"replayed", "live"} =>
       Continues(queue[x], w, Count(x, w)) /\ Count(x, w) + Len(queue[x]) = Sent(w)

EstateInHand(y) ==
  /\ queue[y] # <<>> => pc[y] = "drain"
  /\ \A w \in Works : cursor[y][w] <= journal[w]
  /\ pc[y] # "gone" =>
       \/ queue[y] = <<>> /\ \A w \in Works : cursor[y][w] = Count(y, w)
       \/ \E u \in Works :
            /\ Continues(queue[y], u, Count(y, u))
            /\ cursor[y][u] = Count(y, u) + Len(queue[y])
            /\ \A w \in Works \ {u} : cursor[y][w] = Count(y, w)

\* Some step is still to come that makes stream y read event after event of w.
WillRead(y, w) ==
  \/ cursor[y][w] = journal[w]
  \/ step[w] \in {"written", "sent"}
  \/ y \in toWake[w]
  \/ pc[y] = "drain" /\ w \in todo[y]

Woken(y) ==
  /\ pc[y] \in {"dialed", "list", "drain", "wait"} => y \in wakes
  /\ pc[y] \in {"drain", "wait"} => ready[y] \/ \A w \in Works : WillRead(y, w)

Streams ==
  /\ Kinds
  /\ \A x \in Watchers : WatcherInHand(x)
  /\ \A y \in Estates : EstateInHand(y) /\ Woken(y)

-----------------------------------------------------------------------------
(* Lines in hand. *)

LEMMA EventsContinue ==
  ASSUME NEW w \in Works, NEW from \in Nat, NEW to \in 0..MaxEvents, from <= to
  PROVE  /\ Events(w, from, to) \in Seq(Line)
         /\ Len(Events(w, from, to)) = to - from
         /\ Continues(Events(w, from, to), w, from)
<1> DEFINE n == to - from
<1>1. n \in Nat /\ MaxEvents \in Nat
  BY WatchAssumption
<1>2. \A i \in 1..n : <<w, from + i>> \in Line
  BY <1>1 DEF Line
<1>3. Events(w, from, to) \in [1..n -> Line]
  BY <1>1, <1>2 DEF Events
<1>4. Events(w, from, to) \in Seq(Line) /\ Len(Events(w, from, to)) = n
  <2> HIDE DEF n
  <2> QED
    BY <1>1, <1>3
<1> QED
  BY <1>1, <1>4 DEF Events, Continues

LEMMA AppendContinues ==
  ASSUME NEW w \in Works, NEW n \in Nat, NEW q \in Seq(Line), Continues(q, w, n),
         NEW e \in Line, e = <<w, n + Len(q) + 1>>
  PROVE  /\ Append(q, e) \in Seq(Line)
         /\ Len(Append(q, e)) = Len(q) + 1
         /\ Continues(Append(q, e), w, n)
<1>1. /\ Append(q, e) \in Seq(Line) /\ Len(q) \in Nat
      /\ Len(Append(q, e)) = Len(q) + 1
      /\ \A i \in 1..Len(q) : Append(q, e)[i] = q[i]
      /\ Append(q, e)[Len(q) + 1] = e
  BY AppendProperties
<1>2. ASSUME NEW i \in 1..Len(q) + 1
      PROVE  Append(q, e)[i] = <<w, n + i>>
  <2>1. CASE i = Len(q) + 1
    <3>1. n + i = n + Len(q) + 1
      BY <1>1, <2>1
    <3> QED
      BY <1>1, <2>1, <3>1
  <2>2. CASE i # Len(q) + 1
    <3>1. i \in 1..Len(q)
      BY <1>1, <2>2
    <3> QED
      BY <1>1, <3>1 DEF Continues
  <2> QED
    BY <2>1, <2>2
<1> QED
  BY <1>1, <1>2 DEF Continues

LEMMA TailContinues ==
  ASSUME NEW w \in Works, NEW n \in Nat, NEW q \in Seq(Line), q # <<>>, Continues(q, w, n)
  PROVE  /\ Head(q) = <<w, n + 1>> /\ Head(q) \in Line
         /\ Tail(q) \in Seq(Line) /\ Len(Tail(q)) = Len(q) - 1 /\ Len(q) > 0
         /\ Continues(Tail(q), w, n + 1)
<1>1. /\ Len(q) \in Nat \ {0} /\ Head(q) = q[1] /\ Head(q) \in Line
      /\ Tail(q) \in Seq(Line) /\ Len(Tail(q)) = Len(q) - 1
      /\ \A i \in 1..Len(Tail(q)) : Tail(q)[i] = q[i + 1]
  BY HeadTailProperties, EmptySeq
<1>2. q[1] = <<w, n + 1>>
  BY <1>1 DEF Continues
<1>3. \A i \in 1..Len(Tail(q)) : Tail(q)[i] = <<w, n + 1 + i>>
  BY <1>1 DEF Continues
<1> QED
  BY <1>1, <1>2, <1>3 DEF Continues

-----------------------------------------------------------------------------
(* Types: every action keeps them. *)

LEMMA KindsTypes ==
  Kinds => TypeOK
BY DEF Kinds, Ranges, Tied, TypeOK, Line, Clients

LEMMA AppendStepKinds ==
  ASSUME Streams, NEW w \in Works,
         \/ AppendEvent(w) \/ Send(w) \/ CloneWakes(w) \/ RetainWakes(w)
         \/ \E y \in Estates : Signal(w, y)
  PROVE  Kinds'
<1> USE WatchAssumption DEF appender, conn
<1>0. Ranges /\ Tied /\ Phases
  BY DEF Streams, Kinds
<1>1. CASE AppendEvent(w)
  <2>1. Ranges'
    BY <1>0, <1>1 DEF AppendEvent, Ranges
  <2>2. Tied' /\ Phases'
    BY <1>0, <1>1 DEF AppendEvent, Ranges, Tied, Phases
  <2> QED
    BY <2>1, <2>2 DEF Kinds
<1>2. CASE Send(w)
  <2>1. <<w, journal[w]>> \in Line
    BY <1>0, <1>2 DEF Send, Line, Ranges, Phases
  <2>2. \A c \in Clients : Append(queue[c], <<w, journal[w]>>) \in Seq(Line)
    BY <1>0, <2>1, AppendProperties DEF Ranges
  <2>3. Ranges'
    BY <1>0, <1>2, <2>2 DEF Send, Ranges
  <2>4. Tied' /\ Phases'
    BY <1>0, <1>2 DEF Send, Ranges, Tied, Phases
  <2> QED
    BY <2>3, <2>4 DEF Kinds
<1>3. CASE CloneWakes(w)
  BY <1>0, <1>3 DEF CloneWakes, Kinds, Ranges, Tied, Phases
<1>4. CASE RetainWakes(w)
  BY <1>0, <1>4 DEF RetainWakes, Kinds, Ranges, Tied, Phases
<1>5. CASE \E y \in Estates : Signal(w, y)
  BY <1>0, <1>5 DEF Signal, Kinds, Ranges, Tied, Phases
<1> QED
  BY <1>1, <1>2, <1>3, <1>4, <1>5

LEMMA WatcherStepKinds ==
  ASSUME Streams, NEW x \in Watchers, Replay(x) \/ Register(x)
  PROVE  Kinds'
<1> USE WatchAssumption DEF appender, Clients
<1>0. Ranges /\ Tied /\ Phases /\ Subject[x] \in Works
  BY DEF Streams, Kinds
<1>1. CASE Replay(x)
  <2>1. Events(Subject[x], 0, journal[Subject[x]]) \in Seq(Line)
    BY <1>0, EventsContinue DEF Ranges
  <2>2. Ranges'
    BY <1>0, <1>1, <2>1 DEF Replay, Ranges
  <2>3. Tied' /\ Phases'
    BY <1>0, <1>1 DEF Replay, Ranges, Tied, Phases
  <2> QED
    BY <2>2, <2>3 DEF Kinds
<1>2. CASE Register(x)
  <2>1. Ranges'
    BY <1>0, <1>2 DEF Register, Ranges
  <2>2. Tied' /\ Phases'
    BY <1>0, <1>2 DEF Register, Ranges, Tied, Phases
  <2> QED
    BY <2>1, <2>2 DEF Kinds
<1> QED
  BY <1>1, <1>2

LEMMA EstateStepKinds ==
  ASSUME Streams, NEW y \in Estates,
         \/ Dial(y) \/ Acknowledge(y) \/ ListWorks(y) \/ Sleep(y) \/ Wake(y)
         \/ \E w \in Works : DrainWork(y, w)
  PROVE  Kinds'
<1> USE WatchAssumption DEF appender, Clients
<1>0. Ranges /\ Tied /\ Phases /\ EstateInHand(y) /\ y \notin Watchers
  BY DEF Streams, Kinds
<1>1. CASE Dial(y)
  BY <1>0, <1>1 DEF Dial, Kinds, Ranges, Tied, Phases
<1>2. CASE Acknowledge(y)
  BY <1>0, <1>2 DEF Acknowledge, Kinds, Ranges, Tied, Phases
<1>3. CASE ListWorks(y)
  BY <1>0, <1>3 DEF ListWorks, Kinds, Ranges, Tied, Phases
<1>4. CASE Sleep(y)
  BY <1>0, <1>4 DEF Sleep, Kinds, Ranges, Tied, Phases
<1>5. CASE Wake(y)
  BY <1>0, <1>5 DEF Wake, Kinds, Ranges, Tied, Phases
<1>6. ASSUME NEW w \in Works, DrainWork(y, w)
      PROVE  Kinds'
  <2>1. /\ cursor[y][w] \in Nat /\ journal[w] \in 0..MaxEvents
        /\ cursor[y][w] <= journal[w]
    BY <1>0 DEF EstateInHand, Ranges
  <2>2. Events(w, cursor[y][w], journal[w]) \in Seq(Line)
    BY <2>1, EventsContinue
  <2>3. Ranges'
    BY <1>0, <1>6, <2>2 DEF DrainWork, Ranges
  <2>4. Tied' /\ Phases'
    BY <1>0, <1>6 DEF DrainWork, Tied, Phases
  <2> QED
    BY <2>3, <2>4 DEF Kinds
<1> QED
  BY <1>1, <1>2, <1>3, <1>4, <1>5, <1>6

LEMMA ClientStepKinds ==
  ASSUME Streams, NEW c \in Clients, WriteLine(c) \/ HangUp(c)
  PROVE  Kinds'
<1> USE WatchAssumption DEF appender
<1>0. Ranges /\ Tied /\ Phases
  BY DEF Streams, Kinds
<1>1. CASE WriteLine(c)
  <2> DEFINE e == Head(queue[c])
  <2>1. queue[c] \in Seq(Line) /\ queue[c] # <<>>
    BY <1>0, <1>1 DEF WriteLine, Writing, Ranges
  <2>2. e \in Line /\ Tail(queue[c]) \in Seq(Line)
    BY <2>1
  <2>3. e[1] \in Works /\ e[2] \in 1..MaxEvents
    BY <2>2 DEF Line
  <2>4. Append(got[c][e[1]], e[2]) \in Seq(1..MaxEvents)
    BY <1>0, <2>3, AppendProperties DEF Ranges
  <2>5. /\ got' = [got EXCEPT ![c][e[1]] = Append(got[c][e[1]], e[2])]
        /\ queue' = [queue EXCEPT ![c] = Tail(queue[c])]
    BY <1>1 DEF WriteLine
  <2> HIDE DEF e
  <2>6. got' \in [Clients -> [Works -> Seq(1..MaxEvents)]]
    BY <1>0, <2>3, <2>4, <2>5 DEF Ranges
  <2>7. queue' \in [Clients -> Seq(Line)]
    BY <1>0, <2>2, <2>5 DEF Ranges
  <2>8. Ranges'
    BY <1>0, <1>1, <2>6, <2>7 DEF WriteLine, Ranges
  <2> QED
    BY <1>0, <1>1, <2>8 DEF WriteLine, Kinds, Tied, Phases
<1>2. CASE HangUp(c)
  <2>1. <<>> \in Seq(Line)
    BY EmptySeq
  <2>2. Ranges'
    BY <1>0, <1>2, <2>1 DEF HangUp, Ranges
  <2>3. Tied' /\ Phases'
    BY <1>0, <1>2 DEF HangUp, Clients, Writing, Ranges, Tied, Phases
  <2> QED
    BY <2>2, <2>3 DEF Kinds
<1> QED
  BY <1>1, <1>2

LEMMA NextKinds ==
  ASSUME Streams, Next
  PROVE  Kinds'
BY AppendStepKinds, WatcherStepKinds, EstateStepKinds, ClientStepKinds
DEF Next, AppendSteps, WatcherSteps, EstateSteps, Clients

-----------------------------------------------------------------------------
(* What a watcher has in hand. *)

LEMMA WatcherFrame ==
  ASSUME Streams, NEW x \in Watchers, Sent(Subject[x])' = Sent(Subject[x]),
         pc'[x] = pc[x], queue'[x] = queue[x], got'[x] = got[x],
         x \in senders' <=> x \in senders
  PROVE  WatcherInHand(x)'
<1>1. WatcherInHand(x)
  BY DEF Streams
<1> QED
  BY <1>1 DEF WatcherInHand, Continues, Count

LEMMA AppendStepWatcher ==
  ASSUME Streams, NEW x \in Watchers, NEW w \in Works,
         \/ AppendEvent(w) \/ Send(w) \/ CloneWakes(w) \/ RetainWakes(w)
         \/ \E y \in Estates : Signal(w, y)
  PROVE  WatcherInHand(x)'
<1> USE WatchAssumption DEF appender, conn
<1>0. Ranges /\ Tied /\ Phases /\ WatcherInHand(x) /\ Subject[x] \in Works
  BY DEF Streams, Kinds
<1>1. CASE AppendEvent(w)
  <2>1. Sent(Subject[x])' = Sent(Subject[x])
    <3>1. CASE Subject[x] = w
      <4>1. /\ step[w] = "idle" /\ step'[w] = "written" /\ journal[w] \in Nat
            /\ journal'[w] = journal[w] + 1
        BY <1>0, <1>1 DEF AppendEvent, Tied, Ranges
      <4> QED
        BY <3>1, <4>1 DEF Sent
    <3>2. CASE Subject[x] # w
      BY <1>0, <1>1, <3>2 DEF AppendEvent, Sent, Ranges
    <3> QED
      BY <3>1, <3>2
  <2> QED
    BY <1>1, <2>1, WatcherFrame DEF AppendEvent
<1>2. CASE Send(w)
  <2>0. /\ pc' = pc /\ got' = got /\ x \in Clients
        /\ senders' = senders \ {c \in Follow(w) : pc[c] = "gone"}
        /\ step[w] = "written" /\ pc[x] \in {"off", "replayed", "live", "gone"}
    BY <1>0, <1>2 DEF Send, Phases, Clients
  <2>1. CASE Subject[x] # w
    <3>1. Sent(Subject[x])' = Sent(Subject[x]) /\ x \notin Follow(w)
      BY <1>0, <1>2, <2>1 DEF Send, Sent, Ranges, Follow
    <3> QED
      BY <1>2, <2>0, <3>1, WatcherFrame DEF Send
  <2>2. CASE Subject[x] = w /\ pc[x] = "live"
    <3>1. queue'[x] = Append(queue[x], <<w, journal[w]>>) /\ (x \in senders')
      BY <1>0, <1>2, <2>0, <2>2 DEF Send, WatcherInHand, Follow
    <3>2. /\ Continues(queue[x], w, Count(x, w))
          /\ Count(x, w) + Len(queue[x]) = journal[w] - 1
      BY <1>0, <2>0, <2>2 DEF WatcherInHand, Sent
    <3>3. queue[x] \in Seq(Line) /\ Count(x, w) \in Nat /\ Len(queue[x]) \in Nat
      BY <1>0, <2>0 DEF Ranges, Count
    <3>4. journal[w] = Count(x, w) + Len(queue[x]) + 1 /\ <<w, journal[w]>> \in Line
      BY <1>0, <2>0, <3>2, <3>3 DEF Ranges, Phases, Line
    <3>5. Continues(queue'[x], w, Count(x, w)) /\ Len(queue'[x]) = Len(queue[x]) + 1
      BY <3>1, <3>2, <3>3, <3>4, AppendContinues
    <3>6. Sent(w)' = journal[w]
      BY <1>0, <1>2 DEF Send, Sent, Ranges
    <3>7. Count(x, w)' = Count(x, w)
      BY <2>0 DEF Count
    <3>8. /\ Continues(queue[x], w, Count(x, w))'
          /\ Count(x, w)' + Len(queue'[x]) = Sent(w)'
      BY <3>3, <3>4, <3>5, <3>6, <3>7 DEF Continues
    <3> QED
      BY <2>0, <2>2, <3>1, <3>8 DEF WatcherInHand
  <2>3. CASE Subject[x] = w /\ pc[x] # "live"
    <3>1. pc[x] # "replayed"
      BY <1>0, <2>0, <2>3 DEF Tied
    <3>2. queue'[x] = queue[x]
      BY <1>0, <1>2, <2>0, <2>3, <3>1 DEF Send, WatcherInHand, Follow
    <3> QED
      BY <1>0, <2>0, <2>3, <3>1, <3>2 DEF WatcherInHand, Count, Follow
  <2> QED
    BY <2>1, <2>2, <2>3
<1>3. CASE CloneWakes(w)
  <2>1. Sent(Subject[x])' = Sent(Subject[x])
    BY <1>0, <1>3 DEF CloneWakes, Sent, Ranges
  <2> QED
    BY <1>3, <2>1, WatcherFrame DEF CloneWakes
<1>4. CASE RetainWakes(w)
  <2>1. Sent(Subject[x])' = Sent(Subject[x])
    BY <1>0, <1>4 DEF RetainWakes, Sent, Ranges
  <2> QED
    BY <1>4, <2>1, WatcherFrame DEF RetainWakes
<1>5. CASE \E y \in Estates : Signal(w, y)
  <2>1. Sent(Subject[x])' = Sent(Subject[x])
    BY <1>5 DEF Signal, Sent
  <2> QED
    BY <1>5, <2>1, WatcherFrame DEF Signal
<1> QED
  BY <1>1, <1>2, <1>3, <1>4, <1>5

LEMMA ConnectionStepWatcher ==
  ASSUME Streams, NEW x \in Watchers,
         \/ \E z \in Watchers : Replay(z) \/ Register(z)
         \/ \E c \in Clients : WriteLine(c) \/ HangUp(c)
  PROVE  WatcherInHand(x)'
<1> USE WatchAssumption DEF appender
<1>0. /\ Ranges /\ Tied /\ Phases /\ WatcherInHand(x)
      /\ Subject[x] \in Works /\ x \in Clients
  BY DEF Streams, Kinds, Clients
<1> DEFINE w == Subject[x]
<1>1. queue[x] \in Seq(Line) /\ got[x][w] \in Seq(1..MaxEvents) /\ Count(x, w) \in Nat
  BY <1>0 DEF Ranges, Count
<1>2. ASSUME Replay(x)
      PROVE  WatcherInHand(x)'
  <2>1. /\ queue'[x] = Events(w, 0, journal[w]) /\ pc'[x] = "replayed" /\ pc[x] = "off"
        /\ journal' = journal /\ step' = step /\ got' = got /\ senders' = senders
        /\ guard[w] = "free"
    BY <1>0, <1>2 DEF Replay, Ranges
  <2>2. /\ Len(queue'[x]) = journal[w] /\ Continues(queue'[x], w, 0)
        /\ journal[w] \in Nat
    <3>1. journal[w] \in 0..MaxEvents
      BY <1>0 DEF Ranges
    <3>2. 0 <= journal[w] /\ journal[w] - 0 = journal[w] /\ journal[w] \in Nat
      BY <3>1
    <3> QED
      BY <1>0, <2>1, <3>1, <3>2, EventsContinue
  <2>3. Count(x, w) = 0 /\ x \notin senders
    BY <1>0, <2>1 DEF WatcherInHand
  <2>4. Sent(w)' = journal[w]
    BY <1>0, <2>1 DEF Sent, Tied
  <2> QED
    BY <2>1, <2>2, <2>3, <2>4 DEF WatcherInHand, Continues, Count
<1>3. ASSUME Register(x)
      PROVE  WatcherInHand(x)'
  BY <1>0, <1>3 DEF Register, WatcherInHand, Continues, Count, Sent, Ranges
<1>4. ASSUME WriteLine(x)
      PROVE  WatcherInHand(x)'
  <2>1. pc[x] = "live" /\ queue[x] # <<>>
    BY <1>0, <1>4 DEF WriteLine, Writing, Phases
  <2>2. Continues(queue[x], w, Count(x, w)) /\ Count(x, w) + Len(queue[x]) = Sent(w)
    BY <1>0, <2>1 DEF WatcherInHand
  <2>3. /\ Head(queue[x]) = <<w, Count(x, w) + 1>> /\ Head(queue[x]) \in Line
        /\ Len(Tail(queue[x])) = Len(queue[x]) - 1
        /\ Continues(Tail(queue[x]), w, Count(x, w) + 1)
    BY <1>0, <1>1, <2>1, <2>2, TailContinues
  <2>4. queue'[x] = Tail(queue[x])
    BY <1>0, <1>4 DEF WriteLine, Ranges
  <2>5. got'[x][w] = Append(got[x][w], Count(x, w) + 1)
    <3> DEFINE e == Head(queue[x])
    <3>1. e[1] = w /\ e[2] = Count(x, w) + 1
      BY <2>3
    <3>2. got' = [got EXCEPT ![x][e[1]] = Append(got[x][e[1]], e[2])]
      BY <1>4 DEF WriteLine
    <3> HIDE DEF e
    <3> QED
      BY <1>0, <3>1, <3>2 DEF Ranges
  <2>6. Count(x, w)' = Count(x, w) + 1
    BY <1>1, <2>5, AppendProperties DEF Count
  <2>7. Sent(w)' = Sent(w) /\ pc' = pc /\ senders' = senders /\ Len(queue[x]) \in Nat
    <3>1. journal' = journal /\ step' = step /\ pc' = pc /\ senders' = senders
      BY <1>4 DEF WriteLine
    <3> QED
      BY <1>1, <3>1 DEF Sent
  <2> HIDE DEF w
  <2>8. /\ Continues(queue[x], w, Count(x, w))'
        /\ Count(x, w)' + Len(queue'[x]) = Sent(w)'
    <3>1. Count(x, w) \in Nat /\ Len(queue[x]) \in Nat
      BY <1>1, <2>7
    <3> QED
      BY <3>1, <2>2, <2>3, <2>4, <2>6, <2>7 DEF Continues
  <2> QED
    BY <1>0, <2>1, <2>7, <2>8 DEF WatcherInHand, w
<1>5. ASSUME HangUp(x)
      PROVE  WatcherInHand(x)'
  BY <1>0, <1>5 DEF HangUp, WatcherInHand, Ranges, Phases, Writing
<1>6. ASSUME NEW z \in Clients \ {x}, Replay(z) \/ Register(z), z \in Watchers
      PROVE  WatcherInHand(x)'
  BY <1>0, <1>6, WatcherFrame DEF Replay, Register, Sent, Ranges
<1>7. ASSUME NEW z \in Clients \ {x}, WriteLine(z) \/ HangUp(z)
      PROVE  WatcherInHand(x)'
  BY <1>0, <1>7, WatcherFrame DEF WriteLine, HangUp, Sent, Ranges
<1> QED
  BY <1>2, <1>3, <1>4, <1>5, <1>6, <1>7 DEF Clients

LEMMA EstateStepWatcher ==
  ASSUME Streams, NEW x \in Watchers, NEW y \in Estates,
         \/ Dial(y) \/ Acknowledge(y) \/ ListWorks(y) \/ Sleep(y) \/ Wake(y)
         \/ \E w \in Works : DrainWork(y, w)
  PROVE  WatcherInHand(x)'
<1>1. Ranges /\ x # y /\ x \in Clients
  BY WatchAssumption DEF Streams, Kinds, Clients
<1>2. /\ journal' = journal /\ step' = step /\ senders' = senders /\ got' = got
      /\ pc'[x] = pc[x] /\ queue'[x] = queue[x]
  BY <1>1 DEF Dial, Acknowledge, ListWorks, Sleep, Wake, DrainWork, appender, Ranges
<1> QED
  BY <1>2, WatcherFrame DEF Sent

-----------------------------------------------------------------------------
(* What an estate stream has in hand. *)

LEMMA EstateFrame ==
  ASSUME Streams, Kinds', NEW y \in Estates,
         queue'[y] = queue[y], got'[y] = got[y], cursor'[y] = cursor[y],
         \A w \in Works : journal[w] <= journal'[w],
         pc'[y] = pc[y] \/ (queue[y] = <<>> /\ pc[y] # "gone")
  PROVE  EstateInHand(y)'
<1>1. EstateInHand(y) /\ Ranges /\ Ranges'
  BY DEF Streams, Kinds
<1>2. \A w \in Works : cursor'[y][w] <= journal'[w]
  <2> TAKE w \in Works
  <2>1. cursor[y][w] \in Nat /\ journal[w] \in Nat /\ journal'[w] \in Nat
    BY <1>1, WatchAssumption DEF Ranges
  <2>2. cursor[y][w] <= journal[w] /\ journal[w] <= journal'[w]
    BY <1>1 DEF EstateInHand
  <2> QED
    BY <2>1, <2>2
<1>3. pc[y] # "gone" =>
        \/ queue'[y] = <<>> /\ \A w \in Works : cursor'[y][w] = Count(y, w)'
        \/ \E u \in Works :
             /\ Continues(queue[y], u, Count(y, u))'
             /\ cursor'[y][u] = Count(y, u)' + Len(queue'[y])
             /\ \A w \in Works \ {u} : cursor'[y][w] = Count(y, w)'
  BY <1>1 DEF EstateInHand, Continues, Count
<1>4. queue'[y] # <<>> => pc'[y] = "drain"
  BY <1>1 DEF EstateInHand
<1> QED
  BY <1>2, <1>3, <1>4 DEF EstateInHand

\* Where nothing is in hand, everything before the cursor has been read.
LEMMA NothingInHand ==
  ASSUME Streams, NEW y \in Estates, queue[y] = <<>>, pc[y] # "gone"
  PROVE  \A w \in Works : cursor[y][w] = Count(y, w)
<1>1. EstateInHand(y) /\ Ranges
  BY DEF Streams, Kinds
<1>2. \A w \in Works : Count(y, w) \in Nat
  BY <1>1 DEF Ranges, Count, Clients
<1>3. Len(queue[y]) = 0
  BY EmptySeq
<1>4. ASSUME NEW u \in Works, cursor[y][u] = Count(y, u) + Len(queue[y]),
             \A w \in Works \ {u} : cursor[y][w] = Count(y, w)
      PROVE  \A w \in Works : cursor[y][w] = Count(y, w)
  <2>1. cursor[y][u] = Count(y, u)
    BY <1>2, <1>3, <1>4
  <2> QED
    BY <1>4, <2>1
<1> QED
  BY <1>1, <1>4 DEF EstateInHand

LEMMA OtherStepEstate ==
  ASSUME Streams, Kinds', NEW y \in Estates,
         \/ \E w \in Works : \/ AppendEvent(w) \/ Send(w) \/ CloneWakes(w)
                             \/ RetainWakes(w) \/ \E z \in Estates : Signal(w, z)
         \/ \E x \in Watchers : Replay(x) \/ Register(x)
         \/ \E z \in Estates : \/ Dial(z) \/ Acknowledge(z) \/ ListWorks(z)
                               \/ Sleep(z) \/ Wake(z)
  PROVE  EstateInHand(y)'
<1> USE WatchAssumption DEF appender, conn
<1>0. Ranges /\ Phases /\ y \in Clients /\ y \notin Watchers /\ EstateInHand(y)
  BY DEF Streams, Kinds, Clients
<1>1. \A w \in Works : journal[w] \in Nat /\ journal[w] <= journal[w]
  BY <1>0 DEF Ranges
<1>2. ASSUME NEW w \in Works, AppendEvent(w)
      PROVE  EstateInHand(y)'
  <2>1. \A v \in Works : journal[v] <= journal'[v]
    BY <1>0, <1>1, <1>2 DEF AppendEvent, Ranges
  <2> QED
    BY <1>2, <2>1, EstateFrame DEF AppendEvent
<1>3. ASSUME NEW w \in Works, Send(w)
      PROVE  EstateInHand(y)'
  <2>1. y \notin Follow(w)
    BY <1>0 DEF Follow, Ranges
  <2> QED
    BY <1>0, <1>1, <1>3, <2>1, EstateFrame DEF Send
<1>4. ASSUME NEW w \in Works,
             CloneWakes(w) \/ RetainWakes(w) \/ \E z \in Estates : Signal(w, z)
      PROVE  EstateInHand(y)'
  <2>1. journal' = journal /\ queue' = queue /\ got' = got /\ cursor' = cursor /\ pc' = pc
    BY <1>4 DEF CloneWakes, RetainWakes, Signal
  <2> QED
    BY <1>1, <2>1, EstateFrame
<1>5. ASSUME NEW x \in Watchers, Replay(x) \/ Register(x)
      PROVE  EstateInHand(y)'
  <2>1. /\ journal' = journal /\ got' = got /\ cursor' = cursor
        /\ queue'[y] = queue[y] /\ pc'[y] = pc[y]
    BY <1>0, <1>5 DEF Replay, Register, Ranges
  <2> QED
    BY <1>1, <2>1, EstateFrame
<1>6. ASSUME NEW z \in Estates,
             Dial(z) \/ Acknowledge(z) \/ ListWorks(z) \/ Sleep(z) \/ Wake(z)
      PROVE  EstateInHand(y)'
  <2>1. journal' = journal /\ got' = got /\ cursor' = cursor /\ queue' = queue
    BY <1>6 DEF Dial, Acknowledge, ListWorks, Sleep, Wake
  <2>2. pc'[y] = pc[y] \/ (queue[y] = <<>> /\ pc[y] # "gone")
    BY <1>0, <1>6 DEF Dial, Acknowledge, ListWorks, Sleep, Drained, Wake, Ranges, EstateInHand
  <2> QED
    BY <1>1, <2>1, <2>2, EstateFrame
<1> QED
  BY <1>2, <1>3, <1>4, <1>5, <1>6

LEMMA DrainStepEstate ==
  ASSUME Streams, Kinds', NEW y \in Estates, NEW z \in Estates, NEW w \in Works,
         DrainWork(z, w)
  PROVE  EstateInHand(y)'
<1> USE WatchAssumption DEF appender
<1>0. Ranges /\ y \in Clients /\ EstateInHand(y)
  BY DEF Streams, Kinds, Clients
<1>1. \A v \in Works : journal[v] \in 0..MaxEvents /\ cursor[y][v] \in Nat /\ Count(y, v) \in Nat
  BY <1>0 DEF Ranges, Count
<1>2. CASE z # y
  <2>1. /\ journal' = journal /\ got' = got /\ pc' = pc
        /\ queue'[y] = queue[y] /\ cursor'[y] = cursor[y]
    BY <1>0, <1>2 DEF DrainWork, Ranges
  <2>2. \A v \in Works : journal[v] <= journal'[v]
    BY <1>1, <2>1
  <2> QED
    BY <2>1, <2>2, EstateFrame
<1>3. CASE z = y
  <2>1. /\ queue[y] = <<>> /\ pc[y] = "drain" /\ pc' = pc /\ got' = got /\ journal' = journal
        /\ queue'[y] = Events(w, cursor[y][w], journal[w])
        /\ cursor'[y] = [cursor[y] EXCEPT ![w] = journal[w]]
    BY <1>0, <1>3 DEF DrainWork, DrainingOf, Ranges
  <2>2. \A v \in Works : cursor[y][v] = Count(y, v) /\ Count(y, v)' = Count(y, v)
    BY <2>1, NothingInHand DEF Count
  <2>3. \A v \in Works : cursor[y][v] <= journal[v]
    BY <1>0 DEF EstateInHand
  <2>4. /\ Len(queue'[y]) = journal[w] - cursor[y][w]
        /\ Continues(queue'[y], w, cursor[y][w])
    <3>1. /\ cursor[y][w] \in Nat /\ journal[w] \in 0..MaxEvents
          /\ cursor[y][w] <= journal[w]
      BY <1>1, <2>3
    <3>2. /\ Len(Events(w, cursor[y][w], journal[w])) = journal[w] - cursor[y][w]
          /\ Continues(Events(w, cursor[y][w], journal[w]), w, cursor[y][w])
      BY <3>1, EventsContinue
    <3> QED
      BY <2>1, <3>2
  <2>5. cursor'[y][w] = journal[w] /\ \A v \in Works \ {w} : cursor'[y][v] = cursor[y][v]
    BY <1>0, <2>1 DEF Ranges
  <2>6. /\ Continues(queue[y], w, Count(y, w))'
        /\ cursor'[y][w] = Count(y, w)' + Len(queue'[y])
        /\ \A v \in Works \ {w} : cursor'[y][v] = Count(y, v)'
    BY <1>1, <2>2, <2>4, <2>5 DEF Continues
  <2>7. \A v \in Works : cursor'[y][v] <= journal'[v]
    BY <1>1, <2>1, <2>3, <2>5
  <2> QED
    BY <2>1, <2>6, <2>7 DEF EstateInHand
<1> QED
  BY <1>2, <1>3

LEMMA ClientStepEstate ==
  ASSUME Streams, Kinds', NEW y \in Estates, NEW c \in Clients, WriteLine(c) \/ HangUp(c)
  PROVE  EstateInHand(y)'
<1> USE WatchAssumption DEF appender
<1>0. Ranges /\ Phases /\ y \in Clients /\ EstateInHand(y)
  BY DEF Streams, Kinds, Clients
<1>1. \A v \in Works : journal[v] \in Nat /\ journal[v] <= journal[v]
                       /\ Count(y, v) \in Nat /\ got[y][v] \in Seq(1..MaxEvents)
  BY <1>0 DEF Ranges, Count
<1>2. CASE c # y
  BY <1>0, <1>1, <1>2, EstateFrame DEF WriteLine, HangUp, Ranges
<1>3. CASE c = y /\ HangUp(c)
  <2>1. /\ queue'[y] = <<>> /\ pc'[y] = "gone"
        /\ cursor' = cursor /\ journal' = journal
    BY <1>0, <1>3 DEF HangUp, Ranges
  <2> QED
    BY <1>0, <2>1 DEF EstateInHand
<1>4. CASE c = y /\ WriteLine(c)
  <2>1. /\ pc[y] = "drain" /\ queue[y] # <<>> /\ queue[y] \in Seq(Line)
        /\ pc' = pc /\ cursor' = cursor /\ journal' = journal
    BY <1>0, <1>4 DEF WriteLine, Writing, Ranges, Phases
  <2>2. PICK u \in Works : /\ Continues(queue[y], u, Count(y, u))
                          /\ cursor[y][u] = Count(y, u) + Len(queue[y])
                          /\ \A w \in Works \ {u} : cursor[y][w] = Count(y, w)
    BY <1>0, <2>1 DEF EstateInHand
  <2>3. /\ Head(queue[y]) = <<u, Count(y, u) + 1>>
        /\ Len(Tail(queue[y])) = Len(queue[y]) - 1
        /\ Continues(Tail(queue[y]), u, Count(y, u) + 1)
    BY <1>1, <2>1, <2>2, TailContinues
  <2>4. queue'[y] = Tail(queue[y])
    BY <1>0, <1>4 DEF WriteLine, Ranges
  <2>5. /\ got'[y][u] = Append(got[y][u], Count(y, u) + 1)
        /\ \A w \in Works \ {u} : got'[y][w] = got[y][w]
    <3> DEFINE e == Head(queue[y])
    <3>1. e[1] = u /\ e[2] = Count(y, u) + 1
      BY <2>3
    <3>2. got' = [got EXCEPT ![y][e[1]] = Append(got[y][e[1]], e[2])]
      BY <1>4 DEF WriteLine
    <3> HIDE DEF e
    <3> QED
      BY <1>0, <3>1, <3>2 DEF Ranges
  <2>6. Count(y, u)' = Count(y, u) + 1 /\ \A w \in Works \ {u} : Count(y, w)' = Count(y, w)
    BY <1>1, <2>5, AppendProperties DEF Count
  <2>7. Len(queue[y]) \in Nat
    BY <2>1
  <2>8. /\ Continues(queue[y], u, Count(y, u))'
        /\ cursor'[y][u] = Count(y, u)' + Len(queue'[y])
        /\ \A w \in Works \ {u} : cursor'[y][w] = Count(y, w)'
    <3>1. Continues(queue'[y], u, Count(y, u)')
      BY <2>3, <2>4, <2>6
    <3>2. Count(y, u) + Len(queue[y]) = (Count(y, u) + 1) + (Len(queue[y]) - 1)
      BY <1>1, <2>7
    <3>3. cursor'[y][u] = Count(y, u)' + Len(queue'[y])
      BY <2>1, <2>2, <2>3, <2>4, <2>6, <3>2
    <3> QED
      BY <2>1, <2>2, <2>6, <3>1, <3>3 DEF Continues
  <2> QED
    BY <1>0, <2>1, <2>8 DEF EstateInHand
<1> QED
  BY <1>2, <1>3, <1>4

LEMMA NextInHand ==
  ASSUME Streams, Next
  PROVE  /\ \A x \in Watchers : WatcherInHand(x)'
         /\ \A y \in Estates : EstateInHand(y)'
<1>1. Kinds'
  BY NextKinds
<1>2. ASSUME NEW x \in Watchers
      PROVE  WatcherInHand(x)'
  BY AppendStepWatcher, ConnectionStepWatcher, EstateStepWatcher
  DEF Next, AppendSteps, WatcherSteps, EstateSteps, Clients
<1>3. ASSUME NEW y \in Estates
      PROVE  EstateInHand(y)'
  BY <1>1, OtherStepEstate, DrainStepEstate, ClientStepEstate
  DEF Next, AppendSteps, WatcherSteps, EstateSteps, Clients
<1> QED
  BY <1>2, <1>3

-----------------------------------------------------------------------------
(* No wakeup is lost. *)

LEMMA WokenFrame ==
  ASSUME Streams, NEW y \in Estates, pc'[y] = pc[y],
         y \in wakes /\ pc[y] # "gone" => y \in wakes', ready[y] => ready'[y],
         y \in wakes => \A w \in Works : WillRead(y, w) => ready'[y] \/ WillRead(y, w)'
  PROVE  Woken(y)'
<1>1. Woken(y)
  BY DEF Streams
<1> QED
  BY <1>1 DEF Woken

LEMMA AppendStepWoken ==
  ASSUME Streams, NEW y \in Estates, NEW w \in Works,
         \/ AppendEvent(w) \/ Send(w) \/ CloneWakes(w) \/ RetainWakes(w)
         \/ \E z \in Estates : Signal(w, z)
  PROVE  Woken(y)'
<1> USE DEF appender, conn
<1>0. Ranges
  BY DEF Streams, Kinds
<1>1. CASE AppendEvent(w)
  BY <1>0, <1>1, WokenFrame DEF AppendEvent, WillRead, Ranges
<1>2. CASE Send(w)
  BY <1>0, <1>2, WokenFrame DEF Send, WillRead, Ranges
<1>3. CASE CloneWakes(w)
  BY <1>0, <1>3, WokenFrame DEF CloneWakes, WillRead, Ranges
<1>4. CASE RetainWakes(w)
  BY <1>0, <1>4, WokenFrame DEF RetainWakes, WillRead, Ranges
<1>5. ASSUME NEW z \in Estates, Signal(w, z)
      PROVE  Woken(y)'
  <2>1. CASE z = y
    <3>1. ready'[y] /\ pc' = pc /\ wakes' = wakes
      BY <1>0, <1>5, <2>1 DEF Signal, Ranges
    <3> QED
      BY <3>1, WokenFrame
  <2>2. CASE z # y
    BY <1>0, <1>5, <2>2, WokenFrame DEF Signal, WillRead, Ranges
  <2> QED
    BY <2>1, <2>2
<1> QED
  BY <1>1, <1>2, <1>3, <1>4, <1>5

LEMMA ConnectionStepWoken ==
  ASSUME Streams, NEW y \in Estates,
         \/ \E x \in Watchers : Replay(x) \/ Register(x)
         \/ \E c \in Clients : WriteLine(c) \/ HangUp(c)
  PROVE  Woken(y)'
<1> USE WatchAssumption DEF appender
<1>0. Ranges /\ y \in Clients /\ y \notin Watchers
  BY DEF Streams, Kinds, Clients
<1>1. /\ journal' = journal /\ step' = step /\ toWake' = toWake /\ wakes' = wakes
      /\ ready' = ready /\ cursor' = cursor /\ todo' = todo
  BY DEF Replay, Register, WriteLine, HangUp
<1>2. CASE pc'[y] = pc[y]
  BY <1>1, <1>2, WokenFrame DEF WillRead
<1>3. CASE pc'[y] = "gone"
  BY <1>3 DEF Woken
<1>4. pc'[y] \in {pc[y], "gone"}
  BY <1>0 DEF Replay, Register, WriteLine, HangUp, Ranges
<1> QED
  BY <1>2, <1>3, <1>4

LEMMA EstateStepWoken ==
  ASSUME Streams, NEW y \in Estates, NEW z \in Estates,
         \/ Dial(z) \/ Acknowledge(z) \/ ListWorks(z) \/ Sleep(z) \/ Wake(z)
         \/ \E w \in Works : DrainWork(z, w)
  PROVE  Woken(y)'
<1> USE WatchAssumption DEF appender
<1>0. Ranges /\ y \in Clients /\ Woken(y) /\ EstateInHand(y)
  BY DEF Streams, Kinds, Clients
<1>1. journal' = journal /\ step' = step /\ toWake' = toWake
  BY DEF Dial, Acknowledge, ListWorks, Sleep, Wake, DrainWork
<1>2. CASE z # y
  <2>1. /\ pc'[y] = pc[y] /\ ready'[y] = ready[y] /\ cursor'[y] = cursor[y]
        /\ todo'[y] = todo[y] /\ (y \in wakes => y \in wakes')
    BY <1>0, <1>2 DEF Dial, Acknowledge, ListWorks, Sleep, Wake, DrainWork, Ranges
  <2> QED
    BY <1>1, <2>1, WokenFrame DEF WillRead
<1>3. CASE z = y /\ Dial(z)
  BY <1>0, <1>3 DEF Dial, Woken, Ranges
<1>4. CASE z = y /\ Acknowledge(z)
  BY <1>0, <1>4 DEF Acknowledge, Woken, Ranges
<1>5. CASE z = y /\ ListWorks(z)
  <2>1. /\ pc[y] = "list" /\ pc'[y] = "drain" /\ wakes' = wakes /\ cursor' = cursor
        /\ todo'[y] = {w \in Works : journal[w] > 0}
    BY <1>0, <1>5 DEF ListWorks, Ranges
  <2>2. ASSUME NEW w \in Works
        PROVE  WillRead(y, w)'
    <3>1. journal[w] \in Nat /\ cursor[y][w] \in Nat /\ cursor[y][w] <= journal[w]
      BY <1>0 DEF Ranges, EstateInHand
    <3>2. CASE journal[w] = 0
      BY <1>1, <2>1, <3>1, <3>2 DEF WillRead
    <3>3. CASE journal[w] > 0
      BY <1>1, <2>1, <3>3 DEF WillRead
    <3> QED
      BY <3>1, <3>2, <3>3
  <2> QED
    BY <1>0, <2>1, <2>2 DEF Woken
<1>6. CASE z = y /\ Sleep(z)
  <2>1. /\ pc[y] = "drain" /\ pc'[y] = "wait" /\ todo[y] = {}
        /\ wakes' = wakes /\ cursor' = cursor /\ ready' = ready
    BY <1>0, <1>6 DEF Sleep, Drained, Ranges
  <2>2. \A w \in Works : WillRead(y, w) => WillRead(y, w)'
    BY <1>1, <2>1 DEF WillRead
  <2> QED
    BY <1>0, <2>1, <2>2 DEF Woken
<1>7. CASE z = y /\ Wake(z)
  <2>1. pc[y] = "wait" /\ pc'[y] = "list" /\ wakes' = wakes
    BY <1>0, <1>7 DEF Wake, Ranges
  <2> QED
    BY <1>0, <2>1 DEF Woken
<1>8. ASSUME z = y, NEW w \in Works, DrainWork(z, w)
      PROVE  Woken(y)'
  <2>1. /\ pc' = pc /\ wakes' = wakes /\ ready' = ready
        /\ cursor'[y] = [cursor[y] EXCEPT ![w] = journal[w]]
        /\ todo'[y] = todo[y] \ {w}
    BY <1>0, <1>8 DEF DrainWork, Ranges
  <2>2. \A v \in Works : WillRead(y, v) => WillRead(y, v)'
    <3>1. WillRead(y, w)'
      BY <1>0, <1>1, <2>1 DEF WillRead, Ranges
    <3>2. \A v \in Works \ {w} : WillRead(y, v) => WillRead(y, v)'
      BY <1>0, <1>1, <2>1 DEF WillRead, Ranges
    <3> QED
      BY <3>1, <3>2
  <2> QED
    BY <2>1, <2>2, WokenFrame
<1> QED
  BY <1>2, <1>3, <1>4, <1>5, <1>6, <1>7, <1>8

LEMMA StreamsInit ==
  Init => Streams
<1> SUFFICES ASSUME Init
             PROVE  Streams
  OBVIOUS
<1> USE WatchAssumption
<1>1. Ranges
  BY EmptySeq DEF Init, Ranges, Clients
<1>2. Tied /\ Phases
  BY DEF Init, Tied, Phases, Clients
<1>3. ASSUME NEW x \in Watchers
      PROVE  WatcherInHand(x)
  <2>1. Subject[x] \in Works /\ x \in Clients
    BY DEF Clients
  <2>2. Count(x, Subject[x]) = 0
    BY <2>1, EmptySeq DEF Init, Count
  <2> QED
    BY <2>1, <2>2 DEF Init, WatcherInHand
<1>4. ASSUME NEW y \in Estates
      PROVE  EstateInHand(y) /\ Woken(y)
  <2>1. y \in Clients /\ queue[y] = <<>> /\ pc[y] = "off"
    BY DEF Init, Clients
  <2>2. \A w \in Works : cursor[y][w] = 0 /\ journal[w] = 0 /\ Count(y, w) = 0
    BY <2>1, EmptySeq DEF Init, Count
  <2> QED
    BY <2>1, <2>2 DEF EstateInHand, Woken
<1> QED
  BY <1>1, <1>2, <1>3, <1>4 DEF Streams, Kinds

LEMMA StreamsNext ==
  Streams /\ [Next]_vars => Streams'
<1> SUFFICES ASSUME Streams, [Next]_vars
             PROVE  Streams'
  OBVIOUS
<1>1. CASE Next
  <2>1. \A y \in Estates : Woken(y)'
    BY <1>1, AppendStepWoken, ConnectionStepWoken, EstateStepWoken
    DEF Next, AppendSteps, WatcherSteps, EstateSteps, Clients
  <2> QED
    BY <1>1, <2>1, NextKinds, NextInHand DEF Streams
<1>2. CASE UNCHANGED vars
  <2> USE <1>2 DEF vars, appender, conn
  <2>1. Kinds'
    BY DEF Streams, Kinds, Ranges, Tied, Phases
  <2>2. ASSUME NEW x \in Watchers
        PROVE  WatcherInHand(x)'
    BY WatcherFrame DEF Sent
  <2>3. ASSUME NEW y \in Estates
        PROVE  EstateInHand(y)' /\ Woken(y)'
    <3>1. \A w \in Works : journal[w] <= journal[w]
      BY WatchAssumption DEF Streams, Kinds, Ranges
    <3>2. EstateInHand(y)'
      BY <2>1, <3>1, EstateFrame
    <3>3. Woken(y)'
      BY WokenFrame DEF WillRead
    <3> QED
      BY <3>2, <3>3
  <2> QED
    BY <2>1, <2>2, <2>3 DEF Streams
<1> QED
  BY <1>1, <1>2

\* A line that is written is the next event of its Work for that client.
LEMMA NextLine ==
  ASSUME Streams, NEW c \in Clients, WriteLine(c)
  PROVE  \E w \in Works : Feed!Read(c, w)
<1>0. Ranges /\ Phases /\ queue[c] \in Seq(Line) /\ queue[c] # <<>>
  BY DEF Streams, Kinds, WriteLine, Writing, Ranges
<1>1. \E w \in Works : Continues(queue[c], w, Count(c, w))
                      /\ Count(c, w) + Len(queue[c]) <= journal[w]
  <2>1. CASE c \in Watchers
    <3> DEFINE w == Subject[c]
    <3>1. w \in Works /\ journal[w] \in Nat /\ Count(c, w) \in Nat /\ Len(queue[c]) \in Nat
      BY <1>0, <2>1, WatchAssumption DEF Ranges, Count
    <3>2. /\ Continues(queue[c], w, Count(c, w)) /\ Count(c, w) + Len(queue[c]) = Sent(w)
      BY <1>0, <2>1 DEF WriteLine, Writing, Streams, WatcherInHand, Phases
    <3>3. Sent(w) <= journal[w]
      BY <3>1 DEF Sent
    <3> HIDE DEF w
    <3> QED
      BY <3>1, <3>2, <3>3
  <2>2. CASE c \in Estates
    <3>1. EstateInHand(c) /\ pc[c] = "drain"
      BY <1>0, <2>2 DEF WriteLine, Writing, Streams, Phases
    <3>2. PICK u \in Works : /\ Continues(queue[c], u, Count(c, u))
                            /\ cursor[c][u] = Count(c, u) + Len(queue[c])
      BY <1>0, <3>1 DEF EstateInHand
    <3>3. cursor[c][u] <= journal[u]
      BY <3>1 DEF EstateInHand
    <3> QED
      BY <3>2, <3>3
  <2> QED
    BY <2>1, <2>2 DEF Clients
<1>2. PICK w \in Works : Continues(queue[c], w, Count(c, w))
                        /\ Count(c, w) + Len(queue[c]) <= journal[w]
  BY <1>1
<1>3. Count(c, w) \in Nat /\ journal[w] \in Nat
  BY <1>0, WatchAssumption DEF Ranges, Count
<1>4. Head(queue[c]) = <<w, Count(c, w) + 1>> /\ Len(queue[c]) > 0 /\ Len(queue[c]) \in Nat
  BY <1>0, <1>2, <1>3, TailContinues
<1>5. got' = [got EXCEPT ![c][w] = Append(got[c][w], Count(c, w) + 1)]
  <2> DEFINE e == Head(queue[c])
  <2>1. e[1] = w /\ e[2] = Count(c, w) + 1
    BY <1>4
  <2>2. got' = [got EXCEPT ![c][e[1]] = Append(got[c][e[1]], e[2])]
    BY DEF WriteLine
  <2> HIDE DEF e
  <2> QED
    BY <2>1, <2>2
<1>6. Len(got[c][w]) < journal[w]
  <2>1. Count(c, w) < journal[w]
    BY <1>2, <1>3, <1>4
  <2> QED
    BY <2>1 DEF Count
<1>7. journal' = journal
  BY DEF WriteLine, appender
<1> QED
  BY <1>5, <1>6, <1>7 DEF Feed!Read, Count

\* Every step is a step of the feed, or none.
LEMMA FeedStep ==
  Streams /\ [Next]_vars => [Feed!Next]_<<journal, got>>
<1> SUFFICES ASSUME Streams, [Next]_vars
             PROVE  Feed!Next \/ UNCHANGED <<journal, got>>
  OBVIOUS
<1>1. ASSUME NEW w \in Works, AppendEvent(w)
      PROVE  Feed!Next
  BY <1>1 DEF AppendEvent, conn, Feed!Next, Feed!Happen
<1>2. ASSUME NEW c \in Clients, WriteLine(c)
      PROVE  Feed!Next
  BY <1>2, NextLine DEF Feed!Next
<1>3. ASSUME NEW w \in Works,
             Send(w) \/ CloneWakes(w) \/ RetainWakes(w) \/ \E y \in Estates : Signal(w, y)
      PROVE  UNCHANGED <<journal, got>>
  BY <1>3 DEF Send, CloneWakes, RetainWakes, Signal, conn
<1>4. ASSUME NEW x \in Watchers, Replay(x) \/ Register(x)
      PROVE  UNCHANGED <<journal, got>>
  BY <1>4 DEF Replay, Register, appender
<1>5. ASSUME NEW y \in Estates,
             \/ Dial(y) \/ Acknowledge(y) \/ ListWorks(y) \/ Sleep(y) \/ Wake(y)
             \/ \E w \in Works : DrainWork(y, w)
      PROVE  UNCHANGED <<journal, got>>
  BY <1>5 DEF Dial, Acknowledge, ListWorks, Sleep, Wake, DrainWork, appender
<1>6. ASSUME NEW c \in Clients, HangUp(c)
      PROVE  UNCHANGED <<journal, got>>
  BY <1>6 DEF HangUp, appender
<1>7. CASE UNCHANGED vars
  BY <1>7 DEF vars, appender, conn
<1> QED
  BY <1>1, <1>2, <1>3, <1>4, <1>5, <1>6, <1>7
  DEF Next, AppendSteps, WatcherSteps, EstateSteps, Clients

-----------------------------------------------------------------------------
(* The theorems. *)

LEMMA StreamsHold ==
  Spec => []Streams
<1>1. Init => Streams
  BY StreamsInit
<1>2. Streams /\ [Next]_vars => Streams'
  BY StreamsNext
<1> QED
  BY <1>1, <1>2, PTL DEF Spec

\* No append falls between a replay and a registration, no stream sleeps on an
\* event it has not read and will not be woken for, and every guard has its
\* holder in the middle of what it guards.
THEOREM NothingIsLost == Spec => []NothingLost
<1>1. Streams => NothingLost
  <2> SUFFICES ASSUME Streams
               PROVE  NothingLost
    OBVIOUS
  <2>1. TypeOK
    BY KindsTypes DEF Streams
  <2>2. NothingMissed
    BY DEF Streams, WatcherInHand, Sent, Count, NothingMissed
  <2>3. NoLostWakeup
    BY DEF Streams, Woken, WillRead, NoLostWakeup
  <2> QED
    BY <2>1, <2>2, <2>3 DEF NothingLost
<1> QED
  BY <1>1, StreamsHold, PTL

\* The two kinds of stream, with their channels, drains and wakes, keep the
\* promise of WatchFeed: each client reads every event once and in order.
THEOREM FeedIsImplemented == Spec => ImplementsFeed
<1>1. Init => Feed!Init
  BY DEF Init, Feed!Init
<1>2. Streams /\ [Next]_vars => [Feed!Next]_(Feed!feed)
  BY FeedStep DEF Feed!feed
<1> QED
  BY <1>1, <1>2, StreamsHold, PTL DEF Spec, ImplementsFeed, Feed!Spec

=============================================================================
