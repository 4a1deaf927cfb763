----------------------------- MODULE WatchStreams -----------------------------
(***************************************************************************)
(* wirkd's `watch` (src/wirk/src/wirkd/server.rs): append_event, the       *)
(* per-Work stream fed over a channel (handle_watch_connection) and the    *)
(* estate-wide stream that is only woken and reads the journals again      *)
(* (handle_estate_watch_connection, EstateWaker, estate_drain).            *)
(*                                                                         *)
(* An event is a pair <<w, n>>, the n-th of Work w.  A journal here reads  *)
(* without error; Journal.tla is about the ones that do not.               *)
(***************************************************************************)
EXTENDS Naturals, Sequences

CONSTANTS
  Works,
  Watchers,    \* connections that watch one Work
  Estates,     \* connections that watch the estate
  Subject,     \* [Watchers -> Works], the Work a watcher names
  MaxEvents    \* bound: events of one Work

ASSUME WatchAssumption ==
  /\ Subject \in [Watchers -> Works] /\ MaxEvents \in Nat
  /\ Watchers \cap Estates = {} /\ Watchers \cap {"free", "append"} = {}

Clients == Watchers \cup Estates

VARIABLES
  journal,   \* events in each Work's journal
  guard,     \* who holds the Work's journal guard: "free", "append", a watcher
  step,      \* where the append to the Work is, "idle" between two appends
  toWake,    \* wakers the append has cloned and not yet signalled
  senders,   \* WirkdState.watchers: watchers whose Sender is registered
  wakes,     \* WirkdState.estate_wakes
  ready,     \* EstateWaker.ready of each estate connection
  pc,        \* where each connection's thread is
  queue,     \* events the connection has in hand and has not yet written
  todo,      \* Works the drain has listed and not yet read
  cursor,    \* `delivered` of each estate connection
  got        \* what the client has read, per Work

appender == <<journal, step, toWake>>
conn == <<pc, queue, todo, cursor, got>>
vars == <<journal, guard, step, toWake, senders, wakes, ready, conn>>

Events(w, from, to) == [i \in 1..(to - from) |-> <<w, from + i>>]

Init ==
  /\ journal = [w \in Works |-> 0]
  /\ guard = [w \in Works |-> "free"]
  /\ step = [w \in Works |-> "idle"]
  /\ toWake = [w \in Works |-> {}]
  /\ senders = {}
  /\ wakes = {}
  /\ ready = [y \in Estates |-> FALSE]
  /\ pc = [c \in Clients |-> "off"]
  /\ queue = [c \in Clients |-> <<>>]
  /\ todo = [y \in Estates |-> {}]
  /\ cursor = [y \in Estates |-> [w \in Works |-> 0]]
  /\ got = [c \in Clients |-> [w \in Works |-> <<>>]]

-----------------------------------------------------------------------------
(* append_event, called with the Work's guard held.                        *)

AppendUnguarded(w) ==   \* mutant: the append does not wait for the guard
  /\ step[w] = "idle"
  /\ journal[w] < MaxEvents
  /\ step' = [step EXCEPT ![w] = "written"]
  /\ journal' = [journal EXCEPT ![w] = @ + 1]
  /\ UNCHANGED <<guard, toWake, senders, wakes, ready, conn>>

AppendEvent(w) ==
  /\ guard[w] = "free"
  /\ journal[w] < MaxEvents
  /\ guard' = [guard EXCEPT ![w] = "append"]
  /\ step' = [step EXCEPT ![w] = "written"]
  /\ journal' = [journal EXCEPT ![w] = @ + 1]
  /\ UNCHANGED <<toWake, senders, wakes, ready, conn>>

Follow(w) == {x \in senders : Subject[x] = w}

\* One event into the channel of each watcher; the ones that are gone go.
Send(w) ==
  /\ step[w] = "written"
  /\ step' = [step EXCEPT ![w] = "sent"]
  /\ senders' = senders \ {x \in Follow(w) : pc[x] = "gone"}
  /\ queue' = [c \in Clients |->
                 IF c \in Follow(w) /\ pc[c] # "gone"
                   THEN Append(queue[c], <<w, journal[w]>>) ELSE queue[c]]
  /\ UNCHANGED <<journal, guard, toWake, wakes, ready, pc, todo, cursor, got>>

CloneWakes(w) ==
  /\ step[w] = "sent"
  /\ step' = [step EXCEPT ![w] = "waking"]
  /\ toWake' = [toWake EXCEPT ![w] = wakes]
  /\ UNCHANGED <<journal, guard, senders, wakes, ready, conn>>

Signal(w, y) ==
  /\ y \in toWake[w]
  /\ toWake' = [toWake EXCEPT ![w] = @ \ {y}]
  /\ ready' = [ready EXCEPT ![y] = TRUE]
  /\ UNCHANGED <<journal, guard, step, senders, wakes, conn>>

\* A waker only this list still holds is dropped; the clone of an append to
\* another Work may keep it for one more round.
RetainWakes(w) ==
  /\ step[w] = "waking"
  /\ toWake[w] = {}
  /\ \E kept \in SUBSET {y \in wakes : \E v \in Works \ {w} : step[v] = "waking"} :
       wakes' = {y \in wakes : pc[y] # "gone"} \cup kept
  /\ step' = [step EXCEPT ![w] = "idle"]
  /\ guard' = [guard EXCEPT ![w] = "free"]
  /\ UNCHANGED <<journal, toWake, senders, ready, conn>>

-----------------------------------------------------------------------------
(* handle_watch_connection.                                                *)

\* The guard is taken and the journal replayed under it.
Replay(x) ==
  /\ pc[x] = "off"
  /\ guard[Subject[x]] = "free"
  /\ guard' = [guard EXCEPT ![Subject[x]] = x]
  /\ queue' = [queue EXCEPT ![x] = Events(Subject[x], 0, journal[Subject[x]])]
  /\ pc' = [pc EXCEPT ![x] = "replayed"]
  /\ UNCHANGED <<appender, senders, wakes, ready, todo, cursor, got>>

\* The Sender is registered before the guard is released.
Register(x) ==
  /\ pc[x] = "replayed"
  /\ senders' = senders \cup {x}
  /\ pc' = [pc EXCEPT ![x] = "live"]
  /\ guard' = [guard EXCEPT ![Subject[x]] = "free"]
  /\ UNCHANGED <<appender, wakes, ready, queue, todo, cursor, got>>

-----------------------------------------------------------------------------
(* handle_estate_watch_connection.                                         *)

DialAckFirst(y) ==   \* mutant: the drain begins with no wake registered
  /\ pc[y] = "off"
  /\ pc' = [pc EXCEPT ![y] = "list"]
  /\ UNCHANGED <<appender, guard, senders, wakes, ready, queue, todo, cursor, got>>

\* The wake is registered, then the barrier line is written.
Dial(y) ==
  /\ pc[y] = "off"
  /\ wakes' = wakes \cup {y}
  /\ pc' = [pc EXCEPT ![y] = "dialed"]
  /\ UNCHANGED <<appender, guard, senders, ready, queue, todo, cursor, got>>

Acknowledge(y) ==
  /\ pc[y] = "dialed"
  /\ pc' = [pc EXCEPT ![y] = "list"]
  /\ UNCHANGED <<appender, guard, senders, wakes, ready, queue, todo, cursor, got>>

\* estate_drain lists works/: a Work whose first event comes later is not in it.
ListWorks(y) ==
  /\ pc[y] = "list"
  /\ todo' = [todo EXCEPT ![y] = {w \in Works : journal[w] > 0}]
  /\ pc' = [pc EXCEPT ![y] = "drain"]
  /\ UNCHANGED <<appender, guard, senders, wakes, ready, queue, cursor, got>>

DrainingOf(y, w) ==
  /\ pc[y] = "drain"
  /\ queue[y] = <<>>
  /\ w \in todo[y]
  /\ guard[w] = "free"

DrainWorkAgain(y, w) ==   \* mutant: the cursor stays where it was
  /\ DrainingOf(y, w)
  /\ queue' = [queue EXCEPT ![y] = Events(w, cursor[y][w], journal[w])]
  /\ todo' = [todo EXCEPT ![y] = @ \ {w}]
  /\ UNCHANGED <<appender, guard, senders, wakes, ready, pc, cursor, got>>

\* The journal is replayed under the guard, and written after its release.
DrainWork(y, w) ==
  /\ DrainingOf(y, w)
  /\ queue' = [queue EXCEPT ![y] = Events(w, cursor[y][w], journal[w])]
  /\ cursor' = [cursor EXCEPT ![y][w] = journal[w]]
  /\ todo' = [todo EXCEPT ![y] = @ \ {w}]
  /\ UNCHANGED <<appender, guard, senders, wakes, ready, pc, got>>

Drained(y) == pc[y] = "drain" /\ queue[y] = <<>> /\ todo[y] = {}

Sleep(y) ==
  /\ Drained(y)
  /\ pc' = [pc EXCEPT ![y] = "wait"]
  /\ UNCHANGED <<appender, guard, senders, wakes, ready, queue, todo, cursor, got>>

\* EstateWaker::wait returns: the flag was set, and is cleared under its lock.
Wake(y) ==
  /\ pc[y] = "wait"
  /\ ready[y]
  /\ ready' = [ready EXCEPT ![y] = FALSE]
  /\ pc' = [pc EXCEPT ![y] = "list"]
  /\ UNCHANGED <<appender, guard, senders, wakes, queue, todo, cursor, got>>

-----------------------------------------------------------------------------

Writing(c) == pc[c] \in {"live", "drain"} /\ queue[c] # <<>>

\* write_event_line: the next line reaches the client.
WriteLine(c) ==
  /\ Writing(c)
  /\ LET e == Head(queue[c]) IN got' = [got EXCEPT ![c][e[1]] = Append(@, e[2])]
  /\ queue' = [queue EXCEPT ![c] = Tail(@)]
  /\ UNCHANGED <<appender, guard, senders, wakes, ready, pc, todo, cursor>>

\* The client has hung up: the write of a line (or of the barrier) fails and
\* the thread returns; its Sender or waker is found dead by a later append.
HangUp(c) ==
  /\ Writing(c) \/ pc[c] = "dialed"
  /\ pc' = [pc EXCEPT ![c] = "gone"]
  /\ queue' = [queue EXCEPT ![c] = <<>>]
  /\ UNCHANGED <<appender, guard, senders, wakes, ready, todo, cursor, got>>

AppendSteps(w) ==
  Send(w) \/ CloneWakes(w) \/ RetainWakes(w) \/ \E y \in Estates : Signal(w, y)
WatcherSteps(x) == Register(x) \/ WriteLine(x)
EstateSteps(y) ==
  \/ Acknowledge(y) \/ ListWorks(y) \/ Sleep(y) \/ Wake(y) \/ WriteLine(y)
  \/ \E w \in Works : DrainWork(y, w)

Next ==
  \/ \E w \in Works : AppendEvent(w) \/ AppendSteps(w)
  \/ \E x \in Watchers : Replay(x) \/ WatcherSteps(x) \/ HangUp(x)
  \/ \E y \in Estates : Dial(y) \/ EstateSteps(y) \/ HangUp(y)

Spec == Init /\ [][Next]_vars

\* A thread that can go on does.  Nobody has to append, dial or hang up.
FairSpec ==
  /\ Spec
  /\ \A w \in Works : WF_vars(AppendSteps(w))
  /\ \A x \in Watchers : WF_vars(WatcherSteps(x))
  /\ \A y \in Estates : WF_vars(EstateSteps(y))

-----------------------------------------------------------------------------

\* Every variable in its range, and a guard is held by whoever is in the
\* middle of what it guards.
TypeOK ==
  /\ journal \in [Works -> 0..MaxEvents]
  /\ step \in [Works -> {"idle", "written", "sent", "waking"}]
  /\ toWake \in [Works -> SUBSET Estates]
  /\ senders \subseteq Watchers
  /\ wakes \subseteq Estates
  /\ ready \in [Estates -> BOOLEAN]
  /\ pc \in [Clients -> {"off", "replayed", "live", "dialed", "list", "drain",
                         "wait", "gone"}]
  /\ \A c \in Clients : queue[c] \in Seq(Works \X (1..MaxEvents))
  /\ todo \in [Estates -> SUBSET Works]
  /\ cursor \in [Estates -> [Works -> 0..MaxEvents]]
  /\ \A w \in Works :
       /\ guard[w] \in {"free", "append"} \cup Watchers
       /\ guard[w] = "append" <=> step[w] # "idle"
       /\ \A x \in Watchers :
            guard[w] = x <=> (pc[x] = "replayed" /\ Subject[x] = w)

\* No append lands between a watcher's replay and its registration: what it
\* has written and what it has in hand are together the whole journal, but for
\* the event an append has just written and not yet sent (append_event, "never
\* neither").
NothingMissed ==
  \A x \in Watchers : pc[x] \in {"replayed", "live"} =>
    LET w == Subject[x] IN
    Len(got[x][w]) + Len(queue[x]) =
      IF step[w] = "written" THEN journal[w] - 1 ELSE journal[w]

\* No lost wakeup: an estate stream that sleeps with its flag down has read
\* every event but those whose append is still on its way to wake it, so no
\* event waits for the next one to be seen (EstateWaker::wait, ListWorks).
NoLostWakeup ==
  \A y \in Estates : (pc[y] = "wait" /\ ~ready[y]) =>
    \A w \in Works :
      \/ cursor[y][w] = journal[w]
      \/ step[w] \in {"written", "sent"}
      \/ y \in toWake[w]

\* Nothing a stream owes its client gets lost in the daemon.
NothingLost == TypeOK /\ NothingMissed /\ NoLostWakeup

Feed == INSTANCE WatchFeed WITH
          journal <- journal, got <- got, Works <- Works, Clients <- Clients,
          MaxEvents <- MaxEvents

\* Both streams keep the promise of WatchFeed: every line a client reads is
\* the next event of its Work, however appends, drains and wakes interleave.
ImplementsFeed == Feed!Spec

Following(c, w) ==
  IF c \in Watchers THEN pc[c] = "live" /\ Subject[c] = w
                    ELSE pc[c] \notin {"off", "gone"}

\* An event of a Work reaches every client that follows the Work and goes on
\* reading.
EventArrives ==
  \A c \in Clients, w \in Works : \A n \in 1..MaxEvents :
    (Following(c, w) /\ journal[w] >= n) ~> (pc[c] = "gone" \/ Len(got[c][w]) >= n)

=============================================================================
