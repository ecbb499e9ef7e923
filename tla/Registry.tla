------------------------------ MODULE Registry ------------------------------
(***************************************************************************)
(* The registry's write path and watch protocol: MemoryStore of            *)
(* src/internal/storage/memory.go, driven by the API server's request      *)
(* goroutines (src/internal/apiserver/server.go).                          *)
(*                                                                         *)
(* A write (Create, Update, Delete) takes the store's exclusive lock,      *)
(* changes the map, then notifyWatchers sends the event on the channel of  *)
(* every watcher whose prefix matches, in the order of s.watchers, with a  *)
(* blocking send, and only then syncs and unlocks.  A watch request        *)
(* (handleWatch) registers a watcher under the lock, then loops taking     *)
(* either an event or the request's cancellation; on return its deferred  *)
(* Stop takes the lock again to remove the watcher and close the channel.  *)
(* A client that watched before re-lists and watches again.                *)
(*                                                                         *)
(* Keys are <<kind, name>>; the watch prefix /registry/<kind> matches      *)
(* exactly the keys of that kind (no resource name is a prefix of          *)
(* another).  An event is [type, key, n] where n is the position of the    *)
(* mutation in the registry's serial order, kept in the ghost `history`.   *)
(***************************************************************************)
EXTENDS Naturals, Sequences, SequencesExt

CONSTANTS
  Writers,        \* request goroutines that write
  Watchers,       \* watch request goroutines
  Kinds,          \* resource kinds
  Names,          \* object names
  QueueCap,       \* capacity of a watcher's channel (make(chan Event, 10))
  MaxWrites,      \* number of successful writes in a behaviour
  CanDisconnect   \* whether watch clients go away (request cancellation)

Keys == Kinds \X Names
Event == [type : {"ADDED", "MODIFIED", "DELETED"}, key : Keys, n : 1..MaxWrites]

VARIABLES
  data,        \* the key set of s.data
  lock,        \* "free", or the goroutine holding s.lock exclusively
  watchers,    \* s.watchers: sequence of watcher goroutines, each with its kind
  wPc,         \* writer: "idle" or "notify"
  wIdx,        \* writer: index in s.watchers of the next watcher to notify
  wEvent,      \* writer: the event being delivered
  chan,        \* watcher's channel contents
  xPc,         \* watch goroutine: "idle", "streaming", "stopping"
  xKind,       \* watch goroutine: the kind it watches
  history,     \* ghost: every successful mutation, in lock order
  subAt,       \* ghost: Len(history) when the watcher registered
  received     \* ghost: the events the watch goroutine has written out

vars == <<data, lock, watchers, wPc, wIdx, wEvent, chan, xPc, xKind,
          history, subAt, received>>

NoEvent == [type |-> "ADDED", key |-> CHOOSE k \in Keys : TRUE, n |-> 1]

Init ==
  /\ data = {}
  /\ lock = "free"
  /\ watchers = <<>>
  /\ wPc = [w \in Writers |-> "idle"]
  /\ wIdx = [w \in Writers |-> 1]
  /\ wEvent = [w \in Writers |-> NoEvent]
  /\ chan = [x \in Watchers |-> <<>>]
  /\ xPc = [x \in Watchers |-> "idle"]
  /\ xKind = [x \in Watchers |-> CHOOSE k \in Kinds : TRUE]
  /\ history = <<>>
  /\ subAt = [x \in Watchers |-> 0]
  /\ received = [x \in Watchers |-> <<>>]

(* Mutant: the prefix test dropped, every watcher gets every event.       *)
MatchesAnyKind(x, key) == TRUE

(* strings.HasPrefix(key, w.keyPrefix) for the prefix /registry/<kind>.    *)
Matches(x, key) == key[1] = xKind[x]

-----------------------------------------------------------------------------
(* Create, Update or Delete: s.lock.Lock(), the existence check, the map   *)
(* write, then notifyWatchers begins.  A request whose check fails         *)
(* (Conflict, NotFound) unlocks without effect and is not shown.           *)
Write(w) ==
  /\ wPc[w] = "idle"
  /\ lock = "free"
  /\ Len(history) < MaxWrites
  /\ \E k \in Keys, type \in {"ADDED", "MODIFIED", "DELETED"} :
       /\ IF type = "ADDED" THEN k \notin data ELSE k \in data
       /\ data' = IF type = "ADDED" THEN data \cup {k}
                  ELSE IF type = "DELETED" THEN data \ {k} ELSE data
       /\ wEvent' = [wEvent EXCEPT ![w] = [type |-> type, key |-> k, n |-> Len(history) + 1]]
       /\ history' = Append(history, [type |-> type, key |-> k, n |-> Len(history) + 1])
  /\ lock' = w
  /\ wPc' = [wPc EXCEPT ![w] = "notify"]
  /\ wIdx' = [wIdx EXCEPT ![w] = 1]
  /\ UNCHANGED <<watchers, chan, xPc, xKind, subAt, received>>

(* Mutant: the channel's capacity test off by one.                         *)
NotifyOverfull(w) ==
  /\ wPc[w] = "notify"
  /\ wIdx[w] <= Len(watchers)
  /\ LET x == watchers[wIdx[w]] IN
       IF Matches(x, wEvent[w].key)
       THEN /\ Len(chan[x]) <= QueueCap
            /\ chan' = [chan EXCEPT ![x] = Append(@, wEvent[w])]
       ELSE UNCHANGED chan
  /\ wIdx' = [wIdx EXCEPT ![w] = @ + 1]
  /\ UNCHANGED <<data, lock, watchers, wPc, wEvent, xPc, xKind, history, subAt, received>>

(* notifyWatchers, one watcher: w.resultChan <- event if the prefix        *)
(* matches.  The send blocks while the channel is full, lock held.         *)
Notify(w) ==
  /\ wPc[w] = "notify"
  /\ wIdx[w] <= Len(watchers)
  /\ LET x == watchers[wIdx[w]] IN
       IF Matches(x, wEvent[w].key)
       THEN /\ Len(chan[x]) < QueueCap
            /\ chan' = [chan EXCEPT ![x] = Append(@, wEvent[w])]
       ELSE UNCHANGED chan
  /\ wIdx' = [wIdx EXCEPT ![w] = @ + 1]
  /\ UNCHANGED <<data, lock, watchers, wPc, wEvent, xPc, xKind, history, subAt, received>>

(* The loop is done: s.sync() writes the file, then the deferred Unlock.   *)
WriteDone(w) ==
  /\ wPc[w] = "notify"
  /\ wIdx[w] > Len(watchers)
  /\ lock' = "free"
  /\ wPc' = [wPc EXCEPT ![w] = "idle"]
  /\ UNCHANGED <<data, watchers, wIdx, wEvent, chan, xPc, xKind, history, subAt, received>>

-----------------------------------------------------------------------------
(* handleWatch: Store.Watch registers a watcher with a fresh channel under *)
(* the lock.                                                               *)
Watch(x) ==
  /\ xPc[x] = "idle"
  /\ lock = "free"
  /\ \E k \in Kinds : xKind' = [xKind EXCEPT ![x] = k]
  /\ watchers' = Append(watchers, x)
  /\ chan' = [chan EXCEPT ![x] = <<>>]
  /\ xPc' = [xPc EXCEPT ![x] = "streaming"]
  /\ subAt' = [subAt EXCEPT ![x] = Len(history)]
  /\ received' = [received EXCEPT ![x] = <<>>]
  /\ UNCHANGED <<data, lock, wPc, wIdx, wEvent, history>>

(* The select takes an event: encode it and flush it to the client.        *)
Receive(x) ==
  /\ xPc[x] = "streaming"
  /\ chan[x] # <<>>
  /\ received' = [received EXCEPT ![x] = Append(@, Head(chan[x]))]
  /\ chan' = [chan EXCEPT ![x] = Tail(@)]
  /\ UNCHANGED <<data, lock, watchers, wPc, wIdx, wEvent, xPc, xKind, history, subAt>>

(* The select takes r.Context().Done(): the client went away; return.      *)
Disconnect(x) ==
  /\ CanDisconnect
  /\ xPc[x] = "streaming"
  /\ xPc' = [xPc EXCEPT ![x] = "stopping"]
  /\ UNCHANGED <<data, lock, watchers, wPc, wIdx, wEvent, chan, xKind, history, subAt, received>>

(* Mutant: Stop closes the channel but leaves the watcher in s.watchers.   *)
StopKeepsWatcher(x) ==
  /\ xPc[x] = "stopping"
  /\ lock = "free"
  /\ chan' = [chan EXCEPT ![x] = <<>>]
  /\ xPc' = [xPc EXCEPT ![x] = "idle"]
  /\ UNCHANGED <<data, lock, watchers, wPc, wIdx, wEvent, xKind, history, subAt, received>>

(* The deferred watcher.Stop(): lock, remove from s.watchers, close.       *)
Stop(x) ==
  /\ xPc[x] = "stopping"
  /\ lock = "free"
  /\ watchers' = SelectSeq(watchers, LAMBDA y : y # x)
  /\ chan' = [chan EXCEPT ![x] = <<>>]
  /\ xPc' = [xPc EXCEPT ![x] = "idle"]
  /\ UNCHANGED <<data, lock, wPc, wIdx, wEvent, xKind, history, subAt, received>>

(* Get or List: served under the read lock whenever no goroutine holds the *)
(* lock exclusively; a Create, Update or Delete whose existence check      *)
(* fails is the same lock-and-return.  Neither changes the state.          *)
Read ==
  /\ lock = "free"
  /\ UNCHANGED vars

Next ==
  \/ Read
  \/ \E w \in Writers : Write(w) \/ Notify(w) \/ WriteDone(w)
  \/ \E x \in Watchers : Watch(x) \/ Receive(x) \/ Disconnect(x) \/ Stop(x)

(* Request goroutines run when runnable.  A watch client reads what is     *)
(* flushed to it, so a streaming goroutine keeps taking events.            *)
Fairness ==
  /\ \A w \in Writers : WF_vars(Notify(w)) /\ WF_vars(WriteDone(w))
  /\ \A x \in Watchers : WF_vars(Receive(x)) /\ WF_vars(Stop(x))

Spec == Init /\ [][Next]_vars /\ Fairness

-----------------------------------------------------------------------------
TypeOK ==
  /\ data \subseteq Keys
  /\ lock \in {"free"} \cup Writers \cup Watchers
  /\ watchers \in Seq(Watchers)
  /\ wPc \in [Writers -> {"idle", "notify"}]
  /\ wEvent \in [Writers -> Event]
  /\ chan \in [Watchers -> Seq(Event)]
  /\ xPc \in [Watchers -> {"idle", "streaming", "stopping"}]
  /\ xKind \in [Watchers -> Kinds]
  /\ \A x \in Watchers : Len(chan[x]) <= QueueCap

(* Watch fidelity (spec 8.3 and section 5): a registered watcher is given  *)
(* exactly the mutations of its prefix made since it registered, once     *)
(* each and in registry order: what it wrote out plus what is queued is a  *)
(* prefix of that sequence, and all of it whenever no write is under way.  *)
Expected(x) ==
  SelectSeq(SubSeq(history, subAt[x] + 1, Len(history)), LAMBDA e : e.key[1] = xKind[x])

WatchFidelity ==
  \A x \in Watchers : xPc[x] = "streaming" =>
     /\ IsPrefix(received[x] \o chan[x], Expected(x))
     /\ lock = "free" => received[x] \o chan[x] = Expected(x)

(* The mapping to WatchStore: a watcher is open while it is in s.watchers; *)
(* its queue is its channel followed by the event of the write under way,  *)
(* if that write has still to reach it (its index is at or after wIdx and  *)
(* its prefix matches).                                                    *)
Pending(x) ==
  IF /\ lock \in Writers
     /\ wPc[lock] = "notify"
     /\ \E i \in wIdx[lock]..Len(watchers) : watchers[i] = x
     /\ Matches(x, wEvent[lock].key)
  THEN <<wEvent[lock]>>
  ELSE <<>>

Abstract == INSTANCE WatchStore WITH
  NotWatching <- "none",
  count <- Len(history),
  sub <- [x \in Watchers |-> IF x \in Range(watchers) THEN xKind[x] ELSE "none"],
  queue <- [x \in Watchers |-> chan[x] \o Pending(x)],
  delivered <- received

(* Refinement: the registry's locked, one-watcher-at-a-time notification   *)
(* with blocking sends on bounded channels, and Stop under the lock,       *)
(* implement the Store interface's promise that a write and the events of  *)
(* all its watchers happen in one step (memory.go notifyWatchers, Stop).   *)
WatchStoreRefined == Abstract!Spec

(* Every write returns (spec 4.1: a full subscriber queue must not block   *)
(* the registry; the subscription is closed instead).                      *)
WritesReturn ==
  \A w \in Writers : wPc[w] = "notify" ~> wPc[w] = "idle"
=============================================================================
