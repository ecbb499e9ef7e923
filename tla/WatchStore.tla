----------------------------- MODULE WatchStore -----------------------------
(***************************************************************************)
(* What the registry's Store interface (src/internal/storage/interface.go) *)
(* promises a watcher, with no locks and no channel capacity: Create,      *)
(* Update and Delete change the key set and, in the same step, queue their *)
(* event for every current watcher of the key's prefix; Watch starts an    *)
(* empty stream; Stop ends it; ResultChan hands out the queued events in   *)
(* order.  Registry is shown to implement this specification.              *)
(***************************************************************************)
EXTENDS Naturals, Sequences

CONSTANTS
  Watchers,    \* watch streams
  Kinds,       \* resource kinds; the prefix /registry/<kind>
  Names,       \* object names
  MaxWrites,   \* mutations in a behaviour
  NotWatching  \* the kind of a stream that is not open

Keys == Kinds \X Names
EventTypes == {"ADDED", "MODIFIED", "DELETED"}

VARIABLES
  data,       \* keys present
  count,      \* mutations so far
  sub,        \* the kind each stream watches, or NotWatching
  queue,      \* events queued for each stream
  delivered   \* events each stream has handed out since it was opened

vars == <<data, count, sub, queue, delivered>>

Init ==
  /\ data = {}
  /\ count = 0
  /\ sub = [x \in Watchers |-> NotWatching]
  /\ queue = [x \in Watchers |-> <<>>]
  /\ delivered = [x \in Watchers |-> <<>>]

(* Create (absent key), Update or Delete (present key), with its event     *)
(* queued for every stream of the key's kind.                              *)
Mutation(k, type) ==
  /\ count < MaxWrites
  /\ (type = "ADDED") = (k \notin data)
  /\ data' = CASE type = "ADDED"   -> data \cup {k}
               [] type = "DELETED" -> data \ {k}
               [] OTHER            -> data
  /\ count' = count + 1
  /\ queue' = [x \in Watchers |->
                 IF sub[x] = k[1]
                 THEN Append(queue[x], [type |-> type, key |-> k, n |-> count + 1])
                 ELSE queue[x]]
  /\ UNCHANGED <<sub, delivered>>

(* Watch: a new stream of one kind, with nothing queued.                   *)
Subscribe(x, kind) ==
  /\ sub[x] = NotWatching
  /\ sub' = [sub EXCEPT ![x] = kind]
  /\ queue' = [queue EXCEPT ![x] = <<>>]
  /\ delivered' = [delivered EXCEPT ![x] = <<>>]
  /\ UNCHANGED <<data, count>>

(* Stop: the stream ends and what was queued is dropped.                   *)
Unsubscribe(x) ==
  /\ sub[x] # NotWatching
  /\ sub' = [sub EXCEPT ![x] = NotWatching]
  /\ queue' = [queue EXCEPT ![x] = <<>>]
  /\ UNCHANGED <<data, count, delivered>>

(* ResultChan yields the oldest queued event.                              *)
Deliver(x) ==
  /\ sub[x] # NotWatching
  /\ queue[x] # <<>>
  /\ delivered' = [delivered EXCEPT ![x] = Append(@, Head(queue[x]))]
  /\ queue' = [queue EXCEPT ![x] = Tail(@)]
  /\ UNCHANGED <<data, count, sub>>

Next ==
  \/ \E k \in Keys, type \in EventTypes : Mutation(k, type)
  \/ \E x \in Watchers :
       \/ \E kind \in Kinds : Subscribe(x, kind)
       \/ Unsubscribe(x)
       \/ Deliver(x)

Spec == Init /\ [][Next]_vars
=============================================================================
