----------------------------- MODULE Persistence -----------------------------
(***************************************************************************)
(* The registry's file persistence, src/internal/storage/memory.go: every  *)
(* Create, Update and Delete changes the map and then, still under the     *)
(* lock, sync() marshals the whole map and writes it with os.WriteFile,    *)
(* which truncates the file and writes it in place.  On start,             *)
(* NewMemoryStore load()s the file; a missing file is an empty store, and  *)
(* a file that does not parse is logged and the store starts empty.        *)
(*                                                                         *)
(* The process may be killed at any point (a kill, not a power loss: what  *)
(* write(2) returned is in the page cache and survives).  Watch            *)
(* notification is left to the Registry module.                            *)
(***************************************************************************)
EXTENDS Naturals

CONSTANTS
  Keys,        \* registry keys
  Values,      \* object bodies
  Absent,      \* no object under the key
  MaxWrites,   \* successful mutations in a behaviour
  MaxCrashes,  \* process kills in a behaviour
  CanFailSync, \* whether os.WriteFile may return an error (disk full)
  Missing,     \* the file does not exist
  Truncated    \* the file holds a prefix of a dump, which is not valid JSON

Store == [Keys -> Values \cup {Absent}]
Empty == [k \in Keys |-> Absent]

VARIABLES
  data,      \* s.data, the in-memory map
  file,      \* the backing file: a Store, Missing or Truncated
  pc,        \* "idle", "sync" (a mutation holds the lock, sync to do), "down"
  writes,    \* mutations so far
  crashes,   \* kills so far
  acked,     \* ghost: the map as of the last mutation answered with success
  tried      \* ghost: the map a mutation in progress would make durable

vars == <<data, file, pc, writes, crashes, acked, tried>>

Init ==
  /\ data = Empty
  /\ file = Missing
  /\ pc = "idle"
  /\ writes = 0
  /\ crashes = 0
  /\ acked = Empty
  /\ tried = Empty

-----------------------------------------------------------------------------
(* Create, Update or Delete under s.lock: the existence check (a failed    *)
(* check returns Conflict or NotFound with nothing changed), then the map  *)
(* write; sync follows.                                                    *)
Mutate ==
  /\ pc = "idle"
  /\ writes < MaxWrites
  /\ \E k \in Keys, v \in Values \cup {Absent} :
       /\ \/ data[k] = Absent /\ v # Absent     \* Create
          \/ data[k] # Absent /\ v # Absent     \* Update
          \/ data[k] # Absent /\ v = Absent     \* Delete
       /\ data' = [data EXCEPT ![k] = v]
  /\ writes' = writes + 1
  /\ pc' = "sync"
  /\ tried' = data'
  /\ UNCHANGED <<file, crashes, acked>>

(* sync: json.Marshal(s.data) and os.WriteFile complete; the handler       *)
(* answers 200/201.                                                        *)
SyncDone ==
  /\ pc = "sync"
  /\ file' = data
  /\ acked' = data
  /\ pc' = "idle"
  /\ UNCHANGED <<data, writes, crashes, tried>>

(* os.WriteFile returns an error, after truncating the file or before     *)
(* opening it; the handler answers 500, the map keeps the mutation (and    *)
(* watchers have been told of it).                                         *)
SyncFails ==
  /\ pc = "sync"
  /\ CanFailSync
  /\ file' \in {file, Truncated}
  /\ pc' = "idle"
  /\ UNCHANGED <<data, writes, crashes, acked, tried>>

(* The process is killed.  During a WriteFile the file is as before (not   *)
(* yet opened), truncated with part of the new dump, or complete.          *)
Crash ==
  /\ pc # "down"
  /\ crashes < MaxCrashes
  /\ file' \in IF pc = "sync" THEN {file, Truncated, data} ELSE {file}
  /\ crashes' = crashes + 1
  /\ pc' = "down"
  /\ data' = Empty
  /\ UNCHANGED <<writes, acked, tried>>

(* NewMemoryStore: load() reads the file; os.IsNotExist is no error; a     *)
(* json.Unmarshal error is printed as a warning and the store is used      *)
(* empty.                                                                  *)
Restart ==
  /\ pc = "down"
  /\ data' = IF file \in Store THEN file ELSE Empty
  /\ pc' = "idle"
  /\ UNCHANGED <<file, writes, crashes, acked, tried>>

Next == Mutate \/ SyncDone \/ SyncFails \/ Crash \/ Restart

Spec == Init /\ [][Next]_vars /\ WF_vars(SyncDone) /\ WF_vars(Restart)

-----------------------------------------------------------------------------
TypeOK ==
  /\ data \in Store
  /\ file \in Store \cup {Missing, Truncated}
  /\ pc \in {"idle", "sync", "down"}
  /\ acked \in Store /\ tried \in Store

(* Durability (spec 4.1 Persistence: writes are durable before returning   *)
(* success, by write-temp-then-rename): a restarted registry holds every   *)
(* mutation answered with success, i.e. the map as of the last of them, or *)
(* the map of the mutation whose sync the kill interrupted.                *)
RestartKeepsAcked ==
  [][Restart => data' \in {acked, tried}]_vars
=============================================================================
