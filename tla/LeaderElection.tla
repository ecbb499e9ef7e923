---------------------------- MODULE LeaderElection ----------------------------
(***************************************************************************)
(* Lease-based leader election, src/internal/leaderelection/election.go,   *)
(* run by several controller-manager processes (cmd/controller-manager,    *)
(* --leader-elect) against one Lease object in the registry.               *)
(*                                                                         *)
(* tryAcquireOrRenew is two HTTP calls: GetLease, then CreateLease or      *)
(* UpdateLease.  The registry's Update (storage/memory.go) overwrites the  *)
(* key unconditionally: there is no resourceVersion check.                 *)
(*                                                                         *)
(* Time.  A global clock ticks; nothing bounds how many ticks pass before  *)
(* a process's next step (the HTTP client has no timeout).  Absolute times *)
(* are replaced by ages: the lease's age is now - renewTime, a process's   *)
(* captured `now` is kept as its age, and the retry timer as the ticks     *)
(* left.  Ages saturate at LeaseDuration, past which only "expired"        *)
(* matters, so the clock is unbounded and the state space finite.         *)
(***************************************************************************)
EXTENDS Naturals, FiniteSets

CONSTANTS
  Procs,          \* identities of the controller-manager processes
  LeaseDuration,  \* Config.LeaseDuration, in ticks
  RetryPeriod,    \* Config.RetryPeriod, in ticks
  MaxFailures,    \* how many HTTP calls may fail
  NoHolder        \* the "no Lease object" value

ASSUME LeaseDuration > RetryPeriod /\ RetryPeriod > 0

VARIABLES
  lease,      \* the Lease object: [holder, age, transitions], or holder = NoHolder
  role,       \* "candidate" (Run's acquire loop), "leader" (renewLoop), "dead"
  phase,      \* "wait" for the timer, or "read" (GetLease answered)
  timer,      \* ticks left before the next tryAcquireOrRenew
  seen,       \* the Lease as GetLease returned it
  nowAge,     \* ticks since the process captured time.Now()
  failures    \* HTTP calls failed so far

vars == <<lease, role, phase, timer, seen, nowAge, failures>>

Ages == 0..LeaseDuration
Lease == [holder : Procs \cup {NoHolder}, age : Ages, transitions : Nat]
NoLease == [holder |-> NoHolder, age |-> 0, transitions |-> 0]

Older(a) == IF a < LeaseDuration THEN a + 1 ELSE a

(* Mutant: expiry tested with a non-strict comparison.                      *)
HeldByOtherInclusive(p, l) == l.holder \notin {NoHolder, p} /\ l.age <= LeaseDuration

(* The lease is held by someone else and now.Before(renewTime + duration). *)
HeldByOther(p, l) == l.holder \notin {NoHolder, p} /\ l.age < LeaseDuration

Init ==
  /\ lease = NoLease
  /\ role = [p \in Procs |-> "candidate"]
  /\ phase = [p \in Procs |-> "wait"]
  /\ timer = [p \in Procs |-> 0]
  /\ seen = [p \in Procs |-> NoLease]
  /\ nowAge = [p \in Procs |-> 0]
  /\ failures = 0

(* The outcome of one tryAcquireOrRenew.  In Run, success starts           *)
(* OnStartedLeading and the renew loop, failure waits RetryPeriod.  In     *)
(* renewLoop, success waits for the next tick of the ticker, failure       *)
(* returns: Run cancels the controllers' context and OnStoppedLeading     *)
(* calls log.Fatalf, so the process exits.                                 *)
Succeeded(p) ==
  /\ role' = [role EXCEPT ![p] = "leader"]
  /\ phase' = [phase EXCEPT ![p] = "wait"]
  /\ timer' = [timer EXCEPT ![p] = RetryPeriod]

FailedAttempt(p) ==
  /\ role' = [role EXCEPT ![p] = IF role[p] = "leader" THEN "dead" ELSE "candidate"]
  /\ phase' = [phase EXCEPT ![p] = "wait"]
  /\ timer' = [timer EXCEPT ![p] = RetryPeriod]

(* Time passes: the lease, the captured times and the timers age.          *)
Tick ==
  /\ lease' = [lease EXCEPT !.age = Older(@)]
  /\ nowAge' = [p \in Procs |-> Older(nowAge[p])]
  /\ timer' = [p \in Procs |-> IF timer[p] > 0 THEN timer[p] - 1 ELSE 0]
  /\ UNCHANGED <<role, phase, seen, failures>>

(* tryAcquireOrRenew: now := time.Now(); GetLease.  A lease validly held   *)
(* by another process ends the attempt without a write.                    *)
GetLease(p) ==
  /\ role[p] # "dead"
  /\ phase[p] = "wait"
  /\ timer[p] = 0
  /\ IF HeldByOther(p, lease)
     THEN /\ FailedAttempt(p)
          /\ UNCHANGED <<seen, nowAge>>
     ELSE /\ phase' = [phase EXCEPT ![p] = "read"]
          /\ seen' = [seen EXCEPT ![p] = lease]
          /\ nowAge' = [nowAge EXCEPT ![p] = 0]
          /\ UNCHANGED <<role, timer>>
  /\ UNCHANGED <<lease, failures>>

(* Mutant: renewTime taken one tick before the captured time.              *)
ClaimedLate(p) == [holder |-> p, age |-> nowAge[p] + 1, transitions |-> seen[p].transitions]

(* The Lease this process writes: holder := self, renewTime := now (the    *)
(* captured time, however long ago that was), the rest as read.            *)
Claimed(p) == [holder |-> p, age |-> nowAge[p], transitions |-> seen[p].transitions]

(* Not found at read time: CreateLease; the registry answers Conflict if   *)
(* the key exists by now.                                                  *)
CreateLease(p) ==
  /\ role[p] # "dead"
  /\ phase[p] = "read"
  /\ seen[p].holder = NoHolder
  /\ IF lease.holder = NoHolder
     THEN /\ lease' = Claimed(p)
          /\ Succeeded(p)
     ELSE /\ FailedAttempt(p)
          /\ UNCHANGED lease
  /\ UNCHANGED <<seen, nowAge, failures>>

(* Held by self (renew) or expired (take over): UpdateLease, which the     *)
(* registry applies whatever the Lease has become since it was read.       *)
UpdateLease(p) ==
  /\ role[p] # "dead"
  /\ phase[p] = "read"
  /\ seen[p].holder # NoHolder
  /\ lease' = Claimed(p)
  /\ Succeeded(p)
  /\ UNCHANGED <<seen, nowAge, failures>>

(* An HTTP call of tryAcquireOrRenew returns an error.  A write may have   *)
(* been applied by the registry before the response was lost.              *)
CallFails(p) ==
  /\ role[p] # "dead"
  /\ failures < MaxFailures
  /\ failures' = failures + 1
  /\ \/ /\ phase[p] = "wait" /\ timer[p] = 0
        /\ UNCHANGED lease
     \/ /\ phase[p] = "read"
        /\ UNCHANGED lease
     \/ /\ phase[p] = "read"
        /\ seen[p].holder # NoHolder \/ lease.holder = NoHolder
        /\ lease' = Claimed(p)
  /\ FailedAttempt(p)
  /\ UNCHANGED <<seen, nowAge>>

(* The process is killed.                                                  *)
Crash(p) ==
  /\ role[p] # "dead"
  /\ role' = [role EXCEPT ![p] = "dead"]
  /\ UNCHANGED <<lease, phase, timer, seen, nowAge, failures>>

Next ==
  \/ Tick
  \/ \E p \in Procs :
       \/ GetLease(p)
       \/ CreateLease(p)
       \/ UpdateLease(p)
       \/ CallFails(p)
       \/ Crash(p)

(* Time advances and every live process eventually takes its next step:   *)
(* the Go runtime schedules the goroutine and the HTTP call returns.       *)
Fairness ==
  /\ WF_vars(Tick)
  /\ \A p \in Procs : WF_vars(GetLease(p) \/ CreateLease(p) \/ UpdateLease(p))

Spec == Init /\ [][Next]_vars /\ Fairness

-----------------------------------------------------------------------------
TypeOK ==
  /\ lease \in Lease
  /\ role \in [Procs -> {"candidate", "leader", "dead"}]
  /\ phase \in [Procs -> {"wait", "read"}]
  /\ timer \in [Procs -> 0..RetryPeriod]
  /\ seen \in [Procs -> Lease]
  /\ nowAge \in [Procs -> Ages]
  /\ failures \in 0..MaxFailures

(* Leader exclusivity (spec 8.7, scenario S5): at no time do two live      *)
(* processes both run the controllers, i.e. are both in renewLoop.         *)
LeaderExclusivity ==
  \A p, q \in Procs : role[p] = "leader" /\ role[q] = "leader" => p = q

(* Failover (scenario S5): whenever no process leads while one is alive,   *)
(* eventually one leads, or all have died.                                 *)
FailoverEventually ==
  ((\A p \in Procs : role[p] # "leader") /\ (\E p \in Procs : role[p] # "dead"))
    ~> (\E p \in Procs : role[p] = "leader") \/ (\A p \in Procs : role[p] = "dead")
=============================================================================
