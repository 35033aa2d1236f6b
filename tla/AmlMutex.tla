------------------------------ MODULE AmlMutex ------------------------------
(***************************************************************************)
(* AML mutexes (aml_mutex.c) and their bookkeeping per method scope        *)
(* (aml_method.c).  An AML mutex is a host mutex plus a chain of scope     *)
(* levels, one per method scope that acquired it; the mutex \_GL also      *)
(* stands for the ACPI global lock, shared with the firmware, which        *)
(* AmlMutexAcquire polls until it gets it or the timeout ends.  Leaving a  *)
(* method scope releases, one by one, what the scope still holds; the      *)
(* firmware may run between any two of these releases and polls.           *)
(*                                                                         *)
(* The global lock word is the atomic lock that module GlobalLock          *)
(* implements.  The host's mutexes are outside the repository.             *)
(***************************************************************************)
EXTENDS Integers, Functions

CONSTANTS Mutexes,     \* mutex objects of the namespace
          GL,          \* State->GlobalLock, the object \_GL
          MaxLevel,    \* bound: depth of the method scope stack
          MaxAcquire,  \* bound: AcquireCount of one mutex in one scope
          MaxHeld      \* bound: acquisitions of one host mutex

ASSUME MutexAssumption ==
  /\ GL \in Mutexes
  /\ MaxLevel \in Nat \ {0}
  /\ MaxAcquire \in Nat
  /\ MaxHeld \in Nat

VARIABLES
  level,    \* State->MethodScopeLevel; level 1 is MethodScopeRoot
  entry,    \* Mutex->ScopeEntry: the level of its method scope, 0 for NULL
  count,    \* AcquireCount of the mutex at each level
  previous, \* PreviousLevel of the mutex's entry at each level
  linked,   \* MutexHead .. MutexTail: mutexes with an entry at each level
  held,     \* acquisitions of the host mutex not yet given back to the host
  holds,    \* State->GlobalLockHoldCount
  owned,    \* the owned bit of the global lock word
  fwInside, \* the firmware has acquired the global lock and not released it
  nested,   \* history: the lock was released while held more than once
  at,       \* where the interpreter is; a poll without a timeout is "poll"
  mutex,    \* the mutex that the operation in progress is about
  left,     \* releases left for that mutex when leaving a scope
  answer    \* what the last AcquireOp returned to the AML code

scopeVars == <<level, entry, count, previous, linked>>
lockVars == <<holds, owned, nested>>
vars == <<level, entry, count, previous, linked, held, holds, owned, fwInside,
          nested, at, mutex, left, answer>>

Levels == 1..MaxLevel
RootLevel == 1

Init ==
  /\ level = RootLevel
  /\ entry = [m \in Mutexes |-> 0]
  /\ count = [m \in Mutexes |-> [l \in Levels |-> 0]]
  /\ previous = [m \in Mutexes |-> [l \in Levels |-> 0]]
  /\ linked = [l \in Levels |-> {}]
  /\ held = [m \in Mutexes |-> 0]
  /\ holds = 0 /\ owned = FALSE /\ fwInside = FALSE /\ nested = FALSE
  /\ at = "run" /\ mutex = GL /\ left = 0
  /\ answer = "none"

\* The entry of m on top of its chain belongs to the current method scope.
Tracked(m) == entry[m] = level

-----------------------------------------------------------------------------
(* AmlMethodScopeMutexAcquire, AmlMethodScopeMutexRelease *)

ScopeAcquire(m) ==
  \/ /\ Tracked(m)
     /\ count' = [count EXCEPT ![m][level] = @ + 1]
     /\ UNCHANGED <<level, entry, previous, linked>>
  \/ /\ ~Tracked(m)
     /\ count' = [count EXCEPT ![m][level] = 1]
     /\ previous' = [previous EXCEPT ![m][level] = entry[m]]
     /\ entry' = [entry EXCEPT ![m] = level]
     /\ linked' = [linked EXCEPT ![level] = @ \cup {m}]
     /\ UNCHANGED level

\* Looks at the top entry of the chain, whichever scope it belongs to.
MayScopeRelease_AnyLevel(m) == entry[m] # 0 /\ count[m][entry[m]] > 0

MayScopeRelease(m) == Tracked(m) /\ count[m][level] > 0

ScopeRelease(m) ==
  /\ count' = [count EXCEPT ![m][entry[m]] = @ - 1]
  /\ UNCHANGED <<level, entry, previous, linked>>

-----------------------------------------------------------------------------
(* AmlMutexAcquire and DefAcquire *)

\* The acquisition succeeded: it is tracked in the current method scope, or
\* there is no memory for the entry and the interpreter traps.
Succeed(m) ==
  \/ /\ ScopeAcquire(m)
     /\ at' = "run"
     /\ answer' = "acquired"
  \/ /\ ~Tracked(m)
     /\ at' = "trap"
     /\ UNCHANGED <<scopeVars, answer>>

Fail(value) ==
  /\ at' = "run"
  /\ answer' = value
  /\ UNCHANGED scopeVars

MayAcquire(m) ==
  /\ at = "run"
  /\ Tracked(m) => count[m][level] < MaxAcquire
  /\ held[m] < MaxHeld

\* AmlHostMutexAcquire fails: AcquireOp turns ERROR into the value of success.
HostRefuses(m, forever) ==
  /\ MayAcquire(m)
  /\ mutex' = m
  /\ \/ Fail("error")
     \/ ~forever /\ Fail("timeout")
  /\ UNCHANGED <<held, fwInside, lockVars, left>>

HostGrants(m, forever) ==
  /\ MayAcquire(m)
  /\ mutex' = m
  /\ held' = [held EXCEPT ![m] = @ + 1]
  /\ \/ /\ m # GL
        /\ Succeed(m)
        /\ UNCHANGED lockVars
     \/ /\ m = GL /\ holds > 0
        /\ holds' = holds + 1
        /\ Succeed(m)
        /\ UNCHANGED <<owned, nested>>
     \/ /\ m = GL /\ holds = 0
        /\ at' = IF forever THEN "poll" ELSE "timedPoll"
        /\ UNCHANGED <<scopeVars, lockVars, answer>>
  /\ UNCHANGED <<fwInside, left>>

\* The result of the attempt is not looked at.
PollSucceeds_NoTest ==
  /\ at \in {"poll", "timedPoll"}
  /\ owned' = TRUE /\ holds' = 1 /\ UNCHANGED nested
  /\ Succeed(GL)
  /\ UNCHANGED <<held, fwInside, mutex, left>>

\* The lock word is free: AmlHostGlobalLockTryAcquire takes it.
PollSucceeds ==
  /\ at \in {"poll", "timedPoll"} /\ ~owned
  /\ owned' = TRUE /\ holds' = 1 /\ UNCHANGED nested
  /\ Succeed(GL)
  /\ UNCHANGED <<held, fwInside, mutex, left>>

\* The lock word was owned at the last poll and the timeout has passed.  The
\* host mutex stays acquired.
PollTimesOut ==
  /\ at = "timedPoll" /\ owned
  /\ Fail("timeout")
  /\ UNCHANGED <<held, fwInside, lockVars, mutex, left>>

-----------------------------------------------------------------------------
(* AmlMutexRelease *)

GlobalLockRelease(m) ==
  IF m = GL /\ holds > 0
  THEN /\ owned' = FALSE
       /\ holds' = holds - 1
       /\ nested' = (nested \/ holds > 1)
  ELSE UNCHANGED lockVars

\* The host mutex is released although the scope has not acquired it.
MutexRelease_HostAlways(m) ==
  /\ held' = [held EXCEPT ![m] = IF @ > 0 THEN @ - 1 ELSE 0]
  /\ IF MayScopeRelease(m)
     THEN ScopeRelease(m) /\ GlobalLockRelease(m)
     ELSE UNCHANGED <<scopeVars, lockVars>>

MutexRelease(m) ==
  IF MayScopeRelease(m)
  THEN /\ ScopeRelease(m)
       /\ GlobalLockRelease(m)
       /\ held' = [held EXCEPT ![m] = @ - 1]
  ELSE UNCHANGED <<scopeVars, lockVars, held>>

\* DefRelease: an error of AmlMutexRelease is not seen by the AML code.
Release(m) ==
  /\ at = "run"
  /\ mutex' = m
  /\ MutexRelease(m)
  /\ answer' = "none"
  /\ UNCHANGED <<fwInside, at, left>>

-----------------------------------------------------------------------------
(* AmlMethodPushScope, AmlMethodPopScope, AmlMethodScopeReleaseInternal *)

PushScope ==
  /\ at = "run" /\ level < MaxLevel
  /\ level' = level + 1
  /\ linked' = [linked EXCEPT ![level + 1] = {}]
  /\ answer' = "none"
  /\ UNCHANGED <<entry, count, previous, held, lockVars, fwInside, at, mutex,
                 left>>

BeginPop ==
  /\ at = "run" /\ level > RootLevel
  /\ at' = "pop"
  /\ answer' = "none"
  /\ UNCHANGED <<scopeVars, held, lockVars, fwInside, mutex, left>>

PopMutex(m) ==
  /\ at = "pop" /\ m \in linked[level]
  /\ at' = "drain" /\ mutex' = m /\ left' = count[m][level]
  /\ UNCHANGED <<scopeVars, held, lockVars, fwInside, answer>>

\* The loop's counter is not advanced.
DrainMutex_SameLeft ==
  /\ at = "drain" /\ left > 0
  /\ MutexRelease(mutex)
  /\ UNCHANGED <<fwInside, at, mutex, left, answer>>

DrainMutex ==
  /\ at = "drain" /\ left > 0
  /\ MutexRelease(mutex)
  /\ left' = left - 1
  /\ UNCHANGED <<fwInside, at, mutex, answer>>

\* The mutex goes on pointing to the entry of the scope that is left.
PopEntry_KeepEntry ==
  /\ at = "drain" /\ left = 0
  /\ at' = "pop"
  /\ linked' = [linked EXCEPT ![level] = @ \ {mutex}]
  /\ UNCHANGED <<level, count, entry, previous, held, lockVars, fwInside,
                 mutex, left, answer>>

PopEntry ==
  /\ at = "drain" /\ left = 0
  /\ \/ /\ count[mutex][level] # 0
        /\ at' = "fatal"
        /\ UNCHANGED <<entry, previous, linked>>
     \/ /\ count[mutex][level] = 0
        /\ entry' = [entry EXCEPT ![mutex] = previous[mutex][level]]
        /\ previous' = [previous EXCEPT ![mutex][level] = 0]
        /\ linked' = [linked EXCEPT ![level] = @ \ {mutex}]
        /\ at' = "pop"
  /\ UNCHANGED <<level, count, held, lockVars, fwInside, mutex,
                 left, answer>>

\* The scope goes away before its list of mutexes has been worked off.
EndPop_Early ==
  /\ at = "pop"
  /\ level' = level - 1
  /\ at' = "run"
  /\ UNCHANGED <<entry, count, previous, linked, held, lockVars, fwInside,
                 mutex, left, answer>>

EndPop ==
  /\ at = "pop" /\ linked[level] = {}
  /\ level' = level - 1
  /\ at' = "run"
  /\ UNCHANGED <<entry, count, previous, linked, held, lockVars, fwInside,
                 mutex, left, answer>>

-----------------------------------------------------------------------------
(* The firmware, which follows the protocol of the global lock. *)

FirmwareAcquires ==
  /\ ~owned /\ ~fwInside
  /\ owned' = TRUE /\ fwInside' = TRUE
  /\ UNCHANGED <<scopeVars, held, holds, nested, at, mutex, left,
                 answer>>

FirmwareReleases ==
  /\ fwInside
  /\ owned' = FALSE /\ fwInside' = FALSE
  /\ UNCHANGED <<scopeVars, held, holds, nested, at, mutex, left,
                 answer>>

-----------------------------------------------------------------------------
Acquiring ==
  \E m \in Mutexes, forever \in BOOLEAN :
    HostRefuses(m, forever) \/ HostGrants(m, forever)

Polling == PollSucceeds \/ PollTimesOut

Popping == (\E m \in Mutexes : PopMutex(m)) \/ DrainMutex \/ PopEntry \/ EndPop

Interpreter ==
  \/ Acquiring \/ Polling \/ (\E m \in Mutexes : Release(m))
  \/ PushScope \/ BeginPop \/ Popping

Firmware == FirmwareAcquires \/ FirmwareReleases

Next == Interpreter \/ Firmware

Spec == Init /\ [][Next]_vars

\* The interpreter is a sequential program that runs on once an operation has
\* begun, and the timer that bounds a finite wait is monotonic.
FairSpec == Spec /\ WF_vars(Polling) /\ WF_vars(Popping)

-----------------------------------------------------------------------------
ScopesOK ==
  /\ level \in Levels
  /\ entry \in [Mutexes -> 0..MaxLevel]
  /\ count \in [Mutexes -> [Levels -> Nat]]
  /\ previous \in [Mutexes -> [Levels -> 0..MaxLevel]]
  /\ linked \in [Levels -> SUBSET Mutexes]

LocksOK ==
  /\ holds \in Nat
  /\ owned \in BOOLEAN
  /\ nested \in BOOLEAN
  /\ fwInside \in BOOLEAN

ControlOK ==
  /\ at \in {"run", "poll", "timedPoll", "pop", "drain", "trap", "fatal"}
  /\ mutex \in Mutexes
  /\ left \in Nat
  /\ answer \in {"none", "acquired", "timeout", "error"}

\* The scopes, the locks and the interpreter's place keep their types.
TypeOK == ScopesOK /\ LocksOK /\ ControlOK /\ held \in [Mutexes -> Int]

Acquisitions(m) == SumFunction(count[m])

\* The hold count of the global lock, kept in State, and the acquisition
\* counts of \_GL, kept in the method scopes, never drift apart.
HoldCountMatchesScopes == at # "trap" => holds = Acquisitions(GL)

\* Every acquisition of a host mutex is tracked in some method scope, so that
\* leaving the scopes gives the mutex back.  (For \_GL see TimeoutIsClean.)
HostMutexIsTracked ==
  at # "trap" => \A m \in Mutexes \ {GL} : held[m] = Acquisitions(m)

\* What State and the host count is what the method scopes have on record, so that
\* nothing stays acquired that no scope will release.
TrackingIsTruthful == HoldCountMatchesScopes /\ HostMutexIsTracked

ChainOf(m) ==
  /\ entry[m] <= level
  /\ entry[m] # 0 => m \in linked[entry[m]]
  /\ \A l \in 1..level :
       m \in linked[l] =>
         /\ l <= entry[m]
         /\ previous[m][l] < l
         /\ previous[m][l] # 0 => m \in linked[previous[m][l]]
         /\ \A k \in 1..(l - 1) : m \in linked[k] => k <= previous[m][l]

\* A mutex's chain of scope levels runs through live scopes only, from the
\* innermost outwards, and visits exactly the scopes that link the mutex.
ChainFollowsScopes == \A m \in Mutexes : ChainOf(m)

\* What a scope has acquired is released before the scope is gone.
ScopeExitReleases ==
  \A m \in Mutexes, l \in Levels : l > level => count[m][l] = 0

\* The interpreter's own assertion, that draining an entry releases all its
\* acquisitions, never fails.
DrainIsComplete == at # "fatal"

\* Code of a method cannot release, or add to, what its callers have acquired.
CallersKeepTheirMutexes ==
  [][\A m \in Mutexes, l \in Levels : l < level => count'[m][l] = count[m][l]]_vars

\* The global lock protects AML code from the firmware and the firmware from
\* AML code, up to the first release of a nested acquisition.
LockExcludesFirmware == ~nested => ~(holds > 0 /\ fwInside)

\* The same without the exception.
HoldCountMeansOwned == ~(holds > 0 /\ fwInside)

\* After an Acquire that timed out the mutex is not owned on its account.
TimeoutIsClean ==
  at = "run" /\ answer = "timeout" => held[mutex] = Acquisitions(mutex)

\* AcquireOp returns zero for every status but TIMEOUT: code that reads zero
\* goes on as the owner of the mutex.
ZeroMeansOwned ==
  at = "run" /\ answer \in {"acquired", "error"} => count[mutex][level] > 0

\* An Acquire with a timeout returns whatever the firmware does, and leaving a
\* method scope ends.
OperationsEnd ==
  /\ (at = "timedPoll") ~> (at # "timedPoll")
  /\ (at = "pop") ~> (at \notin {"pop", "drain"})
=============================================================================
