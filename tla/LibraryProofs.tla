---------------------------- MODULE LibraryProofs ----------------------------
(***************************************************************************)
(* The services that the evaluation rests on, each for every value of its  *)
(* constants. AML mutexes: types, the exclusion of the firmware, and the   *)
(* discipline of the method scopes. The global lock: the word that is      *)
(* shared with the firmware, for every set of agents. The heap: no block   *)
(* is handed out twice, and no request leaves its block, for any number of *)
(* blocks, bins and sizes.                                                 *)
(***************************************************************************)
EXTENDS AmlMutex, GlobalLock, Heap, Lemmas

\* Types of the bookkeeping: what every operation on the scopes preserves.
LEMMA ScopesInit == Init => ScopesOK
BY MutexAssumption DEF Init, ScopesOK, Levels, RootLevel

\* AmlMutexScopeLevelAcquire keeps the types of the scope state.
LEMMA ScopeAcquireType ==
  ASSUME ScopesOK, NEW m \in Mutexes, ScopeAcquire(m)
  PROVE  ScopesOK'
<1>t. level \in Levels /\ level \in 0..MaxLevel
  BY MutexAssumption DEF ScopesOK, Levels
<1>1. CASE Tracked(m)
  <2>1. /\ count' = [count EXCEPT ![m][level] = @ + 1]
        /\ level' = level /\ entry' = entry /\ previous' = previous
        /\ linked' = linked
    BY <1>1 DEF ScopeAcquire
  <2> QED BY <1>t, <2>1 DEF ScopesOK
<1>2. CASE ~Tracked(m)
  <2>1. /\ count' = [count EXCEPT ![m][level] = 1]
        /\ previous' = [previous EXCEPT ![m][level] = entry[m]]
        /\ entry' = [entry EXCEPT ![m] = level]
        /\ linked' = [linked EXCEPT ![level] = @ \cup {m}]
        /\ level' = level
    BY <1>2 DEF ScopeAcquire
  <2> QED BY <1>t, <2>1 DEF ScopesOK
<1> QED BY <1>1, <1>2

\* AmlMutexRelease keeps the types of the scope state.
LEMMA MutexReleaseType ==
  ASSUME ScopesOK, NEW m \in Mutexes, MutexRelease(m)
  PROVE  ScopesOK'
<1>1. CASE MayScopeRelease(m)
  <2>1. /\ count' = [count EXCEPT ![m][level] = @ - 1]
        /\ level' = level /\ entry' = entry /\ previous' = previous
        /\ linked' = linked
    BY <1>1 DEF MutexRelease, MayScopeRelease, ScopeRelease, Tracked
  <2>2. count[m][level] > 0
    BY <1>1 DEF MayScopeRelease
  <2> QED BY <2>1, <2>2 DEF ScopesOK
<1>2. CASE ~MayScopeRelease(m)
  BY <1>2 DEF MutexRelease, scopeVars, ScopesOK
<1> QED BY <1>1, <1>2

-----------------------------------------------------------------------------
(* The step lemma: what a step can do to the method scopes. *)

PushLevel ==
  /\ level < MaxLevel
  /\ level' = level + 1
  /\ linked' = [linked EXCEPT ![level + 1] = {}]
  /\ entry' = entry /\ count' = count /\ previous' = previous

\* Every step leaves the scopes alone, or is one of five operations on them.
LEMMA ScopeEffect ==
  ASSUME ControlOK, [Next]_vars
  PROVE  \/ UNCHANGED scopeVars
         \/ \E m \in Mutexes : ScopeAcquire(m)
         \/ \E m \in Mutexes : MutexRelease(m)
         \/ PushLevel
         \/ PopEntry
         \/ EndPop
<1> USE DEF scopeVars
<1>1. CASE UNCHANGED vars
  BY <1>1 DEF vars
<1>2. CASE Acquiring
  BY <1>2 DEF Acquiring, HostRefuses, HostGrants, Fail, Succeed
<1>3. CASE Polling
  BY <1>3, MutexAssumption
  DEF Polling, PollSucceeds, PollTimesOut, Fail, Succeed
<1>4. CASE \E m \in Mutexes : Release(m)
  BY <1>4 DEF Release
<1>5. CASE PushScope
  BY <1>5 DEF PushScope, PushLevel
<1>6. CASE BeginPop
  BY <1>6 DEF BeginPop
<1>7. CASE Popping
  BY <1>7 DEF Popping, PopMutex, DrainMutex, ControlOK
<1>8. CASE Firmware
  BY <1>8 DEF Firmware, FirmwareAcquires, FirmwareReleases
<1> QED
  BY <1>1, <1>2, <1>3, <1>4, <1>5, <1>6, <1>7, <1>8 DEF Next, Interpreter

-----------------------------------------------------------------------------
(* The inductive invariant of the method scopes. *)

\* Only a scope that links a mutex counts acquisitions of it.
CountsAreLinked ==
  \A m \in Mutexes, l \in Levels : count[m][l] # 0 => m \in linked[l]

\* While a scope is drained, the mutex being drained is linked in that scope,
\* and the loop has as many turns left as the scope has acquisitions of it.
DrainInv ==
  /\ at \in {"pop", "drain"} => level > RootLevel
  /\ at = "drain" => mutex \in linked[level] /\ count[mutex][level] = left
  /\ at # "fatal"

ScopeInv ==
  ScopesOK /\ ControlOK /\ ChainFollowsScopes /\ CountsAreLinked /\ DrainInv
  /\ ScopeExitReleases

\* The strengthened scope invariant holds before the first method.
LEMMA ScopeInvInit == Init => ScopeInv
<1> SUFFICES ASSUME Init PROVE ScopeInv
  OBVIOUS
<1>1. ScopesOK
  BY ScopesInit
<1>2. ControlOK
  BY MutexAssumption DEF Init, ControlOK
<1>3. ChainFollowsScopes /\ CountsAreLinked /\ ScopeExitReleases
  BY MutexAssumption DEF Init, ChainFollowsScopes, ChainOf, CountsAreLinked,
     ScopeExitReleases, Levels, RootLevel
<1>4. DrainInv
  BY DEF Init, DrainInv
<1> QED BY <1>1, <1>2, <1>3, <1>4 DEF ScopeInv

\* Every step keeps the types of the scope state.
LEMMA ScopesStep == ScopeInv /\ [Next]_vars => ScopesOK'
<1> SUFFICES ASSUME ScopeInv, [Next]_vars PROVE ScopesOK'
  OBVIOUS
<1> USE MutexAssumption DEF ScopeInv
<1>1. CASE UNCHANGED scopeVars
  BY <1>1 DEF scopeVars, ScopesOK
<1>2. CASE \E m \in Mutexes : ScopeAcquire(m)
  BY <1>2, ScopeAcquireType
<1>3. CASE \E m \in Mutexes : MutexRelease(m)
  BY <1>3, MutexReleaseType
<1>4. CASE PushLevel
  <2>1. level' \in Levels
    BY <1>4 DEF PushLevel, ScopesOK, Levels
  <2> QED BY <1>4, <2>1 DEF PushLevel, ScopesOK
<1>5. CASE PopEntry
  <2>1. CASE UNCHANGED <<entry, previous, linked>>
    BY <1>5, <2>1 DEF PopEntry, ScopesOK
  <2>2. CASE /\ entry' = [entry EXCEPT ![mutex] = previous[mutex][level]]
             /\ previous' = [previous EXCEPT ![mutex][level] = 0]
             /\ linked' = [linked EXCEPT ![level] = @ \ {mutex}]
    <3>1. level' = level /\ count' = count
      BY <1>5 DEF PopEntry
    <3>2. mutex \in Mutexes /\ level \in Levels /\ 0 \in 0..MaxLevel
      BY DEF ControlOK, ScopesOK
    <3> QED BY <2>2, <3>1, <3>2 DEF ScopesOK
  <2> QED BY <1>5, <2>1, <2>2 DEF PopEntry
<1>6. CASE EndPop
  <2>1. level' \in Levels
    BY <1>6 DEF EndPop, ScopesOK, Levels, DrainInv, RootLevel
  <2> QED BY <1>6, <2>1 DEF EndPop, ScopesOK
<1> QED BY <1>1, <1>2, <1>3, <1>4, <1>5, <1>6, ScopeEffect

\* Every step keeps the types of the interpreter's place.
LEMMA ControlStep == ControlOK /\ ScopesOK /\ [Next]_vars => ControlOK'
<1> SUFFICES ASSUME ControlOK, ScopesOK, [Next]_vars PROVE ControlOK'
  OBVIOUS
<1> USE MutexAssumption DEF ControlOK
<1>1. CASE UNCHANGED vars
  BY <1>1 DEF vars
<1>2. CASE Acquiring
  BY <1>2 DEF Acquiring, HostRefuses, HostGrants, Fail, Succeed
<1>3. CASE Polling
  BY <1>3 DEF Polling, PollSucceeds, PollTimesOut, Fail, Succeed
<1>4. CASE \E m \in Mutexes : Release(m)
  BY <1>4 DEF Release
<1>5. CASE PushScope \/ BeginPop
  BY <1>5 DEF PushScope, BeginPop
<1>6. CASE \E m \in Mutexes : PopMutex(m)
  BY <1>6 DEF PopMutex, ScopesOK
<1>7. CASE DrainMutex \/ PopEntry \/ EndPop
  BY <1>7 DEF DrainMutex, PopEntry, EndPop
<1>8. CASE Firmware
  BY <1>8 DEF Firmware, FirmwareAcquires, FirmwareReleases
<1> QED
  BY <1>1, <1>2, <1>3, <1>4, <1>5, <1>6, <1>7, <1>8
  DEF Next, Interpreter, Popping

\* The effects of the operations in the form the next lemmas use.
LEMMA ReleaseEffect ==
  ASSUME ScopeInv, NEW m \in Mutexes, MutexRelease(m)
  PROVE  /\ level' = level /\ entry' = entry /\ previous' = previous
         /\ linked' = linked
         /\ \/ count' = count
            \/ /\ m \in linked[level]
               /\ count' = [count EXCEPT ![m][level] = @ - 1]
         /\ MayScopeRelease(m) => count' = [count EXCEPT ![m][level] = @ - 1]
<1>1. CASE MayScopeRelease(m)
  <2>1. m \in linked[level]
    BY <1>1 DEF ScopeInv, ScopesOK, Levels, CountsAreLinked, MayScopeRelease
  <2> QED
    BY <1>1, <2>1 DEF MutexRelease, MayScopeRelease, ScopeRelease, Tracked
<1>2. CASE ~MayScopeRelease(m)
  BY <1>2 DEF MutexRelease, scopeVars
<1> QED BY <1>1, <1>2

\* What popping one entry of a scope level's list changes.
LEMMA PopEntryEffect ==
  ASSUME ScopeInv, PopEntry
  PROVE  /\ count[mutex][level] = 0 /\ mutex \in linked[level]
         /\ mutex \in Mutexes /\ level \in Levels
         /\ entry' = [entry EXCEPT ![mutex] = previous[mutex][level]]
         /\ previous' = [previous EXCEPT ![mutex][level] = 0]
         /\ linked' = [linked EXCEPT ![level] = @ \ {mutex}]
         /\ level' = level /\ count' = count /\ at' = "pop"
BY DEF ScopeInv, ScopesOK, ControlOK, PopEntry, DrainInv

\* The chain of one mutex, when nothing of it changes.
LEMMA SameChain ==
  ASSUME ScopesOK, NEW n \in Mutexes, ChainOf(n),
         level' = level, entry'[n] = entry[n], previous'[n] = previous[n],
         \A l \in Levels : n \in linked'[l] <=> n \in linked[l]
  PROVE  ChainOf(n)'
<1>1. /\ level \in 1..MaxLevel /\ MaxLevel \in Nat
      /\ entry[n] \in 0..MaxLevel
      /\ \A l \in 1..MaxLevel : previous[n][l] \in 0..MaxLevel
      /\ \A l \in 1..MaxLevel : n \in linked'[l] <=> n \in linked[l]
  BY MutexAssumption DEF ScopesOK, Levels
<1>2. entry'[n] # 0 => n \in linked'[entry'[n]]
  BY <1>1 DEF ChainOf
<1>3. ASSUME NEW l \in 1..level', n \in linked'[l]
      PROVE  /\ l <= entry'[n]
             /\ previous'[n][l] < l
             /\ previous'[n][l] # 0 => n \in linked'[previous'[n][l]]
             /\ \A k \in 1..(l - 1) : n \in linked'[k] => k <= previous'[n][l]
  <2>1. l \in 1..level /\ l \in 1..MaxLevel /\ n \in linked[l]
    BY <1>1, <1>3
  <2>2. /\ l <= entry[n] /\ previous[n][l] < l
        /\ previous[n][l] # 0 => n \in linked[previous[n][l]]
        /\ \A k \in 1..(l - 1) : n \in linked[k] => k <= previous[n][l]
    BY <2>1 DEF ChainOf
  <2> QED BY <1>1, <2>1, <2>2
<1> QED BY <1>1, <1>2, <1>3 DEF ChainOf

\* Every step keeps each mutex's chain the levels that hold it.
LEMMA ChainStep == ScopeInv /\ [Next]_vars => ChainFollowsScopes'
<1> SUFFICES ASSUME ScopeInv, [Next]_vars, NEW n \in Mutexes PROVE ChainOf(n)'
  BY DEF ChainFollowsScopes
<1>t. /\ ScopesOK /\ ControlOK /\ ChainOf(n) /\ MaxLevel \in Nat \ {0}
      /\ level \in 1..MaxLevel /\ entry[n] \in 0..MaxLevel
  BY MutexAssumption DEF ScopeInv, ChainFollowsScopes, ScopesOK, Levels
<1>1. CASE UNCHANGED scopeVars
  BY <1>1, <1>t, SameChain DEF scopeVars
<1>2. ASSUME NEW m \in Mutexes, ScopeAcquire(m) PROVE ChainOf(n)'
  <2>1. CASE Tracked(m)
    BY <1>2, <1>t, <2>1, SameChain DEF ScopeAcquire
  <2>2. CASE ~Tracked(m)
    <3>1. /\ previous' = [previous EXCEPT ![m][level] = entry[m]]
          /\ entry' = [entry EXCEPT ![m] = level]
          /\ linked' = [linked EXCEPT ![level] = @ \cup {m}]
          /\ level' = level
      BY <1>2, <2>2 DEF ScopeAcquire
    <3>2. CASE n # m
      BY <1>t, <3>1, <3>2, SameChain DEF ScopesOK
    <3>3. CASE n = m
      <4>1. entry[n] < level
        BY <1>t, <2>2, <3>3 DEF Tracked, ChainOf
      <4>2. /\ entry'[n] = level
            /\ previous'[n][level] = entry[n]
            /\ \A l \in Levels \ {level} : previous'[n][l] = previous[n][l]
            /\ n \in linked'[level]
            /\ \A l \in Levels \ {level} : n \in linked'[l] <=> n \in linked[l]
        BY <1>t, <3>1, <3>3 DEF ScopesOK
      <4>3. \A l \in 1..(level - 1) : n \in linked[l] => l <= entry[n]
        BY <1>t DEF ChainOf
      <4>4. entry[n] # 0 => n \in linked[entry[n]]
        BY <1>t DEF ChainOf
      <4>5. \A l \in 1..(level - 1) : n \in linked[l] =>
              /\ previous[n][l] \in 0..MaxLevel /\ previous[n][l] < l
              /\ previous[n][l] # 0 => n \in linked[previous[n][l]]
              /\ \A k \in 1..(l - 1) : n \in linked[k] => k <= previous[n][l]
        <5> SUFFICES ASSUME NEW l \in 1..(level - 1), n \in linked[l]
                     PROVE  /\ previous[n][l] \in 0..MaxLevel
                            /\ previous[n][l] < l
                            /\ previous[n][l] # 0 => n \in linked[previous[n][l]]
                            /\ \A k \in 1..(l - 1) :
                                 n \in linked[k] => k <= previous[n][l]
          OBVIOUS
        <5>1. l \in 1..level /\ l \in 1..MaxLevel
          BY <1>t
        <5>2. previous[n][l] \in 0..MaxLevel
          BY <1>t, <5>1 DEF ScopesOK, Levels
        <5> QED BY <1>t, <5>1, <5>2 DEF ChainOf
      <4>6. \A l \in 1..(level - 1) :
              /\ previous'[n][l] = previous[n][l]
              /\ n \in linked'[l] <=> n \in linked[l]
        BY <1>t, <4>2 DEF Levels
      <4>7. ASSUME NEW l \in 1..level', n \in linked'[l]
            PROVE  /\ l <= entry'[n]
                   /\ previous'[n][l] < l
                   /\ previous'[n][l] # 0 => n \in linked'[previous'[n][l]]
                   /\ \A k \in 1..(l - 1) :
                        n \in linked'[k] => k <= previous'[n][l]
        <5>1. CASE l = level
          <6>1. entry[n] # 0 => n \in linked'[entry[n]]
            BY <1>t, <4>1, <4>4, <4>6
          <6>2. \A k \in 1..(level - 1) : n \in linked'[k] => k <= entry[n]
            BY <4>3, <4>6
          <6> QED BY <1>t, <4>1, <4>2, <5>1, <6>1, <6>2
        <5>2. CASE l # level
          <6>1. l \in 1..(level - 1) /\ n \in linked[l]
            BY <1>t, <3>1, <4>6, <4>7, <5>2
          <6>2. l <= level
            BY <1>t, <6>1
          <6> QED BY <1>t, <4>2, <4>5, <4>6, <6>1, <6>2
        <5> QED BY <5>1, <5>2
      <4> QED BY <1>t, <3>1, <4>2, <4>7 DEF ChainOf
    <3> QED BY <3>2, <3>3
  <2> QED BY <2>1, <2>2
<1>3. ASSUME NEW m \in Mutexes, MutexRelease(m) PROVE ChainOf(n)'
  BY <1>3, <1>t, ReleaseEffect, SameChain
<1>4. CASE PushLevel
  <2>1. /\ level' = level + 1 /\ entry' = entry /\ previous' = previous
        /\ level + 1 \in Levels
        /\ n \notin linked'[level + 1]
        /\ \A l \in 1..level : linked'[l] = linked[l]
    BY <1>4, <1>t DEF PushLevel, ScopesOK, Levels
  <2>2. \A l \in 1..level : previous[n][l] \in 0..MaxLevel
    BY <1>t DEF ScopesOK, Levels
  <2> QED BY <1>t, <2>1, <2>2 DEF ChainOf
<1>5. CASE PopEntry
  <2>1. CASE n # mutex
    BY <1>5, <1>t, <2>1, PopEntryEffect, SameChain DEF ScopesOK
  <2>2. CASE n = mutex
    <3>1. /\ entry'[n] = previous[n][level] /\ level' = level
          /\ \A l \in Levels \ {level} : previous'[n][l] = previous[n][l]
          /\ n \in linked[level] /\ n \notin linked'[level]
          /\ \A l \in Levels \ {level} : n \in linked'[l] <=> n \in linked[l]
      BY <1>5, <1>t, <2>2, PopEntryEffect DEF ScopesOK
    <3>2. \A l \in Levels : previous[n][l] \in 0..MaxLevel
      BY <1>t DEF ScopesOK
    <3>3. /\ previous[n][level] < level
          /\ previous[n][level] # 0 => n \in linked[previous[n][level]]
          /\ \A k \in 1..(level - 1) : n \in linked[k] => k <= previous[n][level]
      BY <1>t, <3>1 DEF ChainOf
    <3>4. \A l \in 1..(level - 1) : n \in linked[l] =>
              /\ previous[n][l] < l
              /\ previous[n][l] # 0 => n \in linked[previous[n][l]]
              /\ \A k \in 1..(l - 1) : n \in linked[k] => k <= previous[n][l]
      BY <1>t DEF ChainOf
    <3> QED BY <1>t, <3>1, <3>2, <3>3, <3>4 DEF ChainOf, Levels
  <2> QED BY <2>1, <2>2
<1>6. CASE EndPop
  <2>1. /\ level' = level - 1 /\ entry' = entry /\ previous' = previous
        /\ linked' = linked /\ n \notin linked[level]
    BY <1>6, <1>t DEF EndPop
  <2>2. \A l \in 1..level : previous[n][l] \in 0..MaxLevel
    BY <1>t DEF ScopesOK, Levels
  <2> QED BY <1>t, <2>1, <2>2 DEF ChainOf
<1> QED BY <1>1, <1>2, <1>3, <1>4, <1>5, <1>6, <1>t, ScopeEffect

\* What CountsStep needs of one mutex at one level.
LEMMA SameCount ==
  ASSUME ScopeInv, NEW n \in Mutexes, NEW l \in Levels,
         count'[n][l] = count[n][l],
         n \in linked[l] => n \in linked'[l],
         level' = level
  PROVE  /\ count'[n][l] # 0 => n \in linked'[l]
         /\ l > level' => count'[n][l] = 0
BY DEF ScopeInv, CountsAreLinked, ScopeExitReleases

\* Every step keeps a counted mutex in its level's list, and no mutex counted
\* above the current level.
LEMMA CountsStep ==
  ScopeInv /\ [Next]_vars => CountsAreLinked' /\ ScopeExitReleases'
<1> SUFFICES ASSUME ScopeInv, [Next]_vars, NEW n \in Mutexes, NEW l \in Levels
             PROVE  /\ count'[n][l] # 0 => n \in linked'[l]
                    /\ l > level' => count'[n][l] = 0
  BY DEF CountsAreLinked, ScopeExitReleases
<1> DEFINE Goal == /\ count'[n][l] # 0 => n \in linked'[l]
                   /\ l > level' => count'[n][l] = 0
<1>t. /\ ScopesOK /\ ControlOK /\ MaxLevel \in Nat \ {0}
      /\ level \in Levels /\ l \in 1..MaxLevel /\ level \in 1..MaxLevel
      /\ count[n][l] # 0 => n \in linked[l]
      /\ l > level => count[n][l] = 0
      /\ \A m \in Mutexes : entry[m] # 0 => m \in linked[entry[m]]
  BY MutexAssumption DEF ScopeInv, ScopesOK, Levels, CountsAreLinked,
     ScopeExitReleases, ChainFollowsScopes, ChainOf
<1>1. CASE UNCHANGED scopeVars
  BY <1>1, <1>t DEF scopeVars
<1>2. ASSUME NEW m \in Mutexes, ScopeAcquire(m) PROVE Goal
  <2>1. /\ level' = level /\ m \in linked'[level]
        /\ linked[l] \subseteq linked'[l]
        /\ n # m \/ l # level => count'[n][l] = count[n][l]
    <3>1. CASE Tracked(m)
      <4>1. /\ count' = [count EXCEPT ![m][level] = @ + 1]
            /\ level' = level /\ linked' = linked
        BY <1>2, <3>1 DEF ScopeAcquire
      <4>2. m \in linked[level]
        BY <1>t, <3>1 DEF Tracked
      <4> QED BY <1>t, <4>1, <4>2 DEF ScopesOK
    <3>2. CASE ~Tracked(m)
      <4>1. /\ count' = [count EXCEPT ![m][level] = 1]
            /\ linked' = [linked EXCEPT ![level] = @ \cup {m}]
            /\ level' = level
        BY <1>2, <3>2 DEF ScopeAcquire
      <4> QED BY <1>t, <4>1 DEF ScopesOK
    <3> QED BY <3>1, <3>2
  <2>2. CASE n = m /\ l = level
    BY <1>t, <2>1, <2>2
  <2>3. CASE n # m \/ l # level
    BY <1>t, <2>1, <2>3, SameCount
  <2> QED BY <2>2, <2>3
<1>3. ASSUME NEW m \in Mutexes, MutexRelease(m) PROVE Goal
  <2>1. level' = level /\ linked' = linked
    BY <1>3, ReleaseEffect
  <2>2. CASE count' = count
    BY <1>t, <2>1, <2>2
  <2>3. CASE /\ m \in linked[level]
             /\ count' = [count EXCEPT ![m][level] = @ - 1]
    <3>1. n # m \/ l # level => count'[n][l] = count[n][l]
      BY <1>t, <2>3 DEF ScopesOK
    <3>2. CASE n = m /\ l = level
      BY <1>t, <2>1, <2>3, <3>2
    <3> QED BY <1>t, <2>1, <3>1, <3>2
  <2> QED BY <1>3, <2>2, <2>3, ReleaseEffect
<1>4. CASE PushLevel
  <2>1. level' = level + 1 /\ count' = count
    BY <1>4 DEF PushLevel
  <2>2. l # level + 1 => linked'[l] = linked[l]
    BY <1>4, <1>t DEF PushLevel, ScopesOK
  <2>3. l = level + 1 => count[n][l] = 0
    BY <1>t
  <2> QED BY <1>t, <2>1, <2>2, <2>3
<1>5. CASE PopEntry
  <2>1. /\ count[mutex][level] = 0 /\ level' = level /\ count' = count
        /\ linked' = [linked EXCEPT ![level] = @ \ {mutex}]
    BY <1>5, <1>t, PopEntryEffect
  <2>2. ~(n = mutex /\ l = level) => (n \in linked[l] => n \in linked'[l])
    BY <1>t, <2>1 DEF ScopesOK
  <2> QED BY <1>t, <2>1, <2>2
<1>6. CASE EndPop
  <2>1. /\ level' = level - 1 /\ count' = count /\ linked' = linked
        /\ n \notin linked[level]
    BY <1>6, <1>t DEF EndPop
  <2> QED BY <1>t, <2>1
<1> QED BY <1>1, <1>2, <1>3, <1>4, <1>5, <1>6, <1>t, ScopeEffect

\* Every step keeps a pop above the root level, its remaining releases the
\* mutex's count, and the fatal trap unreached.
LEMMA DrainStep == ScopeInv /\ [Next]_vars => DrainInv'
<1> SUFFICES ASSUME ScopeInv, [Next]_vars PROVE DrainInv'
  OBVIOUS
<1>t. /\ ScopesOK /\ ControlOK /\ DrainInv /\ level \in 1..MaxLevel
      /\ \A m \in Mutexes : m \in linked[level] => level <= entry[m] 
      /\ \A m \in Mutexes : entry[m] <= level /\ entry[m] \in 0..MaxLevel
  BY MutexAssumption
  DEF ScopeInv, ScopesOK, Levels, ChainFollowsScopes, ChainOf
<1> USE DEF RootLevel
<1>1. CASE UNCHANGED vars
  BY <1>1, <1>t DEF vars, DrainInv
<1>2. CASE Acquiring \/ Polling \/ (\E m \in Mutexes : Release(m))
  BY <1>2, <1>t DEF Acquiring, HostRefuses, HostGrants, Polling, PollSucceeds,
     PollTimesOut, Fail, Succeed, Release, DrainInv
<1>3. CASE PushScope \/ BeginPop
  BY <1>3, <1>t DEF PushScope, BeginPop, scopeVars, DrainInv
<1>4. ASSUME NEW m \in Mutexes, PopMutex(m) PROVE DrainInv'
  BY <1>4, <1>t DEF PopMutex, scopeVars, DrainInv
<1>5. CASE DrainMutex
  <2>1. /\ at = "drain" /\ at' = "drain" /\ left > 0 /\ left' = left - 1
        /\ MutexRelease(mutex) /\ mutex' = mutex
    BY <1>5 DEF DrainMutex
  <2>2. /\ mutex \in Mutexes /\ level > 1
        /\ mutex \in linked[level] /\ count[mutex][level] = left
    BY <1>t, <2>1 DEF DrainInv, ControlOK
  <2>3. MayScopeRelease(mutex)
    BY <1>t, <2>1, <2>2 DEF MayScopeRelease, Tracked
  <2>4. /\ level' = level /\ linked' = linked
        /\ count' = [count EXCEPT ![mutex][level] = @ - 1]
    BY <2>1, <2>2, <2>3, ReleaseEffect
  <2>5. count'[mutex][level] = left - 1
    BY <1>t, <2>2, <2>4 DEF ScopesOK, Levels
  <2> QED BY <2>1, <2>2, <2>4, <2>5 DEF DrainInv
<1>6. CASE PopEntry
  <2>1. at' = "pop" /\ level' = level /\ at = "drain"
    BY <1>6, PopEntryEffect DEF PopEntry
  <2> QED BY <1>t, <2>1 DEF DrainInv
<1>7. CASE EndPop
  BY <1>7, <1>t DEF EndPop, DrainInv
<1>8. CASE Firmware
  BY <1>8, <1>t DEF Firmware, FirmwareAcquires, FirmwareReleases, scopeVars,
     DrainInv
<1> QED
  BY <1>1, <1>2, <1>3, <1>4, <1>5, <1>6, <1>7, <1>8
  DEF Next, Interpreter, Popping

\* The strengthened scope invariant is inductive.
LEMMA ScopeInvStep == ScopeInv /\ [Next]_vars => ScopeInv'
<1> SUFFICES ASSUME ScopeInv, [Next]_vars PROVE ScopeInv'
  OBVIOUS
<1>1. ScopesOK' /\ ControlOK'
  BY ScopesStep, ControlStep DEF ScopeInv
<1>2. ChainFollowsScopes' /\ CountsAreLinked' /\ DrainInv' /\ ScopeExitReleases'
  BY ChainStep, CountsStep, DrainStep
<1> QED BY <1>1, <1>2 DEF ScopeInv

\* The strengthened scope invariant holds in every reachable state.
LEMMA ScopeInvHolds == Spec => []ScopeInv
BY ScopeInvInit, ScopeInvStep, PTL DEF Spec

\* Leaving a method scope releases everything the scope has acquired, mutex by
\* mutex and acquisition by acquisition, and AmlMethodScopeReleaseInternal
\* never finds an acquisition left over.
THEOREM ScopesAreReleased == Spec => [](ScopeExitReleases /\ DrainIsComplete)
<1>1. ScopeInv => ScopeExitReleases /\ DrainIsComplete
  BY DEF ScopeInv, DrainInv, DrainIsComplete
<1> QED BY <1>1, ScopeInvHolds, PTL

\* The chain of scope levels of every mutex visits exactly the live scopes that
\* acquired the mutex, from the innermost outwards.
THEOREM ChainsAreSound == Spec => []ChainFollowsScopes
<1>1. ScopeInv => ChainFollowsScopes
  BY DEF ScopeInv
<1> QED BY <1>1, ScopeInvHolds, PTL

-----------------------------------------------------------------------------
(* The callers' acquisitions. *)

\* No step takes a mutex from a caller's level.
LEMMA CallersStep ==
  ASSUME ScopeInv, [Next]_vars, NEW n \in Mutexes, NEW l \in Levels, l < level
  PROVE  count'[n][l] = count[n][l]
<1>t. /\ ScopesOK /\ level \in Levels /\ l # level
      /\ count \in [Mutexes -> [Levels -> Nat]]
  <2>1. ScopesOK
    BY DEF ScopeInv
  <2>2. level \in Levels /\ count \in [Mutexes -> [Levels -> Nat]]
    BY <2>1 DEF ScopesOK
  <2>3. l # level
    BY <2>2, MutexAssumption DEF Levels
  <2> QED BY <2>1, <2>2, <2>3
<1>1. CASE UNCHANGED scopeVars
  BY <1>1 DEF scopeVars
<1>2. ASSUME NEW m \in Mutexes, ScopeAcquire(m)
      PROVE  count'[n][l] = count[n][l]
  <2>1. \/ count' = [count EXCEPT ![m][level] = @ + 1]
        \/ count' = [count EXCEPT ![m][level] = 1]
    BY <1>2 DEF ScopeAcquire
  <2>2. CASE count' = [count EXCEPT ![m][level] = @ + 1]
    BY <1>t, <2>2 DEF ScopesOK
  <2>3. CASE count' = [count EXCEPT ![m][level] = 1]
    BY <1>t, <2>3 DEF ScopesOK
  <2> QED BY <2>1, <2>2, <2>3
<1>3. ASSUME NEW m \in Mutexes, MutexRelease(m)
      PROVE  count'[n][l] = count[n][l]
  <2>1. \/ count' = count
        \/ count' = [count EXCEPT ![m][level] = @ - 1]
    BY <1>3, ReleaseEffect
  <2>2. CASE count' = [count EXCEPT ![m][level] = @ - 1]
    BY <1>t, <2>2 DEF ScopesOK
  <2> QED BY <2>1, <2>2
<1>4. CASE PushLevel \/ PopEntry \/ EndPop
  BY <1>4 DEF PushLevel, PopEntry, EndPop
<1> QED BY <1>1, <1>2, <1>3, <1>4, ScopeEffect DEF ScopeInv

\* Whatever a method does, the acquisitions of its callers stay as they were.
THEOREM CallersKeep == Spec => CallersKeepTheirMutexes
<1>1. ScopeInv /\ [Next]_vars =>
        [\A m \in Mutexes, l \in Levels :
           l < level => count'[m][l] = count[m][l]]_vars
  BY CallersStep
<1> QED BY <1>1, ScopeInvHolds, PTL DEF Spec, CallersKeepTheirMutexes

-----------------------------------------------------------------------------
(* The global lock and the firmware. *)

\* As long as no nested acquisition has been released, exactly one of the two
\* sides accounts for the owned bit of the lock word.
LockInv ==
  /\ ~nested => (owned <=> (holds > 0 \/ fwInside))
  /\ ~nested => ~(holds > 0 /\ fwInside)
  /\ at \in {"poll", "timedPoll"} => holds = 0

\* The Global Lock is free before the first method.
LEMMA LockInit == Init => LocksOK /\ LockInv
<1> SUFFICES ASSUME Init PROVE LocksOK /\ LockInv
  OBVIOUS
<1>1. /\ holds = 0 /\ owned = FALSE /\ fwInside = FALSE /\ nested = FALSE
      /\ at = "run"
  BY DEF Init
<1>2. LocksOK
  BY <1>1 DEF LocksOK
<1>3. LockInv
  BY <1>1, 0 \in Nat DEF LockInv
<1> QED BY <1>2, <1>3

\* What MutexRelease does to the lock.
LEMMA LockRelease ==
  ASSUME LocksOK, LockInv, NEW m, MutexRelease(m),
         fwInside' = fwInside, at' = at, at \notin {"poll", "timedPoll"}
  PROVE  LocksOK' /\ LockInv'
<1>1. CASE UNCHANGED lockVars
  BY <1>1 DEF lockVars, LocksOK, LockInv
<1>2. CASE /\ holds > 0 /\ owned' = FALSE /\ holds' = holds - 1
           /\ nested' = (nested \/ holds > 1)
  <2>1. holds' \in Nat
    BY <1>2 DEF LocksOK
  <2>2. ~nested' => ~nested /\ holds' = 0 /\ holds > 0
    <3>1. ~nested' => ~nested /\ ~(holds > 1)
      BY <1>2
    <3>2. ~(holds > 1) => holds - 1 = 0
      BY <1>2 DEF LocksOK
    <3> QED BY <1>2, <3>1, <3>2
  <2>3. nested' \in BOOLEAN
    <3>1. (nested \/ holds > 1) \in BOOLEAN
      OBVIOUS
    <3> QED BY <1>2, <3>1
  <2>4. LocksOK'
    BY <1>2, <2>1, <2>3 DEF LocksOK
  <2>5. ~nested' => (owned' <=> (holds' > 0 \/ fwInside'))
    <3> SUFFICES ASSUME ~nested' PROVE ~fwInside /\ ~(holds' > 0)
      BY <1>2
    <3>1. ~nested /\ holds' = 0 /\ holds > 0
      BY <2>2
    <3> QED BY <3>1 DEF LockInv
  <2>6. ~nested' => ~(holds' > 0 /\ fwInside')
    BY <2>2
  <2> QED BY <2>4, <2>5, <2>6 DEF LockInv
<1> QED BY <1>1, <1>2 DEF MutexRelease, GlobalLockRelease, lockVars

\* Every step keeps the Global Lock apart from the firmware.
LEMMA LockStep == LocksOK /\ LockInv /\ [Next]_vars => LocksOK' /\ LockInv'
<1> SUFFICES ASSUME LocksOK, LockInv, [Next]_vars PROVE LocksOK' /\ LockInv'
  OBVIOUS
<1>1. CASE UNCHANGED vars
  BY <1>1 DEF vars, LocksOK, LockInv
<1>2. ASSUME NEW m \in Mutexes, NEW forever \in BOOLEAN,
             HostRefuses(m, forever) \/ HostGrants(m, forever)
      PROVE  LocksOK' /\ LockInv'
  <2>1. owned' = owned /\ nested' = nested /\ fwInside' = fwInside
    BY <1>2 DEF HostRefuses, HostGrants, lockVars
  <2>2. \/ holds' = holds /\ at' \notin {"poll", "timedPoll"}
        \/ holds' = holds + 1 /\ holds > 0 /\ at' \notin {"poll", "timedPoll"}
        \/ holds' = holds /\ holds = 0
    BY <1>2 DEF HostRefuses, HostGrants, Fail, Succeed, lockVars
  <2> QED BY <2>1, <2>2 DEF LocksOK, LockInv
<1>3. CASE PollSucceeds
  <2>1. /\ owned' = TRUE /\ holds' = 1 /\ nested' = nested /\ ~owned
        /\ fwInside' = fwInside /\ holds = 0
        /\ at' \notin {"poll", "timedPoll"}
    BY <1>3 DEF PollSucceeds, Succeed, LockInv
  <2> QED BY <2>1 DEF LocksOK, LockInv
<1>4. CASE PollTimesOut
  BY <1>4 DEF PollTimesOut, Fail, lockVars, LocksOK, LockInv
<1>5. ASSUME NEW m \in Mutexes, Release(m) PROVE LocksOK' /\ LockInv'
  BY <1>5, LockRelease DEF Release
<1>6. CASE PushScope \/ BeginPop
  BY <1>6 DEF PushScope, BeginPop, lockVars, LocksOK, LockInv
<1>7. CASE PopEntry \/ EndPop
  BY <1>7 DEF PopEntry, EndPop, lockVars, LocksOK, LockInv
<1>8. ASSUME NEW m \in Mutexes, PopMutex(m) PROVE LocksOK' /\ LockInv'
  BY <1>8 DEF PopMutex, lockVars, LocksOK, LockInv
<1>9. CASE DrainMutex
  BY <1>9, LockRelease DEF DrainMutex
<1>10. CASE FirmwareAcquires
  <2>1. /\ ~owned /\ ~fwInside /\ owned' = TRUE /\ fwInside' = TRUE
        /\ holds' = holds /\ nested' = nested /\ at' = at
    BY <1>10 DEF FirmwareAcquires
  <2> QED BY <2>1 DEF LocksOK, LockInv
<1>11. CASE FirmwareReleases
  <2>1. /\ fwInside /\ owned' = FALSE /\ fwInside' = FALSE
        /\ holds' = holds /\ nested' = nested /\ at' = at
    BY <1>11 DEF FirmwareReleases
  <2> QED BY <2>1 DEF LocksOK, LockInv
<1> QED
  BY <1>1, <1>2, <1>3, <1>4, <1>5, <1>6, <1>7, <1>8, <1>9, <1>10, <1>11
  DEF Next, Interpreter, Firmware, Acquiring, Polling, Popping

\* The Global Lock part holds in every reachable state.
LEMMA LockInvHolds == Spec => [](LocksOK /\ LockInv)
BY LockInit, LockStep, PTL DEF Spec

\* AML code that holds \_GL and the firmware are never both inside, up to the
\* first release of an acquisition that was nested in another one.
THEOREM FirmwareIsExcluded == Spec => []LockExcludesFirmware
<1>1. LockInv => LockExcludesFirmware
  BY DEF LockInv, LockExcludesFirmware
<1> QED BY <1>1, LockInvHolds, PTL

-----------------------------------------------------------------------------
(* Types. *)

HeldOK == held \in [Mutexes -> Int]

\* Every step keeps the host's count an integer.
LEMMA HeldStep == HeldOK /\ ControlOK /\ [Next]_vars => HeldOK'
<1> SUFFICES ASSUME HeldOK, ControlOK, [Next]_vars PROVE HeldOK'
  OBVIOUS
<1>1. \/ held' = held
      \/ \E m \in Mutexes : held' = [held EXCEPT ![m] = @ + 1]
      \/ \E m \in Mutexes : held' = [held EXCEPT ![m] = @ - 1]
  <2>1. CASE UNCHANGED vars
    BY <2>1 DEF vars
  <2>2. CASE Acquiring
    BY <2>2 DEF Acquiring, HostRefuses, HostGrants
  <2>3. CASE Polling \/ PushScope \/ BeginPop \/ PopEntry \/ EndPop \/ Firmware
    BY <2>3 DEF Polling, PollSucceeds, PollTimesOut, PushScope, BeginPop,
       PopEntry, EndPop, Firmware, FirmwareAcquires, FirmwareReleases
  <2>4. CASE \E m \in Mutexes : Release(m)
    BY <2>4 DEF Release, MutexRelease
  <2>5. CASE \E m \in Mutexes : PopMutex(m)
    BY <2>5 DEF PopMutex
  <2>6. CASE DrainMutex
    BY <2>6 DEF DrainMutex, MutexRelease, ControlOK
  <2> QED
    BY <2>1, <2>2, <2>3, <2>4, <2>5, <2>6 DEF Next, Interpreter, Popping
<1> QED BY <1>1 DEF HeldOK

\* The host's count is an integer in every reachable state.
LEMMA HeldHolds == Spec => []HeldOK
<1>1. Init => HeldOK
  BY DEF Init, HeldOK
<1>2. ScopeInv /\ HeldOK /\ [Next]_vars => HeldOK'
  BY HeldStep DEF ScopeInv
<1> QED BY <1>1, <1>2, ScopeInvHolds, PTL DEF Spec

\* Every variable keeps its type; in particular no acquisition count of a scope
\* and no hold count ever becomes negative.
THEOREM TypeCorrect == Spec => []TypeOK
<1>1. ScopeInv /\ LocksOK /\ HeldOK => TypeOK
  BY DEF ScopeInv, HeldOK, TypeOK
<1> QED BY <1>1, ScopeInvHolds, LockInvHolds, HeldHolds, PTL

-----------------------------------------------------------------------------
(* What the host and State count, and what the method scopes have on record. *)

\* One more acquisition of one scope is one more altogether, and one less is one less.
LEMMA AcquisitionsChange ==
  ASSUME ScopesOK, NEW m \in Mutexes, NEW l \in Levels, NEW v \in Nat,
         count' = [count EXCEPT ![m][l] = v]
  PROVE  /\ Acquisitions(m) \in Nat /\ Acquisitions(m) >= count[m][l]
         /\ Acquisitions(m)' = Acquisitions(m) - count[m][l] + v
         /\ \A n \in Mutexes : n # m => Acquisitions(n)' = Acquisitions(n)
<1>1. IsFiniteSet(Levels)
  BY MutexAssumption, FS_Interval DEF Levels
<1>2. count[m] \in [Levels -> Nat]
  BY DEF ScopesOK
<1>3. count'[m] = [count[m] EXCEPT ![l] = v] /\ \A n \in Mutexes : n # m => count'[n] = count[n]
  BY DEF ScopesOK
<1>4. PICK f : f = count[m]
  OBVIOUS
<1>5. /\ SumFunction(f) \in Nat /\ SumFunction(f) >= f[l]
      /\ SumFunction([f EXCEPT ![l] = v]) = SumFunction(f) - f[l] + v
  BY <1>1, <1>2, <1>4, SumChanges
<1> QED BY <1>3, <1>4, <1>5 DEF Acquisitions

\* A scope that acquires a mutex has one more acquisition of it on record.
LEMMA ScopeAcquireCounts ==
  ASSUME ScopeInv, NEW m \in Mutexes, ScopeAcquire(m)
  PROVE  /\ Acquisitions(m)' = Acquisitions(m) + 1 /\ Acquisitions(m) \in Nat
         /\ \A n \in Mutexes : n # m => Acquisitions(n)' = Acquisitions(n)
<1>1. ScopesOK /\ level \in Levels /\ level \in 1..MaxLevel /\ count[m][level] \in Nat
  BY DEF ScopeInv, ScopesOK, Levels
<1>2. CASE Tracked(m)
  <2>1. count' = [count EXCEPT ![m][level] = count[m][level] + 1]
    BY <1>1, <1>2 DEF ScopeAcquire, ScopesOK
  <2>2. PICK v \in Nat : v = count[m][level] + 1
    BY <1>1
  <2>3. count' = [count EXCEPT ![m][level] = v]
    BY <2>1, <2>2
  <2>4. /\ Acquisitions(m) \in Nat /\ Acquisitions(m)' = Acquisitions(m) - count[m][level] + v
        /\ \A n \in Mutexes : n # m => Acquisitions(n)' = Acquisitions(n)
    BY <1>1, <2>3, AcquisitionsChange
  <2> QED BY <1>1, <2>2, <2>4
<1>3. CASE ~Tracked(m)
  <2>1. count' = [count EXCEPT ![m][level] = 1]
    BY <1>3 DEF ScopeAcquire
  <2>2. count[m][level] = 0
    <3>1. count[m][level] # 0 => m \in linked[level]
      BY <1>1 DEF ScopeInv, CountsAreLinked
    <3>2. m \in linked[level] => level <= entry[m] /\ entry[m] <= level
      BY <1>1 DEF ScopeInv, ChainFollowsScopes, ChainOf
    <3>3. entry[m] \in 0..MaxLevel
      BY <1>1 DEF ScopesOK
    <3> QED BY <1>1, <1>3, <3>1, <3>2, <3>3 DEF Tracked
  <2>3. PICK v \in Nat : v = 1
    OBVIOUS
  <2>4. count' = [count EXCEPT ![m][level] = v]
    BY <2>1, <2>3
  <2>5. /\ Acquisitions(m) \in Nat /\ Acquisitions(m)' = Acquisitions(m) - count[m][level] + v
        /\ \A n \in Mutexes : n # m => Acquisitions(n)' = Acquisitions(n)
    BY <1>1, <2>4, AcquisitionsChange
  <2> QED BY <2>2, <2>3, <2>5
<1> QED BY <1>2, <1>3

\* A release takes one acquisition off the record, or nothing happens at all.
LEMMA MutexReleaseCounts ==
  ASSUME ScopeInv, NEW m \in Mutexes, MutexRelease(m)
  PROVE  \/ /\ Acquisitions(m)' = Acquisitions(m) - 1
            /\ Acquisitions(m) \in Nat /\ Acquisitions(m) > 0
            /\ \A n \in Mutexes : n # m => Acquisitions(n)' = Acquisitions(n)
            /\ held' = [held EXCEPT ![m] = @ - 1]
            /\ GlobalLockRelease(m)
         \/ /\ \A n \in Mutexes : Acquisitions(n)' = Acquisitions(n)
            /\ held' = held /\ holds' = holds
<1>1. ScopesOK /\ level \in Levels /\ count[m][level] \in Nat
  BY DEF ScopeInv, ScopesOK
<1>2. CASE MayScopeRelease(m)
  <2>1. count[m][level] > 0 /\ count' = [count EXCEPT ![m][level] = count[m][level] - 1]
    BY <1>1, <1>2, ReleaseEffect DEF MayScopeRelease, ScopesOK
  <2>2. PICK v \in Nat : v = count[m][level] - 1
    BY <1>1, <2>1
  <2>3. count' = [count EXCEPT ![m][level] = v]
    BY <2>1, <2>2
  <2>4. held' = [held EXCEPT ![m] = @ - 1] /\ GlobalLockRelease(m)
    BY <1>2 DEF MutexRelease
  <2>5. /\ Acquisitions(m) \in Nat /\ Acquisitions(m) >= count[m][level]
        /\ Acquisitions(m)' = Acquisitions(m) - count[m][level] + v
        /\ \A n \in Mutexes : n # m => Acquisitions(n)' = Acquisitions(n)
    BY <1>1, <2>3, AcquisitionsChange
  <2> QED BY <1>1, <2>1, <2>2, <2>4, <2>5
<1>3. CASE ~MayScopeRelease(m)
  BY <1>3 DEF MutexRelease, scopeVars, lockVars, Acquisitions
<1> QED BY <1>2, <1>3

\* A step that leaves the record, the host's counts and the hold count alone.
LEMMA SameTracking ==
  ASSUME TrackingIsTruthful, count' = count, held' = held, holds' = holds,
         at = "trap" => at' = "trap"
  PROVE  TrackingIsTruthful'
BY DEF TrackingIsTruthful, HoldCountMatchesScopes, HostMutexIsTracked, Acquisitions

\* A release, in AML code or when a scope is drained.
LEMMA ReleaseTracking ==
  ASSUME ScopeInv, LocksOK, HeldOK, TrackingIsTruthful, NEW m \in Mutexes, MutexRelease(m),
         at # "trap", at' = at
  PROVE  TrackingIsTruthful'
<1>1. holds = Acquisitions(GL) /\ \A n \in Mutexes \ {GL} : held[n] = Acquisitions(n)
  BY DEF TrackingIsTruthful, HoldCountMatchesScopes, HostMutexIsTracked
<1>2. CASE /\ \A n \in Mutexes : Acquisitions(n)' = Acquisitions(n)
           /\ held' = held /\ holds' = holds
  BY <1>1, <1>2, MutexAssumption
  DEF TrackingIsTruthful, HoldCountMatchesScopes, HostMutexIsTracked
<1>3. CASE /\ Acquisitions(m)' = Acquisitions(m) - 1
           /\ Acquisitions(m) \in Nat /\ Acquisitions(m) > 0
           /\ \A n \in Mutexes : n # m => Acquisitions(n)' = Acquisitions(n)
           /\ held' = [held EXCEPT ![m] = @ - 1]
           /\ GlobalLockRelease(m)
  <2>1. ASSUME NEW n \in Mutexes \ {GL} PROVE held'[n] = Acquisitions(n)'
    <3>1. n # m => held'[n] = held[n]
      BY <1>3 DEF HeldOK
    <3>2. n = m => held'[n] = held[n] - 1
      BY <1>3 DEF HeldOK
    <3> QED BY <1>1, <1>3, <3>1, <3>2
  <2>2. holds' = Acquisitions(GL)'
    <3>1. CASE m = GL
      <4>1. holds' = holds - 1
        BY <1>1, <1>3, <3>1 DEF GlobalLockRelease
      <4> QED BY <1>1, <1>3, <3>1, <4>1
    <3>2. CASE m # GL
      <4>1. holds' = holds
        BY <1>3, <3>2 DEF GlobalLockRelease, lockVars
      <4> QED BY <1>1, <1>3, <3>2, <4>1, MutexAssumption
    <3> QED BY <3>1, <3>2
  <2> QED BY <2>1, <2>2 DEF TrackingIsTruthful, HoldCountMatchesScopes, HostMutexIsTracked
<1> QED BY <1>2, <1>3, MutexReleaseCounts

\* An acquisition that the host and the lock word grant.
LEMMA GrantTracking ==
  ASSUME ScopeInv, LocksOK, HeldOK, TrackingIsTruthful, NEW m \in Mutexes, Succeed(m),
         at # "trap",
         m # GL => held' = [held EXCEPT ![m] = @ + 1] /\ holds' = holds,
         m = GL => (\A n \in Mutexes \ {GL} : held'[n] = held[n]) /\ holds' = holds + 1
  PROVE  TrackingIsTruthful'
<1>1. holds = Acquisitions(GL) /\ \A n \in Mutexes \ {GL} : held[n] = Acquisitions(n)
  BY DEF TrackingIsTruthful, HoldCountMatchesScopes, HostMutexIsTracked
<1>2. CASE at' = "trap"
  BY <1>2 DEF TrackingIsTruthful, HoldCountMatchesScopes, HostMutexIsTracked
<1>3. CASE ScopeAcquire(m)
  <2>1. /\ Acquisitions(m)' = Acquisitions(m) + 1 /\ Acquisitions(m) \in Nat
        /\ \A n \in Mutexes : n # m => Acquisitions(n)' = Acquisitions(n)
    BY <1>3, ScopeAcquireCounts
  <2>2. ASSUME NEW n \in Mutexes \ {GL} PROVE held'[n] = Acquisitions(n)'
    <3>1. CASE n = m
      <4>1. held'[n] = held[n] + 1
        BY <3>1 DEF HeldOK
      <4> QED BY <1>1, <2>1, <3>1, <4>1
    <3>2. CASE n # m
      <4>1. held'[n] = held[n]
        BY <3>2 DEF HeldOK
      <4> QED BY <1>1, <2>1, <3>2, <4>1
    <3> QED BY <3>1, <3>2
  <2>3. holds' = Acquisitions(GL)'
    BY <1>1, <2>1, MutexAssumption
  <2> QED BY <2>2, <2>3 DEF TrackingIsTruthful, HoldCountMatchesScopes, HostMutexIsTracked
<1> QED BY <1>2, <1>3 DEF Succeed

\* Every step keeps the counts and the record together.
LEMMA TrackingStep ==
  ScopeInv /\ LocksOK /\ LockInv /\ HeldOK /\ TrackingIsTruthful /\ [Next]_vars
  => TrackingIsTruthful'
<1> SUFFICES ASSUME ScopeInv, LocksOK, LockInv, HeldOK, TrackingIsTruthful, [Next]_vars
             PROVE  TrackingIsTruthful'
  OBVIOUS
<1>1. CASE UNCHANGED vars
  BY <1>1, SameTracking DEF vars
<1>2. ASSUME NEW m \in Mutexes, NEW forever \in BOOLEAN, HostRefuses(m, forever)
      PROVE  TrackingIsTruthful'
  BY <1>2, SameTracking DEF HostRefuses, MayAcquire, Fail, scopeVars, lockVars
<1>3. ASSUME NEW m \in Mutexes, NEW forever \in BOOLEAN, HostGrants(m, forever)
      PROVE  TrackingIsTruthful'
  <2>1. at = "run" /\ held' = [held EXCEPT ![m] = @ + 1]
    BY <1>3 DEF HostGrants, MayAcquire
  <2>2. m = GL => \A n \in Mutexes \ {GL} : held'[n] = held[n]
    BY <2>1 DEF HeldOK
  <2>3. CASE m # GL /\ Succeed(m) /\ UNCHANGED lockVars
    BY <2>1, <2>3, GrantTracking DEF lockVars
  <2>4. CASE m = GL /\ holds' = holds + 1 /\ Succeed(m)
    BY <2>1, <2>2, <2>4, GrantTracking
  <2>5. CASE m = GL /\ UNCHANGED <<scopeVars, lockVars>>
    <3>1. count' = count /\ holds' = holds
      BY <2>5 DEF scopeVars, lockVars
    <3> QED BY <2>1, <2>2, <2>5, <3>1
            DEF TrackingIsTruthful, HoldCountMatchesScopes, HostMutexIsTracked, Acquisitions
  <2> QED BY <1>3, <2>3, <2>4, <2>5 DEF HostGrants
<1>4. CASE PollSucceeds
  <2>1. /\ holds = 0 /\ holds' = 1 /\ held' = held /\ Succeed(GL)
        /\ at \in {"poll", "timedPoll"}
    BY <1>4 DEF PollSucceeds, LockInv
  <2> QED BY <2>1, MutexAssumption, GrantTracking
<1>5. CASE PollTimesOut
  BY <1>5, SameTracking DEF PollTimesOut, Fail, scopeVars, lockVars
<1>6. ASSUME NEW m \in Mutexes, Release(m) PROVE TrackingIsTruthful'
  BY <1>6, ReleaseTracking DEF Release
<1>7. CASE PushScope \/ BeginPop \/ PopEntry \/ EndPop
  BY <1>7, SameTracking DEF PushScope, BeginPop, PopEntry, EndPop, scopeVars, lockVars
<1>8. ASSUME NEW m \in Mutexes, PopMutex(m) PROVE TrackingIsTruthful'
  BY <1>8, SameTracking DEF PopMutex, scopeVars, lockVars
<1>9. CASE DrainMutex
  BY <1>9, ReleaseTracking DEF DrainMutex, ScopeInv, ControlOK
<1>10. CASE Firmware
  BY <1>10, SameTracking DEF Firmware, FirmwareAcquires, FirmwareReleases, scopeVars
<1> QED
  BY <1>1, <1>2, <1>3, <1>4, <1>5, <1>6, <1>7, <1>8, <1>9, <1>10
  DEF Next, Interpreter, Acquiring, Polling, Popping

\* The hold count of the global lock is the number of acquisitions of \_GL that the
\* method scopes have on record, and every acquisition of another host mutex is on
\* record, so that leaving the scopes gives everything back (AmlMutexAcquire,
\* AmlMutexRelease).
THEOREM TrackingStaysTruthful == Spec => []TrackingIsTruthful
<1>1. Init => TrackingIsTruthful
  <2> SUFFICES ASSUME Init PROVE TrackingIsTruthful
    OBVIOUS
  <2>1. IsFiniteSet(Levels)
    BY MutexAssumption, FS_Interval DEF Levels
  <2>2. \A m \in Mutexes : count[m] = [l \in Levels |-> 0] /\ held[m] = 0
    BY DEF Init
  <2>3. \A m \in Mutexes : Acquisitions(m) = 0
    BY <2>1, <2>2, SumOfZeros DEF Acquisitions
  <2>4. holds = 0
    BY DEF Init
  <2> QED BY <2>2, <2>3, <2>4, MutexAssumption
          DEF TrackingIsTruthful, HoldCountMatchesScopes, HostMutexIsTracked
<1> QED BY <1>1, TrackingStep, ScopeInvHolds, LockInvHolds, HeldHolds, PTL DEF Spec

-----------------------------------------------------------------------------
(***************************************************************************)
(* The global lock, which AmlMutex takes to be atomic: mutual exclusion,   *)
(* no lost wakeup, and the refinement of the atomic lock WaitableLock.     *)
(***************************************************************************)

\* Every step keeps the word and the agents' places in their types.
LEMMA WordTypesHold == WordSpec => []WordTypeOK
<1>1. WordInit => WordTypeOK
  BY DEF WordInit, WordTypeOK, Word, FreeWord, Locations
<1>2. WordTypeOK /\ [WordNext]_wordVars => WordTypeOK'
  <2> SUFFICES ASSUME WordTypeOK, [WordNext]_wordVars PROVE WordTypeOK'
    OBVIOUS
  <2> USE DEF WordTypeOK, Word, FreeWord, Locations, Goto
  <2>1. CASE UNCHANGED wordVars
    BY <2>1 DEF wordVars
  <2>2. ASSUME NEW a \in Agents, BeginTry(a) PROVE WordTypeOK'
    BY <2>2 DEF BeginTry
  <2>3. ASSUME NEW a \in Agents, ReadWord(a) PROVE WordTypeOK'
    BY <2>3 DEF ReadWord
  <2>4. ASSUME NEW a \in Agents, TryExchange(a) PROVE WordTypeOK'
    <3>1. Desired(current[a]) \in Word
      BY DEF Desired
    <3>2. lock' \in Word
      BY <2>4, <3>1 DEF TryExchange
    <3>3. pc' \in [Agents -> Locations]
      <4>1. CASE lock # current[a]
        BY <2>4, <4>1 DEF TryExchange
      <4>2. CASE lock = current[a]
        <5>1. PICK l \in {"refused", "owner"} : Goto(a, l)
          BY <2>4, <4>2 DEF TryExchange
        <5> QED BY <5>1
      <4> QED BY <4>1, <4>2
    <3>4. UNCHANGED <<current, noted, woken>>
      BY <2>4 DEF TryExchange
    <3>5. current' = current /\ noted' = noted /\ woken' = woken
      BY <3>4
    <3> HIDE DEF Word, Locations
    <3> QED BY <3>2, <3>3, <3>5
  <2>5. ASSUME NEW a \in Agents, GiveUp(a) PROVE WordTypeOK'
    BY <2>5 DEF GiveUp
  <2>6. ASSUME NEW a \in Agents, BeginRelease(a) PROVE WordTypeOK'
    BY <2>6 DEF BeginRelease
  <2>7. ASSUME NEW a \in Agents, ReadOwnedWord(a) PROVE WordTypeOK'
    BY <2>7 DEF ReadOwnedWord
  <2>8. ASSUME NEW a \in Agents, ClearExchange(a) PROVE WordTypeOK'
    <3>1. PICK l \in {"release", "told", "idle"} : Goto(a, l)
      BY <2>8 DEF ClearExchange
    <3>2. pc' \in [Agents -> Locations]
      BY <3>1
    <3>3. lock' \in Word
      <4>1. lock' = FreeWord \/ lock' = lock
        BY <2>8 DEF ClearExchange
      <4>2. FreeWord \in Word
        OBVIOUS
      <4> HIDE DEF Word, FreeWord
      <4> QED BY <4>1, <4>2
    <3>5. noted' \subseteq Agents
      <4>1. noted' = noted \cup Refused \/ noted' = noted
        BY <2>8 DEF ClearExchange
      <4> QED BY <4>1 DEF Refused
    <3>4. current' = current /\ woken' = woken
      BY <2>8 DEF ClearExchange
    <3> HIDE DEF Word, Locations
    <3> QED BY <3>2, <3>3, <3>4, <3>5
  <2>9. ASSUME NEW a \in Agents, ActOnResult(a) PROVE WordTypeOK'
    BY <2>9 DEF ActOnResult, Refused
  <2> QED
    BY <2>1, <2>2, <2>3, <2>4, <2>5, <2>6, <2>7, <2>8, <2>9 DEF WordNext, Step
<1> QED BY <1>1, <1>2, PTL DEF WordSpec

-----------------------------------------------------------------------------
\* The inductive invariant behind mutual exclusion: the owned bit is what
\* keeps a second agent out, and it is set exactly while there is an owner.
OwnershipInv == WordTypeOK /\ MutualExclusion /\ OwnedBitMatchesOwner

\* The Owned bit matches the owner initially.
LEMMA OwnershipInit == WordInit => OwnershipInv
BY DEF WordInit, OwnershipInv, WordTypeOK, MutualExclusion, OwnedBitMatchesOwner,
       Word, FreeWord, Locations, Holds

\* Every step keeps the Owned bit the mark of exactly one owner.
LEMMA OwnershipStep == OwnershipInv /\ WordTypeOK' /\ [WordNext]_wordVars => OwnershipInv'
<1> SUFFICES ASSUME OwnershipInv, WordTypeOK', [WordNext]_wordVars
             PROVE  MutualExclusion' /\ OwnedBitMatchesOwner'
  BY DEF OwnershipInv
<1> USE DEF OwnershipInv, MutualExclusion, OwnedBitMatchesOwner, Holds, Goto,
            WordTypeOK
<1>1. CASE UNCHANGED wordVars
  BY <1>1 DEF wordVars
<1>2. ASSUME NEW a \in Agents, BeginTry(a) \/ ReadWord(a) \/ GiveUp(a)
      PROVE  MutualExclusion' /\ OwnedBitMatchesOwner'
  BY <1>2 DEF BeginTry, ReadWord, GiveUp
<1>3. ASSUME NEW a \in Agents, TryExchange(a)
      PROVE  MutualExclusion' /\ OwnedBitMatchesOwner'
  <2>1. CASE lock # current[a]
    BY <1>3, <2>1 DEF TryExchange
  <2>2. CASE lock = current[a] /\ lock.owned
    <3>1. lock'.owned /\ pc' = [pc EXCEPT ![a] = "refused"]
      BY <1>3, <2>2 DEF TryExchange, Desired
    <3> QED BY <1>3, <2>2, <3>1 DEF TryExchange, Word
  <2>3. CASE lock = current[a] /\ ~lock.owned
    BY <1>3, <2>3 DEF TryExchange, Desired, Word
  <2> QED BY <2>1, <2>2, <2>3
<1>4. ASSUME NEW a \in Agents, BeginRelease(a) \/ ReadOwnedWord(a)
      PROVE  MutualExclusion' /\ OwnedBitMatchesOwner'
  BY <1>4 DEF BeginRelease, ReadOwnedWord
<1>5. ASSUME NEW a \in Agents, ClearExchange(a)
      PROVE  MutualExclusion' /\ OwnedBitMatchesOwner'
  <2>1. CASE lock # current[a]
    BY <1>5, <2>1 DEF ClearExchange
  <2>2. CASE lock = current[a]
    BY <1>5, <2>2 DEF ClearExchange, FreeWord
  <2> QED BY <2>1, <2>2
<1>6. ASSUME NEW a \in Agents, ActOnResult(a)
      PROVE  MutualExclusion' /\ OwnedBitMatchesOwner'
  BY <1>6 DEF ActOnResult
<1> QED BY <1>1, <1>2, <1>3, <1>4, <1>5, <1>6 DEF WordNext, Step

\* Whatever the number of agents and however their reads and exchanges
\* interleave, the compare-and-exchange loops of TryAcquire and Release never
\* let two agents own the lock, and the owned bit tells the truth.
THEOREM LockIsExclusive == WordSpec => [](MutualExclusion /\ OwnedBitMatchesOwner)
<1>1. OwnershipInv => MutualExclusion /\ OwnedBitMatchesOwner
  BY DEF OwnershipInv
<1> QED BY <1>1, WordTypesHold, OwnershipInit, OwnershipStep, PTL DEF WordSpec
-----------------------------------------------------------------------------
\* A refused agent that no release has noted waits for a lock that is owned
\* and whose pending bit announces it to the next release.
WakeupInv == OwnershipInv /\ NoLostWakeup

\* Every step keeps a refused agent's Pending bit, or the owner's duty to it.
LEMMA WakeupStep == WakeupInv /\ OwnershipInv' /\ [WordNext]_wordVars => WakeupInv'
<1> SUFFICES ASSUME WakeupInv, OwnershipInv', [WordNext]_wordVars
             PROVE  NoLostWakeup'
  BY DEF WakeupInv
<1> USE DEF WakeupInv, OwnershipInv, NoLostWakeup, Goto, WordTypeOK
<1>1. CASE UNCHANGED wordVars
  BY <1>1 DEF wordVars
<1>2. ASSUME NEW a \in Agents, BeginTry(a) \/ ReadWord(a) \/ GiveUp(a)
      PROVE  NoLostWakeup'
  BY <1>2 DEF BeginTry, ReadWord, GiveUp
<1>3. ASSUME NEW a \in Agents, TryExchange(a)
      PROVE  NoLostWakeup'
  <2>1. CASE lock # current[a]
    BY <1>3, <2>1 DEF TryExchange
  <2>2. CASE lock = current[a] /\ lock.owned
    <3>1. lock'.owned /\ pc' = [pc EXCEPT ![a] = "refused"]
      BY <1>3, <2>2 DEF TryExchange, Desired
    <3> QED BY <1>3, <2>2, <3>1 DEF TryExchange, Word
  <2>3. CASE lock = current[a] /\ ~lock.owned
    BY <1>3, <2>3 DEF TryExchange, Desired, Word
  <2> QED BY <2>1, <2>2, <2>3
<1>4. ASSUME NEW a \in Agents, BeginRelease(a) \/ ReadOwnedWord(a)
      PROVE  NoLostWakeup'
  BY <1>4 DEF BeginRelease, ReadOwnedWord
<1>5. ASSUME NEW a \in Agents, ClearExchange(a)
      PROVE  NoLostWakeup'
  <2>1. CASE lock # current[a]
    BY <1>5, <2>1 DEF ClearExchange
  <2>2. CASE lock = current[a] /\ lock.pending
    BY <1>5, <2>2 DEF ClearExchange, Refused
  <2>3. CASE lock = current[a] /\ ~lock.pending
    BY <1>5, <2>3 DEF ClearExchange, Refused
  <2> QED BY <2>1, <2>2, <2>3
<1>6. ASSUME NEW a \in Agents, ActOnResult(a)
      PROVE  NoLostWakeup'
  BY <1>6 DEF ActOnResult
<1> QED BY <1>1, <1>2, <1>3, <1>4, <1>5, <1>6 DEF WordNext, Step

\* The wakeup invariant holds in every reachable state.
LEMMA WakeupInvariant == WordSpec => []WakeupInv
<1>1. WordInit => WakeupInv
  BY OwnershipInit DEF WordInit, WakeupInv, NoLostWakeup
<1> QED
  BY <1>1, WordTypesHold, OwnershipInit, OwnershipStep, WakeupStep, PTL DEF WordSpec

\* No agent waits for the lock without a release that will be, or has been,
\* told about it: a refusal is never lost to a concurrent release.
THEOREM RefusalsAreNoted == WordSpec => []NoLostWakeup
<1>1. WakeupInv => NoLostWakeup
  BY DEF WakeupInv
<1> QED BY <1>1, WakeupInvariant, PTL
-----------------------------------------------------------------------------
(* The refinement of the atomic lock. *)

\* Only refused agents are noted: an agent that tries again is forgotten.
NotedAreRefused == noted \subseteq Refused

\* Every agent noted as waiting was refused, in every reachable state.
LEMMA NotedInvariant == WordSpec => []NotedAreRefused
<1>1. WordInit => NotedAreRefused
  BY DEF WordInit, NotedAreRefused
<1>2. WordTypeOK /\ NotedAreRefused /\ [WordNext]_wordVars => NotedAreRefused'
  <2> SUFFICES ASSUME WordTypeOK, NotedAreRefused, [WordNext]_wordVars
               PROVE  NotedAreRefused'
    OBVIOUS
  <2> USE DEF NotedAreRefused, Refused, Goto, WordTypeOK
  <2>1. CASE UNCHANGED wordVars
    BY <2>1 DEF wordVars
  <2>2. ASSUME NEW a \in Agents, BeginTry(a) \/ ReadWord(a) \/ GiveUp(a)
        PROVE  NotedAreRefused'
    BY <2>2 DEF BeginTry, ReadWord, GiveUp
  <2>3. ASSUME NEW a \in Agents, TryExchange(a) PROVE NotedAreRefused'
    BY <2>3 DEF TryExchange
  <2>4. ASSUME NEW a \in Agents, BeginRelease(a) \/ ReadOwnedWord(a)
        PROVE  NotedAreRefused'
    BY <2>4 DEF BeginRelease, ReadOwnedWord
  <2>5. ASSUME NEW a \in Agents, ClearExchange(a) PROVE NotedAreRefused'
    BY <2>5 DEF ClearExchange
  <2>6. ASSUME NEW a \in Agents, ActOnResult(a) PROVE NotedAreRefused'
    BY <2>6 DEF ActOnResult
  <2> QED BY <2>1, <2>2, <2>3, <2>4, <2>5, <2>6 DEF WordNext, Step
<1> QED BY <1>1, <1>2, WordTypesHold, PTL DEF WordSpec

OwnerIsHolder ==
  /\ MutualExclusion => \A a \in Agents : Holds(a) => Owner = a
  /\ (\A a \in Agents : ~Holds(a)) => Owner = NoAgent

\* The abstract owner is the agent that holds the lock, if there is one.
LEMMA OwnerFacts == OwnerIsHolder
BY DEF OwnerIsHolder, MutualExclusion, Owner

\* The owner of the mapped lock depends only on who holds it.
LEMMA SameOwner == (\A a \in Agents : Holds(a)' <=> Holds(a)) => Owner' = Owner
BY DEF Owner

\* Every step of the loops is a step of the atomic lock, or none.
LEMMA StepRefines ==
  /\ WakeupInv /\ NotedAreRefused /\ MutualExclusion'
  /\ [WordNext]_wordVars
  => [Abstract!Next]_(Abstract!vars)
<1> SUFFICES ASSUME WakeupInv, NotedAreRefused, MutualExclusion', [WordNext]_wordVars
             PROVE  [Abstract!Next]_(Abstract!vars)
  OBVIOUS
<1> USE DEF WakeupInv, OwnershipInv, WordTypeOK, Goto, Unnoted, Refused,
            NotedAreRefused
<1>1. /\ MutualExclusion' => \A a \in Agents : Holds(a)' => Owner' = a
      /\ (\A a \in Agents : ~Holds(a)') => Owner' = NoAgent
  <2>1. OwnerIsHolder'
    BY OwnerFacts, PTL
  <2> QED BY <2>1 DEF OwnerIsHolder
<1>2. /\ \A a \in Agents : Holds(a) => Owner = a
      /\ (\A a \in Agents : ~Holds(a)) => Owner = NoAgent
  BY OwnerFacts DEF OwnerIsHolder
<1>3. CASE UNCHANGED wordVars
  BY <1>3, SameOwner DEF wordVars, Holds, Abstract!vars
<1>4. ASSUME NEW a \in Agents, BeginTry(a) \/ GiveUp(a)
      PROVE  [Abstract!Next]_(Abstract!vars)
  <2>1. Owner' = Owner
    BY <1>4, SameOwner DEF BeginTry, GiveUp, Holds
  <2>2. Unnoted' = Unnoted \ {a}
    BY <1>4 DEF BeginTry, GiveUp
  <2>3. CASE a \in Unnoted
    BY <2>1, <2>2, <2>3 DEF Abstract!Next, Abstract!Retire
  <2>4. CASE a \notin Unnoted
    BY <2>1, <2>2, <2>4 DEF Abstract!vars
  <2> QED BY <2>3, <2>4
<1>5. ASSUME NEW a \in Agents,
             ReadWord(a) \/ BeginRelease(a) \/ ReadOwnedWord(a) \/ ActOnResult(a)
      PROVE  [Abstract!Next]_(Abstract!vars)
  <2>1. Owner' = Owner
    BY <1>5, SameOwner
    DEF ReadWord, BeginRelease, ReadOwnedWord, ActOnResult, Holds
  <2>2. Unnoted' = Unnoted
    BY <1>5 DEF ReadWord, BeginRelease, ReadOwnedWord, ActOnResult
  <2> QED BY <2>1, <2>2 DEF Abstract!vars
<1>6. ASSUME NEW a \in Agents, TryExchange(a)
      PROVE  [Abstract!Next]_(Abstract!vars)
  <2>1. CASE lock # current[a]
    <3>1. Owner' = Owner
      BY <1>6, <2>1, SameOwner DEF TryExchange, Holds
    <3>2. Unnoted' = Unnoted
      BY <1>6, <2>1 DEF TryExchange
    <3> QED BY <3>1, <3>2 DEF Abstract!vars
  <2>2. CASE lock = current[a] /\ lock.owned
    <3>1. Goto(a, "refused") /\ UNCHANGED noted /\ pc[a] = "exchange"
      BY <1>6, <2>2 DEF TryExchange, Desired
    <3>2. Owner' = Owner
      BY <3>1, SameOwner DEF Holds
    <3>3. PICK b \in Agents : Holds(b)
      BY <2>2 DEF OwnedBitMatchesOwner
    <3>4. Owner \notin {a, NoAgent}
      BY <3>1, <3>3, <1>2, AgentsAssumption DEF Holds
    <3>5. Unnoted' = Unnoted \cup {a}
      BY <3>1
    <3> QED BY <3>2, <3>4, <3>5 DEF Abstract!Next, Abstract!Refuse
  <2>3. CASE lock = current[a] /\ ~lock.owned
    <3>1. Goto(a, "owner") /\ UNCHANGED noted /\ pc[a] = "exchange"
      BY <1>6, <2>3 DEF TryExchange, Desired
    <3>2. Owner = NoAgent
      BY <2>3, <1>2 DEF OwnedBitMatchesOwner
    <3>3. Owner' = a
      BY <3>1, <1>1 DEF Holds
    <3>4. Unnoted' = Unnoted \ {a}
      BY <3>1
    <3> QED BY <3>2, <3>3, <3>4 DEF Abstract!Next, Abstract!Acquire
  <2> QED BY <2>1, <2>2, <2>3
<1>7. ASSUME NEW a \in Agents, ClearExchange(a)
      PROVE  [Abstract!Next]_(Abstract!vars)
  <2>1. CASE lock # current[a]
    <3>1. Owner' = Owner
      BY <1>7, <2>1, SameOwner DEF ClearExchange, Holds
    <3>2. Unnoted' = Unnoted
      BY <1>7, <2>1 DEF ClearExchange
    <3> QED BY <3>1, <3>2 DEF Abstract!vars
  <2>2. CASE lock = current[a]
    <3>1. PICK l \in {"told", "idle"} : Goto(a, l)
      BY <1>7, <2>2 DEF ClearExchange
    <3>2. pc[a] = "clear"
      BY <1>7 DEF ClearExchange
    <3>3. Owner = a
      BY <3>2, <1>2 DEF Holds
    <3>4. Owner' = NoAgent
      <4>1. \A b \in Agents : Holds(b) => b = a
        BY <3>2 DEF MutualExclusion, Holds
      <4>2. \A b \in Agents : ~Holds(b)'
        BY <3>1, <4>1 DEF Holds
      <4> QED BY <4>2, <1>1
    <3>5. Unnoted' = {}
      <4>1. CASE lock.pending
        BY <1>7, <2>2, <4>1, <3>1, <3>2 DEF ClearExchange
      <4>2. CASE ~lock.pending
        <5>1. Unnoted = {}
          BY <4>2 DEF NoLostWakeup
        <5>2. noted' = noted
          BY <1>7, <2>2, <4>2 DEF ClearExchange
        <5> QED BY <5>1, <5>2, <3>1, <3>2
      <4> QED BY <4>1, <4>2
    <3> QED BY <3>3, <3>4, <3>5 DEF Abstract!Next, Abstract!Release
  <2> QED BY <2>1, <2>2
<1> QED BY <1>3, <1>4, <1>5, <1>6, <1>7 DEF WordNext, Step

\* The word in shared memory with its compare-and-exchange loops implements an
\* atomic lock whose release takes note of every refused agent.
THEOREM LockRefinesWaitableLock == WordSpec => ImplementsWaitableLock
<1>1. WordInit => Abstract!Init
  <2> SUFFICES ASSUME WordInit PROVE Abstract!Init
    OBVIOUS
  <2>1. Owner = NoAgent
    BY OwnerFacts DEF OwnerIsHolder, WordInit, Holds
  <2>2. Unnoted = {}
    BY DEF WordInit, Unnoted, Refused
  <2> QED BY <2>1, <2>2 DEF Abstract!Init
<1>2. WakeupInv => MutualExclusion
  BY DEF WakeupInv, OwnershipInv
<1> QED
  BY <1>1, <1>2, WakeupInvariant, NotedInvariant, StepRefines, PTL
  DEF WordSpec, ImplementsWaitableLock, Abstract!Spec

-----------------------------------------------------------------------------
(* The sizes of the bins, and the bin of a size. *)

\* The equations that define the sizes of the bins.
LEMMA BinSizeEquations ==
  /\ BinSize \in [0..MaxBin -> Nat] /\ BinSize[0] = 1
  /\ \A i \in 1..MaxBin : BinSize[i] = 2 * BinSize[i - 1]
<1> DEFINE double == [n \in Nat |-> 2 * n]
<1>1. double \in [Nat -> Nat] /\ MaxBin \in Nat /\ 1 \in Nat
  BY HeapAssumption
<1> HIDE DEF double
<1>2. PICK g : Continued(g, MaxBin, Nat, 1, double)
  BY <1>1, Recursion
<1>3. g \in [0..MaxBin -> Nat] /\ g[0] = 1 /\ \A i \in 1..MaxBin : g[i] = double[g[i - 1]]
  BY <1>2 DEF Continued
<1>4. g = [i \in 0..MaxBin |-> IF i = 0 THEN 1 ELSE 2 * g[i - 1]]
  <2>1. ASSUME NEW i \in 0..MaxBin, i # 0 PROVE g[i] = 2 * g[i - 1]
    <3>1. i \in 1..MaxBin /\ i - 1 \in 0..MaxBin
      BY <2>1, <1>1
    <3>2. g[i - 1] \in Nat /\ g[i] = double[g[i - 1]]
      BY <3>1, <1>3
    <3> QED BY <3>2 DEF double
  <2> QED BY <1>3, <2>1
<1>5. BinSize = [i \in 0..MaxBin |-> IF i = 0 THEN 1 ELSE 2 * BinSize[i - 1]]
  BY <1>4 DEF BinSize
<1> QED
  <2>1. BinSize[0] = 1 /\ \A i \in 1..MaxBin : BinSize[i] = 2 * BinSize[i - 1]
    <3>1. BinSize[0] = 1
      <4>1. 0 \in 0..MaxBin
        BY <1>1
      <4> QED BY <4>1, <1>5
    <3>2. ASSUME NEW i \in 1..MaxBin PROVE BinSize[i] = 2 * BinSize[i - 1]
      <4>1. i \in 0..MaxBin /\ i # 0
        BY <1>1
      <4> QED BY <4>1, <1>5
    <3> QED BY <3>1, <3>2
  <2> DEFINE S == {n \in Nat : n <= MaxBin => BinSize[n] \in Nat}
  <2>2. 0 \in S
    BY <2>1
  <2>3. ASSUME NEW n \in Nat, n \in S PROVE n + 1 \in S
    <3> SUFFICES ASSUME n + 1 <= MaxBin PROVE BinSize[n + 1] \in Nat
      OBVIOUS
    <3>1. n + 1 \in 1..MaxBin /\ (n + 1) - 1 = n /\ n <= MaxBin
      BY <1>1
    <3>2. BinSize[n + 1] = 2 * BinSize[n] /\ BinSize[n] \in Nat
      BY <2>1, <2>3, <3>1
    <3> QED BY <3>2
  <2> HIDE DEF S
  <2>4. Nat \subseteq S
    BY <2>2, <2>3, SetInduction
  <2>5. \A i \in 0..MaxBin : BinSize[i] \in Nat
    BY <2>4, <1>1 DEF S
  <2> QED BY <2>1, <2>5, <1>5

\* A larger bin has larger blocks.
LEMMA BinSizeGrows ==
  ASSUME NEW i \in 0..MaxBin, NEW j \in 0..MaxBin, i < j
  PROVE  BinSize[i] < BinSize[j]
<1> DEFINE S == {n \in Nat : n <= MaxBin =>
                   BinSize[n] > 0 /\ \A k \in 0..n : k < n => BinSize[k] < BinSize[n]}
<1>1. MaxBin \in Nat
  BY HeapAssumption
<1>2. 0 \in S
  BY BinSizeEquations
<1>3. ASSUME NEW n \in Nat, n \in S PROVE n + 1 \in S
  <2> SUFFICES ASSUME n + 1 <= MaxBin
               PROVE  BinSize[n + 1] > 0 /\ \A k \in 0..(n + 1) : k < n + 1 => BinSize[k] < BinSize[n + 1]
    OBVIOUS
  <2>1. BinSize[n + 1] = 2 * BinSize[n] /\ BinSize[n] \in Nat
    BY BinSizeEquations, <1>1
  <2>2. BinSize[n] > 0 /\ \A k \in 0..n : k < n => BinSize[k] < BinSize[n]
    BY <1>3, <1>1
  <2>3. \A k \in 0..n : BinSize[k] \in Nat
    BY BinSizeEquations, <1>1
  <2> QED BY <2>1, <2>2, <2>3
<1> HIDE DEF S
<1>4. j \in S
  BY <1>2, <1>3, SetInduction
<1> QED BY <1>4, <1>1 DEF S

\* The sizes that the heap has to do with.
Fitting == 0..BinSize[MaxBin]

\* The bin of a size holds it, and no smaller bin does, but for size 1.
LEMMA BinIndexHolds ==
  ASSUME NEW size \in Fitting
  PROVE  /\ BinIndexForSize(size) \in 0..MaxBin
         /\ size <= BinSize[BinIndexForSize(size)]
         /\ size > 1 => \A j \in 0..MaxBin : BinSize[j] >= size => BinIndexForSize(size) <= j
<1>1. MaxBin \in Nat /\ MaxBin > 0
  BY HeapAssumption
<1>2. size \in Nat /\ size <= BinSize[MaxBin]
  BY <1>1, BinSizeEquations DEF Fitting
<1>3. CASE size \in {0, 1}
  <2>1. BinIndexForSize(size) = size
    BY <1>3 DEF BinIndexForSize
  <2>2. BinSize[0] = 1 /\ BinSize[1] = 2
    BY BinSizeEquations, <1>1
  <2> QED BY <2>1, <2>2, <1>1, <1>3
<1>4. CASE size \notin {0, 1}
  <2> DEFINE S == {i \in 0..MaxBin : BinSize[i] >= size}
  <2>1. MaxBin \in S /\ S \in SUBSET Nat
    BY <1>1, <1>2
  <2>2. \E i \in S : \A j \in S : i <= j
    BY <2>1, LeastElement
  <2>3. \E i \in 0..MaxBin : BinSize[i] >= size /\ \A j \in 0..MaxBin : BinSize[j] >= size => i <= j
    BY <2>2
  <2>4. BinIndexForSize(size) =
          CHOOSE i \in 0..MaxBin : BinSize[i] >= size /\ \A j \in 0..MaxBin : BinSize[j] >= size => i <= j
    BY <1>4 DEF BinIndexForSize
  <2>5. /\ BinIndexForSize(size) \in 0..MaxBin
        /\ BinSize[BinIndexForSize(size)] >= size
        /\ \A j \in 0..MaxBin : BinSize[j] >= size => BinIndexForSize(size) <= j
    BY <2>3, <2>4
  <2>6. BinSize[BinIndexForSize(size)] \in Nat
    BY <2>5, BinSizeEquations
  <2> QED BY <2>5, <2>6, <1>2
<1> QED BY <1>3, <1>4

\* A block goes back to the bin it was made for; one of a single byte goes to the next.
LEMMA BinOfBinSize ==
  ASSUME NEW i \in 0..MaxBin
  PROVE  BinSize[i] \in Fitting /\ BinIndexForSize(BinSize[i]) = IF i = 0 THEN 1 ELSE i
<1>1. MaxBin \in Nat /\ i \in Nat /\ i <= MaxBin /\ MaxBin > 0
  BY HeapAssumption
<1>2. BinSize[i] \in Nat /\ BinSize[MaxBin] \in Nat /\ BinSize[0] = 1
  BY BinSizeEquations, <1>1
<1>3. BinSize[i] <= BinSize[MaxBin]
  BY BinSizeGrows, <1>1, <1>2
<1>4. BinSize[i] \in Fitting
  BY <1>2, <1>3 DEF Fitting
<1>5. CASE i = 0
  BY <1>2, <1>4, <1>5 DEF BinIndexForSize
<1>6. CASE i # 0
  <2>1. BinSize[i] > 1
    BY BinSizeGrows, <1>1, <1>2, <1>6
  <2> DEFINE k == BinIndexForSize(BinSize[i])
  <2>2. k \in 0..MaxBin /\ BinSize[i] <= BinSize[k] /\ k <= i
    BY <1>1, <1>2, <1>4, <2>1, BinIndexHolds
  <2>3. BinSize[k] \in Nat
    BY <2>2, BinSizeEquations
  <2>4. ~(k < i)
    BY <2>2, <2>3, <1>2, BinSizeGrows
  <2> HIDE DEF k
  <2>5. k = i
    BY <2>2, <2>4, <1>1
  <2> QED BY <2>5, <1>4, <1>6 DEF k
<1> QED BY <1>5, <1>6

-----------------------------------------------------------------------------
(* The links. *)

Pointer == Blocks \cup {Null}
Links == bins \in [0..MaxBin -> Pointer] /\ next \in [Blocks -> Pointer]

\* The equations that define what the links of a bin lead to.
LEMMA ChainEquations ==
  ASSUME Links, NEW i \in 0..MaxBin
  PROVE  /\ Cardinality(Blocks) \in Nat
         /\ Chain(i) \in [0..Cardinality(Blocks) -> Pointer]
         /\ Chain(i)[0] = bins[i]
         /\ \A k \in 1..Cardinality(Blocks) :
              Chain(i)[k] = IF Chain(i)[k - 1] = Null THEN Null ELSE next[Chain(i)[k - 1]]
<1> DEFINE n == Cardinality(Blocks)
           follow == [p \in Pointer |-> IF p = Null THEN Null ELSE next[p]]
<1>1. n \in Nat
  BY HeapAssumption, FS_CardinalityType
<1>2. follow \in [Pointer -> Pointer] /\ bins[i] \in Pointer
  BY DEF Links, Pointer
<1> HIDE DEF n, follow
<1>3. PICK g : Continued(g, n, Pointer, bins[i], follow)
  BY <1>1, <1>2, Recursion
<1>4. /\ g \in [0..n -> Pointer] /\ g[0] = bins[i]
      /\ \A k \in 1..n : g[k] = follow[g[k - 1]]
  BY <1>3 DEF Continued
<1>5. g = [k \in 0..n |-> IF k = 0 THEN bins[i]
                          ELSE IF g[k - 1] = Null THEN Null ELSE next[g[k - 1]]]
  <2>1. ASSUME NEW k \in 0..n, k # 0
        PROVE  g[k] = IF g[k - 1] = Null THEN Null ELSE next[g[k - 1]]
    <3>1. k \in 1..n /\ k - 1 \in 0..n
      BY <2>1, <1>1
    <3>2. g[k - 1] \in Pointer /\ g[k] = follow[g[k - 1]]
      BY <3>1, <1>4
    <3> QED BY <3>2 DEF follow
  <2> QED BY <1>4, <2>1
<1>6. Chain(i) = [k \in 0..n |-> IF k = 0 THEN bins[i]
                                 ELSE IF Chain(i)[k - 1] = Null THEN Null
                                      ELSE next[Chain(i)[k - 1]]]
  BY <1>5 DEF Chain, n
<1> DEFINE c == Chain(i)
<1> HIDE DEF c
<1>7. c = [k \in 0..n |-> IF k = 0 THEN bins[i]
                          ELSE IF c[k - 1] = Null THEN Null ELSE next[c[k - 1]]]
  BY <1>6 DEF c
<1>8. c[0] = bins[i]
  <2>1. 0 \in 0..n
    BY <1>1
  <2> QED BY <2>1, <1>7
<1>9. ASSUME NEW k \in 1..n PROVE c[k] = IF c[k - 1] = Null THEN Null ELSE next[c[k - 1]]
  <2>1. k \in 0..n /\ k # 0
    BY <1>1
  <2> QED BY <2>1, <1>7
<1>10. c \in [0..n -> Pointer]
  <2> DEFINE S == {k \in Nat : k <= n => c[k] \in Pointer}
  <2>1. 0 \in S
    BY <1>2, <1>8
  <2>2. ASSUME NEW k \in Nat, k \in S PROVE k + 1 \in S
    <3> SUFFICES ASSUME k + 1 <= n PROVE c[k + 1] \in Pointer
      OBVIOUS
    <3>1. k + 1 \in 1..n /\ (k + 1) - 1 = k /\ k <= n
      BY <1>1
    <3>2. c[k] \in Pointer /\ c[k + 1] = IF c[k] = Null THEN Null ELSE next[c[k]]
      BY <2>2, <3>1, <1>9
    <3> QED BY <3>2 DEF Links, Pointer
  <2> HIDE DEF S
  <2>3. Nat \subseteq S
    BY <2>1, <2>2, SetInduction
  <2>4. ASSUME NEW k \in 0..n PROVE c[k] \in Pointer
    BY <2>3, <1>1 DEF S
  <2> QED BY <1>7, <2>4
<1> QED BY <1>1, <1>8, <1>9, <1>10 DEF c, n

-----------------------------------------------------------------------------
(* The invariant. *)

\* Following the links of freed blocks goes down.
Ranked(rank) ==
  /\ rank \in [Blocks -> Nat]
  /\ \A b \in freed : next[b] # Null => rank[next[b]] < rank[b]

\* A bin begins with a freed block of its size or is empty.
HeadsAreFreed ==
  \A i \in 0..MaxBin : bins[i] # Null =>
    bins[i] \in freed /\ BinIndexForSize(dataSize[bins[i]]) = i

\* A freed block leads to a freed block of the same bin, which no bin begins with.
LinksStayFreed ==
  \A b \in freed : next[b] # Null =>
    /\ next[b] \in freed
    /\ BinIndexForSize(dataSize[next[b]]) = BinIndexForSize(dataSize[b])
    /\ \A i \in 0..MaxBin : bins[i] # next[b]

HeapInv ==
  HeapTypeOK /\ HeadsAreFreed /\ LinksStayFreed /\ RequestsStayInside /\ \E rank : Ranked(rank)

\* What a bin leads to is freed and of the bin's size.
LEMMA ChainIsFreed ==
  ASSUME HeapInv, NEW i \in 0..MaxBin, NEW k \in 0..Cardinality(Blocks), Chain(i)[k] # Null
  PROVE  Chain(i)[k] \in freed /\ BinIndexForSize(dataSize[Chain(i)[k]]) = i
<1> DEFINE n == Cardinality(Blocks)
           c == Chain(i)
           S == {m \in Nat : m <= n /\ c[m] # Null =>
                   c[m] \in freed /\ BinIndexForSize(dataSize[c[m]]) = i}
<1>1. Links /\ HeadsAreFreed /\ LinksStayFreed
  BY DEF HeapInv, HeapTypeOK, Links, Pointer
<1>2. /\ n \in Nat /\ c[0] = bins[i]
      /\ \A m \in 1..n : c[m] = IF c[m - 1] = Null THEN Null ELSE next[c[m - 1]]
  BY <1>1, ChainEquations
<1> HIDE DEF n, c
<1>3. 0 \in S
  BY <1>1, <1>2 DEF HeadsAreFreed
<1>4. ASSUME NEW m \in Nat, m \in S PROVE m + 1 \in S
  <2> SUFFICES ASSUME m + 1 <= n, c[m + 1] # Null
               PROVE  c[m + 1] \in freed /\ BinIndexForSize(dataSize[c[m + 1]]) = i
    OBVIOUS
  <2>1. m + 1 \in 1..n /\ (m + 1) - 1 = m /\ m <= n
    BY <1>2
  <2>2. c[m] # Null /\ c[m + 1] = next[c[m]]
    BY <1>2, <2>1
  <2>3. c[m] \in freed /\ BinIndexForSize(dataSize[c[m]]) = i
    BY <1>4, <2>1, <2>2
  <2> QED BY <2>2, <2>3, <1>1 DEF LinksStayFreed
<1> HIDE DEF S
<1>5. k \in Nat /\ k <= n /\ Nat \subseteq S
  BY <1>2, <1>3, <1>4, SetInduction DEF n
<1> QED BY <1>5 DEF S, c

\* The links of a bin end: they cannot go down through more blocks than there are.
LEMMA ChainEnds ==
  ASSUME HeapInv, NEW i \in 0..MaxBin
  PROVE  Chain(i)[Cardinality(Blocks)] = Null
<1> SUFFICES ASSUME Chain(i)[Cardinality(Blocks)] # Null PROVE FALSE
  OBVIOUS
<1> DEFINE n == Cardinality(Blocks)
           c == Chain(i)
<1>1. Links /\ freed \subseteq Blocks
  BY DEF HeapInv, HeapTypeOK, Links, Pointer
<1>2. PICK rank : Ranked(rank)
  BY DEF HeapInv
<1>3. /\ n \in Nat /\ c[n] # Null /\ c \in [0..n -> Pointer]
      /\ \A m \in 1..n : c[m] = IF c[m - 1] = Null THEN Null ELSE next[c[m - 1]]
  BY <1>1, ChainEquations
<1>4. \A k \in 0..n : c[k] # Null => c[k] \in freed
  BY ChainIsFreed
<1> HIDE DEF n, c
\* No link on the way is null, since null leads to nothing else.
<1>5. \A k \in 0..n : c[k] # Null
  <2> DEFINE S == {m \in Nat : m <= n => c[n - m] # Null}
  <2>1. 0 \in S
    BY <1>3
  <2>2. ASSUME NEW m \in Nat, m \in S PROVE m + 1 \in S
    <3> SUFFICES ASSUME m + 1 <= n PROVE c[n - (m + 1)] # Null
      OBVIOUS
    <3>1. n - m \in 1..n /\ (n - m) - 1 = n - (m + 1) /\ m <= n
      BY <1>3
    <3>2. c[n - m] # Null
      BY <2>2, <3>1
    <3> QED BY <3>1, <3>2, <1>3
  <2> HIDE DEF S
  <2>3. Nat \subseteq S
    BY <2>1, <2>2, SetInduction
  <2>4. ASSUME NEW k \in 0..n PROVE c[k] # Null
    <3>1. n - k \in Nat /\ n - k <= n /\ n - (n - k) = k
      BY <1>3
    <3> QED BY <3>1, <2>3 DEF S
  <2> QED BY <2>4
<1>6. \A k \in 0..n : c[k] \in Blocks /\ c[k] \in freed
  BY <1>1, <1>4, <1>5
\* So the rank goes down from one to the next.
<1>7. ASSUME NEW k \in 1..n PROVE rank[c[k]] < rank[c[k - 1]]
  <2>1. k - 1 \in 0..n /\ k \in 0..n
    BY <1>3
  <2>2. c[k] = next[c[k - 1]] /\ c[k] # Null /\ c[k - 1] \in freed
    BY <2>1, <1>3, <1>5, <1>6
  <2> QED BY <2>2, <1>2 DEF Ranked
<1>8. \A k \in 0..n : rank[c[k]] \in Nat
  BY <1>2, <1>6 DEF Ranked
<1>9. ASSUME NEW j \in 0..n, NEW k \in 0..n, j < k PROVE rank[c[k]] < rank[c[j]]
  <2> DEFINE S == {m \in Nat : m <= n => \A l \in 0..n : l < m => rank[c[m]] < rank[c[l]]}
  <2>1. 0 \in S
    BY <1>3
  <2>2. ASSUME NEW m \in Nat, m \in S PROVE m + 1 \in S
    <3> SUFFICES ASSUME m + 1 <= n, NEW l \in 0..n, l < m + 1
                 PROVE  rank[c[m + 1]] < rank[c[l]]
      OBVIOUS
    <3>1. m + 1 \in 1..n /\ (m + 1) - 1 = m /\ m <= n /\ m \in 0..n /\ m + 1 \in 0..n
      BY <1>3
    <3>2. rank[c[m + 1]] < rank[c[m]]
      BY <3>1, <1>7
    <3>3. l = m \/ rank[c[m]] < rank[c[l]]
      BY <2>2, <3>1
    <3>4. rank[c[m + 1]] \in Nat /\ rank[c[m]] \in Nat /\ rank[c[l]] \in Nat
      BY <3>1, <1>8
    <3> QED BY <3>2, <3>3, <3>4
  <2> HIDE DEF S
  <2>3. Nat \subseteq S
    BY <2>1, <2>2, SetInduction
  <2>4. k \in Nat /\ k <= n
    BY <1>3
  <2> QED BY <2>3, <2>4, <1>9 DEF S
\* So they are all different, and there are too many of them.
<1>10. Cardinality(0..n) = n + 1 /\ IsFiniteSet(0..n)
  BY <1>3, FS_Interval
<1>11. c \in [0..n -> Blocks]
  BY <1>3, <1>6
<1>12. Cardinality(Blocks) < Cardinality(0..n) /\ IsFiniteSet(Blocks)
  BY <1>3, <1>10, HeapAssumption DEF n
<1>13. \E j, k \in 0..n : j # k /\ c[j] = c[k]
  BY <1>10, <1>11, <1>12, FS_PigeonHole
<1>14. PICK j \in 0..n, k \in 0..n : j # k /\ c[j] = c[k]
  BY <1>13
<1>15. j < k \/ k < j
  BY <1>3, <1>14
<1>16. rank[c[j]] < rank[c[k]] \/ rank[c[k]] < rank[c[j]]
  BY <1>9, <1>15
<1> QED BY <1>14, <1>16, <1>8

\* The invariant implies what the run checks.
LEMMA InvImpliesDisjoint ==
  ASSUME HeapInv
  PROVE  BinsAreDisjoint
<1>1. HeapTypeOK
  BY DEF HeapInv
<1>2. ASSUME NEW i \in 0..MaxBin, NEW b \in Binned(i)
      PROVE  b \in freed /\ BinIndexForSize(dataSize[b]) = i
  <2>1. PICK k \in 0..Cardinality(Blocks) : b = Chain(i)[k] /\ b # Null
    BY DEF Binned
  <2> QED BY <2>1, ChainIsFreed
<1>3. ASSUME NEW i \in 0..MaxBin, NEW j \in 0..MaxBin, j # i
      PROVE  Binned(i) \cap Binned(j) = {}
  BY <1>2, <1>3
<1>4. \A i \in 0..MaxBin : Binned(i) \subseteq freed
  BY <1>2
<1>5. \A i \in 0..MaxBin : Chain(i)[Cardinality(Blocks)] = Null
  BY ChainEnds
<1> QED BY <1>1, <1>3, <1>4, <1>5 DEF BinsAreDisjoint

-----------------------------------------------------------------------------
(* The steps. *)

\* An empty heap is sound (AmlHeapInitialize).
LEMMA InitEstablishesInv ==
  ASSUME HeapInit
  PROVE  HeapInv
<1>1. HeapTypeOK /\ HeadsAreFreed /\ LinksStayFreed /\ RequestsStayInside
  BY DEF HeapInit, HeapTypeOK, HeadsAreFreed, LinksStayFreed, RequestsStayInside, Used
<1>2. Ranked([b \in Blocks |-> 0])
  BY DEF HeapInit, Ranked
<1> QED BY <1>1, <1>2 DEF HeapInv

\* The head of a bin is large enough for every size of the bin, but for what the
\* alignment makes up for.
LEMMA HeadHolds ==
  ASSUME HeapInv, NEW size \in Sizes, bins[BinIndexForSize(size)] # Null
  PROVE  size <= dataSize[bins[BinIndexForSize(size)]] + Slack
<1> DEFINE i == BinIndexForSize(size)
           b == bins[i]
<1>1. size \in Fitting
  BY HeapAssumption DEF Fitting
<1>2. i \in 0..MaxBin /\ size <= BinSize[i]
  BY <1>1, BinIndexHolds
<1> HIDE DEF i
<1>3. b \in freed /\ BinIndexForSize(dataSize[b]) = i
  BY <1>2 DEF HeapInv, HeadsAreFreed, i
<1>4. PICK k \in 0..MaxBin : dataSize[b] = BinSize[k]
  BY <1>3 DEF HeapInv, HeapTypeOK, Used
<1>5. i = IF k = 0 THEN 1 ELSE k
  BY <1>3, <1>4, BinOfBinSize
<1>6. BinSize[0] = 1 /\ (1 \in 1..MaxBin => BinSize[1] = 2 * BinSize[0]) /\ MaxBin \in Nat
  BY BinSizeEquations, HeapAssumption
<1>7. size \in Nat /\ BinSize[k] \in Nat
  BY <1>1, BinSizeEquations DEF Fitting
<1>8. size <= dataSize[b] + 1
  <2>1. CASE k = 0
    BY <2>1, <1>2, <1>4, <1>5, <1>6, <1>7
  <2>2. CASE k # 0
    BY <2>2, <1>2, <1>4, <1>5, <1>7
  <2> QED BY <2>1, <2>2
<1> QED BY <1>8 DEF i, Slack

\* Popping the head of a bin leaves the bin empty and every other link as it was
\* (AmlHeapAllocate).
LEMMA ReuseKeepsInv ==
  ASSUME HeapInv, NEW size \in Sizes, Reuse(size)
  PROVE  HeapInv'
<1> DEFINE i == BinIndexForSize(size)
           b == bins[i]
<1>1. size \in Fitting /\ size \in Nat
  BY HeapAssumption, BinSizeEquations DEF Fitting
<1>2. i \in 0..MaxBin
  BY <1>1, BinIndexHolds
<1>3. size <= dataSize[b] + Slack
  BY HeadHolds DEF Reuse
<1> HIDE DEF i
<1>4. /\ b # Null
      /\ next' = [next EXCEPT ![b] = Null] /\ bins' = [bins EXCEPT ![i] = next'[b]]
      /\ asked' = [asked EXCEPT ![b] = size]
      /\ inUse' = inUse \cup {b} /\ freed' = freed \ {b} /\ dataSize' = dataSize
  BY DEF Reuse, i
<1>5. b \in freed /\ b \in Blocks
  BY <1>2, <1>4 DEF HeapInv, HeadsAreFreed, HeapTypeOK, i
<1>6. HeapTypeOK
  BY DEF HeapInv
<1>7. next'[b] = Null /\ next' \in [Blocks -> Blocks \cup {Null}]
      /\ \A x \in Blocks \ {b} : next'[x] = next[x]
  BY <1>4, <1>5, <1>6 DEF HeapTypeOK
<1>8. bins' \in [0..MaxBin -> Blocks \cup {Null}] /\ bins'[i] = Null
      /\ \A j \in 0..MaxBin \ {i} : bins'[j] = bins[j]
  BY <1>2, <1>4, <1>6, <1>7 DEF HeapTypeOK
<1>9. HeapTypeOK'
  BY <1>1, <1>4, <1>5, <1>6, <1>7, <1>8 DEF HeapTypeOK, Used
<1>10. HeadsAreFreed'
  <2> SUFFICES ASSUME NEW j \in 0..MaxBin, bins'[j] # Null
               PROVE  bins'[j] \in freed' /\ BinIndexForSize(dataSize'[bins'[j]]) = j
    BY DEF HeadsAreFreed, BinIndexForSize
  <2>1. j # i /\ bins'[j] = bins[j]
    BY <1>8
  <2>2. bins[j] \in freed /\ BinIndexForSize(dataSize[bins[j]]) = j
    BY <2>1 DEF HeapInv, HeadsAreFreed
  <2>3. BinIndexForSize(dataSize[b]) = i
    BY <1>2, <1>4 DEF HeapInv, HeadsAreFreed, i
  <2>4. bins[j] # b
    BY <2>1, <2>2, <2>3
  <2> QED BY <2>1, <2>2, <2>4, <1>4
<1>11. LinksStayFreed'
  <2> SUFFICES ASSUME NEW x \in freed', next'[x] # Null
               PROVE  /\ next'[x] \in freed'
                      /\ BinIndexForSize(dataSize'[next'[x]]) = BinIndexForSize(dataSize'[x])
                      /\ \A j \in 0..MaxBin : bins'[j] # next'[x]
    BY DEF LinksStayFreed, BinIndexForSize
  <2>1. x \in freed /\ x # b /\ x \in Blocks /\ next'[x] = next[x]
    BY <1>4, <1>6, <1>7 DEF HeapTypeOK
  <2>2. /\ next[x] \in freed
        /\ BinIndexForSize(dataSize[next[x]]) = BinIndexForSize(dataSize[x])
        /\ \A j \in 0..MaxBin : bins[j] # next[x]
    BY <2>1 DEF HeapInv, LinksStayFreed
  <2>3. next[x] # b
    BY <2>2, <1>2
  <2>4. \A j \in 0..MaxBin : bins'[j] # next[x]
    BY <2>1, <2>2, <1>8
  <2> QED BY <2>1, <2>2, <2>3, <2>4, <1>4
<1>12. RequestsStayInside'
  <2> SUFFICES ASSUME NEW x \in inUse' PROVE asked'[x] <= dataSize'[x] + Slack
    BY DEF RequestsStayInside, Slack
  <2>1. CASE x = b
    BY <2>1, <1>3, <1>4, <1>5, <1>6 DEF HeapTypeOK
  <2>2. CASE x # b
    <3>1. x \in inUse /\ asked'[x] = asked[x]
      BY <2>2, <1>4, <1>6 DEF HeapTypeOK
    <3> QED BY <3>1, <1>4 DEF HeapInv, RequestsStayInside
  <2> QED BY <2>1, <2>2
<1>13. PICK rank : Ranked(rank)
  BY DEF HeapInv
<1>14. Ranked(rank)'
  BY <1>4, <1>6, <1>7, <1>13 DEF Ranked, HeapTypeOK
<1> QED BY <1>9, <1>10, <1>11, <1>12, <1>14 DEF HeapInv

\* A block of the arena's is no block the heap knows (AmlHeapAllocate).
LEMMA TakeKeepsInv ==
  ASSUME HeapInv, NEW size \in Sizes, Take(size)
  PROVE  HeapInv'
<1> DEFINE i == BinIndexForSize(size)
<1>1. size \in Fitting /\ size \in Nat
  BY HeapAssumption, BinSizeEquations DEF Fitting
<1>2. i \in 0..MaxBin /\ size <= BinSize[i] /\ BinSize[i] \in Nat
  <2>1. i \in 0..MaxBin /\ size <= BinSize[i]
    BY <1>1, BinIndexHolds
  <2> QED BY <2>1, BinSizeEquations
<1> HIDE DEF i
<1>3. PICK b \in Blocks \ Used :
        /\ next' = [next EXCEPT ![b] = Null]
        /\ dataSize' = [dataSize EXCEPT ![b] = BinSize[i]]
        /\ asked' = [asked EXCEPT ![b] = size]
        /\ inUse' = inUse \cup {b}
  BY DEF Take, i
<1>4. bins' = bins /\ freed' = freed
  BY DEF Take
<1>5. HeapTypeOK
  BY DEF HeapInv
<1>6. b \notin freed /\ b \notin inUse /\ b \in Blocks /\ freed \subseteq Blocks /\ inUse \subseteq Blocks
  BY <1>3, <1>5 DEF Used, HeapTypeOK
<1>7. /\ next'[b] = Null /\ dataSize'[b] = BinSize[i] /\ asked'[b] = size
      /\ \A x \in Blocks \ {b} : next'[x] = next[x] /\ dataSize'[x] = dataSize[x] /\ asked'[x] = asked[x]
  BY <1>3, <1>5, <1>6 DEF HeapTypeOK
<1>8. HeapTypeOK'
  <2>1. /\ next' \in [Blocks -> Blocks \cup {Null}]
        /\ dataSize' \in [Blocks -> Nat] /\ asked' \in [Blocks -> Nat]
    BY <1>1, <1>2, <1>3, <1>5 DEF HeapTypeOK
  <2>2. \A x \in Used' : \E j \in 0..MaxBin : dataSize'[x] = BinSize[j]
    <3> SUFFICES ASSUME NEW x \in Used' PROVE \E j \in 0..MaxBin : dataSize'[x] = BinSize[j]
      OBVIOUS
    <3>1. CASE x = b
      BY <3>1, <1>2, <1>7
    <3>2. CASE x # b
      <4>1. x \in Used /\ x \in Blocks
        BY <3>2, <1>3, <1>4, <1>6 DEF Used
      <4> QED BY <4>1, <3>2, <1>5, <1>7 DEF HeapTypeOK
    <3> QED BY <3>1, <3>2
  <2> QED BY <2>1, <2>2, <1>3, <1>4, <1>5, <1>6 DEF HeapTypeOK
<1>9. HeadsAreFreed'
  <2> SUFFICES ASSUME NEW j \in 0..MaxBin, bins[j] # Null
               PROVE  bins[j] \in freed /\ BinIndexForSize(dataSize'[bins[j]]) = j
    BY <1>4 DEF HeadsAreFreed, BinIndexForSize
  <2>1. bins[j] \in freed /\ BinIndexForSize(dataSize[bins[j]]) = j
    BY DEF HeapInv, HeadsAreFreed
  <2> QED BY <2>1, <1>6, <1>7
<1>10. LinksStayFreed'
  <2> SUFFICES ASSUME NEW x \in freed, next'[x] # Null
               PROVE  /\ next'[x] \in freed
                      /\ BinIndexForSize(dataSize'[next'[x]]) = BinIndexForSize(dataSize'[x])
                      /\ \A j \in 0..MaxBin : bins[j] # next'[x]
    BY <1>4 DEF LinksStayFreed, BinIndexForSize
  <2>1. x \in Blocks /\ x # b /\ next'[x] = next[x] /\ dataSize'[x] = dataSize[x]
    BY <1>6, <1>7
  <2>2. /\ next[x] \in freed
        /\ BinIndexForSize(dataSize[next[x]]) = BinIndexForSize(dataSize[x])
        /\ \A j \in 0..MaxBin : bins[j] # next[x]
    BY <2>1 DEF HeapInv, LinksStayFreed
  <2>3. dataSize'[next[x]] = dataSize[next[x]]
    BY <2>2, <1>6, <1>7
  <2> QED BY <2>1, <2>2, <2>3
<1>11. RequestsStayInside'
  <2> SUFFICES ASSUME NEW x \in inUse' PROVE asked'[x] <= dataSize'[x] + Slack
    BY DEF RequestsStayInside, Slack
  <2>1. CASE x = b
    BY <2>1, <1>1, <1>2, <1>7 DEF Slack
  <2>2. CASE x # b
    <3>1. x \in inUse /\ asked'[x] = asked[x] /\ dataSize'[x] = dataSize[x]
      BY <2>2, <1>3, <1>6, <1>7
    <3> QED BY <3>1 DEF HeapInv, RequestsStayInside
  <2> QED BY <2>1, <2>2
<1>12. PICK rank : Ranked(rank)
  BY DEF HeapInv
<1>13. Ranked(rank)'
  BY <1>4, <1>6, <1>7, <1>12 DEF Ranked
<1> QED BY <1>8, <1>9, <1>10, <1>11, <1>13 DEF HeapInv

\* A freed block goes before the head of its bin (AmlHeapFree).
LEMMA FreeKeepsInv ==
  ASSUME HeapInv, NEW b \in Blocks, Free(b)
  PROVE  HeapInv'
<1> DEFINE i == BinIndexForSize(dataSize[b])
           head == bins[i]
<1>1. HeapTypeOK
  BY DEF HeapInv
<1>2. b \in inUse /\ b \notin freed /\ freed \subseteq Blocks
  BY <1>1 DEF Free, HeapTypeOK
<1>3. i \in 0..MaxBin
  <2>1. PICK k \in 0..MaxBin : dataSize[b] = BinSize[k]
    BY <1>1, <1>2 DEF HeapTypeOK, Used
  <2>2. dataSize[b] \in Fitting
    BY <2>1, BinOfBinSize
  <2> QED BY <2>2, BinIndexHolds
<1>4. /\ next' = [next EXCEPT ![b] = head] /\ bins' = [bins EXCEPT ![i] = b]
      /\ inUse' = inUse \ {b} /\ freed' = freed \cup {b}
      /\ dataSize' = dataSize /\ asked' = asked
  BY DEF Free
<1>5. head \in Blocks \cup {Null}
      /\ (head # Null => head \in freed /\ BinIndexForSize(dataSize[head]) = i)
  BY <1>1, <1>3 DEF HeapTypeOK, HeapInv, HeadsAreFreed
<1>6. BinIndexForSize(dataSize[b]) = i
  OBVIOUS
<1>7. \A j \in 0..MaxBin \ {i} : bins[j] # head \/ head = Null
  BY <1>5, <1>3 DEF HeapInv, HeadsAreFreed
<1> HIDE DEF i, head
<1>8. /\ next'[b] = head /\ bins'[i] = b
      /\ \A x \in Blocks \ {b} : next'[x] = next[x]
      /\ \A j \in 0..MaxBin \ {i} : bins'[j] = bins[j]
  BY <1>1, <1>3, <1>4 DEF HeapTypeOK
<1>9. HeapTypeOK'
  <2>1. next' \in [Blocks -> Blocks \cup {Null}] /\ bins' \in [0..MaxBin -> Blocks \cup {Null}]
    BY <1>1, <1>3, <1>4, <1>5 DEF HeapTypeOK
  <2>2. Used' = Used
    BY <1>2, <1>4 DEF Used
  <2> QED BY <2>1, <2>2, <1>1, <1>2, <1>4 DEF HeapTypeOK
<1>10. HeadsAreFreed'
  <2> SUFFICES ASSUME NEW j \in 0..MaxBin, bins'[j] # Null
               PROVE  bins'[j] \in freed' /\ BinIndexForSize(dataSize[bins'[j]]) = j
    BY <1>4 DEF HeadsAreFreed, BinIndexForSize
  <2>1. CASE j = i
    BY <2>1, <1>4, <1>6, <1>8
  <2>2. CASE j # i
    <3>1. bins'[j] = bins[j]
      BY <2>2, <1>8
    <3> QED BY <3>1, <1>4 DEF HeapInv, HeadsAreFreed
  <2> QED BY <2>1, <2>2
<1>11. LinksStayFreed'
  <2> SUFFICES ASSUME NEW x \in freed', next'[x] # Null
               PROVE  /\ next'[x] \in freed'
                      /\ BinIndexForSize(dataSize[next'[x]]) = BinIndexForSize(dataSize[x])
                      /\ \A j \in 0..MaxBin : bins'[j] # next'[x]
    BY <1>4 DEF LinksStayFreed, BinIndexForSize
  <2>1. CASE x = b
    <3>1. next'[x] = head /\ head # Null /\ head \in freed /\ BinIndexForSize(dataSize[head]) = i
      BY <2>1, <1>5, <1>8
    <3>2. \A j \in 0..MaxBin : bins'[j] # head
      BY <3>1, <1>2, <1>7, <1>8
    <3> QED BY <3>1, <3>2, <2>1, <1>4, <1>6
  <2>2. CASE x # b
    <3>1. x \in freed /\ x \in Blocks /\ next'[x] = next[x]
      BY <2>2, <1>2, <1>4, <1>8
    <3>2. /\ next[x] \in freed
          /\ BinIndexForSize(dataSize[next[x]]) = BinIndexForSize(dataSize[x])
          /\ \A j \in 0..MaxBin : bins[j] # next[x]
      BY <2>2, <3>1 DEF HeapInv, LinksStayFreed
    <3>3. \A j \in 0..MaxBin : bins'[j] # next[x]
      BY <3>2, <1>2, <1>8
    <3> QED BY <3>1, <3>2, <3>3, <1>4
  <2> QED BY <2>1, <2>2
<1>12. RequestsStayInside'
  BY <1>4 DEF HeapInv, RequestsStayInside, Slack
<1>13. PICK rank : Ranked(rank)
  BY DEF HeapInv
<1> DEFINE above == IF head = Null THEN 0 ELSE rank[head] + 1
<1>14. above \in Nat /\ (head # Null => rank[head] < above)
  BY <1>5, <1>13 DEF Ranked
<1> HIDE DEF above
<1>15. PICK rank2 \in [Blocks -> Nat] : rank2[b] = above /\ \A x \in Blocks \ {b} : rank2[x] = rank[x]
  <2>1. rank \in [Blocks -> Nat]
    BY <1>13 DEF Ranked
  <2> DEFINE r == [rank EXCEPT ![b] = above]
  <2>2. r \in [Blocks -> Nat] /\ r[b] = above /\ \A x \in Blocks \ {b} : r[x] = rank[x]
    BY <2>1, <1>14
  <2> QED BY <2>2
<1>16. Ranked(rank2)'
  <2> SUFFICES ASSUME NEW x \in freed', next'[x] # Null PROVE rank2[next'[x]] < rank2[x]
    BY <1>15 DEF Ranked
  <2>1. CASE x = b
    <3>1. next'[x] = head /\ head # Null /\ head \in Blocks \ {b}
      BY <2>1, <1>2, <1>5, <1>8
    <3> QED BY <3>1, <2>1, <1>14, <1>15
  <2>2. CASE x # b
    <3>1. x \in freed /\ x \in Blocks \ {b} /\ next'[x] = next[x]
      BY <2>2, <1>2, <1>4, <1>8
    <3>2. next[x] \in freed /\ rank[next[x]] < rank[x]
      BY <2>2, <3>1, <1>13 DEF HeapInv, LinksStayFreed, Ranked
    <3> QED BY <3>1, <3>2, <1>2, <1>15
  <2> QED BY <2>1, <2>2
<1> QED BY <1>9, <1>10, <1>11, <1>12, <1>16 DEF HeapInv

\* The links of the heap are sound in all behaviours.
THEOREM HeapIsSound == HeapSpec => []HeapInv
<1>1. HeapInit => HeapInv
  BY InitEstablishesInv
<1>2. HeapInv /\ [HeapNext]_heapVars => HeapInv'
  <2> SUFFICES ASSUME HeapInv, [HeapNext]_heapVars PROVE HeapInv'
    OBVIOUS
  <2>1. CASE \E size \in Sizes : Reuse(size) \/ Take(size)
    BY <2>1, ReuseKeepsInv, TakeKeepsInv
  <2>2. CASE \E b \in Blocks : Free(b)
    BY <2>2, FreeKeepsInv
  <2>3. CASE UNCHANGED heapVars
    <3>1. /\ bins' = bins /\ next' = next /\ dataSize' = dataSize
          /\ asked' = asked /\ inUse' = inUse /\ freed' = freed
      BY <2>3 DEF heapVars
    <3>2. HeapTypeOK'
      BY <3>1 DEF HeapInv, HeapTypeOK, Used
    <3>3. HeadsAreFreed'
      <4>1. HeadsAreFreed
        BY DEF HeapInv
      <4> QED BY <4>1, <3>1 DEF HeadsAreFreed, BinIndexForSize
    <3>7. LinksStayFreed'
      <4>1. LinksStayFreed
        BY DEF HeapInv
      <4> SUFFICES ASSUME NEW b \in freed', next'[b] # Null
                   PROVE  /\ next'[b] \in freed'
                          /\ BinIndexForSize(dataSize'[next'[b]]) = BinIndexForSize(dataSize'[b])
                          /\ \A i \in 0..MaxBin : bins'[i] # next'[b]
        BY DEF LinksStayFreed, BinIndexForSize
      <4> QED BY <4>1, <3>1 DEF LinksStayFreed
    <3>4. RequestsStayInside'
      BY <3>1 DEF HeapInv, RequestsStayInside, Slack
    <3>5. PICK rank : Ranked(rank)
      BY DEF HeapInv
    <3>6. Ranked(rank)'
      BY <3>1, <3>5 DEF Ranked
    <3> QED BY <3>2, <3>3, <3>4, <3>6, <3>7 DEF HeapInv
  <2> QED BY <2>1, <2>2, <2>3 DEF HeapNext
<1> QED BY <1>1, <1>2, PTL DEF HeapSpec

\* A freed block is handed out by one bin, once (AmlHeapAllocate, AmlHeapFree).
THEOREM BinsAreAlwaysDisjoint == HeapSpec => []BinsAreDisjoint
<1>1. HeapInv => BinsAreDisjoint
  BY InvImpliesDisjoint
<1> QED BY <1>1, HeapIsSound, PTL

\* What was asked for never leaves the arena's allocation (AmlHeapBinIndexForSize).
THEOREM RequestsAlwaysStayInside == HeapSpec => []RequestsStayInside
<1>1. HeapInv => RequestsStayInside
  BY DEF HeapInv
<1> QED BY <1>1, HeapIsSound, PTL
==============================================================================
