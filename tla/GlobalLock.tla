----------------------------- MODULE GlobalLock -----------------------------
(***************************************************************************)
(* The ACPI global lock: a 32-bit word in the FACS table shared by the     *)
(* operating system and the firmware.  The host's TryAcquire and Release   *)
(* (examples/runtest/runtest_host.c) change its owned and pending bits in  *)
(* a loop: read the word, compute the wanted word, compare-and-exchange,   *)
(* and read again when another agent changed the word in between.  Every   *)
(* read and every exchange is a step of its own here.  The firmware is     *)
(* outside the repository and is modelled as following the same protocol.  *)
(*                                                                         *)
(* Polling is what AmlMutexAcquire does with a refusal (it spins); Signals *)
(* are the agents that act on the result of their release.                 *)
(*                                                                         *)
(* The specification is named for the word (WordSpec), so that a module    *)
(* can extend both this one and AmlMutex, which uses the lock.             *)
(***************************************************************************)
CONSTANTS Agents,     \* agents that share the lock word
          Pollers,    \* agents that retry a refused attempt without a signal
          Signals,    \* agents that signal the waiters when told to
          NoAgent     \* not an agent

ASSUME AgentsAssumption ==
  /\ Pollers \subseteq Agents
  /\ Signals \subseteq Agents
  /\ NoAgent \notin Agents

VARIABLES lock,     \* the two bits of the lock word that are not reserved
          pc,       \* what each agent is doing
          current,  \* each agent's local copy of the word (Current)
          noted,    \* refused agents that a release has been told about
          woken     \* refused agents that a release has signalled

wordVars == <<lock, pc, current, noted, woken>>

Word == [owned : BOOLEAN, pending : BOOLEAN]

FreeWord == [owned |-> FALSE, pending |-> FALSE]

Locations == {"idle", "try", "exchange", "refused", "owner",
              "release", "clear", "told"}

\* An agent that has been granted the lock and has not yet cleared the bits.
Holds(a) == pc[a] \in {"owner", "release", "clear"}

WordInit ==
  /\ lock = FreeWord
  /\ pc = [a \in Agents |-> "idle"]
  /\ current = [a \in Agents |-> FreeWord]
  /\ noted = {}
  /\ woken = {}

Goto(a, l) == pc' = [pc EXCEPT ![a] = l]

-----------------------------------------------------------------------------
(* AmlHostGlobalLockTryAcquire *)

\* The pending bit is forgotten.
Desired_NoPending(word) == [owned |-> TRUE, pending |-> FALSE]

\* The word an attempt asks for: owned, and pending iff it was owned already.
Desired(word) == [owned |-> TRUE, pending |-> word.owned]

\* A fresh attempt, or the next turn of the loop of an agent that polls.
BeginTry(a) ==
  /\ \/ pc[a] = "idle"
     \/ pc[a] = "refused" /\ (a \in Pollers \/ a \in woken)
  /\ Goto(a, "try")
  /\ noted' = noted \ {a}
  /\ woken' = woken \ {a}
  /\ UNCHANGED <<lock, current>>

ReadWord(a) ==
  /\ pc[a] = "try"
  /\ current' = [current EXCEPT ![a] = lock]
  /\ Goto(a, "exchange")
  /\ UNCHANGED <<lock, noted, woken>>

TryExchange(a) ==
  /\ pc[a] = "exchange"
  /\ IF lock = current[a]
     THEN /\ lock' = Desired(current[a])
          /\ Goto(a, IF Desired(current[a]).pending THEN "refused" ELSE "owner")
     ELSE /\ Goto(a, "try")
          /\ UNCHANGED lock
  /\ UNCHANGED <<current, noted, woken>>

\* The caller's timeout ends the spin of AmlMutexAcquire: the pending bit
\* that the refused attempt has set stays behind.
GiveUp(a) ==
  /\ pc[a] = "refused"
  /\ a \in Pollers
  /\ Goto(a, "idle")
  /\ noted' = noted \ {a}
  /\ woken' = woken \ {a}
  /\ UNCHANGED <<lock, current>>

-----------------------------------------------------------------------------
(* AmlHostGlobalLockRelease *)

BeginRelease(a) ==
  /\ pc[a] = "owner"
  /\ Goto(a, "release")
  /\ UNCHANGED <<lock, current, noted, woken>>

ReadOwnedWord(a) ==
  /\ pc[a] = "release"
  /\ current' = [current EXCEPT ![a] = lock]
  /\ Goto(a, "clear")
  /\ UNCHANGED <<lock, noted, woken>>

Refused == {a \in Agents : pc[a] = "refused"}

\* A plain store of the cleared word where the code compares and exchanges:
\* a pending bit set after the read is lost.
ClearExchange_Store(a) ==
  /\ pc[a] = "clear"
  /\ lock' = FreeWord
  /\ IF current[a].pending
     THEN Goto(a, "told") /\ noted' = noted \cup Refused
     ELSE Goto(a, "idle") /\ UNCHANGED noted
  /\ UNCHANGED <<current, woken>>

ClearExchange(a) ==
  /\ pc[a] = "clear"
  /\ IF lock = current[a]
     THEN /\ lock' = FreeWord
          /\ IF current[a].pending
             THEN Goto(a, "told") /\ noted' = noted \cup Refused
             ELSE Goto(a, "idle") /\ UNCHANGED noted
     ELSE /\ Goto(a, "release")
          /\ UNCHANGED <<lock, noted>>
  /\ UNCHANGED <<current, woken>>

\* The caller of a release that returned AML_TRUE: an agent of Signals wakes
\* the waiters, any other agent drops the result, as AmlMutexRelease does.
ActOnResult(a) ==
  /\ pc[a] = "told"
  /\ Goto(a, "idle")
  /\ woken' = IF a \in Signals THEN woken \cup Refused ELSE woken
  /\ UNCHANGED <<lock, current, noted>>

-----------------------------------------------------------------------------
Step(a) ==
  \/ BeginTry(a) \/ ReadWord(a) \/ TryExchange(a) \/ GiveUp(a)
  \/ BeginRelease(a) \/ ReadOwnedWord(a) \/ ClearExchange(a) \/ ActOnResult(a)

WordNext == \E a \in Agents : Step(a)

WordSpec == WordInit /\ [][WordNext]_wordVars

\* Code that has begun runs on, an owner releases eventually (every method
\* scope releases what it acquired) and a waiter that may go on does.
Progress(a) ==
  \/ (pc[a] # "idle" /\ BeginTry(a)) \/ ReadWord(a) \/ TryExchange(a)
  \/ BeginRelease(a) \/ ReadOwnedWord(a) \/ ClearExchange(a) \/ ActOnResult(a)

FairWordSpec == WordSpec /\ \A a \in Agents : WF_wordVars(Progress(a))

-----------------------------------------------------------------------------
\* The word is one of its four values, and every agent's read of it too.
WordTypeOK ==
  /\ lock \in Word
  /\ pc \in [Agents -> Locations]
  /\ current \in [Agents -> Word]
  /\ noted \subseteq Agents
  /\ woken \subseteq Agents

\* At most one agent has been told that it owns the lock, whatever the
\* interleaving of the reads and the exchanges of the others.
MutualExclusion == \A a, b \in Agents : Holds(a) /\ Holds(b) => a = b

\* The owned bit of the shared word is set exactly while an agent holds the
\* lock: no attempt and no release leaves it set or cleared by mistake.
OwnedBitMatchesOwner == lock.owned <=> \E a \in Agents : Holds(a)

\* An agent that was refused is either announced by the pending bit of the
\* lock it waits for, or a releaser has been told (AML_TRUE) to signal it.
NoLostWakeup ==
  \A a \in Agents :
    pc[a] = "refused" /\ a \notin noted => lock.owned /\ lock.pending

\* The agent that owns the lock, for the abstract lock.
Owner == IF \E a \in Agents : Holds(a)
         THEN CHOOSE a \in Agents : Holds(a)
         ELSE NoAgent

Unnoted == Refused \ noted

Abstract == INSTANCE WaitableLock WITH owner <- Owner, waiting <- Unnoted

\* The compare-and-exchange loops implement the atomic lock: every exchange is
\* an acquisition, a refusal or a release that notes all the refused agents.
ImplementsWaitableLock == Abstract!Spec

\* A refused agent does not stay refused for ever: it polls, or the release
\* that was told about it signals it (the contract in aml_host.h).
RefusedIsServed ==
  \A a \in Agents : (pc[a] = "refused") ~> (pc[a] # "refused")
=============================================================================
