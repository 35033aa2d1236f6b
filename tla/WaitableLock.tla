---------------------------- MODULE WaitableLock ----------------------------
(***************************************************************************)
(* What the ACPI global lock promises to the agents that share it: at most *)
(* one of them owns the lock, and the release of the lock takes note of    *)
(* every agent that was refused while it was owned.  The specification has *)
(* no bits, no snapshots and no retry loops; GlobalLock implements it.     *)
(***************************************************************************)
CONSTANTS Agents,   \* the operating system and the firmware
          NoAgent   \* the owner of a free lock, not an agent

VARIABLES owner,    \* the agent that owns the lock, or NoAgent
          waiting   \* agents that were refused and that no release has noted

vars == <<owner, waiting>>

Init == owner = NoAgent /\ waiting = {}

Acquire(a) ==
  /\ owner = NoAgent
  /\ owner' = a
  /\ waiting' = waiting \ {a}

Refuse(a) ==
  /\ owner \notin {a, NoAgent}
  /\ waiting' = waiting \cup {a}
  /\ UNCHANGED owner

\* The releaser learns of all the refused agents at once: none is left that
\* believes the lock is taken and that nobody has been told about.
Release(a) ==
  /\ owner = a
  /\ owner' = NoAgent
  /\ waiting' = {}

\* A refused agent polls again, or gives up.
Retire(a) ==
  /\ a \in waiting
  /\ waiting' = waiting \ {a}
  /\ UNCHANGED owner

Next == \E a \in Agents : Acquire(a) \/ Refuse(a) \/ Release(a) \/ Retire(a)

Spec == Init /\ [][Next]_vars
=============================================================================
