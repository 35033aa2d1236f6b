\* The operating system and two firmware agents, each of which keeps the
\* contract of AmlHostGlobalLockRelease.
CONSTANTS
  Agents = {os, fw, ec}
  Pollers = {os}
  Signals = {os, fw, ec}
  NoAgent = none
SPECIFICATION FairWordSpec
INVARIANTS MutualExclusion NoLostWakeup
PROPERTIES ImplementsWaitableLock 
