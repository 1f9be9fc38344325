SPECIFICATION Spec
CONSTANTS
  Inputs <- MCInputs
  Letter <- MCLetter
  Heads <- MCHeads
  Banned <- MCBanned
  For <- MCFor
  Locks <- MCLocks
  Blocked <- MCBlocked
CHECK_DEADLOCK FALSE
INVARIANT OnlyPrefixRefused
