CONSTANTS
  Modulus = 16
  mss = 1
  Window = 2
  MaxNet = 2
  Uses <- MCUses
SPECIFICATION FairSpec
INVARIANTS StreamExact Reliable
PROPERTY Finishes
CHECK_DEADLOCK FALSE
