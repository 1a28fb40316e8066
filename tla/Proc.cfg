\* init and three more slots on two CPUs: a grandchild of a child of init
SPECIFICATION FairSpec
CONSTANTS
  CPUs = {c1, c2}
  Slots = {init, s1, s2, s3}
  Init1 = init
  Killable = {s1}
  Null = null
INVARIANTS StackSafe NoMissedWakeup ParentsLive
PROPERTY ZombiesReaped
CHECK_DEADLOCK FALSE
