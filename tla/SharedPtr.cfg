SPECIFICATION FairSpec
CONSTANTS
  Threads = {th1, th2}
  Strong = {s1, s2}
  Weak = {w1}
  Blocks = {b1, b2}
  Null = Null
INVARIANTS CountsExact NoUseAfterFree
PROPERTIES OwnershipSpec ExpiredIsDeleted
