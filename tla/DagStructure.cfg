SPECIFICATION Spec
SYMMETRY MCSymmetry
INVARIANTS RefcountsExact DerivedStateIsExact ConversationIsExact WithinCapacity AuditFollowsHeads
PROPERTIES DeepestParentFound
CONSTANTS
  Requests = {r1, r2, r3}
  Messages <- MCMessages
  Bodies <- MCBodies
  Systems <- MCSystems
  Replies = {yes}
  Blocks = {x, y, z}
  Content <- MCContent
  Hashes <- MCHashes
  Combine <- MCCombine
  Modes = {"latest"}
  Ticks = {1}
  MaxNodes = 2
  MaxSessions = 2
  MinSessions = 1
  hi = hi
  yes = yes
  more = more
  sysprompt = sysprompt
  x = x
  y = y
  z = z
CHECK_DEADLOCK FALSE
