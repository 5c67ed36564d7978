SPECIFICATION FairSpec
CONSTANTS
  a = a
  b = b
  Providers = {a, b}
  MemberLists <- MCLists
  Requests = {r1, r2}
  Hints = {5}
  Cooldowns = {1, 4}
  Cap = 2
INVARIANTS StatusAgreesWithPick
PROPERTIES AlarmsFollowTheirMember AlarmsRing
