SPECIFICATION FairSpec
PROPERTIES RecordsSettleOnce EveryRecordSettles
CONSTANTS
  Requests = {r1, r2}
  Messages <- MCMessages
  Bodies <- MCTalk
  Systems <- MCSystems
  Replies = {yes}
  Blocks = {x, y, z}
  Content <- MCContent
  Hashes <- MCHashes
  Combine <- MCCombine
  Modes = {"latest", "full"}
  Ticks = {0, 1}
  MaxNodes = 1
  MaxSessions = 2
  MinSessions = 1
  hi = hi
  yes = yes
  more = more
  sysprompt = sysprompt
  x = x
  y = y
  z = z
CHECK_DEADLOCK FALSE
