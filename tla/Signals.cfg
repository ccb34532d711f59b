SPECIFICATION MCSpec
CONSTANTS
  a1 = a1
  a2 = a2
  j1 = j1
  j2 = j2
  Agents = {a1, a2}
  Nudgers = {j1, j2}
  AutoResume = {a2}
  MaxMail = 2
  Staff = {a1}
  Calls = {h1, h2}
  Senders = {h1, h2}
  RingCap = 2
  ChanCap = 1
  MaxEvents = 5
  Writers = {h1, h2}
  FeedCap = 2
  Window = 2
  MaxStamps = 5
INVARIANTS NudgeInv OneNudge NoLostWakeUp MarksAgree NothingMissed FeedKept
PROPERTY Nudged
CHECK_DEADLOCK FALSE
