CONSTANTS
  Client = {c1, c2}
  Other = Other
  EventCap = 2
  CommitCap = 1
  MaxCommits = 3
SPECIFICATION Spec
INVARIANTS TypeOK TimerAlive
PROPERTIES AllComeOut Campaigns
CHECK_DEADLOCK FALSE
