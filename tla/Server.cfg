CONSTANTS
  MaxClients = 2
  MaxReqs = 2
  MaxLog = 3
  MaxChan = 2
  MaxLives = 2
SPECIFICATION MCSpec
INVARIANTS TypeOK ProcessedInOrder ListenerNotStuck OwnAnswers
PROPERTY AllAnswered
CHECK_DEADLOCK FALSE
