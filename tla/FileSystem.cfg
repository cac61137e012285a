CONSTANTS
  File = {f1, f2}
  Contents = {x}
  ExpTime = {0, 1, 2}
  Version = {1, 2, 3, 4}
  NoFile = NoFile
  MaxCalls = 4
  MaxTime = 3
SPECIFICATION MCSpec
INVARIANTS TypeOK WillExpire NoStrayTimer VersionsApart
PROPERTIES ImplementsStore Expires
