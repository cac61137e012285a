CONSTANTS
  File = {f}
  Contents = {x, y}
  ExpTime = {0, 1}
  Version = {1, 2}
  NoFile = NoFile
  MaxCmds = 3
  MaxTime = 2
SPECIFICATION Spec
CONSTRAINT Bounded
SYMMETRY Symmetry
INVARIANT SameState
