CONSTANTS
  Server = {s1, s2, s3}
  Nobody = Nobody
  Cmd = {c1}
  MaxTerm = 1
  MaxLog = 0
  MaxChan = 1
SPECIFICATION RestartSpec
CONSTRAINT Bounded
SYMMETRY Symmetry
INVARIANT OneVotePerTerm
