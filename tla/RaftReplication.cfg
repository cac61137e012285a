CONSTANTS
  Server = {s1, s2, s3}
  Nobody = Nobody
  Cmd = {c1, c2}
  MaxTerm = 2
  MaxLog = 2
  MaxChan = 2
  MaxMsgs = 2
  MaxRedirects = 0
SPECIFICATION Spec
CONSTRAINTS Bounded NoRivals CommandPerTerm
SYMMETRY Symmetry
INVARIANTS TypeOK LogMatching MatchTruthful StateMachineSafety CommitChOrdered LeaderCompleteness
