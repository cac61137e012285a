CONSTANTS
  Server = {s1, s2, s3}
  Nobody = Nobody
  Cmd = {c1}
  MaxTerm = 2
  MaxLog = 0
  MaxChan = 2
  MaxMsgs = 4
  MaxRedirects = 0
SPECIFICATION Spec
CONSTRAINTS Bounded
SYMMETRY Symmetry
INVARIANTS ElectionSafety ElectedByMajority OneVotePerTerm TallyHonest
PROPERTIES LeaderKeepsTerm VoteFixed ImplementsElection
