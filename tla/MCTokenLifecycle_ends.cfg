CONSTANTS
  Procs = {p1, p2}
  RefreshPolicy = "overlap"
  NoToken = NoToken
  MaxGrants = 1
SPECIFICATION FairSpec
INVARIANT IInv
PROPERTY CommandEnds
