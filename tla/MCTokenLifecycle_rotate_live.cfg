CONSTANTS
  Procs = {p1}
  RefreshPolicy = "rotate"
  NoToken = NoToken
  MaxGrants = 2
SPECIFICATION Spec
INVARIANT LivePresented
