CONSTANTS
  Procs = {p1, p2}
  RefreshPolicy = "rotate"
  NoToken = NoToken
  MaxGrants = 2
SPECIFICATION Spec
SYMMETRY Symmetry
INVARIANTS TypeOK IInv KeyringAlive SingleHeir BoundedRefresh
PROPERTIES KeyringForward BatonSpec
