SPECIFICATION Spec
CONSTANT Off = Off
INVARIANTS
  CfInv
  RowsAreTheirs
  PortsInv
  DiscoverInv
  DrawsEachOnce
  PlanFits
  PacingInv
