CONSTANTS
  rp1 = rp1
  rp2 = rp2
  u1 = u1
  c1 = c1
  c2 = c2
  c3 = c3
  None = None
  RPs <- MCRPs
  Users <- MCUsers
  CredIds <- MCCredIds
  Faults <- MCNoFaults
SYMMETRY MCSymmetry
INIT EngineInit
NEXT EngineNext
INVARIANT
  EngineUsable
