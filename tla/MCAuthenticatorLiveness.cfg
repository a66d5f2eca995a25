CONSTANTS
  rp1 = rp1
  u1 = u1
  u2 = u2
  c1 = c1
  c2 = c2
  c3 = c3
  r1 = r1
  r2 = r2
  r3 = r3
  None = None
  RPs <- MCRPs
  Users <- MCUsers
  CredIds <- MCCredIds
  Requests <- MCRequestsThree
  Commands <- MCFaultCommands
  Faults <- MCAllFaults
SPECIFICATION AnsweringSpec
PROPERTY
  EveryRequestReturns
