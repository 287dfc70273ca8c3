CONSTANTS
  a1 = a1
  a2 = a2
  Ports <- MCPorts
  Addrs <- MCAddrs
  DataLens = {2}
  MaxDatagrams = 1
  NoReport = NoReport
  NoFile = NoFile
SPECIFICATION Spec
INVARIANTS
  TypeOK
  ConnEventProtocol
PROPERTIES
  Refinement
SYMMETRY MCSymmetry
