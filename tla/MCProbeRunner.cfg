CONSTANTS
  TcpPaths = {"refused", "reply", "silent"}
  UdpPaths = {"reply", "lost"}
SPECIFICATION Spec
INVARIANTS
  RunDiagnosisSound
PROPERTIES
  RunCompletes
