CONSTANTS
  TcpPaths = {"refused", "blackholed", "reset", "reply", "closed", "silent"}
  UdpPaths = {"unreachable", "reply", "lost"}
SPECIFICATION Spec
INVARIANTS
  ClaimsMeanReplies
