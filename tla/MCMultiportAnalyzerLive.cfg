CONSTANTS
  a1 = a1
  a2 = a2
  Ports <- MCPortsTcp
  Addrs <- MCAddrs
  DataLens = {2}
  MaxDatagrams = 0
  NoReport = NoReport
  NoFile = NoFile
SPECIFICATION Spec
PROPERTIES
  HandlersFinish
