CONSTANTS
  Payloads <- MCPayloads
  Cuts = {1, 2, 12}
SPECIFICATION Spec
PROPERTIES HandlerEnds
