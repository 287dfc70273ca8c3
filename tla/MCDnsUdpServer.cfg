CONSTANTS
  Clients = {c1, c2, c3}
  Queries <- MCQueries
  MaxDup = 2
SYMMETRY ClientSymmetry
SPECIFICATION Spec
INVARIANTS ReplyMatchesQuery
