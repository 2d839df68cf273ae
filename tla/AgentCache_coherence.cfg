SPECIFICATION Spec
CONSTANTS
  Agents = {a1}
  Requests = {r1, r2}
  Roles = {p1, p2}
  NoAgent = NoAgent
  NoRecord = NoRecord
  Wanted = {"online", "away_manual"}
  MaxStarts = 3
SYMMETRY Interchangeable
INVARIANT Coherent
INVARIANT ReadYourWrites
