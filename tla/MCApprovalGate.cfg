SPECIFICATION GateSpec
CONSTANTS
  Agents = {a1}
  Requests = {r1, r2}
  Gates = {g1, g2, g3}
  Plans = {p1}
  Devices = {d1}
  NoGate = NoGate
SYMMETRY Symmetry
INVARIANTS
  WaitingIsAsked
  AnswerIsRecorded
PROPERTIES
  AllowIsAuthorised
