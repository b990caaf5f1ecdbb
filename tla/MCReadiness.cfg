SPECIFICATION Spec
CONSTANTS
  p1 = p1
  p2 = p2
  Probes = {p1, p2}
  Deadline = 100
  ClientTimeout = 50
  Period = 100
  MaxUp = 20
SYMMETRY MCSymmetry
INVARIANTS TypeOK OverrunBounded NoPileUp RecoveryNoticed
