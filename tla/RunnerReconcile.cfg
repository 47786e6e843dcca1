SPECIFICATION Spec
CONSTANTS
  a1 = a1
  a2 = a2
  Orders = {o1}
  Keys = {k1}
  Amounts = {a1, a2}
  Passes = {p1, p2}
  Watched = p1
  Absent = Absent
  Window = 1
  MaxChanges = 2
CONSTRAINTS OneAtATime OthersImport
SYMMETRY Symmetry
INVARIANTS TypeOK
PROPERTIES DifferencesWereReal LastingDifferencesFound ChangesReported
\* The runner may have nothing left to do.
CHECK_DEADLOCK FALSE
