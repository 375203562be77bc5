SPECIFICATION Spec
CONSTANTS
  None = None
  Vouchers = {v1, v2, v3}
  Clients = {k1, k2}
  Members = {m1, m2}
  Periods = {q1}
  Families = {"journal"}
  Amounts = {1}
  MaxEdits = 1
SYMMETRY LedgerSymmetry
INVARIANTS TypeOK GaplessNumbers ReversedOnce
PROPERTIES PostedInOpenPeriod ImplementsJournal
