SPECIFICATION Spec
CONSTANTS
  Subjects = {"boms", "accounts", "purchases", "matching", "vendors", "papers", "portal", "tender", "payable", "shipping", "einvoice", "eway", "external", "records", "credits", "journey", "replies", "quotes", "decisions", "answers"}
  Nothing = Nothing
  a1 = a1
  a2 = a2
  a3 = a3
  v1 = v1
  v2 = v2
  v3 = v3
  m1 = m1
  m2 = m2
SYMMETRY Symmetry
CHECK_DEADLOCK FALSE
INVARIANTS StructuresSound PurchasesSound VendorsSound FilingsSound LeadsSound
