SPECIFICATION Spec
CONSTANTS
  Subjects = {"pair", "held", "routing", "orders", "plant", "logbook", "overlapped", "cleared", "fields", "access", "platform", "desk", "intake", "store", "gate", "recipes", "percent"}
  Nothing = Nothing
  a1 = a1
  a2 = a2
  a3 = a3
  v1 = v1
  v2 = v2
  m1 = m1
  m2 = m2
SYMMETRY Symmetry
CHECK_DEADLOCK FALSE
INVARIANTS PlantTypes InboxSound ReviewedCompletionHasQa RoutingSound QuantitiesKept NoDoubleBooking StatusTellsPlanning DispatchBacked LogbooksKept AccountsSound DeskSound
PROPERTIES FinalStatesStay
