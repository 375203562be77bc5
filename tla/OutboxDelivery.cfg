SPECIFICATION Spec
CONSTANTS
  e1 = e1
  e2 = e2
  e3 = e3
  p1 = p1
PROPERTIES EveryEventDelivered DrainTakesWaitingEvents
CHECK_DEADLOCK FALSE
