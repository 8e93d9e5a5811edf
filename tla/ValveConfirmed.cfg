SPECIFICATION Spec
CONSTANTS
  Diagram = {d1}
  Toggles = {t1}
  MaxInFlight = 2
  MaxBreaks = 1
PROPERTY
  ConfirmedOrder
