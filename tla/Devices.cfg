SPECIFICATION Spec
CONSTANTS
  MaxCaptures = 3
  MaxSetups = 2
  MaxClicks = 3
CHECK_DEADLOCK FALSE
INVARIANTS
  NoLostCapture
  ShownIsTrue
  ProducersAsChosen
