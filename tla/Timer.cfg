CONSTANTS
  MaxStarts = 3
  MaxEvents = 3
SPECIFICATION Spec
INVARIANTS OneShot
PROPERTIES LifeContract TimerTicks
CHECK_DEADLOCK FALSE
