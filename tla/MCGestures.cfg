\* Four events of two buttons, the keyboard or the focus, and a change of the view, a
\* resize, a switch of presentation or a broken connection.
SPECIFICATION Spec
CONSTANTS
  None = None
  Buttons = {0, 1}
  MaxEvents = 4
  MaxWork = 1
  MaxResizes = 1
  MaxToggles = 1
  MaxBreaks = 1
  MaxDisturbances = 1
INVARIANTS TypeOK GesturesMatch GestureEnds
CHECK_DEADLOCK FALSE

