CONSTANTS
  alice = alice
  bob = bob
  carol = carol
  Person = {alice, bob, carol}
  Colour = {"red", "blue"}
  DefaultColour = "red"
  Text = {"c"}
  Containing <- MCContaining
  InitialView <- MCInitialView
  MaxChanges = 2
  MaxRefusals = 1
  MaxGestures = 3
SPECIFICATION ServedSpec
CONSTRAINT OneBusy
INVARIANT
  ScreensInvariant
PROPERTIES
  EventuallyCurrent
CHECK_DEADLOCK FALSE
