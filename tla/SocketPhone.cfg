\* Two turns share the phone and make three calls; the socket may close.
SPECIFICATION BothSpec
CONSTANTS
  t1 = t1
  t2 = t2
  Turns <- TwoTurns
  MaxCalls = 3
  Screens <- ShopScreens
  Names <- ShopNames
  MaxWindows = 2
  MaxCaptures = 3
  MAX_STEPS = 2
INVARIANTS
  TableInv
  PaymentIsLeftAlone
  StepsStayOnTheirScreen
PROPERTIES
  DisconnectsReleaseCalls
CHECK_DEADLOCK FALSE
