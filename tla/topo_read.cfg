CONSTANTS
  Iface = {1, 2, 3, 4, 5, 6, 7, 8}
  Kind <- Kinds
  Physfn <- TwoCards
  Names = {11, 12, 13, 14, 15, 16, 17, 18, 19}
  Order <- Orders
  Movable = {1, 2, 4}
  Freed = {2, 3, 4}
  Late = {4}
  Wirings <- AllWirings
  Plain <- Straight
  Burst = 1
  DriverOf <- Driver
  Number <- Numbers
  Table <- Rows3
  Locked = {}
  Assumed = 4
SPECIFICATION Spec
INVARIANT TypeOK UndisturbedIsRight OneClaim WireStaysOut FunctionsAreExcluded LimitsAreHeld
