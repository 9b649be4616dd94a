SPECIFICATION LotSpec
CONSTANTS
  Cases <- AllCases
  CloseSizes = {1, 3, 4}
  MaxCloses = 2
INVARIANT OrdersAreTradable
 
INVARIANT PartialsKeepShare
CHECK_DEADLOCK FALSE
