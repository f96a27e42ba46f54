SPECIFICATION PortSpec
CONSTANTS
  TxSize = 2
  RxSize = 32
  ReadSizes = {3, 8}
  MaxLostXon = 1
INVARIANTS PortTypeOK  DataAnnounced InStep
 
CHECK_DEADLOCK FALSE
