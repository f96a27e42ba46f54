SPECIFICATION Spec
CONSTANTS
  short = short
  long = long
  Message = {short, long}
  NoMessage = NoMessage
  Signatures <- MCSignatures
  Signature <- MCSignature
  HeaderCells = 4
  Payload <- PlainPayload
  MaxLine = 10
  Transmissions = {0, 1, 2, 3, 4}
  MaxFaults = 2
  Timeout = 2
  OtherPorts = TRUE
INVARIANTS TypeOK
PROPERTIES ImplementsLink ReceivedAgain
