SPECIFICATION FairSpec
CONSTANTS
  NumMailBoxes = 4
  numTxMailboxes = 2
  sizeTxBuffer = 2
  sizeRxBuffer = 2
  MaxTx = 4
  MaxRx = 3
INVARIANTS
  TypeOK
  TxNeverStalls
  RxInOrder
PROPERTIES
  TxIsWindow
  AcceptedIsSent
CHECK_DEADLOCK FALSE
