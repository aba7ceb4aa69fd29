SPECIFICATION Spec
CONSTANTS
  Reader = {"r1", "r2"}
  Writer = {"w1", "w2"}
  Byte = {0, 1}
  INPUT_BUF = 2
  UART_TX_BUF_SIZE = 2
  Word = 4
  MaxN = 2
  FifoSize = 3
  None = None
  Loads <- ConsoleLoads
INVARIANTS SleepersMustWait OutputGoesOn
PROPERTIES ImplementsLineInput ImplementsTxQueue
