SPECIFICATION MCSpec
CONSTANTS
  rd = rd
  w1 = w1
  w2 = w2
  Readers = {rd}
  Writers = {w1, w2}
  INPUT_BUF_SIZE = 2
  UART_TX_BUF_SIZE = 2
  Wrap = 4
  Sessions <- MCSessions
  MaxN = 2
  Handler = handler
  None = none
  NCPU = 2
  NTHREAD = 2
  MaxTicks = 2
  Sleepers = {1}
  Null = null
INVARIANTS IntrExact TickWakes
PROPERTIES TtySpec ConsProgress
