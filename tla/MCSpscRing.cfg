CONSTANTS
  a = a
  b = b
  Items <- MCItems
  NoItem = NoItem
  Capacity = 2
  IndexMod = 4
  MaxPushes = 6
SPECIFICATION RingSpec
INVARIANTS RingInv NoDataRace FifoOrder
PROPERTIES HonestFailures ImplementsFifo
