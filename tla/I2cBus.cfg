CONSTANTS
  Bits = 3
  SLAVE_ADDR = 6
  MaxLen = 2
  Starts <- McStarts
  Data <- McData
SPECIFICATION BusSpec
INVARIANTS
  BusIsLeftFree
PROPERTIES
  StartsAndStopsAsMeant
  RegistersAsPromised
