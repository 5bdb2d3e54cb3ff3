SPECIFICATION BacklogSpec
CONSTANTS
  Dates <- MC_Dates
  Sizes = {1, 2}
  MaxPerRun = 1
  MaxTroubles = 1
  MaxTools = 1
INVARIANTS
  
  ReceiptsPinned
PROPERTIES
  WholeDatesBackedUp
