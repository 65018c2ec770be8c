SPECIFICATION HSpec
CONSTANTS
  Devices = {d1}
  Paths <- OnePath
  Values = {off, on}
  Missing = Missing
  MaxMonotonic = 1
  MaxGeneration = 1
  MaxOffers = 3
INVARIANTS TypeOK GenerationCoversFields ShowsGreatestOffer
PROPERTIES LanNeverRolledBack ChangedIffVisible ImplementsMergedView
