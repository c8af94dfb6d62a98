CONSTANTS
  Hosts <- TwoHosts
  Statuses <- ThreeStatuses
  NoStatus = NoStatus
  Heights = {13, 16, 25}
SPECIFICATION FairSpec
INVARIANTS
  TypeOK
PROPERTIES
  SelectionWithinList
  SelectionStaysOnScreen
  ScreenCatchesUp
