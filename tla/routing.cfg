SPECIFICATION Spec
SYMMETRY Symmetry
CONSTANTS
  Rooms = {r1, r2}
  NoRoom = NoRoom
  Names = {n1, n2}
  TokenNames = {t1}
  Endpoints = {gotify, slack}
  Kinds = {gotify}
  Requests = {q1}
  Creations = {c1}
  MaxChannels = 2
  MaxTokens = 2
  MaxTime = 1
INVARIANTS RoutingTypeOK RoutedByItsToken LeftRoomsAreUnbound
PROPERTIES RoutesKept
