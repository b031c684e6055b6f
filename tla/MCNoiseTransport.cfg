SPECIFICATION TransportSpec
CONSTANTS
  WINDOW_SIZE = 4
  MaxNonce = 9
INVARIANTS
  BitmapIsMemory
PROPERTIES
  ImplementsGuard
