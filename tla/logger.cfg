SPECIFICATION LogSpec
CONSTANTS
  Threads = {t1, t2}
  Paths = {p1, p2}
  Bases = {b1}
  Pieces = {1, 3, 5}
  MaxSize = 2
  Small = 4
  Large = 11
  NumberSize = 3
  MaxNumber = 1
  MaxLines = 6
  MaxSeconds = 1
  MaxSets = 2
  MaxPieces = 3
SYMMETRY LogSymmetry
INVARIANTS LinesKept OlderIsHigher RoomForZero
CHECK_DEADLOCK FALSE
