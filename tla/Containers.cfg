SPECIFICATION Spec
CONSTANTS
  Items = {x, y}
  MapValues = {0, 1}
  CellValues = {0, 1}
  Null = Null
  Queues = {q1, q2}
  Nodes = {n1, n2, n3, n4}
  SizeValues = 8
  Keys = {1, 2, 3, 4}
  Wild = Wild
  MaxEntries = 4
  MapDefault = 0
  CellDefault = 0
  Moved = Moved
  MaxSize = 4
  MaxNumber = 3
  MaxTurns = 7
  Curries = {c1, c2}
  Locals = {x1}
  ArgValues = {a1, a2}
  MovedFrom = MovedFrom
  Arity = 3
  TypeNames = {t1, t2}
  TypeSizes = {1, 4}
  not_found_t = not_found_t
  MaxPack = 4
  Buffers = {b1, b2}
  Spans = {s1, s2}
  Arrays = {m1, m2}
  NoArray = NoArray
  MaxItems = 3
INVARIANTS QueuesIntact EntryOfKey SquareIntact RangeLoopsEnd AppliedAsGiven
           PackSearchesExact SpansInside
