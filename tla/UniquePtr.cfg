SPECIFICATION Spec
CONSTANTS
  Pointers = {p1, p2}
  Objects = {o1, o2}
  Null = Null
INVARIANT DeletedOnce
