SPECIFICATION Spec
CONSTANTS
  Threads = {th1, th2}
  Strings = {s1, s2, s3}
  Blocks = {b1, b2}
  Null = Null
  ShortMax = 1
  Characters = {"a", "b"}
  Literals <- MCLiterals
  Sizes = {0, 1, 2}
  Unset = Unset
  NestedSubstr = TRUE
  MaxLength = 3
  MaxRefcount = 3
INVARIANT SubstrExact
