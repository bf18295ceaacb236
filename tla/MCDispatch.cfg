SPECIFICATION Spec
CONSTANTS
  Null = Null
  WordSize = 8
  t1 = t1  t2 = t2  p1 = p1  p2 = p2  b1 = b1  b2 = b2  x1 = x1  x2 = x2
  Thread = {t1, t2}
  Process = {p1, p2}
  Owner <- MCOwner
  Place = {x1, x2}
  Block = {b1, b2}
  Description <- MCDescription
  VectorCount = 2
  SystemCallVector = 2
  POSIXVector = 4
  Vector = {0, 1, 3}
  Asked = {2, 21}
  SystemCalls = SystemCalls
  POSIX = POSIX
  Own = Own  Done = Answer  Refused = Answer
  FlagSets <- MCFlagSets
  Junk = Junk
INVARIANTS TypeOK ChainsInOrder TimerIsFirst OneVFS
PROPERTIES  OtherFramesKept CallsAnswered
SYMMETRY MCSymmetry
CHECK_DEADLOCK FALSE
