CONSTANTS
  Enrollments = {e1, e2}
  Rotations = {r1}
  Recoveries = {x1, x2}
  Commands = {m1, m2}
  Tickets = {t1, t2}
  Keys = {k1, k2}
  Requests = {q1}
  Ttl = 1
  Grace = 1
  Freshness = 1
  Workers = {w1}
  SlotKeys = {s1, s2}
  Benchmarks = {b1, b2}
  Digests = {d1, d2}
  Registrations = {g1, g2}
  Qualifications = {n1, n2}
  Offers = {o1}
  Issuances = {i1, i2}
  Handlers = {h1, h2}
  u1 = u1
  u2 = u2
  u3 = u3
  p1 = p1
  p2 = p2
  x = x
  y = y
  Size = 2
  Torn = Torn
  Garbled = Garbled
  None = None
  MaxTime = 2
  MaxFaults = 2
  MaxTears = 1
\* Also true of this instance: TypeOK TicketUsedOnce OneSlotPerKey
\* OneOpenAssignment OneDeclaration, and as properties
\* RecoveryRevokesAll SecurityIsKept MappingsAreForEver.
SPECIFICATION Spec
INVARIANTS SameAnswer AnsweredIsDurable NoExtraGeneration  AcceptanceIsFinal
PROPERTIES RevocationSticks
CHECK_DEADLOCK FALSE
