SPECIFICATION Spec
CONSTANTS
  r1 = r1  r2 = r2
  g1 = g1  g2 = g2  g3 = g3  g4 = g4  o1 = o1  o2 = o2
  p1 = p1  p2 = p2  s1 = s1  a = a  b = b  n1 = n1  n2 = n2  n3 = n3
  NoOrder = NoOrder
  MaxInt <- MCMaxInt
  Receipts = {g1, g2, g3, g4}
  Orders = {o1, o2}
  Positions = {p1, p2, s1}
  Products = {a, b}
  ProductOf <- MCProductOf
  Capacity <- MCCapacity
  Number <- MCNumber
  Requests = {r1, r2}
  Operations <- RaceOperations
  Openings <- RaceOpenings
INVARIANT RolledBackEmitsNothing
CHECK_DEADLOCK FALSE
