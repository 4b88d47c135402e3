SPECIFICATION Spec
CONSTANTS
  r1 = r1  r2 = r2  r3 = r3  c1 = c1  c2 = c2  n1 = n1  n2 = n2
  t1 = t1  k1 = k1  k2 = k2  code1 = code1
  w1 = w1  w2 = w2  w3 = w3  l1 = l1  l2 = l2  l3 = l3  l4 = l4
  b1 = b1  b2 = b2  u1 = u1  u2 = u2  s1 = s1  s2 = s2  p1 = p1  p2 = p2
  ca1 = ca1  ca2 = ca2  cu1 = cu1  cu2 = cu2
  None = None
  Companies = {c1, c2}
  Names = {n1, n2}
  Texts = {t1}
  Barcodes = {t1, k1}
  Capacities = {1}
  Options = {n1, n2}
  Warehouses = {w1, w2, w3}
  Locations = {l1, l2, l3, l4}
  Brands = {b1, b2}
  Categories = {ca1, ca2}
  Units = {u1, u2}
  Suppliers = {s1, s2}
  Customers = {cu1, cu2}
  Products = {p1, p2}
  CompanyOf <- MCCompanyOf
  CodeOf <- MCCodeOf
  WarehouseOf <- MCWarehouseOf
  Requests = {r1, r2, r3}
  Scenes <- MCScenes
SYMMETRY RequestSymmetry
INVARIANTS TypeOK ActiveIsReady KeysUnique AnswersAreTrue
PROPERTIES HoldsStand ArchivedStand ChangesBuildOnReads
CHECK_DEADLOCK FALSE
