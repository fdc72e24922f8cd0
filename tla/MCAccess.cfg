SPECIFICATION Spec
CONSTANTS
  ann = ann
  bob = bob
  cid = cid
  c1 = c1
  c2 = c2
  e1 = e1
  e2 = e2
  e3 = e3
  Users = {ann, bob, cid}
  Companies = {c1, c2}
  CompanyOf <- MCCompanyOf
  FirstAdmin <- MCFirstAdmin
  Founder = c1
  FirstEmail = e1
  Emails = {e1, e2, e3}
  Logins = {l1, l2, l3}
  Callers = {k1}
  Sessions = {s1}
  MaxRequests = 4
  None = None
  Removed = Removed
SYMMETRY Symmetry
VIEW Told
INVARIANTS AlwaysAdmin LoginMatches LoginKept SessionAsGranted
CHECK_DEADLOCK FALSE
