SPECIFICATION Spec
CONSTANTS
  laptop = laptop
  phone = phone
  ann = ann
  r1 = r1
  r2 = r2
  t1 = t1
  t2 = t2
  t3 = t3
  None = None
  Tokens = {t1, t2, t3}
  Families = {laptop, phone}
  Users = {ann}
  UserOf <- LoginsOfAnn
  Requests = {r1, r2}
SYMMETRY AnyToken
INVARIANTS
  TypeOK
  OneUsableToken
  ReuseIsNoFalseAlarm
  OnlyOvertakenRefreshesIssue
PROPERTIES
  OverIsForGood
CHECK_DEADLOCK FALSE
