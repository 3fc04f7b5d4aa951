SPECIFICATION Spec
CONSTANTS
  Processes = {p1, p2}
  Requests = {"q"}
  NoRequest = ""
  Keys = {"k1", "k2"}
  KeyOf <- MCKeyOf
  DateOf <- MCDateOf
  KeyNumber <- MCKeyNumber
  Minute = 2
  Skew = 1
  Lifetime = 1
  MaxTime = 3
  MaxFaults = 1
INVARIANTS FewPerMinute
SYMMETRY MCSymmetry
CHECK_DEADLOCK FALSE
