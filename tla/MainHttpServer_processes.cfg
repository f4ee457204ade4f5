\* Two processes on one machine, two handlers each.
CONSTANTS
  p1 = p1  p2 = p2  w1 = w1  w2 = w2
  Processes = {p1, p2}
  Workers = {w1, w2}
  d1 = d1  d2 = d2  n1 = n1  n2 = n2
  Directories = {d1, d2}
  Ports = {n1, n2}
  Options <- MCOptions
  NoOptions = NoOptions
  Nobody = Nobody
  MayHang = TRUE
SPECIFICATION FairSpec
INVARIANT HandlersHaveStores
PROPERTY SignalsStop
