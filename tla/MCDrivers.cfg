SPECIFICATION Spec
CONSTANTS
  p1 = p1  p2 = p2  p3 = p3
  n1 = n1  n2 = n2  n3 = n3  w0 = w0
  s1 = s1  s2 = s2  c1 = c1  c2 = c2  echo = echo
  None = None
PROPERTIES DiskProgresses ImplementsWire Drains
