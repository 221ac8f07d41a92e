SPECIFICATION Spec
CONSTANTS
  root = root
  a = a
  b = b
  Env = {root, a, b}
  Root = root
  Text = {1}
  Data = {2}
  Share = {}
  Stack = 3
  XStack = 4
  PFTEMP = pftemp
  Frame = {1, 2, 3, 4, 5, 6, 7}
  Value = {zero, one}
  Zero = zero
  Written = {one}
  Nil = Nil
INVARIANTS CowSound
PROPERTIES ImplementsPrivateMemory
SYMMETRY Children
CHECK_DEADLOCK FALSE
