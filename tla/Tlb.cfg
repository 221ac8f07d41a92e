CONSTANTS
  Env = {e1, e2}
  VA = {0, 1, 2}
  PDX <- MCPDX
  Page = {p1, p2, p3, p4, p5}
  RefMod = 16
  Nil = Nil
  CPU = {c0, c1}
  Care = TRUE
SYMMETRY Symmetry
SPECIFICATION TlbSpec
INVARIANTS AllAccounted TlbFresh
PROPERTIES WriteNotRegained
