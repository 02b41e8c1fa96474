SPECIFICATION Spec
CONSTANTS
  r = r
  s = s
  t = t
  b = b
  u = u
  w = w
  Plain = {r}
  Typed = {s, t}
  Second = {u, w}
  Bools = {b}
  Programs <- MCPrograms
  Codes = {0, 1, 10}
  Given = {"failed to get stat"}
  MaxOps = 2
INVARIANTS
  ResultInv
PROPERTIES
  CostsAsStated
  LooksEager
