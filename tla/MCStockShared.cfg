CONSTANTS
  Terminals = {t1, t2}
  Code = {c1, c2}
  Version = {v1, v2}
  Id = {i1, i2}
  UniqueCode = TRUE
  NoRow = NoRow
  NoOne = NoOne
SPECIFICATION Spec
PROPERTIES IsCatalogue HandlersEnd
