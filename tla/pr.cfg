CONSTANTS
  k1 = k1
  s1 = s1
  s2 = s2
  s3 = s3
  Key = {k1}
  Sum = {s1, s2, s3}
  Modes = {TRUE, FALSE}
  Imports = {2}
  MayCrash = TRUE
  MaxQueue = 1
  MaxValue = 3
SPECIFICATION Spec
SYMMETRY SumSymmetry
INVARIANTS
  DecrementsOnlyByCrash
  NewOrHistorical
  DistinctSums
  RestIsCommitted
