\* Two requests on a product with room for three images; commits may be lost.
CONSTANTS
  i1 = i1  i2 = i2  i3 = i3  i4 = i4  i5 = i5  w1 = w1  w2 = w2
  Image = {i1, i2, i3, i4, i5}
  MaxImages = 3
  Worker = {w1, w2}
  MaxFaults = 2
SPECIFICATION Spec
SYMMETRY Symmetry
INVARIANTS
  SlotsContiguous
  IndexNeverRefuses
  MissingObjectsNeedLostCommit
  OrphansNeedFaults
