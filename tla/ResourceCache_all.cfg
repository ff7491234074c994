SPECIFICATION Spec
CONSTANTS
  Tasks = {t1, t2}
  Keys = {k1, k2}
  MaxSize = 1
  MaxPuts = 3
  MaxStarts = 1
INVARIANTS NoMetaBeforeFile BoundedWhenQuiet
