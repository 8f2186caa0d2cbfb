SPECIFICATION Spec
CONSTANTS
  Tasks = {t1, t2, t3}
  NoTask = NoTask
  Objects = {1, 2, 3}
  Stores = {3}
  Layers = {4}
  RootLayers = {5}
  Journal = 6
  Filesystem = 7
  Requests = {{}, {1}, {1, 2}}
  MaxCalls = 1
  MaxRepoll = 0
SYMMETRY TaskSymmetry
CHECK_DEADLOCK FALSE
INVARIANT
  NoCircularWait
