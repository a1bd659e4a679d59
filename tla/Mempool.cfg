CONSTANTS
  Lcores = {l1, l2}
  Objs = {o1, o2, o3, o4, o5, o6}
  cache_size = 3
  RTE_MEMPOOL_CACHE_MAX_SIZE = 3
  Requests = {1, 2, 4}
SPECIFICATION Spec
SYMMETRY Symmetry
INVARIANTS ObjectsConserved CacheBounded
PROPERTIES SizedPoolServes
