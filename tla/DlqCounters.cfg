SPECIFICATION Spec
CONSTANTS
  Pools = {p1}
  Lines = {l1}
  Vdevs = {v1}
  Readings = {0, 1, 2}
  Prose = {s1}
  KernelLines = {k1}
  MaxSize = 3
  Window = 2
  MaxClock = 3
PROPERTIES
  CountersAreReported
