SPECIFICATION Spec
CONSTANTS
  Length = 3
  PipeSize = 1
PROPERTIES
  PipelineEnds
CHECK_DEADLOCK FALSE
