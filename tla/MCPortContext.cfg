SPECIFICATION Spec
CONSTANTS
  Tasks = {"A", "B"}
  Depth = 1
  Values = {1}
INVARIANT FrameBase
