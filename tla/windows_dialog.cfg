SPECIFICATION Spec
CONSTANTS
  c1 = c1
  c2 = c2
  c3 = c3
  m1 = m1
  m2 = m2
  None = None
  Clients = {c1, c2}
  Unmanaged = {}
  WantsFocus = {}
  Monitors = {m1, m2}
  Layers = {}
  TopLayers = {}
  Overlays = {}
  TagCount = 2
  Parent <- DialogOfC1
  Modal = {c2}
  Rules <- NoRules
  Late = {}
  Bound = {"view", "focusmon", "tagmon"}
  TagMasks <- AllMasks
  StackSteps = {1}
INVARIANTS
  ShownIffVisible
CHECK_DEADLOCK FALSE
