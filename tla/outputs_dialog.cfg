SPECIFICATION OutputsSpec
CONSTANTS
  c1 = c1
  c2 = c2
  m1 = m1
  m2 = m2
  m3 = m3
  l1 = l1
  u1 = u1
  None = None
  Clients = {c1, c2}
  Unmanaged = {}
  WantsFocus = {}
  Monitors = {m1, m2}
  Layers = {}
  TopLayers = {}
  Overlays = {}
  TagCount = 1
  Parent <- DialogOfC1
  Modal = {c2}
  Rules <- NoRules
  Late = {}
  Bound = {"focusmon"}
  TagMasks <- OneTag
  StackSteps = {1}
INVARIANTS
  NoFreedMonitor
CHECK_DEADLOCK FALSE
