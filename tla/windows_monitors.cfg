SPECIFICATION Spec
CONSTANTS
  c1 = c1
  c2 = c2
  c3 = c3
  m1 = m1
  m2 = m2
  None = None
  Clients = {c1, c2}
  Unmanaged = {}
  WantsFocus = {}
  Monitors = {m1, m2}
  Layers = {}
  TopLayers = {}
  Overlays = {}
  TagCount = 2
  Parent <- NoParents
  Modal = {}
  Rules <- MonitorRules
  Late = {}
  Bound = {"view", "tag", "focusmon", "tagmon", "click", "sloppyfocus", "activate"}
  TagMasks <- OneTag
  StackSteps = {1}
INVARIANTS
  KeyboardIsOnTop
PROPERTIES
  MovedArrivesInView
  ActivateBringsIntoView
CHECK_DEADLOCK FALSE
