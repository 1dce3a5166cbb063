SPECIFICATION OutputsSpec
CONSTANTS
  c1 = c1
  c2 = c2
  m1 = m1
  m2 = m2
  m3 = m3
  l1 = l1
  u1 = u1
  None = None
  Clients = {c1, c2}
  Unmanaged = {}
  WantsFocus = {}
  Monitors = {m1, m2}
  Layers = {}
  TopLayers = {}
  Overlays = {}
  TagCount = 2
  Parent <- NoParents
  Modal = {}
  Rules <- NoRules
  Late = {}
  Bound = {"tag", "tagmon", "focusmon", "power", "config"}
  TagMasks <- OneTag
  StackSteps = {1}
INVARIANTS
  NoFreedMonitor
  NoWindowIsLost
  LayoutIsSettled
PROPERTIES
  TagsSurviveUnplug
CHECK_DEADLOCK FALSE
