SPECIFICATION Spec
CONSTANTS
  c1 = c1
  c2 = c2
  c3 = c3
  m1 = m1
  m2 = m2
  None = None
  Clients = {c1, c2, c3}
  Unmanaged = {}
  WantsFocus = {}
  Monitors = {m1}
  Layers = {}
  TopLayers = {}
  Overlays = {}
  TagCount = 1
  Parent <- DialogOfC1
  Modal = {c2}
  Rules <- NoRules
  Late = {}
  Bound = {"movestack", "zoom", "focusstack", "togglefloating", "togglefullscreen", "click"}
  TagMasks <- AllMasks
  StackSteps <- UpAndDown
INVARIANTS
  BothListsHoldTheMapped
PROPERTIES
  KeyboardGoesToTheDialog
CHECK_DEADLOCK FALSE
