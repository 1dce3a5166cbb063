SPECIFICATION FocusSpec
CONSTANTS
  c1 = c1
  c2 = c2
  m1 = m1
  m2 = m2
  l1 = l1
  l2 = l2
  u1 = u1
  u2 = u2
  None = None
  Clients = {c1, c2}
  Unmanaged = {u1}
  WantsFocus = {u1}
  Monitors = {m1}
  Layers = {l1, l2}
  TopLayers = {l1, l2}
  Overlays = {l2}
  TagCount = 2
  Parent <- NoParents
  Modal = {}
  Rules <- NoRules
  Late = {}
  Bound = {"view", "activate", "lock"}
  TagMasks <- OneTag
  StackSteps = {1}
INVARIANTS
  KeyboardComesBack
PROPERTIES
  OverlayKeepsKeyboard
CHECK_DEADLOCK FALSE
