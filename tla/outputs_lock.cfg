SPECIFICATION OutputsSpec
CONSTANTS
  c1 = c1
  c2 = c2
  m1 = m1
  m2 = m2
  m3 = m3
  l1 = l1
  u1 = u1
  None = None
  Clients = {c1}
  Unmanaged = {u1}
  WantsFocus = {u1}
  Monitors = {m1, m2}
  Layers = {l1}
  TopLayers = {l1}
  Overlays = {}
  TagCount = 1
  Parent <- NoParents
  Modal = {}
  Rules <- NoRules
  Late = {}
  Bound = {"focusmon", "lock", "power", "click", "menuclick"}
  TagMasks <- OneTag
  StackSteps = {1}
INVARIANTS
  ExclusiveIsUp
  FocusIsAlive
PROPERTIES
  LockedOut
CHECK_DEADLOCK FALSE
