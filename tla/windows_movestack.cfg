SPECIFICATION Spec
CONSTANTS
  c1 = c1
  c2 = c2
  c3 = c3
  m1 = m1
  m2 = m2
  None = None
  Clients = {c1, c2}
  Unmanaged = {}
  WantsFocus = {}
  Monitors = {m1}
  Layers = {}
  TopLayers = {}
  Overlays = {}
  TagCount = 2
  Parent <- NoParents
  Modal = {}
  Rules <- NoRules
  Late = {}
  Bound = {"view", "movestack"}
  TagMasks <- OneTag
  StackSteps <- UpAndDown
INVARIANTS
  BothListsHoldTheMapped
CHECK_DEADLOCK FALSE
