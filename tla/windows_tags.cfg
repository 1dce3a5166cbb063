SPECIFICATION FairSpec
CONSTANTS
  c1 = c1
  c2 = c2
  c3 = c3
  m1 = m1
  m2 = m2
  None = None
  Clients = {c1, c2}
  Unmanaged = {}
  WantsFocus = {}
  Monitors = {m1}
  Layers = {}
  TopLayers = {}
  Overlays = {}
  TagCount = 2
  Parent <- NoParents
  Modal = {}
  Rules <- AllRules
  Late = {c1, c2}
  Bound = {"view", "toggleview", "tag", "toggletag", "shiftview", "shifttag", "focusstack", "fullscreen", "togglefullscreen", "urgent", "activate"}
  TagMasks <- AllMasks
  StackSteps = {1}
INVARIANTS
  EverythingHasATag
  ShownIffVisible
  KeyboardFollowsView
  TaskbarFollowsKeyboard
PROPERTIES
  InViewIsDrawn
CHECK_DEADLOCK FALSE
