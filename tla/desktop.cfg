SPECIFICATION DesktopSpec
CONSTANTS
  NoTag = "none"
  IdCount = 3
  QueueMax = 2
  HistMax = 1
  Kinds <- Messages
  Picking = {"actions", "dismiss", "open", "dismissall"}
  TimerMayFail = TRUE
  SeatGroup = "seat"
  Groups = {"seat", "virtual"}
  Codes = {"toggle", "inhibit", "escape"}
  Bound <- Binds
  Closing = {"escape"}
  NoKey = "nokey"
  MaxKeys = 2
  Wins = {"a", "m"}
  Unmanaged = {"m"}
  Mons = {"m1", "m2"}
  PointerButtons = {"left", "right"}
  Nobody = "nobody"
  Surfaces = {"s", "t", "u"}
  OneShot = {"s"}
  Nothing = "nothing"
  BoundSwipes = {3}
  BoundPinches = {2}
  Fingers = {2, 3}
  ZoomMax = 3
  OutputSizes = {"hd", "uhd"}
  NoSize = "nosize"
  Tools = {"pen", "totem"}
  Totems = {"totem"}
  PenButtons = {"stylus"}
  Points = {"f1", "f2"}
  Drawables = {"paint", "web", "locker"}
  LockSurface = "locker"
  TabletAware = {"paint"}
  TouchAware = {"web"}
  Nowhere = "nowhere"
  Pads = {"pad", "lonely"}
  Tablets = {"t1", "t2", "t3"}
  GroupOf <- DeviceGroups
  V2Tablets = {"t1", "t3"}
  PadSurfaces = {"paint", "web"}
  TakesTablets = {"paint"}
  NoTablet = "notablet"
  NoFocus = "nofocus"
  Fields = {"f", "g"}
  FocusSurfaces = {"s", "t"}
  ClientOf <- Owner
  Popups = {"p", "q"}
  NoSurface = "nosurface"
  NoField = "nofield"
  Names = {"n", "o"}
  Screens = {"s"}
  Pixmaps = {"p"}
  NoIcon = "noicon"
  NoName = "noname"
  Addresses = {"a1", "a2"}
  MaxAsked = 3
  Items = {"i"}
  MenuIds = {1, 2}
  Layouts <- MenuAnswers
  Extract <- menu_extract
  Levels <- MenuLevels
  ITEMS_MAX = 2
  NoMenu = 0
  NoItem = "noitem"
  Letters = {}
  Lead = "L"
  Cont = "C"
  Blank = " "
  Mark = ">"
  Apps <- AppNames
  Commands <- CommandNames
  BufferSize = 4
  HistorySizes = {0, 2}
  Keys = {"1", "2", "+", "-", "*", "%", "(", ")"}
  MaxLine = 5
  MAXDEPTH = 3
  Lines <- StatusLines
  EOL = "n"
  Cap = 11
  TooLong = TooLong
  Version <- ProgramName
  MaxPipe = 21
  AreaButtons = {"1", "4"}
  PWindows = {"w", "v"}
  POutputs = {"o"}
  Titled = {"w"}
  Sources = {"w", "o"}
  Frames = {1}
  MAXBOXES = 3
  NoWindow = "none"
INVARIANTS
  LiveIdsAreDistinct
  TimerFollowsTheBox
  RepeatIsHeld
  DragHasAWindow
  OneConstraintIsActive
  ClientSeesWholeGestures
  ZoomIsConsistent
  NothingStaysPressed
  PadsFollowTheKeyboard
  TheFieldServedHasTheFocus
  PaintedTraysAreCurrent
  MenusAreAnsweredOnce
  EveryPlaceIsInside
  ComputesTheGrammar
  ClickFindsTheAreaDrawn
PROPERTIES
  EveryLossIsReported
  NothingTakesTheHeldBox
  CriticalGoesFirst
  ClickSendsTheRowClicked
  ReadsLineByLine
  SharedIsMasked
CHECK_DEADLOCK FALSE
