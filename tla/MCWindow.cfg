SPECIFICATION WindowSpec
CONSTANTS
  Heights = {3}
  Widths = {2, 3}
  TRUST_SIGIL_WIDTH = 1
  Confs <- OneScreen
  Modes <- AllModes
  Windows = {w1, w2}
  Nobody = Nobody
  CloseActive = TRUE
  TwoLogins = FALSE
  Reenter = FALSE
  Files = {file1, file2}
  NoFile = NoFile
  Policies = {"tqt", "gtk"}
  WhileAsking = FALSE
  MaxItems = 3
  text1 = text1 text2 = text2
  Texts <- TwoTexts
  Blank = Blank
  ScreenHeights = {1, 2}
  Profiles <- AllProfiles
INVARIANTS PositionsValid MainCursorKept SessionsSound LinesExist
PROPERTIES LogSound TextKept
SYMMETRY Symmetry
CHECK_DEADLOCK FALSE
