SPECIFICATION Spec
CONSTANTS
  CommandLines <- MCCommandLines
  Scripts <- MCScripts
  DEFAULT_BLOCK_SIZE = 64
  MAX_INDENT_LEVELS = 3
  YYINITDEPTH = 8
  YYMAXDEPTH = 20
INVARIANTS ScannerAgrees NoStaleText ArenaOK Released ParsesBack
PROPERTY Exits
CHECK_DEADLOCK FALSE
