SPECIFICATION Spec
CONSTANTS
  Statements = {"", "select"}
  Connectors = {"", "postgresql", "odbc"}
  Options <- MCOptions
  Loaded = {"postgresql"}
  Namespaces <- MCNamespaces
  Folders <- MCFolders
  MaxLines = 4
  MaxJunk = 3
INVARIANTS TypeOK CommandIsScript
PROPERTY ToolEnds
CHECK_DEADLOCK FALSE
