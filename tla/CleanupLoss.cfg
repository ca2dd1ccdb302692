SPECIFICATION WorkspaceSpec
CONSTANTS
  Owned = {"src", "gen"}
  Ignored = {"gen"}
  Foreign = {"other"}
  MaxEdits = 1
INVARIANT UncapturedIsKept
CHECK_DEADLOCK FALSE
