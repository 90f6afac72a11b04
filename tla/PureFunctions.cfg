SPECIFICATION Spec
CONSTANTS
    Names = {"a", "b", ".", ".."}
    Depth = 4
    Numbers <- SettingNames
    Default <- SettingDefaults
INVARIANT RailsExact
INVARIANT LoadedUsable
INVARIANT TextsKept
CHECK_DEADLOCK FALSE
