SPECIFICATION SettingsSpec
CONSTANTS
    Settings = {s1, s2}
    SettingValues = {"a", "b", "bad"}
    Mistyped = {"bad"}
CHECK_DEADLOCK FALSE
INVARIANT AllOrNothing
