SPECIFICATION ExtraLiveSpec
CONSTANTS
    ExtraSpecs <- TwoExtraSpecs
    AppName = "automium-monitoring"
    Specs <- AppSpecs
    NoApp = NoApp
    NotInstalled = NotInstalled
    NoExtra = NoExtra
    MaxEdits = 2
    MaxFaults = 1
INVARIANTS ExtraTypeOK SleepsOnlyOnFailure ExtraSettled
PROPERTIES DeployedIsEarned ApplicationFollows RolledOut
CONSTRAINT FewEvents
CHECK_DEADLOCK FALSE
