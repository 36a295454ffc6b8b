SPECIFICATION HangingSpec
CONSTANTS
    Controllers = {c1}
    MaxTasks = 4
INVARIANTS
    RunningWhileActive
PROPERTY
    NextPassComes
