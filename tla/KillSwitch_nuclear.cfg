SPECIFICATION Spec
CONSTANTS
    Conns = {c1}
INVARIANT
    NuclearSurvivesRestart
