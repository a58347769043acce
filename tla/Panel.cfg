\* From the registry to the panel, which is held still, with fairness.
SPECIFICATION PanelSpec
CONSTANTS
    clusters0 = clusters0
    clusters1 = clusters1
    None = None
    Readings <- Upright
    MaxVersion = 2
PROPERTIES
    LitNeverGoesBack
    ChangeIsLit
    ModeIsLit
