SPECIFICATION Spec
CONSTANTS
    Bauds <- MCBauds
    Target <- MCTarget
    NmeaOff = 2
    UbxOn = 2
    Wire = 2
    GnssModes = {2}
INVARIANTS
    ConfiguredBeforeUse
PROPERTIES
    DialogueServes
