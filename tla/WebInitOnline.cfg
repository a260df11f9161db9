SPECIFICATION Spec
CONSTANTS
    Faults = TRUE
    LinkDrops = FALSE
PROPERTIES ReadyIsOnline
