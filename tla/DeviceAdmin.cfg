SPECIFICATION Spec
CONSTANTS
    Ids = {i1, i2}
    Boards = {b1, b2}
    Pins = {0}
    Forms = {f1, f2}
    None = None
    MaxRows = 2
SYMMETRY Symmetry
INVARIANTS TypeOK NeverAhead AgreesUnlessOvertaken OneDevicePerContact
CHECK_DEADLOCK FALSE
