SPECIFICATION Spec
CONSTANTS
    Devices = {d1}
    Kinds = {k1}
    Checks = {c1, c2}
    Monitors = {m1}
    Window = 3
    Recheck = 2
    MaxRestarts = 0
INVARIANT OneMailPerWindow
