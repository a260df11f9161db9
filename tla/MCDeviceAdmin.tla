--------------------------- MODULE MCDeviceAdmin ---------------------------
EXTENDS DeviceAdmin, TLC
\* Ids, boards and forms are only compared: exchanging two of a kind is sound.
Symmetry == Permutations(Ids) \cup Permutations(Boards) \cup Permutations(Forms)
=============================================================================
