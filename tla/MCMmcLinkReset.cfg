SPECIFICATION Spec
CONSTANTS PowerUpClocks = 9 SectorSize = 3 Capacity = 2 SectorSpace = 4 Disk <- MCDisk
DummyBytes = 2 Cmd0Tries = 3 Acmd41Tries = 3 BusyTries = 12 ResponseTries = 3 TokenTries = 3
Requests = {0,1} MaxResets = 1
INVARIANT InitAlwaysSucceeds
