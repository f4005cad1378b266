SPECIFICATION Spec
CONSTANTS
  Procs = {p1, p2, p3}
  Methods = {"update"}
  NoLock = NoLock
  LockDirWritable = TRUE
  MaxFaults = 1
  MaxStalls = 0
INVARIANT NoLostUpdate
