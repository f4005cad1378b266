SPECIFICATION Spec
CONSTANTS
  Procs = {p1, p2, p3}
  Methods = {"update", "checked_update", "checked_write", "blind_write"}
  NoLock = NoLock
  LockDirWritable = TRUE
  MaxFaults = 1
  MaxStalls = 1
SYMMETRY Symmetry
INVARIANTS
  TypeOK
  MutualExclusion
  RetainedWhileHeld
  NoPhantomWrite
PROPERTY AtomicWhileHeld
