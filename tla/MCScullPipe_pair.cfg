SPECIFICATION Spec
CONSTANTS
  r1 = r1  r2 = r2  w1 = w1  w2 = w2  a = a  b = b
  Procs = {r1, w1}
  Readers = {r1}
  Writers = {w1}
  NonBlock = {}
  Pollers = {w1}
  Async = {r1}
  Signalled = {w1}
  BufferSize = 3
  MaxCount = 3
  Data = {a, b}
  Junk = Junk
  OpenDuringWrite = FALSE
INVARIANTS TypeOK MutualExclusion BufferLivesWhileOpen QueuedOnlyWhileWaiting AsyncOnlyOpen NoLostDataWakeup NoLostSpaceWakeup
PROPERTIES ImplementsFifo
CHECK_DEADLOCK FALSE
