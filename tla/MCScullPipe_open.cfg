SPECIFICATION Spec
CONSTANTS
  r1 = r1  r2 = r2  w1 = w1  w2 = w2  a = a  b = b
  Procs = {r1, w1}
  Readers = {r1}
  Writers = {w1}
  NonBlock = {}
  Pollers = {}
  Async = {}
  Signalled = {}
  BufferSize = 2
  MaxCount = 1
  Data = {a}
  Junk = Junk
  OpenDuringWrite = TRUE
INVARIANTS NoLostSpaceWakeup
