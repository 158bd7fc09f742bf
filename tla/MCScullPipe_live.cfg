SPECIFICATION FairSpec
CONSTANTS
  r1 = r1  r2 = r2  w1 = w1  w2 = w2  a = a  b = b
  Procs = {r1, r2, w1}
  Readers = {r1, r2}
  Writers = {w1}
  NonBlock = {r2}
  Pollers = {}
  Async = {}
  Signalled = {}
  BufferSize = 2
  MaxCount = 1
  Data = {a}
  Junk = Junk
  OpenDuringWrite = FALSE
PROPERTIES LockGranted ReaderResumes WriterResumes
CHECK_DEADLOCK FALSE
