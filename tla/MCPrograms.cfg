SPECIFICATION MCSpec
CONSTANTS
  ScullProcs = {p1}
  Quantum = 2
  QSet = 2
  DataSize = 5
  MaxPos = 6
  Word = 16
  NrDevs = 2
  ProcWriters = {1, 2}
  ValueLen = 3
  TextLen = 3
  MaxTick = 1
  MaxLoads = 2
  HookModules = {"a", "b"}
  HookCallers = {1, 2}
  Kinds = {"real"}
  Nominal = 3
  MaxFires = 2
  MaxFib = 10
  IntMax = 16
  MaxIntr = 2
  MaxShots = 1
  PerSecond = 2
  MaxTicks = 7
  Minute = 2
  Hour = 6
  Day = 12
  MaxUptime = 30
  MaxPeriod = 4
  Runs = {1, 2}
  Mask = 3
  Pids = {"1", "2"}
  Slots = {1}
  VarNames = {"A", "B", "MYSH_DEBUG"}
  Commands = {"x"}
  MaxLines = 4
  BufSize = 5
  ReadSize = 4
  MaxLength = 5
  LinesToScan = 2
  ShPids = {"1", "2", "11"}
  ErrnoPids = {"11"}
  MaxForks = 4
INVARIANTS ProgramsTypeOK DriversCleanUp ModulesUnloadCleanly ProcFilesRight TimerProgramsRight ReportsRight ReversalLostOnlyByOverlap ShellsKeepTrack ScannerExact
CHECK_DEADLOCK FALSE
