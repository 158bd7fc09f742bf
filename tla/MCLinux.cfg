SPECIFICATION MCSpec
CONSTANTS
  Uids = {0, 1, 2}
  Root = 0
  Keep = Keep
  NProc = 1
  Gids = {0, 1, 2}
  KeepGid = KeepGid
  Pids = {1, 2, 3, 4}
  InitPid = 1
  Tasks = {1, 2, 3}
  PrioCallers = {1, 2}
  NoTask = NoTask
  NiceMin <- MCNiceMin
  NiceMax = 1
  UidOf <- MCUidOf
  EuidOf <- MCEuidOf
  GroupOf <- MCGroupOf
  Nicer = {}
  NiceRlim <- MCNiceRlim
  RebootCallers = {c1, c2}
  PmPowerOff = TRUE
  Worker = Worker
  Orderly = Orderly
  Nobody = Nobody
  LimThreads = {1, 2}
  LimCapable = {2}
  Infinity = 3
  NrOpen = 2
  OldMax = 1
  UtsTasks = {1, 2}
  UtsLen = 2
  Chars = {1, 2}
  Threads = {1, 2, 3}
  MaxCount = 2
  Signals = {0, 1, 3}
  MaxSignal = 2
  DefaultSlack = 2
  MaxSlack = 3
  CPUs = {c1, c2}
  TaskSize = 4
  VmallocPage = 4
  LowPage = 5
  Cushion = 1
  MaxFaults = 3
  Accesses <- MCAccesses
INVARIANTS LinuxTypeOK PrivilegeDroppedForGood ResourceLimitsHold GroupsAndSessions PriorityCallsRight ShutdownsOrderly SampleBetweenBounds FaultsEndProperly PfcountLosesOnlyOverlapped
PROPERTIES WhatWasSetIsRead FaultsAnswered
CHECK_DEADLOCK FALSE
