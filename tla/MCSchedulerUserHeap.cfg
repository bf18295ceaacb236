SPECIFICATION Spec
CONSTANTS
  Null = Null
  WordSize = 16
  p1 = p1  p2 = p2  p3 = p3
  t1 = t1  t2 = t2  t3 = t3  t4 = t4  t5 = t5
  Process <- MCProcessFew
  Thread <- MCThreadFew
  BootProcesses <- MCBootOne
  BootThread <- MCBootThreadOne
  Priority <- MCPriority
  IOBound = {}
  KernelHeapUserAccessible = TRUE
  NullPageMapped = TRUE
  Calls = {"Yield", "SleepThread", "WakeThread", "KillThread", "SendMessage", "SetReceiptMethod", "KillProcess", "CreateThread", "CreateProcess", "Timer"}
  MaxCount = 3
INVARIANTS TypeOK QueuesSound CurrentProcessRunnable CurrentThreadOwned
PROPERTY NeverSwitchesToSleeper
CHECK_DEADLOCK FALSE
SYMMETRY LateOnes
