SPECIFICATION Spec
CONSTANTS
  Null = Null
  WordSize = 16
  p1 = p1  p2 = p2  p3 = p3
  t1 = t1  t2 = t2  t3 = t3  t4 = t4  t5 = t5
  Process <- MCProcess
  Thread <- MCThreadFour
  BootProcesses <- MCBoot
  BootThread <- MCBootThread
  Priority <- MCPriority
  IOBound = {}
  KernelHeapUserAccessible = FALSE
  NullPageMapped = FALSE
  Calls = {"Yield", "SleepThread", "CreateThread"}
  MaxCount = 4
INVARIANT NeverHalts
CHECK_DEADLOCK FALSE
