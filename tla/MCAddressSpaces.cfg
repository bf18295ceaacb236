SPECIFICATION Spec
CONSTANTS
  Null = Null
  p1 = p1  p2 = p2
  Entries = 9
  Frame <- MCFrame
  Unmarked <- MCUnmarked
  KernelDirectory = 1
  KernelTable = 2
  KernelHeapStart = 16
  KernelHeapEnd = 18
  UserHeapStart = 27
  UserHeapEnd = 29
  KernelBoundary = 36
  StackPage = 45
  WindowSource = 64
  WindowDirectory = 65
  WindowTable = 66
  WindowPage = 67
  Process <- MCProcess
  Modules <- MCModules
  Sections <- MCSections
  ProgramPages <- MCProgramPages
  KillDeletes = 1
  BlocksAligned = TRUE
  KernelHeapUserAccessible = TRUE
  TimerReceives = FALSE
INVARIANTS TypeOK KernelSharedEverywhere NoFrameTwice ProcessHeapsMapped
PROPERTY PagesKept
CHECK_DEADLOCK FALSE
