SPECIFICATION Spec
CONSTANTS
  ServiceOrder <- MCServiceOrder
  KindOrder <- MCKindOrder
  KindsOf <- MCKindsOf
  GpuOf <- MCGpuOf
  NoGpu = "none"
  Vram <- MCVram
  Capacity <- MCCapacity
  Composite <- MCComposite
  Priority <- MCPriority
  Keep = {}
  IdleUnload <- MCIdleUnload
  StartTimeout = 1
  HandRows = {}
  MaxFaults = 1
  MaxOverrides = 1
  MaxSaves = 1
INVARIANTS
  TypeOK
  GpuFits
PROPERTIES
  StopsJustified
