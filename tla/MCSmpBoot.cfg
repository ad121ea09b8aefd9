SPECIFICATION Spec
CONSTANTS
  a1 = a1
  a2 = a2
  a3 = a3
  BSP = BSP
  AP <- MCAP
  Madts <- AnyMadt
  PhantomMadts <- ExactOnly
  AcpiOutcomes = {TRUE}
  ApicStates = {TRUE, FALSE}
  ZeroIds <- BspOrFirst
  GRUB_ERR_IO = 29
  MaxCpu = 5
  MaxBoots = 2
CHECK_DEADLOCK FALSE
INVARIANTS
  TypeOK
  LowStackExclusive
  PublishedListExact
  ListedServe
PROPERTIES
  CpuListStable
  BootCompletes
  ListedReachWorker
