SPECIFICATION Spec
CONSTANTS
  a1 = a1
  a2 = a2
  a3 = a3
  BSP = BSP
  AP <- MCAP
  Madts <- ExactOnly
  PhantomMadts <- ExactOnly
  AcpiOutcomes = {TRUE, FALSE}
  ApicStates = {TRUE}
  ZeroIds <- BspOrFirst
  GRUB_ERR_IO = 29
  MaxCpu = 32
  MaxBoots = 1
CHECK_DEADLOCK FALSE
PROPERTIES
  InitReturns
