SPECIFICATION Spec
CONSTANTS
  BSP = BSP
  c1 = c1
  c2 = c2
  stranger = stranger
  f1 = f1
  x1 = x1
  ap_park = ap_park
  NoFn = NoFn
  NoArg = NoArg
  NoCall = NoCall
  Cpu <- MCCpu
  Strangers <- MCStrangers
  Fn <- MCFn
  Arg <- MCArg
  MwaitAnswers = {TRUE}
  MwaitCpus = {c1}
INVARIANTS
  TypeOK
  NoLostWakeup
  CalledCpuAvailable
PROPERTIES
  CallsAreServed
