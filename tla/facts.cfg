SPECIFICATION FactsFairSpec
CONSTANTS
  Machines <- MCMachines
  Kernels <- MCKernels
  Flavours <- MCFlavours
  Tailnets = {t1, t2}
  NoName = NoName
  MaxKernels = 2
  MaxEvents = 3
INVARIANTS
  TailnetIsRemembered
PROPERTIES
  SparesTheSettled
  GroupFollows
