SPECIFICATION FairSpec
CONSTANTS
  Writer = {w1}
  Config = {"c1", "c2"}
  Shares <- AloneOrBoth
  Vertex = {a}
  Long <- MachineLong
  Owner <- VertexOnly
  Extra = {x}
  MaxEntry = 2
  Capacity = 2
  MaxRel = 2
  MaxEpoch = 2
  MaxConf = 4
  SleepCovers = TRUE
CHECK_DEADLOCK FALSE
INVARIANTS OneOwner BootOrder ChannelComplete BootIdentified
PROPERTIES BootDelivered PromiseSpec
