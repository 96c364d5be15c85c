\* Lost and dropped events, crashes, shutdowns and restarts.
SPECIFICATION FairServerSpec
CONSTANTS
  PolicyHandler = {h1, h2}
  Worker = {w1, w2}
  Agent = {a1}
  RPC = {r1}
  QueueSize = 1
  BufferSize = 2
  MaxVersion = 3
INVARIANT NoLostInvalidation
PROPERTIES ServedAgentsCatchUp ShutdownEnds
