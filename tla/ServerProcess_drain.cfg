\* One SIGTERM while an RPC is in flight.
SPECIFICATION ServerSpec
CONSTANTS
  PolicyHandler = {h1, h2}
  Worker = {w1, w2}
  Agent = {a1}
  RPC = {r1}
  QueueSize = 1
  BufferSize = 2
  MaxVersion = 2
INVARIANT RPCsDrained
