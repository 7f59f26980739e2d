\* A batch preempted after its first element, resumed as the caller is
\* told to: the handler of an element must not run twice.
CONSTANTS
  p1 = p1
  p2 = p2
  v1 = v1
  Plain = Plain
  Nop = Nop
  Gfns <- MCGfns
  Payloads <- MCPayloads
  Vcpus <- MCVcpus
  Batch <- MCBatch
  MaxMappedPfn = 2
  NrSub = 2
  MaxSubpagesPerCmd = 1
  MaxNr = 2
  AccessFaults = 0
  ResourceFaults = 1
  IndexKeys = {0, 1, 2, 3}
  MaxPreempts = 1
SPECIFICATION HypercallSpec
INVARIANT ElementsCommittedOnce
