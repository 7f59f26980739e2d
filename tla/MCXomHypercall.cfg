\* A vCPU's sealing batch, interleaved with single commands of other
\* callers and guest stores, with one preemption: the security invariants
\* of the commands and the per-frame contract of the specification.
CONSTANTS
  p1 = p1
  p2 = p2
  v1 = v1
  Plain = Plain
  Nop = Nop
  Gfns <- MCGfns
  Payloads <- MCPayloads
  Vcpus <- MCVcpus
  Batch <- MCBatch
  MaxMappedPfn = 2
  NrSub = 2
  MaxSubpagesPerCmd = 2
  MaxNr = 2
  AccessFaults = 0
  ResourceFaults = 1
  IndexKeys = {0, 1, 2, 3}
  MaxPreempts = 1
SPECIFICATION HypercallSpec
INVARIANT TypeOK
INVARIANT SealedDataNeverReadable
INVARIANT SubpageRecordOnlyOnXom
INVARIANT IndexIsPartialFunction
INVARIANT TeardownFreesEachNodeOnce
PROPERTY EnforcementRefined
VIEW MCView
