\* Sealing protocol without p2m access failures: the security invariants.
CONSTANTS
  p1 = p1
  p2 = p2
  Plain = Plain
  Nop = Nop
  Gfns <- MCGfns
  Payloads <- MCPayloads
  MaxMappedPfn = 2
  NrSub = 2
  MaxSubpagesPerCmd = 2
  MaxNr = 2
  AccessFaults = 0
  ResourceFaults = 1
  IndexKeys = {0, 1, 2, 3}
SYMMETRY MCSymmetry
SPECIFICATION Spec
INVARIANT TypeOK
INVARIANT SealedDataNeverReadable
INVARIANT SubpageRecordOnlyOnXom
PROPERTY EnforcementRefined
