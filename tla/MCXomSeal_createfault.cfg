\* A failing p2m_set_mem_access_single inside create_xom_subpages.
CONSTANTS
  p1 = p1
  p2 = p2
  Plain = Plain
  Nop = Nop
  Gfns <- MCGfns
  Payloads <- MCPayloads
  MaxMappedPfn = 2
  NrSub = 2
  MaxSubpagesPerCmd = 2
  MaxNr = 2
  AccessFaults = 1
  ResourceFaults = 1
  IndexKeys = {0, 1, 2, 3}
SYMMETRY MCSymmetry
SPECIFICATION Spec
INVARIANT SealedDataNeverReadable
