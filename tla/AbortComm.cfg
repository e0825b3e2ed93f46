SPECIFICATION FairHandleSpec
INVARIANTS
  HandleInv
  AbortedOnce
  SlotHoldsLive
PROPERTY AskedLeaves
