SPECIFICATION Spec
CONSTANTS
  p1 = p1
  p2 = p2
  NoModel = NoModel
  Drop = Drop
  Extra <- MCExtra
  Saver = {p1, p2}
  RDocs <- MCRDocs
  FDocs <- MCFDocs
  FirstPairs <- MCFirstPairs
  Patches <- MCPatches
  Requests <- MCRequests
  Explored <- MCRDocs
  MaxEdits = 1
SYMMETRY SaverSymmetry
CHECK_DEADLOCK FALSE
INVARIANTS
  IInv
  RoutesServed
  OffloadsServed
