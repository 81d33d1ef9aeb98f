SPECIFICATION Spec
CONSTANTS
  Segments <- mc_Segments
  Templates <- mc_Templates
  Operation <- mc_Operation
  Documents <- mc_Documents
  Requests <- mc_Requests
  Decoded <- mc_Decoded
  Arguments <- mc_Arguments
  Printed <- mc_Printed
  Words <- mc_Words
  LowerCase <- mc_LowerCase
  Groupings = {"path", "tags", "flat"}
  Clients = {c1}
  MaxRev = 2
INVARIANTS TypeOK BestSoFar SentAsAsked NothingLost OneVersion MountAgreesWithCall ToolAgreesWithCall
