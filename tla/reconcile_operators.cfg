SPECIFICATION Spec
CONSTANTS
  Sources = {1, 2}
  Titles = {"one", "two"}
  Mounts = {"kv"}
  Paths = {"p"}
  Names = {"A", "B", "C", "="}
  BadNames = {"="}
  Values = {"x", "y"}
  TopLevel = {"A", "B", "C", "="}
  Blank = Blank
  NoLabel = NoLabel
  Garbage = Garbage
  Constraints = {"gate", "zone"}
  Gate = "gate"
  Images = {"v1", "v2"}
  Deployments <- AllStacks
  Documents <- WithNull
  Deleted = Deleted
  Kinds = {"labels", "env", "gate", "tamper", "put", "deploy", "delete", "touch"}
  MaxChanges = 2
  NoStatus = NoStatus
  Controllers = {c1}
  Nothing = Nothing
  DockerWarns = {FALSE, TRUE}
  MaxFaults = 1
INVARIANTS
  TypeOK
  StatusTruthful
  UpdatesAnswerChanges
  StateCheckSuffices
PROPERTIES
  OperatorsKeepTheirs
  StatusRemembers
