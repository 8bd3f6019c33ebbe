SPECIFICATION Spec
CONSTANTS
  Sources = {1, 2}
  Titles = {"one", "two"}
  Mounts = {"kv"}
  Paths = {"p"}
  Names = {"A", "B", "C", "="}
  BadNames = {"="}
  Values = {"x", "y"}
  TopLevel = {"A", "B", "C", "="}
  Blank = Blank
  NoLabel = NoLabel
  Garbage = Garbage
  Constraints = {"gate", "zone"}
  Gate = "gate"
  Images = {"v1", "v2"}
  Deployments <- OneStack
  Documents <- TwoValues
  Deleted = Deleted
  Kinds = {"image", "put"}
  MaxChanges = 2
  NoStatus = NoStatus
  Controllers = {c1, c2}
  Nothing = Nothing
  DockerWarns = {FALSE}
  MaxFaults = 1
INVARIANTS
  UpdatesAnswerChanges
PROPERTIES
  AppliedNeverRegress
  OperatorsKeepTheirs
  InjectionSpec
SYMMETRY Replicas
