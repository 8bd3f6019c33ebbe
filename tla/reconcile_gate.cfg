SPECIFICATION Spec
CONSTANTS
  Sources = {1, 2}
  Titles = {"one", "two"}
  Mounts = {"kv"}
  Paths = {"p", "q"}
  Names = {"A", "B", "C", "="}
  BadNames = {"="}
  Values = {"x", "y"}
  TopLevel = {"A", "B", "C", "="}
  Blank = Blank
  NoLabel = NoLabel
  Garbage = Garbage
  Constraints = {"gate", "zone"}
  Gate = "gate"
  Images = {"v1", "v2"}
  Deployments <- GatedStacks
  Documents <- Colliding
  Deleted = Deleted
  Kinds = {"deploy", "put", "purge", "image"}
  MaxChanges = 2
  NoStatus = NoStatus
  Controllers = {c1}
  Nothing = Nothing
  DockerWarns = {FALSE}
  MaxFaults = 1
INVARIANTS
  GatedTasksComplete
PROPERTIES
  InjectionSpec
