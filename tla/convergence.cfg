SPECIFICATION FairSpec
CONSTANTS
  Sources = {1, 2}
  Titles = {"one", "two"}
  Mounts = {"kv"}
  Paths = {"p"}
  Names = {"A", "B"}
  BadNames = {}
  Values = {"x", "y"}
  TopLevel = {"A", "B"}
  Blank = Blank
  NoLabel = NoLabel
  Garbage = Garbage
  Constraints = {"gate", "zone"}
  Gate = "gate"
  Images = {"v1", "v2"}
  Deployments <- ConvergingStacks
  Documents <- WithBoth
  Deleted = Deleted
  Kinds = {"deploy", "put", "delete", "labels", "env", "gate", "tamper"}
  MaxChanges = 2
  NoStatus = NoStatus
  Controllers = {c1}
  Nothing = Nothing
  DockerWarns = {FALSE}
  MaxFaults = 1
INVARIANTS
  UpdatesAnswerChanges
PROPERTIES
  Convergence
