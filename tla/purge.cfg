SPECIFICATION FairSpec
CONSTANTS
  Sources = {1, 2}
  Titles = {"one", "two"}
  Mounts = {"kv"}
  Paths = {"p"}
  Names = {"A", "B", "C", "="}
  BadNames = {"="}
  Values = {"x", "y"}
  TopLevel = {"A", "B", "C", "="}
  Blank = Blank
  NoLabel = NoLabel
  Garbage = Garbage
  Constraints = {"gate", "zone"}
  Gate = "gate"
  Images = {"v1", "v2"}
  Deployments <- OperatorStacks
  Documents <- TwoValues
  Deleted = Deleted
  Kinds = {"put", "purge"}
  MaxChanges = 2
  NoStatus = NoStatus
  Controllers = {c1}
  Nothing = Nothing
  DockerWarns = {FALSE}
  MaxFaults = 0
PROPERTIES
  Convergence
