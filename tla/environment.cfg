SPECIFICATION Spec
CONSTANTS
  Sources = {1}
  Titles = {"t"}
  Mounts = {"kv"}
  Paths = {"p"}
  Names <- EnvNames
  BadNames = {}
  Values <- Texts
  Blank = Blank
  NoLabel = NoLabel
  Garbage = Garbage
  MaxEntries = 3
INVARIANTS
  AgreesWithMaps
  InjectionIsStable
  HashTellsApart
PROPERTIES
  OperatorsEntriesKept
