SPECIFICATION Spec
CONSTANTS
  Terminals = {t1, t2}
  t1 = t1
  t2 = t2
  Projects = {"p"}
  Files <- MCFiles
  Place <- MCPlace
  StackFiles = {"stack.yaml"}
  DirOf <- MCDirOf
  Needs <- MCNeeds
  Root = "root"
  Commands <- MCCommands
  MaxCommands = 2
  MaxFaults = 1
INVARIANTS
  DiskIsTidy
  ShortOnlyIfDisturbed
PROPERTIES
  UserFilesSurvive
