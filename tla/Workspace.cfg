SPECIFICATION WorkspaceSpec
CONSTANTS
  Tree <- MCTree
  Rank <- MCRank
  KclFiles <- MCKclFiles
  KclDirOf <- MCKclDirOf
  Imports <- MCImports
  Operations <- MCOperations
  Questions <- MCQuestions
INVARIANTS
  DetectionRight
  StorageRight
  DepsRight
