SPECIFICATION GraphSpec
CONSTANTS
  MaxRows = 3
  MaxWork = 4
  Legacy = {l1}
  MaxProjects = 2
  MaxImports = 1
  Starts <- SomeStarts
INVARIANTS
  ExportBlockedOnlyByDeletedMaterial
  StartsOnlyWhatCanBePrepared
PROPERTIES
  SavedFormReplacesWhatItShows
CHECK_DEADLOCK FALSE
