\* Two workers and the updater of ytfs, and mediafs; and the texts of MCJsonText.
CONSTANTS
  NoId = NoId
  Workers = {w1, w2}
  Updater = Updater
  OldSong = Old
  Songs = {A, B}
  NumChunks = 2
  MaxFail = 1
  Modes <- MCModes
  Shapes <- MCShapes
  Workloads <- MCWorkloads
SPECIFICATION YtfsSpec
INVARIANTS
  AloneUploadsWhole
  ReadWhole
  ListingAgrees
  MetadataRead
PROPERTIES
  AloneReloadsFresh
SYMMETRY MCSymmetry
CHECK_DEADLOCK FALSE
