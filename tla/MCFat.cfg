SPECIFICATION Spec
CONSTANTS
  SS = 2
  csize = 2
  FatEnts = 4
  DirEnts = 3
  n_fatent = 6
  n_rootdir = 9
  Handles = {h1, h2}
  Names <- MCNames
  Scenes <- MCScenes
  Starts <- MCStarts
  Absent = Absent
  Directory = Directory
  NoFile = NoFile
INVARIANTS ChainsApart NothingLost NamesDiffer ListedAll
PROPERTIES KeepsFiles
CHECK_DEADLOCK FALSE
