SPECIFICATION Spec
CONSTANTS
  tex = tex
  log = log
  aux = aux
  dir = dir
  Folders <- OneFolder
  FolderOf <- InOneFolder
  Absent = Absent
  Garbled = Garbled
  Edited <- Nobody
  Logs <- Nobody
  Others <- AuxOnly
  MaxText = 1
  MaxWire = 1
  Reparses = 1
INVARIANTS
  OthersFollowDisk
\* The bounds let everything come to rest.
CHECK_DEADLOCK FALSE
