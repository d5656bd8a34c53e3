SPECIFICATION Spec
CONSTANTS
  tex = tex
  log = log
  aux = aux
  dir = dir
  Folders <- OneFolder
  FolderOf <- InOneFolder
  Absent = Absent
  Garbled = Garbled
  Edited <- TexOnly
  Logs <- Nobody
  Others <- Nobody
  MaxText = 1
  MaxWire = 1
  Reparses = 1
INVARIANTS
  EditorAlwaysInSync
\* The bounds let everything come to rest.
CHECK_DEADLOCK FALSE
