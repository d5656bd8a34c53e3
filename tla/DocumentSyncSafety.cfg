SPECIFICATION Spec
CONSTANTS
  tex = tex
  log = log
  aux = aux
  dir = dir
  Folders <- OneFolder
  FolderOf <- InOneFolder
  Absent = Absent
  Garbled = Garbled
  Edited <- TexOnly
  Logs <- LogOnly
  Others <- Nobody
  MaxText = 2
  MaxWire = 1
  Reparses = 1
CONSTRAINT
  SecondText
INVARIANTS
  TypeOK
  EditorInSync
  LogsFollowDisk
\* The bounds let everything come to rest.
CHECK_DEADLOCK FALSE
