\* Two topics, no files and one lost connection.
SPECIFICATION Spec
CONSTANTS
  t1 = t1
  t2 = t2
  old = old
  new = new
  garbled = garbled
  NoMaterial = NoMaterial
  Topic <- Topics
  MaxMessages = 0
  Fleeting <- Nothing
  Material <- Files
  Valid <- Usable
  Trusted <- NewOnly
  Configured <- NoFiles
  MaxEdits = 0
  MaxFaults = 1
INVARIANTS
  ReadyMeansConnected
