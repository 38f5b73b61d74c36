\* Two durable messages and one of QoS 0; no files, or files that change twice,
\* also to contents that cannot be used, until the broker accepts them.
SPECIFICATION FairSpec
CONSTANTS
  t1 = t1
  t2 = t2
  old = old
  new = new
  garbled = garbled
  NoMaterial = NoMaterial
  Topic <- Topics
  MaxMessages = 3
  Fleeting <- SecondFleeting
  Material <- Files
  Valid <- Usable
  Trusted <- NewOnly
  Configured <- OldOrNone
  MaxEdits = 2
  MaxFaults = 1
INVARIANTS
  TypeOK
  ReadyIsEarned
  JudgedInOrder
PROPERTIES
  RefinesRelay
  CertificateAdopted
  ThreadEnds
