SPECIFICATION FairSpec
CONSTANTS
  Servers = {s1, s2, s3}
  LastMigration = 3
  Releases = {2, 3}
  MaxFaults = 2
INVARIANTS
  TypeOK
  ServingHasSchema
  CommittedOnce
PROPERTIES
  AppliedInOrder
  EveryServerServes
