SPECIFICATION Spec
CONSTANTS
  Fixtures <- MCFixtures
  V2Files <- MCV2Files
  Curations <- MCCurations
  E2EDoc = "e2e"
  MaxWipes = 1
  MaxVersions = 2
  Clients = {"uk"}
  Admin = "admin"
  Passwords = {"secret"}
  MaxResets = 1
  MaxUsers = 3
  OtherUsers = 1
INVARIANTS
  StagedStays
  OkMeansReady
PROPERTIES
  NoDowngrade
  RefusalIsWhole
  ScriptEnds
