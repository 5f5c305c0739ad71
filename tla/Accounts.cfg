CONSTANTS
  ann = ann
  bob = bob
  Registrations = {r1, r2}
  Names = {ann, bob, eve}
  Sqlite = Sqlite
  SourceUsers <- OldUsers
  SourceMessages = {1, 2}
  MaxNumber = 5
  MaxPost = 3
  MaxRuns = 2
  MaxFaults = 1
SPECIFICATION Spec
SYMMETRY Symmetry
INVARIANTS TypeOK AccountsAreTrue CopyComplete NumbersFresh
CHECK_DEADLOCK FALSE
