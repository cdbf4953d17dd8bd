SPECIFICATION Spec
CONSTANTS
  k1 = k1
  k2 = k2
  main = main
  tenant = tenant
  pg = pg
  dsn1 = dsn1
  dsn2 = dsn2
  None = None
  Clients = {k1, k2}
  Orgs = {main, tenant}
  BootOrg = main
  Names = {pg}
  Configs = {dsn1, dsn2}
  FileCatalogs <- PgInFile
  AtomicUpdate = FALSE
  Capacity = 2
  MaxStatements = 2
  MaxPeerWrites = 1
  MaxFaults = 1
  MaxRestarts = 1
SYMMETRY ClientSymmetry
INVARIANTS SerialEffect NoTenantLeak 
CHECK_DEADLOCK FALSE
