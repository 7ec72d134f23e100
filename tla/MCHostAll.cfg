SPECIFICATION MCSpec
CONSTANTS
  Releases = {"v1", "v2", "c2"}
  Checkouts = {"c2"}
  Version <- MCVersion
  Schema <- MCSchema
  Digest <- MCDigest
  Forward = {}
  Domains = {1, 2}
  None = None
  Procs = {p, q}
  Kinds = {"update", "deploy", "rollback", "enable", "repair", "disable", "import", "reset", "optimize", "migrate", "backup", "start", "stop", "restart", "setup", "menu", "activate", "configure", "uninstall"}
  MaxWrites = 1
  MaxOps = 3
  MaxCrashes = 1
SYMMETRY Symmetry
INVARIANTS TypeOK ServedFromLink DataKept LinkInstKept RollbackReady CompanionRecorded
PROPERTIES ServiceBack AllOrNothing ConfiguresAll ActivatesAll
