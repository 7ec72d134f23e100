SPECIFICATION Spec
CONSTANTS
  Releases = {"v1", "v2"}
  Checkouts = {}
  Version <- MCVersion
  Schema <- MCSchema
  Digest <- MCDigest
  Forward = {}
  Domains = {1}
  None = None
  Procs = {"p"}
  Kinds = {"setup", "activate"}
  MaxWrites = 1
  MaxOps = 2
  MaxCrashes = 0
INVARIANTS LateWritesKept
