------------------------------- MODULE MCHost -------------------------------
EXTENDS HostOps
MCVersion == [r \in Releases |-> CASE r = "v1" -> 1 [] r = "v2" -> 2 [] r = "c2" -> 2]
MCSchema == [r \in Releases |-> CASE r = "v1" -> 1 [] r = "v2" -> 2 [] r = "c2" -> 2]
MCDigest == [r \in Releases |-> CASE r = "v1" -> 1 [] r = "v2" -> 2 [] r = "c2" -> 2]
=============================================================================
