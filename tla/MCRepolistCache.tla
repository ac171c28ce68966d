-------------------------- MODULE MCRepolistCache --------------------------
(* Three requests for the repository index with one scan-path. *)
EXTENDS RepolistCache

CONSTANTS r1, r2, r3

MCReq3 == {r1, r2, r3}
=============================================================================
