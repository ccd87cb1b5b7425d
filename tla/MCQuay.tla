------------------------------- MODULE MCQuay -------------------------------
(* An instance of module QuayMetadata: two repositories, which may be        *)
(* exchanged, and the URL of none.                                           *)
EXTENDS QuayMetadata, TLC

RepoSymmetry == Permutations(Repos \ BadRepos)
=============================================================================
