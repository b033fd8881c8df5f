---------------------------- MODULE MCOAuthGrant ----------------------------
(* Administrators and teams are interchangeable.                            *)
EXTENDS OAuthGrant, TLC

Symmetric == Permutations(User) \cup Permutations(Team)
=============================================================================
