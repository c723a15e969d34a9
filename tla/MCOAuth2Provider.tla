---------------------------- MODULE MCOAuth2Provider ----------------------------
(* Instances of OAuth2Provider. *)
EXTENDS OAuth2Provider, TLC

OneUser == [s \in Sessions |-> CHOOSE u \in Users : TRUE]

AskedScopes == {{}, {"openid", "offline_access"}}

Symmetry == Permutations(Reqs) \cup Permutations(Sessions)
=============================================================================
