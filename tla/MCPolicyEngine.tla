----------------------------- MODULE MCPolicyEngine -----------------------------
(* Instances of PolicyEngine. *)
EXTENDS PolicyEngine

Row(policy, negate, failure, enabled) ==
    [policy |-> policy, negate |-> negate, failure |-> failure, enabled |-> enabled]

Plain == Row(TRUE, FALSE, FALSE, TRUE)
Negated == Row(TRUE, TRUE, TRUE, TRUE)
Member == Row(FALSE, FALSE, FALSE, TRUE)

OneRow == {Plain}
PlainRows == {<<Plain>>}

\* What is said of alice; bob always passes.
About(alice) == [b \in Bindings |-> [u \in Users |-> IF u = "alice" THEN alice[b] ELSE "pass"]]
SomeMatches == {About(<<"exception", "fail">>), About(<<"error", "pass">>)}

Asks(user) == [user |-> user, session |-> "s", debug |-> FALSE]
OneUser == [r \in Requests |-> Asks("alice")]
=============================================================================
