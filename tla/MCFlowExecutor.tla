---------------------------- MODULE MCFlowExecutor ----------------------------
(* Instances of FlowExecutor. *)
EXTENDS FlowExecutor, TLC

B(id, stage) == [id |-> id, stage |-> stage, evaluate_on_plan |-> FALSE,
                 re_evaluate_policies |-> FALSE, action |-> "retry"]
OnPlan(b) == [b EXCEPT !.evaluate_on_plan = TRUE]
ReEvaluated(b) == [b EXCEPT !.re_evaluate_policies = TRUE]
Restarting(b, action) == [b EXCEPT !.action = action]

\* "authentication": identification, a prompt that is asked for by policy, the password,
\* the login.  The bindings of "login" restart the flow, one with its context, and a prompt
\* follows the login.  "refuse" logs nobody in, or denies everyone.
MCFlowBindings ==
    [f \in {"authentication", "login", "refuse"} |->
       CASE f = "authentication" ->
              <<B(1, "identification"), OnPlan(ReEvaluated(B(2, "prompt"))), B(3, "password"),
                B(4, "user_login")>>
         [] f = "login" ->
              <<OnPlan(Restarting(B(5, "identification"), "restart_with_context")),
                B(6, "password"), B(7, "user_login"), Restarting(B(8, "prompt"), "restart")>>
         [] f = "refuse" ->
              <<OnPlan(B(9, "user_login")), B(10, "deny")>>]

Symmetry == Permutations(Reqs) \cup Permutations(Users)
=============================================================================
