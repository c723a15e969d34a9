---------------------------- MODULE FlowExecutor ----------------------------
(***************************************************************************)
(* The flow executor: requests of one browser that run a flow's stages.    *)
(*                                                                         *)
(* A request loads the session it has the cookie of, works on its own copy *)
(* and writes the whole of it back with its response.  Requests overlap (a *)
(* second tab, a reload, a double click).  The session holds the plan, the *)
(* bindings still to pass and the pending user.  Plans come from the       *)
(* planner, which evaluates the policies of the bindings and caches.       *)
(***************************************************************************)
EXTENDS Naturals, Sequences, FiniteSetsExt

CONSTANTS
    Reqs,           \* requests that can be in progress at the same time
    Users,
    Flows,          \* names of flows
    FlowBindings,   \* FlowBindings[f]: the flow's bindings, in order
    Unauthenticated,\* flows that require an unauthenticated user
    MaxTries,       \* failed_attempts_before_cancel of the password stage
    MaxPlans, MaxSids, MaxPolicyChanges     \* bounds

None == "none"          \* no user: nobody is logged in, nobody is pending
Unknown == "unknown"    \* a pending user that was entered and does not exist

Stages == {"identification", "password", "prompt", "user_login", "deny"}
InvalidResponseAction == {"retry", "restart", "restart_with_context"}
Binding == [id : Nat, stage : Stages, evaluate_on_plan : BOOLEAN,
            re_evaluate_policies : BOOLEAN, action : InvalidResponseAction]

ASSUME FlowAssumption ==
    /\ FlowBindings \in [Flows -> Seq(Binding)]
    /\ Unauthenticated \subseteq Flows
    /\ None \notin Flows /\ None \notin Users /\ Unknown \notin Users
    /\ MaxTries \in Nat \ {0}
    /\ MaxPlans \in Nat /\ MaxSids \in Nat /\ MaxPolicyChanges \in Nat

Positions(f) == DOMAIN FlowBindings[f]
AllBindings == UNION {Range(FlowBindings[f]) : f \in Flows}
\* Bindings whose policies may give either result.
Guarded == {b \in AllBindings : b.evaluate_on_plan \/ b.re_evaluate_policies}

\* A plan: the bindings still to pass, by their positions in the flow.
NoPlan == [run |-> 0, flow |-> None, bindings |-> {}, pending |-> None]
NewSession == [plan |-> NoPlan, tries |-> 0, user |-> None]

VARIABLES
    store,      \* store[s]: the session row, or one that is not live
    cookie,     \* the session key the browser sends, 0 for none
    sids,       \* session keys given out
    req,        \* the requests
    cache,      \* cache[<<f, u>>]: a cached plan and the bindings it left out
    policy,     \* what the policies of a binding evaluate to at the moment
    admitting,  \* flows whose own policies pass at the moment
    runs,       \* plans made
    checked,    \* history: <<run, binding, user>>: passed with this pending user
    denied,     \* history: <<run, binding>>: left out after its policies failed
    logins,     \* history: logins by run, flow and position of the login stage
    changes

history == <<checked, denied, logins>>
policies == <<policy, admitting>>
session == <<store, cookie, sids>>
planner == <<cache, runs>>
vars == <<session, req, planner, policies, history, changes>>

-----------------------------------------------------------------------------
(* Values *)

Free == [at |-> "free", flow |-> None, method |-> "GET", sid |-> 0, own |-> NewSession,
         out |-> None]

Plan == [run : 0..MaxPlans, flow : Flows \cup {None}, bindings : SUBSET Nat,
         pending : Users \cup {None, Unknown}]
SessionData == [plan : Plan, tries : 0..MaxTries - 1, user : Users \cup {None}]
Request == [at : {"free", "loaded", "planned", "handled"}, flow : Flows \cup {None},
            method : {"GET", "POST", "CANCEL"}, sid : 0..MaxSids, own : SessionData,
            out : {None, "challenge", "redirect", "done", "denied", "error"}]

\* The binding that is up.
Head1(r) == FlowBindings[req[r].own.plan.flow][Min(req[r].own.plan.bindings)]
At(r, stage) == req[r].at = "planned" /\ Head1(r).stage = stage
Own(r) == req[r].own

\* The request goes on with session s, to be saved with the given response.
Handled(q, s, out) == [q EXCEPT !.own = s, !.out = out, !.at = "handled"]
Respond(r, s, out) == req' = [req EXCEPT ![r] = Handled(@, s, out)]

-----------------------------------------------------------------------------
(* FlowPlanner *)

\* _check_authentication and the policies of the flow.
Applicable(f, user) == f \in admitting /\ (f \in Unauthenticated => user = None)

\* _build_plan
FailsOnPlan(f) ==
    {i \in Positions(f) : FlowBindings[f][i].evaluate_on_plan /\ ~policy[FlowBindings[f][i]]}
Build(f) == Positions(f) \ FailsOnPlan(f)

\* What the histories record of bindings that are left out of a plan.
LeftOut(run, f, out) == {<<run, FlowBindings[f][i]>> : i \in out}

NotCached == [set |-> FALSE, bindings |-> {}, out |-> {}]

\* plan(): the cached entry, or a new one that is cached.
Planned(f, user) ==
    IF cache[<<f, user>>].set THEN cache[<<f, user>>]
    ELSE [set |-> TRUE, bindings |-> Build(f), out |-> FailsOnPlan(f)]

NewPlan(f, bs, pending) ==
    [run |-> runs + 1, flow |-> f, bindings |-> bs, pending |-> pending]

-----------------------------------------------------------------------------
(* FlowExecutorView.dispatch *)

\* The session is loaded with the first access to it.  A key that is no longer live
\* gives an empty session without a key.
Load(r, f, method) ==
    LET live == cookie # 0 /\ store[cookie].live
        data == IF live THEN store[cookie].data ELSE NewSession
    IN  /\ req[r].at = "free"
        /\ req' = [req EXCEPT ![r] = [at |-> "loaded", flow |-> f, method |-> method,
                                      sid |-> IF live THEN cookie ELSE 0,
                                      own |-> data, out |-> None]]
        /\ UNCHANGED <<session, planner, policies, history, changes>>

HasPlan(r) == Own(r).plan.flow = req[r].flow

\* FlowPlan.next: bindings at the front that fail their re-evaluation are removed.
Refails(b) == b.re_evaluate_policies /\ ~policy[b]
Reevaluate(f, bs) == {i \in bs : \E j \in bs : j <= i /\ ~Refails(FlowBindings[f][j])}

\* cancel
Cancel(s) == [s EXCEPT !.plan = NoPlan]

\* The first binding of the plan is up; without one the flow is done.  The bindings
\* in "out" were left out by the planner.
Present(r, plan, out) ==
    LET bs == Reevaluate(plan.flow, plan.bindings)
        s == [Own(r) EXCEPT !.plan = [plan EXCEPT !.bindings = bs]]
    IN  /\ denied' = denied \cup LeftOut(plan.run, plan.flow, (plan.bindings \ bs) \cup out)
        /\ IF bs = {} THEN Respond(r, Cancel(s), "done")
           ELSE req' = [req EXCEPT ![r] = [@ EXCEPT !.own = s, !.at = "planned"]]
        /\ UNCHANGED <<checked, logins>>

\* Continuing existing plan.
Continue(r) ==
    /\ req[r].at = "loaded" /\ req[r].method # "CANCEL" /\ HasPlan(r)
    /\ Present(r, Own(r).plan, {})
    /\ UNCHANGED <<session, planner, policies, changes>>

\* No plan, or one for another flow: the planner is asked.
Initiate(r) ==
    LET f == req[r].flow
        user == Own(r).user
        p == Planned(f, user)
    IN  /\ req[r].at = "loaded" /\ req[r].method # "CANCEL" /\ ~HasPlan(r)
        /\ runs < MaxPlans /\ Applicable(f, user)
        /\ cache' = [cache EXCEPT ![<<f, user>>] = p]
        /\ IF p.bindings = {}
           THEN /\ Respond(r, Cancel(Own(r)), "done")
                /\ UNCHANGED <<runs, history>>
           ELSE /\ runs' = runs + 1
                /\ Present(r, NewPlan(f, p.bindings, None), p.out)
        /\ UNCHANGED <<session, policies, changes>>

\* handle_invalid_flow without a binding: the flow is cancelled.
NotApplicable(r) ==
    /\ req[r].at = "loaded" /\ req[r].method # "CANCEL" /\ ~HasPlan(r)
    /\ ~Applicable(req[r].flow, Own(r).user)
    /\ Respond(r, Cancel(Own(r)), "denied")
    /\ UNCHANGED <<session, planner, policies, history, changes>>

\* CancelView
CancelRequest(r) ==
    /\ req[r].at = "loaded" /\ req[r].method = "CANCEL"
    /\ Respond(r, Cancel(Own(r)), "redirect")
    /\ UNCHANGED <<session, planner, policies, history, changes>>

-----------------------------------------------------------------------------
(* Callbacks of the stages *)

\* FlowPlan.pop
Pop(plan) == [plan EXCEPT !.bindings = @ \ {Min(@)}]

\* stage_ok with session s, whose pending user has passed the stage.
StageOk(r, s) ==
    LET plan == Pop(s.plan)
    IN  /\ checked' = checked \cup {<<plan.run, Head1(r), plan.pending>>}
        /\ IF plan.bindings = {}
           THEN Respond(r, Cancel(s), "done")
           ELSE Respond(r, [s EXCEPT !.plan = plan], "redirect")

\* restart_flow; the planner does not use its cache.  When the flow has become not
\* applicable, handle_invalid_flow calls stage_invalid, which restarts again: the
\* request ends in the error of the exhausted stack.  An empty flow is an error too.
Restart(r, s, keep) ==
    LET f == req[r].flow
        bs == Build(f)
    IN  IF Applicable(f, s.user) /\ bs # {}
        THEN /\ runs < MaxPlans /\ runs' = runs + 1
             /\ denied' = denied \cup LeftOut(runs + 1, f, FailsOnPlan(f))
             /\ Respond(r, [s EXCEPT !.plan = NewPlan(f, bs, IF keep THEN s.plan.pending ELSE None)],
                        "redirect")
        ELSE /\ Respond(r, s, "error")
             /\ UNCHANGED <<runs, denied>>

\* stage_invalid
StageInvalid(r, s) ==
    IF Head1(r).action = "retry"
    THEN Respond(r, Cancel(s), "denied") /\ UNCHANGED <<runs, denied>>
    ELSE Restart(r, s, Head1(r).action = "restart_with_context")

\* An invalid response: ChallengeStageView.post restarts, or the challenge comes again.
ChallengeInvalid(r, s) ==
    IF Head1(r).action = "retry"
    THEN Respond(r, s, "challenge") /\ UNCHANGED <<runs, denied>>
    ELSE Restart(r, s, Head1(r).action = "restart_with_context")

-----------------------------------------------------------------------------
(* Stages *)

\* ChallengeStageView.get of a stage that shows a form.
GetChallenge(r) ==
    /\ req[r].at = "planned" /\ req[r].method = "GET"
    /\ Head1(r).stage \in {"identification", "password", "prompt"}
    /\ Respond(r, Own(r), "challenge")
    /\ UNCHANGED <<session, planner, policies, history, changes>>

SetPending(s, user) == [s EXCEPT !.plan.pending = user]

Identify(r, user) ==
    /\ At(r, "identification") /\ req[r].method = "POST"
    /\ StageOk(r, SetPending(Own(r), user))
    /\ UNCHANGED <<session, planner, policies, denied, logins, changes>>

\* The user is not found: what was entered becomes the pending user.
IdentifyInvalid(r) ==
    /\ At(r, "identification") /\ req[r].method = "POST"
    /\ ChallengeInvalid(r, SetPending(Own(r), Unknown))
    /\ UNCHANGED <<session, cache, policies, checked, logins, changes>>

Password(r) ==
    /\ At(r, "password") /\ req[r].method = "POST"
    /\ Own(r).plan.pending \in Users
    /\ StageOk(r, Own(r))
    /\ UNCHANGED <<session, planner, policies, denied, logins, changes>>

PasswordNobody(r) ==
    /\ At(r, "password") /\ req[r].method = "POST"
    /\ Own(r).plan.pending = None
    /\ StageInvalid(r, Own(r))
    /\ UNCHANGED <<session, cache, policies, checked, logins, changes>>

\* The number of failed attempts, this one included, cancels the flow.
TriedOut(n) == n >= MaxTries

\* PasswordStageView.challenge_invalid, unless the binding restarts the flow first.
PasswordInvalid(r) ==
    LET n == Own(r).tries + 1
    IN  /\ At(r, "password") /\ req[r].method = "POST"
        /\ Own(r).plan.pending # None
        /\ IF Head1(r).action = "retry" /\ TriedOut(n)
           THEN StageInvalid(r, [Own(r) EXCEPT !.tries = 0])
           ELSE ChallengeInvalid(r, [Own(r) EXCEPT !.tries = IF Head1(r).action = "retry"
                                                             THEN n ELSE @])
        /\ UNCHANGED <<session, cache, policies, checked, logins, changes>>

\* A stage with a form that says nothing of the user: prompt, captcha, consent, ...
Prompt(r) ==
    /\ At(r, "prompt") /\ req[r].method = "POST"
    /\ StageOk(r, Own(r))
    /\ UNCHANGED <<session, planner, policies, denied, logins, changes>>

PromptInvalid(r) ==
    /\ At(r, "prompt") /\ req[r].method = "POST"
    /\ ChallengeInvalid(r, Own(r))
    /\ UNCHANGED <<session, cache, policies, checked, logins, changes>>

\* DenyStageView.dispatch
Deny(r) ==
    /\ At(r, "deny")
    /\ StageInvalid(r, Own(r))
    /\ UNCHANGED <<session, cache, policies, checked, logins, changes>>

\* do_login: the session gets a new key, and is emptied when someone else was logged in.
Login(r) ==
    LET user == Own(r).plan.pending
        other == Own(r).user \notin {None, user}
        s == [Own(r) EXCEPT !.user = user, !.tries = IF other THEN 0 ELSE @]
        old == req[r].sid
        new == sids + 1
        plan == Pop(s.plan)
        done == plan.bindings = {}
    IN  /\ At(r, "user_login") /\ user \in Users
        /\ sids < MaxSids /\ sids' = new
        /\ store' = [k \in 1..MaxSids |->
                       IF k = new THEN [live |-> TRUE, data |-> [NewSession EXCEPT !.user = user]]
                       ELSE IF k = old THEN [live |-> FALSE, data |-> NewSession] ELSE store[k]]
        /\ req' = [req EXCEPT ![r] =
                     [Handled(@, IF done THEN Cancel(s) ELSE [s EXCEPT !.plan = plan],
                              IF done THEN "done" ELSE "redirect") EXCEPT !.sid = new]]
        /\ logins' = logins \cup {[run |-> plan.run, flow |-> plan.flow, user |-> user,
                                 position |-> Min(s.plan.bindings)]}
        /\ checked' = checked \cup {<<plan.run, Head1(r), user>>}
        /\ UNCHANGED <<cookie, planner, policies, denied, changes>>

\* No pending user to log in.
LoginNobody(r) ==
    /\ At(r, "user_login") /\ Own(r).plan.pending = None
    /\ StageInvalid(r, Own(r))
    /\ UNCHANGED <<session, cache, policies, checked, logins, changes>>

-----------------------------------------------------------------------------
(* SessionMiddleware.process_response *)

\* Mutant: progress that another request has made meanwhile is kept, the rest of the
\* plan is written.
SaveMerged(r) ==
    LET s == req[r].sid
        kept == store[s].data.plan.bindings
        ahead == /\ store[s].data.plan.run = Own(r).plan.run
                 /\ kept \subseteq Own(r).plan.bindings
    IN  /\ req[r].at = "handled" /\ s # 0 /\ store[s].live
        /\ store' = [store EXCEPT ![s].data =
                       IF ahead THEN [Own(r) EXCEPT !.plan.bindings = kept] ELSE Own(r)]
        /\ cookie' = s
        /\ req' = [req EXCEPT ![r] = Free]
        /\ UNCHANGED <<sids, planner, policies, history, changes>>

\* The whole session is written, and the cookie sent.
Save(r) ==
    LET s == req[r].sid
    IN  /\ req[r].at = "handled" /\ s # 0 /\ store[s].live
        /\ store' = [store EXCEPT ![s].data = Own(r)]
        /\ cookie' = s
        /\ req' = [req EXCEPT ![r] = Free]
        /\ UNCHANGED <<sids, planner, policies, history, changes>>

\* The request had no session: a new one is created.
SaveNew(r) ==
    /\ req[r].at = "handled" /\ req[r].sid = 0
    /\ sids < MaxSids /\ sids' = sids + 1
    /\ store' = [store EXCEPT ![sids + 1] = [live |-> TRUE, data |-> Own(r)]]
    /\ cookie' = sids + 1
    /\ req' = [req EXCEPT ![r] = Free]
    /\ UNCHANGED <<planner, policies, history, changes>>

\* SessionInterrupted: the session was deleted meanwhile.
Interrupted(r) ==
    /\ req[r].at = "handled" /\ req[r].sid # 0 /\ ~store[req[r].sid].live
    /\ req' = [req EXCEPT ![r] = Free]
    /\ UNCHANGED <<session, planner, policies, history, changes>>

-----------------------------------------------------------------------------
(* The surroundings *)

\* The outcome of a binding's policies changes with time, place or an edit.
PolicyChange(b) ==
    /\ changes < MaxPolicyChanges /\ changes' = changes + 1
    /\ policy' = [policy EXCEPT ![b] = ~@]
    /\ UNCHANGED <<session, req, planner, admitting, history>>

FlowPolicyChange(f) ==
    /\ changes < MaxPolicyChanges /\ changes' = changes + 1
    /\ admitting' = IF f \in admitting THEN admitting \ {f} ELSE admitting \cup {f}
    /\ UNCHANGED <<session, req, planner, policy, history>>

\* The cached plan times out or is invalidated.
CacheExpires(f, user) ==
    /\ cache[<<f, user>>].set
    /\ cache' = [cache EXCEPT ![<<f, user>>] = NotCached]
    /\ UNCHANGED <<session, req, runs, policies, history, changes>>

Init ==
    /\ store = [s \in 1..MaxSids |-> [live |-> FALSE, data |-> NewSession]]
    /\ cookie = 0 /\ sids = 0
    /\ req = [r \in Reqs |-> Free]
    /\ cache = [c \in Flows \X (Users \cup {None}) |-> NotCached]
    /\ policy = [b \in Guarded |-> TRUE] /\ admitting = Flows
    /\ runs = 0 /\ changes = 0
    /\ checked = {} /\ denied = {} /\ logins = {}

Stage(r) ==
    \/ GetChallenge(r)
    \/ IdentifyInvalid(r)
    \/ \E u \in Users : Identify(r, u)
    \/ Password(r) \/ PasswordNobody(r) \/ PasswordInvalid(r)
    \/ Prompt(r) \/ PromptInvalid(r) \/ Deny(r)
    \/ Login(r) \/ LoginNobody(r)

Next ==
    \/ \E r \in Reqs :
          \/ \E f \in Flows, m \in {"GET", "POST", "CANCEL"} : Load(r, f, m)
          \/ Continue(r) \/ Initiate(r) \/ NotApplicable(r) \/ CancelRequest(r)
          \/ Stage(r)
          \/ Save(r) \/ SaveNew(r) \/ Interrupted(r)
    \/ \E b \in Guarded : PolicyChange(b)
    \/ \E f \in Flows : FlowPolicyChange(f)
    \/ \E f \in Flows, u \in Users \cup {None} : CacheExpires(f, u)

Spec == Init /\ [][Next]_vars

-----------------------------------------------------------------------------
(* Properties *)

\* Every variable stays in its domain; a request works on a plan only while a binding is
\* left.
TypeOK ==
    /\ store \in [1..MaxSids -> [live : BOOLEAN, data : SessionData]]
    /\ cookie \in 0..MaxSids /\ sids \in 0..MaxSids
    /\ req \in [Reqs -> Request]
    /\ \A r \in Reqs : req[r].at = "planned" => req[r].own.plan.bindings # {}
    /\ cache \in [Flows \X (Users \cup {None}) ->
                  [set : BOOLEAN, bindings : SUBSET Nat, out : SUBSET Nat]]
    /\ runs \in 0..MaxPlans /\ changes \in 0..MaxPolicyChanges
    /\ policy \in [Guarded -> BOOLEAN] /\ admitting \subseteq Flows

\* At most one stage identifies the user, and before it nobody is pending: it comes first,
\* or no binding restarts the flow with its context.
Identifies(f) == {i \in Positions(f) : FlowBindings[f][i].stage = "identification"}
IdentifiesOnce(f) ==
    /\ \A i, j \in Identifies(f) : i = j
    /\ \/ Identifies(f) \subseteq {1}
       \/ \A i \in Positions(f) : FlowBindings[f][i].action # "restart_with_context"

\* A user is logged in by a plan only after every binding of the flow that comes before
\* the login stage was passed in that plan with this very user pending (or before anyone
\* was), or was left out because its policies had failed for that plan; whichever
\* requests overlap and whatever old copy of the session one of them writes back.
CompleteLogin ==
    \A l \in logins : IdentifiesOnce(l.flow) => \A i \in 1..l.position - 1 :
        LET b == FlowBindings[l.flow][i]
        IN  \/ <<l.run, b>> \in denied
            \/ \E u \in {l.user, None} : <<l.run, b, u>> \in checked

\* No request ends in an error: a flow that is not applicable is answered as configured.
DenialAnswered == \A r \in Reqs : req[r].out # "error"

=============================================================================
