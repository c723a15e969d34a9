------------------------- MODULE FlowExecutorProofs -------------------------
(***************************************************************************)
(* A login through the flow executor rests on every stage before it.       *)
(*                                                                         *)
(* Copies of the session are about: the rows of the store, and what each   *)
(* request loaded and works on.  A request may write an old copy over a    *)
(* newer one.  The inductive invariant says of every copy by itself that   *)
(* the bindings its plan no longer holds are accounted for.                *)
(*                                                                         *)
(* The authenticator stages that run inside a flow (Authenticators) accept *)
(* a code once, for any devices and browsers.                              *)
(***************************************************************************)
EXTENDS FlowExecutor, Authenticators, NaturalsInduction, WellFoundedInduction, TLAPS

\* A binding b of plan n was left out, passed before anyone was pending, or passed with
\* user u pending.  D and C are the histories denied and checked.
Passed(n, b, u, D, C) == <<n, b>> \in D \/ <<n, b, None>> \in C \/ <<n, b, u>> \in C

\* What was taken from a plan was passed with the pending user; while the identification
\* stage is still to come, before anyone was pending.
TakenPassed(p, D, C) ==
    \A i \in Positions(p.flow) \ p.bindings :
      /\ Passed(p.run, FlowBindings[p.flow][i], p.pending, D, C)
      /\ p.bindings \cap Identifies(p.flow) # {} =>
           Passed(p.run, FlowBindings[p.flow][i], None, D, C)

\* Nobody is pending until the identification stage is up, unless it is the flow's first.
PendingLate(p) ==
    \A m \in p.bindings \cap Identifies(p.flow) :
      m = 1 \/ p.pending = None \/ \A k \in p.bindings : m <= k

PlanFine(p, D, C) ==
    /\ p.bindings \subseteq Positions(p.flow)
    /\ IdentifiesOnce(p.flow) => TakenPassed(p, D, C) /\ PendingLate(p)

\* A copy of the session.
Good(s, D, C) == s \in SessionData /\ (s.plan.flow # None => PlanFine(s.plan, D, C))

\* A request: the plan it works on is one of the flow it was sent to.
ReqFine(q, D, C) ==
    /\ Good(q.own, D, C)
    /\ q.at # "free" => q.flow \in Flows
    /\ q.at = "planned" => q.own.plan.flow = q.flow /\ q.own.plan.bindings # {}

Copies ==
    /\ \A k \in 1..MaxSids : Good(store[k].data, denied, checked)
    /\ \A r \in Reqs : ReqFine(req[r], denied, checked)

\* A cached plan of flow f has every binding of the flow, or left it out.
EntryFine(f, e) ==
    e.set => e.bindings \subseteq Positions(f) /\ Positions(f) \ e.bindings \subseteq e.out
CacheFine == \A f \in Flows, u \in Users \cup {None} : EntryFine(f, cache[<<f, u>>])

IInv == TypeOK /\ Copies /\ CacheFine /\ CompleteLogin

-----------------------------------------------------------------------------
(* Sessions and plans *)

\* The least of a set of positions is one of them.
LEMMA MinIn ==
    ASSUME NEW S \in SUBSET Nat, S # {}
    PROVE  Min(S) \in S /\ \A k \in S : Min(S) <= k
  <1>1. IsWellFoundedOn(OpToRel(<, Nat), Nat)
    BY NatLessThanWellFounded
  <1>2. PICK x \in S : \A y \in S : ~(<<y, x>> \in OpToRel(<, Nat))
    BY <1>1, WFMin, ZenonT(60)
  <1>3. \A m, n \in Nat : m < n => <<m, n>> \in OpToRel(<, Nat)
    BY SMTT(60) DEF OpToRel
  <1>4. \A y \in S : y \in Nat /\ x \in Nat /\ ~(y < x)
    BY <1>2, <1>3, ZenonT(60)
  <1>5. \A y \in S : x <= y
    BY <1>4, SMTT(60)
  <1> QED BY <1>5, ZenonT(60) DEF Min

\* The positions of a flow are numbers from 1, and name bindings.
LEMMA PositionsFrom1 ==
    ASSUME NEW f \in Flows
    PROVE  /\ Positions(f) \subseteq Nat
           /\ \A i \in Positions(f) : 1 <= i /\ FlowBindings[f][i] \in Binding
  <1>1. FlowBindings[f] \in Seq(Binding)
    BY FlowAssumption, ZenonT(60)
  <1> QED BY <1>1, SMTT(60) DEF Positions

\* A session without a plan.
LEMMA CancelGood ==
    ASSUME NEW s \in SessionData, NEW D, NEW C
    PROVE  Good(Cancel(s), D, C)
  <1>1. NoPlan \in Plan
    BY FlowAssumption, SMTT(60) DEF NoPlan, Plan
  <1>2. Cancel(s) \in SessionData /\ Cancel(s).plan.flow = None
    BY <1>1, SMTT(60) DEF Cancel, SessionData, NoPlan
  <1> QED BY <1>2, Zenon DEF Good

\* The session a browser starts with.
LEMMA NewGood ==
    ASSUME NEW D, NEW C
    PROVE  /\ Good(NewSession, D, C) /\ NewSession \in SessionData
           /\ \A u \in Users : Good([NewSession EXCEPT !.user = u], D, C)
  <1>1. NoPlan \in Plan
    BY FlowAssumption, SMTT(60) DEF NoPlan, Plan
  <1>2. NewSession \in SessionData /\ NewSession.plan.flow = None
    BY <1>1, FlowAssumption, SMTT(60) DEF NewSession, SessionData, NoPlan
  <1>3. \A u \in Users : \A t \in SessionData :
          [t EXCEPT !.user = u] \in SessionData /\ [t EXCEPT !.user = u].plan = t.plan
    BY SMTT(60) DEF SessionData
  <1> QED BY <1>2, <1>3, Zenon DEF Good

\* The histories only grow, and what a copy needs of them stays.
LEMMA GoodGrows ==
    ASSUME NEW s, NEW D, NEW C, NEW D2, NEW C2, D \subseteq D2, C \subseteq C2, Good(s, D, C)
    PROVE  Good(s, D2, C2)
  <1>1. \A n, b, u : Passed(n, b, u, D, C) => Passed(n, b, u, D2, C2)
    BY ZenonT(60) DEF Passed
  <1> QED BY <1>1, ZenonT(60) DEF Good, PlanFine, TakenPassed

\* So does what a request needs.
LEMMA ReqGrows ==
    ASSUME NEW q, NEW D, NEW C, NEW D2, NEW C2, D \subseteq D2, C \subseteq C2, ReqFine(q, D, C)
    PROVE  ReqFine(q, D2, C2)
  BY GoodGrows, ZenonT(60) DEF ReqFine

\* Sessions that have the same plan.
LEMMA SamePlan ==
    ASSUME NEW s, NEW t \in SessionData, NEW D, NEW C, Good(s, D, C), t.plan = s.plan
    PROVE  Good(t, D, C)
  BY ZenonT(60) DEF Good

\* IdentificationStage sets the pending user, when it is up.
LEMMA PendingGood ==
    ASSUME NEW s, NEW D, NEW C, NEW u \in Users \cup {Unknown}, Good(s, D, C),
           s.plan.flow \in Flows, s.plan.bindings # {},
           FlowBindings[s.plan.flow][Min(s.plan.bindings)].stage = "identification"
    PROVE  /\ Good(SetPending(s, u), D, C)
           /\ SetPending(s, u).plan.flow = s.plan.flow
           /\ SetPending(s, u).plan.bindings = s.plan.bindings
  <1> DEFINE p == s.plan
             q == [p EXCEPT !.pending = u]
             t == SetPending(s, u)
             m == Min(p.bindings)
  <1>1. s \in SessionData /\ PlanFine(p, D, C)
    BY FlowAssumption, ZenonT(60) DEF Good
  <1>2. t \in SessionData /\ t.plan = q
    BY <1>1, SMTT(60) DEF SessionData, Plan, SetPending
  <1>3. q.run = p.run /\ q.flow = p.flow /\ q.bindings = p.bindings /\ q.pending = u
    BY <1>1, SMTT(60) DEF SessionData, Plan
  <1>4. p.bindings \subseteq Positions(p.flow) /\ p.bindings \in SUBSET Nat
    BY <1>1, PositionsFrom1, ZenonT(60) DEF PlanFine
  <1>5. m \in p.bindings /\ \A k \in p.bindings : m <= k
    BY <1>4, MinIn, ZenonT(60)
  <1>6. m \in p.bindings \cap Identifies(p.flow)
    BY <1>4, <1>5, ZenonT(60) DEF Identifies
  <1> HIDE DEF p, q, t, m
  <1>7. IdentifiesOnce(p.flow) => TakenPassed(q, D, C)
    BY <1>1, <1>3, <1>6, ZenonT(60) DEF PlanFine, TakenPassed, Passed
  <1>8. IdentifiesOnce(p.flow) => PendingLate(q)
    BY <1>3, <1>5, <1>6, ZenonT(60) DEF PendingLate, IdentifiesOnce
  <1>9. PlanFine(q, D, C)
    BY <1>3, <1>4, <1>7, <1>8, ZenonT(60) DEF PlanFine
  <1>10. Good(t, D, C) /\ t.plan.flow = p.flow /\ t.plan.bindings = p.bindings
    BY <1>2, <1>3, <1>9, ZenonT(60) DEF Good
  <1> QED BY <1>10, Zenon DEF t, p

\* stage_ok takes the first binding from the plan once it was passed with the pending user.
LEMMA PopGood ==
    ASSUME NEW s, NEW D, NEW C, NEW C2, Good(s, D, C), s.plan.flow \in Flows,
           s.plan.bindings # {}, C \subseteq C2,
           <<s.plan.run, FlowBindings[s.plan.flow][Min(s.plan.bindings)], s.plan.pending>> \in C2
    PROVE  Good([s EXCEPT !.plan = Pop(s.plan)], D, C2)
  <1> DEFINE p == s.plan
             m == Min(p.bindings)
             q == Pop(p)
             t == [s EXCEPT !.plan = q]
  <1>0. Good(s, D, C2)
    BY GoodGrows
  <1>1. s \in SessionData /\ PlanFine(p, D, C2)
    BY <1>0, FlowAssumption, ZenonT(60) DEF Good
  <1>2. p.bindings \subseteq Positions(p.flow) /\ p.bindings \in SUBSET Nat
    BY <1>1, PositionsFrom1, ZenonT(60) DEF PlanFine
  <1>3. /\ q.run = p.run /\ q.flow = p.flow /\ q.pending = p.pending
        /\ q.bindings = p.bindings \ {m} /\ q \in Plan
    BY <1>1, <1>2, SMTT(60) DEF SessionData, Plan, Pop
  <1>4. t \in SessionData /\ t.plan = q
    BY <1>1, <1>3, SMTT(60) DEF SessionData
  <1>5. m \in p.bindings /\ \A k \in p.bindings : m <= k
    BY <1>2, MinIn, ZenonT(60)
  <1>6. \A k \in q.bindings : k # 1 /\ ~ (k <= m)
    <2> SUFFICES ASSUME NEW k \in p.bindings, k # m PROVE k # 1 /\ ~ (k <= m)
      BY <1>3, Zenon
    <2>1. k \in Nat /\ m \in Nat /\ m <= k /\ 1 <= m
      BY <1>2, <1>5, PositionsFrom1, ZenonT(60)
    <2> QED BY <2>1, SMTT(60)
  <1>7. Passed(p.run, FlowBindings[p.flow][m], p.pending, D, C2)
    BY ZenonT(60) DEF Passed
  <1> HIDE DEF p, m, q, t
  <1>8. ASSUME IdentifiesOnce(p.flow)
        PROVE  TakenPassed(q, D, C2) /\ PendingLate(q)
    <2>1. TakenPassed(p, D, C2) /\ PendingLate(p)
      BY <1>1, <1>8, Zenon DEF PlanFine
    <2>2. \A k \in q.bindings \cap Identifies(p.flow) : k \in p.bindings /\ p.pending = None
      BY <1>3, <1>5, <1>6, <2>1, ZenonT(60) DEF PendingLate
    <2>3. PendingLate(q)
      BY <1>3, <2>2, ZenonT(60) DEF PendingLate
    <2>4. \A i \in Positions(p.flow) \ p.bindings :
            /\ Passed(p.run, FlowBindings[p.flow][i], p.pending, D, C2)
            /\ q.bindings \cap Identifies(p.flow) # {} =>
                 Passed(p.run, FlowBindings[p.flow][i], None, D, C2)
      BY <2>1, <2>2, ZenonT(60) DEF TakenPassed
    <2>5. q.bindings \cap Identifies(p.flow) # {} =>
             Passed(p.run, FlowBindings[p.flow][m], None, D, C2)
      BY <1>7, <2>2, ZenonT(60)
    <2>6. TakenPassed(q, D, C2)
      BY <1>3, <1>7, <2>4, <2>5, ZenonT(60) DEF TakenPassed
    <2> QED BY <2>3, <2>6
  <1>9. PlanFine(q, D, C2)
    BY <1>2, <1>3, <1>8, ZenonT(60) DEF PlanFine
  <1>10. Good(t, D, C2)
    BY <1>4, <1>9, ZenonT(60) DEF Good
  <1> QED BY <1>10, Zenon DEF t, q, p

\* A plan as the planner makes it: what it does not hold was left out.  Only a restart
\* with context has someone pending, and then the identification stage is the first.
LEMMA NewFine ==
    ASSUME NEW n, NEW f \in Flows, NEW bs \in SUBSET Positions(f), NEW u, NEW D, NEW C,
           \A i \in Positions(f) \ bs : <<n, FlowBindings[f][i]>> \in D,
           u # None => \E i \in Positions(f) : FlowBindings[f][i].action = "restart_with_context"
    PROVE  PlanFine([run |-> n, flow |-> f, bindings |-> bs, pending |-> u], D, C)
  <1> DEFINE p == [run |-> n, flow |-> f, bindings |-> bs, pending |-> u]
  <1>1. p.run = n /\ p.flow = f /\ p.bindings = bs /\ p.pending = u
    OBVIOUS
  <1> HIDE DEF p
  <1>2. TakenPassed(p, D, C)
    BY <1>1, ZenonT(60) DEF TakenPassed, Passed
  <1>3. IdentifiesOnce(f) => PendingLate(p)
    BY <1>1, ZenonT(60) DEF PendingLate, IdentifiesOnce
  <1>4. PlanFine(p, D, C)
    BY <1>1, <1>2, <1>3, ZenonT(60) DEF PlanFine
  <1> QED BY <1>4, Zenon DEF p

\* FlowPlan.next takes bindings from the plan whose policies fail.
LEMMA FewerGood ==
    ASSUME NEW s \in SessionData, NEW p \in Plan, NEW bs \in SUBSET p.bindings, NEW D, NEW D2,
           NEW C, p.flow \in Flows, PlanFine(p, D, C), D \subseteq D2,
           \A i \in p.bindings \ bs : <<p.run, FlowBindings[p.flow][i]>> \in D2
    PROVE  /\ Good([s EXCEPT !.plan = [p EXCEPT !.bindings = bs]], D2, C)
           /\ [s EXCEPT !.plan = [p EXCEPT !.bindings = bs]].plan.flow = p.flow
           /\ [s EXCEPT !.plan = [p EXCEPT !.bindings = bs]].plan.bindings = bs
  <1> DEFINE q == [p EXCEPT !.bindings = bs]
             t == [s EXCEPT !.plan = q]
  <1>1. /\ q.run = p.run /\ q.flow = p.flow /\ q.pending = p.pending /\ q.bindings = bs
        /\ q \in Plan
    BY SMTT(60) DEF Plan
  <1>2. t \in SessionData /\ t.plan = q
    BY <1>1, SMTT(60) DEF SessionData
  <1> HIDE DEF q, t
  <1>3. p.bindings \subseteq Positions(p.flow)
    BY Zenon DEF PlanFine
  <1>4. ASSUME IdentifiesOnce(p.flow)
        PROVE  TakenPassed(q, D2, C) /\ PendingLate(q)
    <2>1. TakenPassed(p, D, C) /\ PendingLate(p)
      BY <1>4, Zenon DEF PlanFine
    <2>2. \A n, b, u : Passed(n, b, u, D, C) => Passed(n, b, u, D2, C)
      BY ZenonT(60) DEF Passed
    <2>3. \A i \in p.bindings \ bs : \A u : Passed(p.run, FlowBindings[p.flow][i], u, D2, C)
      BY ZenonT(60) DEF Passed
    <2>4. TakenPassed(q, D2, C)
      BY <1>1, <2>1, <2>2, <2>3, ZenonT(60) DEF TakenPassed
    <2>5. PendingLate(q)
      BY <1>1, <2>1, ZenonT(60) DEF PendingLate
    <2> QED BY <2>4, <2>5
  <1>5. PlanFine(q, D2, C)
    BY <1>1, <1>3, <1>4, ZenonT(60) DEF PlanFine
  <1>6. Good(t, D2, C) /\ t.plan.flow = p.flow /\ t.plan.bindings = bs
    BY <1>1, <1>2, <1>5, ZenonT(60) DEF Good
  <1> QED BY <1>6, Zenon DEF t, q

-----------------------------------------------------------------------------
(* Steps of a request *)

ReqTyped ==
    /\ req \in [Reqs -> Request]
    /\ \A r \in Reqs : req[r].at = "planned" => req[r].own.plan.bindings # {}

Outs == {None, "challenge", "redirect", "done", "denied", "error"}

\* What the request that is at a stage holds.
LEMMA Mine ==
    ASSUME TypeOK, Copies, NEW r \in Reqs, req[r].at = "planned"
    PROVE  /\ Good(Own(r), denied, checked) /\ Own(r) \in SessionData
           /\ Own(r).plan.flow = req[r].flow /\ req[r].flow \in Flows
           /\ Own(r).plan.bindings # {}
           /\ Min(Own(r).plan.bindings) \in Positions(req[r].flow)
           /\ Head1(r) = FlowBindings[req[r].flow][Min(Own(r).plan.bindings)]
  <1>1. ReqFine(req[r], denied, checked)
    BY Zenon DEF Copies
  <1>2. /\ Good(Own(r), denied, checked) /\ Own(r) \in SessionData
        /\ Own(r).plan.flow = req[r].flow /\ req[r].flow \in Flows
        /\ Own(r).plan.bindings # {}
    BY <1>1, SMTT(60) DEF ReqFine, Own, Good
  <1>3. Own(r).plan.bindings \subseteq Positions(req[r].flow)
    BY <1>2, FlowAssumption, ZenonT(60) DEF Good, PlanFine
  <1>4. Own(r).plan.bindings \in SUBSET Nat
    BY <1>2, <1>3, PositionsFrom1, ZenonT(60)
  <1>5. Min(Own(r).plan.bindings) \in Positions(req[r].flow)
    BY <1>2, <1>3, <1>4, MinIn, ZenonT(60)
  <1> QED BY <1>2, <1>5, ZenonT(60) DEF Head1, Own

\* One request moves on with its copy; the others and the store keep theirs.
LEMMA OneRequest ==
    ASSUME TypeOK, Copies, NEW r \in Reqs, req' \in [Reqs -> Request],
           \A x \in Reqs \ {r} : req'[x] = req[x], store' = store,
           denied \subseteq denied', checked \subseteq checked',
           ReqFine(req'[r], denied', checked')
    PROVE  Copies' /\ ReqTyped'
  <1>1. \A x \in Reqs : ReqFine(req'[x], denied', checked')
    <2> SUFFICES ASSUME NEW x \in Reqs, x # r PROVE ReqFine(req'[x], denied', checked')
      BY Zenon
    <2>1. ReqFine(req[x], denied, checked) /\ req'[x] = req[x]
      BY Zenon DEF Copies
    <2> QED BY <2>1, ReqGrows, ZenonT(60)
  <1>2. \A k \in 1..MaxSids : Good(store[k].data, denied', checked')
    BY GoodGrows, ZenonT(60) DEF Copies
  <1>3. Copies'
    BY <1>1, <1>2, ZenonT(60) DEF Copies
  <1>4. ReqTyped'
    BY <1>1, ZenonT(60) DEF ReqTyped, ReqFine
  <1> QED BY <1>3, <1>4

\* A request that was handled with session s.
LEMMA HandledFields ==
    ASSUME NEW q \in Request, NEW s \in SessionData, NEW out \in Outs
    PROVE  /\ Handled(q, s, out) \in Request /\ Handled(q, s, out).own = s
           /\ Handled(q, s, out).at = "handled" /\ Handled(q, s, out).flow = q.flow
  <1> DEFINE q1 == [q EXCEPT !.own = s]
             q2 == [q1 EXCEPT !.out = out]
             q3 == [q2 EXCEPT !.at = "handled"]
  <1>1. Handled(q, s, out) = q3
    BY DEF Handled
  <1>2. q1 \in Request /\ q1.flow = q.flow /\ q1.own = s
    BY SMTT(60) DEF Request
  <1> HIDE DEF q1
  <1>3. q2 \in Request /\ q2.flow = q.flow /\ q2.own = s
    BY <1>2, SMTT(60) DEF Request, Outs
  <1> HIDE DEF q2
  <1>4. q3 \in Request /\ q3.flow = q.flow /\ q3.own = s /\ q3.at = "handled"
    BY <1>3, SMTT(60) DEF Request
  <1> HIDE DEF q3
  <1> QED BY <1>1, <1>4, Zenon

\* Its session got a new key.
LEMMA CycledFields ==
    ASSUME NEW q \in Request, NEW k \in 0..MaxSids
    PROVE  /\ [q EXCEPT !.sid = k] \in Request /\ [q EXCEPT !.sid = k].own = q.own
           /\ [q EXCEPT !.sid = k].at = q.at /\ [q EXCEPT !.sid = k].flow = q.flow
  BY SMTT(60) DEF Request

\* A request that is at a stage.
LEMMA PlannedAt ==
    ASSUME NEW q \in Request, NEW s \in SessionData
    PROVE  /\ [q EXCEPT !.own = s, !.at = "planned"] \in Request
           /\ [q EXCEPT !.own = s, !.at = "planned"].own = s
           /\ [q EXCEPT !.own = s, !.at = "planned"].at = "planned"
           /\ [q EXCEPT !.own = s, !.at = "planned"].flow = q.flow
  <1> DEFINE q1 == [q EXCEPT !.own = s]
             q2 == [q1 EXCEPT !.at = "planned"]
  <1>0. [q EXCEPT !.own = s, !.at = "planned"] = q2
    OBVIOUS
  <1>1. q1 \in Request /\ q1.flow = q.flow /\ q1.own = s
    BY SMTT(60) DEF Request
  <1> HIDE DEF q1
  <1>2. q2 \in Request /\ q2.flow = q.flow /\ q2.own = s /\ q2.at = "planned"
    BY <1>1, SMTT(60) DEF Request
  <1> HIDE DEF q2
  <1> QED BY <1>0, <1>2, ZenonT(60)

\* The request is answered with session s.
LEMMA Response ==
    ASSUME TypeOK, Copies, NEW r \in Reqs, req[r].at # "free", NEW s, NEW out \in Outs,
           Respond(r, s, out), store' = store,
           denied \subseteq denied', checked \subseteq checked', Good(s, denied', checked')
    PROVE  Copies' /\ ReqTyped'
  <1>1. s \in SessionData /\ req \in [Reqs -> Request]
    BY Zenon DEF Good, TypeOK
  <1> DEFINE q == Handled(req[r], s, out)
  <1>a. req[r] \in Request
    BY <1>1, SMTT(60)
  <1>b. q \in Request /\ q.own = s /\ q.at = "handled" /\ q.flow = req[r].flow
    <2>1. out \in Outs
      OBVIOUS
    <2> QED BY ONLY <1>1, <1>a, <2>1, HandledFields, SMTT(60)
  <1>c. req' = [req EXCEPT ![r] = q]
    BY Zenon DEF Respond
  <1> HIDE DEF q
  <1>2. /\ req' \in [Reqs -> Request] /\ \A x \in Reqs \ {r} : req'[x] = req[x]
        /\ req'[r].own = s /\ req'[r].at = "handled" /\ req'[r].flow = req[r].flow
    BY <1>1, <1>b, <1>c, SMTT(60)
  <1>3. req[r].flow \in Flows
    BY Zenon DEF Copies, ReqFine
  <1>4. ReqFine(req'[r], denied', checked')
    BY <1>2, <1>3, SMTT(60) DEF ReqFine
  <1> QED BY <1>2, <1>4, OneRequest, ZenonT(60)

\* Pop keeps everything of a plan but its first binding.
LEMMA PopFields ==
    ASSUME NEW p \in Plan
    PROVE  /\ Pop(p).run = p.run /\ Pop(p).flow = p.flow /\ Pop(p).pending = p.pending
           /\ Pop(p).bindings = p.bindings \ {Min(p.bindings)}
  BY SMTT(60) DEF Plan, Pop

\* stage_ok: the binding was passed with the pending user and is taken from the plan.
LEMMA StageOkStep ==
    ASSUME TypeOK, Copies, NEW r \in Reqs, req[r].at = "planned", NEW s,
           Good(s, denied, checked), s.plan.flow = Own(r).plan.flow,
           s.plan.bindings = Own(r).plan.bindings, StageOk(r, s),
           denied' = denied, store' = store
    PROVE  Copies' /\ ReqTyped' /\ checked \subseteq checked'
  <1>1. s \in SessionData /\ s.plan \in Plan
    BY SMTT(60) DEF Good, SessionData
  <1>2. Pop(s.plan).run = s.plan.run /\ Pop(s.plan).pending = s.plan.pending
    BY <1>1, PopFields, Zenon
  <1>3. checked' = checked \cup {<<s.plan.run, Head1(r), s.plan.pending>>}
    BY <1>2, Zenon DEF StageOk
  <1>4. /\ s.plan.flow \in Flows /\ s.plan.bindings # {}
        /\ Head1(r) = FlowBindings[s.plan.flow][Min(s.plan.bindings)]
    BY Mine, ZenonT(60)
  <1>5. checked \subseteq checked' /\ denied \subseteq denied'
    BY <1>3, Zenon
  <1>6. Good([s EXCEPT !.plan = Pop(s.plan)], denied', checked')
    <2>1. <<s.plan.run, FlowBindings[s.plan.flow][Min(s.plan.bindings)], s.plan.pending>> \in checked'
      BY <1>3, <1>4, ZenonT(60)
    <2> QED BY <1>4, <1>5, <2>1, PopGood, ZenonT(60)
  <1>7. Good(Cancel(s), denied', checked')
    BY <1>1, CancelGood, Zenon
  <1>8. \/ Respond(r, Cancel(s), "done")
        \/ Respond(r, [s EXCEPT !.plan = Pop(s.plan)], "redirect")
    BY Zenon DEF StageOk
  <1>9. "done" \in Outs /\ "redirect" \in Outs /\ req[r].at # "free"
    BY SMTT(60) DEF Outs
  <1>10. Copies' /\ ReqTyped'
    BY <1>5, <1>6, <1>7, <1>8, <1>9, Response, ZenonT(60)
  <1> QED BY <1>5, <1>10

\* restart_flow: what the new plan does not hold was left out.
LEMMA RestartStep ==
    ASSUME TypeOK, Copies, NEW r \in Reqs, req[r].at = "planned", NEW s, NEW keep \in BOOLEAN,
           Good(s, denied, checked), keep => Head1(r).action = "restart_with_context",
           Restart(r, s, keep), checked' = checked, store' = store
    PROVE  /\ Copies' /\ ReqTyped'
           /\ denied \subseteq denied' /\ runs' \in 0..MaxPlans
  <1> DEFINE f == req[r].flow
             u == IF keep THEN s.plan.pending ELSE None
             p == NewPlan(f, Build(f), u)
  <1>1. s \in SessionData /\ f \in Flows /\ req[r].at # "free"
    BY Mine, SMTT(60) DEF Good
  <1>2. "redirect" \in Outs /\ "error" \in Outs
    BY SMTT(60) DEF Outs
  <1>3. CASE Respond(r, s, "error") /\ UNCHANGED <<runs, denied>>
    <2>1. denied \subseteq denied' /\ checked \subseteq checked' /\ Good(s, denied', checked')
      BY <1>3, Zenon
    <2>2. Copies' /\ ReqTyped'
      BY <1>1, <1>2, <1>3, <2>1, Response, ZenonT(60)
    <2>3. runs' \in 0..MaxPlans
      BY <1>3, Zenon DEF TypeOK
    <2> QED BY <2>1, <2>2, <2>3
  <1>4. CASE /\ runs < MaxPlans /\ runs' = runs + 1
             /\ denied' = denied \cup LeftOut(runs + 1, f, FailsOnPlan(f))
             /\ Respond(r, [s EXCEPT !.plan = p], "redirect")
    <2>1. denied \subseteq denied' /\ checked \subseteq checked'
      BY <1>4, Zenon
    <2>2. runs' \in 0..MaxPlans /\ runs + 1 \in 0..MaxPlans
      BY <1>4, FlowAssumption, SMTT(60) DEF TypeOK
    <2>3. Build(f) \in SUBSET Positions(f) /\ Positions(f) \ Build(f) \subseteq FailsOnPlan(f)
      BY Zenon DEF Build
    <2>4. \A i \in Positions(f) \ Build(f) : <<runs + 1, FlowBindings[f][i]>> \in denied'
      BY <1>4, <2>3, ZenonT(60) DEF LeftOut
    <2>5. u # None => \E i \in Positions(f) : FlowBindings[f][i].action = "restart_with_context"
      BY Mine, ZenonT(60)
    <2>6. PlanFine(p, denied', checked')
      BY <1>1, <2>3, <2>4, <2>5, NewFine, ZenonT(60) DEF NewPlan
    <2>7. s.plan.pending \in Users \cup {None, Unknown}
      BY <1>1, SMTT(60) DEF SessionData, Plan
    <2>8. p \in Plan /\ p.flow = f
      BY <1>1, <2>2, <2>3, <2>7, PositionsFrom1, SMTT(60) DEF NewPlan, Plan
    <2>9. [s EXCEPT !.plan = p] \in SessionData /\ [s EXCEPT !.plan = p].plan = p
      BY <1>1, <2>8, SMTT(60) DEF SessionData
    <2>10. Good([s EXCEPT !.plan = p], denied', checked')
      BY <2>6, <2>9, ZenonT(60) DEF Good
    <2>11. Copies' /\ ReqTyped'
      BY <1>1, <1>2, <1>4, <2>1, <2>10, Response, ZenonT(60)
    <2> QED BY <2>1, <2>2, <2>11
  <1> QED BY <1>3, <1>4, ZenonT(60) DEF Restart

\* stage_invalid, and the answer to an invalid response.
LEMMA InvalidStep ==
    ASSUME TypeOK, Copies, NEW r \in Reqs, req[r].at = "planned", NEW s,
           Good(s, denied, checked), StageInvalid(r, s) \/ ChallengeInvalid(r, s),
           checked' = checked, store' = store
    PROVE  /\ Copies' /\ ReqTyped'
           /\ denied \subseteq denied' /\ runs' \in 0..MaxPlans
  <1>1. CASE Restart(r, s, Head1(r).action = "restart_with_context")
    BY <1>1, RestartStep, ZenonT(60)
  <1>2. CASE /\ Respond(r, Cancel(s), "denied") \/ Respond(r, s, "challenge")
             /\ UNCHANGED <<runs, denied>>
    <2>1. denied \subseteq denied' /\ checked \subseteq checked' /\ Good(s, denied', checked')
      BY <1>2, Zenon
    <2>2. Good(Cancel(s), denied', checked')
      BY CancelGood, Zenon DEF Good
    <2>3. "denied" \in Outs /\ "challenge" \in Outs /\ req[r].at # "free"
      BY SMTT(60) DEF Outs
    <2>4. Copies' /\ ReqTyped'
      BY <1>2, <2>1, <2>2, <2>3, Response, ZenonT(60)
    <2>5. runs' \in 0..MaxPlans
      BY <1>2, Zenon DEF TypeOK
    <2> QED BY <2>1, <2>4, <2>5
  <1> QED BY <1>1, <1>2, ZenonT(60) DEF StageInvalid, ChallengeInvalid

\* FlowExecutorView.dispatch presents the first binding of a plan that is fine once the
\* bindings in "out" count as left out.
LEMMA PresentStep ==
    ASSUME TypeOK, Copies, NEW r \in Reqs, req[r].at = "loaded", NEW p \in Plan, NEW out,
           p.flow = req[r].flow, p.flow \in Flows,
           PlanFine(p, denied \cup LeftOut(p.run, p.flow, out), checked),
           Present(r, p, out), store' = store
    PROVE  Copies' /\ ReqTyped' /\ denied \subseteq denied' /\ checked' = checked
  <1> DEFINE bs == Reevaluate(p.flow, p.bindings)
             s == [Own(r) EXCEPT !.plan = [p EXCEPT !.bindings = bs]]
             D == denied \cup LeftOut(p.run, p.flow, out)
  <1>1. denied' = denied \cup LeftOut(p.run, p.flow, (p.bindings \ bs) \cup out)
    BY Zenon DEF Present
  <1>2. D \subseteq denied' /\ denied \subseteq denied' /\ checked' = checked
    BY <1>1, ZenonT(60) DEF Present, LeftOut
  <1>3. bs \in SUBSET p.bindings
    BY Zenon DEF Reevaluate
  <1>4. \A i \in p.bindings \ bs : <<p.run, FlowBindings[p.flow][i]>> \in denied'
    <2> DEFINE gone == (p.bindings \ bs) \cup out
    <2>1. \A i \in p.bindings \ bs : i \in gone
      OBVIOUS
    <2>2. denied' = denied \cup {<<p.run, FlowBindings[p.flow][i]>> : i \in gone}
      BY <1>1, Zenon DEF LeftOut
    <2> HIDE DEF bs, gone
    <2> QED BY ONLY <2>1, <2>2, ZenonT(60)
  <1>5. Own(r) \in SessionData /\ req \in [Reqs -> Request]
    BY SMTT(60) DEF TypeOK, Own, Request
  <1>6. Good(s, denied', checked') /\ s.plan.flow = p.flow /\ s.plan.bindings = bs
    <2>1. PlanFine(p, D, checked) /\ checked' = checked /\ p \in Plan
      BY <1>2, Zenon
    <2>2. p.flow \in Flows
      OBVIOUS
    <2> HIDE DEF bs, D
    <2> QED BY ONLY <1>2, <1>3, <1>4, <1>5, <2>1, <2>2, FewerGood, SMTT(60)
  <1>7. CASE Respond(r, Cancel(s), "done")
    <2>1. Good(Cancel(s), denied', checked') /\ checked \subseteq checked'
      BY <1>2, <1>6, CancelGood, Zenon DEF Good
    <2>2. "done" \in Outs /\ req[r].at # "free"
      BY SMTT(60) DEF Outs
    <2>3. Copies' /\ ReqTyped'
      BY <1>2, <1>7, <2>1, <2>2, Response, ZenonT(60)
    <2> QED BY <1>2, <2>3
  <1>8. CASE bs # {} /\ req' = [req EXCEPT ![r] = [@ EXCEPT !.own = s, !.at = "planned"]]
    <2>1. s \in SessionData /\ checked \subseteq checked'
      BY <1>2, <1>6, Zenon DEF Good
    <2> HIDE DEF s, bs, D
    <2> DEFINE q == [req[r] EXCEPT !.own = s, !.at = "planned"]
    <2>a. req[r] \in Request
      BY <1>5, SMTT(60)
    <2>b. q \in Request /\ q.own = s /\ q.at = "planned" /\ q.flow = req[r].flow
      BY <2>1, <2>a, PlannedAt, ZenonT(60)
    <2>c. req' = [req EXCEPT ![r] = q]
      BY <1>8, Zenon
    <2> HIDE DEF q
    <2>2. /\ req' \in [Reqs -> Request] /\ \A x \in Reqs \ {r} : req'[x] = req[x]
          /\ req'[r].own = s /\ req'[r].at = "planned" /\ req'[r].flow = req[r].flow
      BY <1>5, <2>b, <2>c, SMTT(60)
    <2>3. ReqFine(req'[r], denied', checked')
      BY <1>6, <1>8, <2>2, ZenonT(60) DEF ReqFine
    <2>4. Copies' /\ ReqTyped'
      BY <1>2, <2>1, <2>2, <2>3, OneRequest, ZenonT(60)
    <2> QED BY <1>2, <2>4
  <1> QED BY <1>7, <1>8, ZenonT(60) DEF Present

-----------------------------------------------------------------------------
(* The invariant *)

\* A login that was complete stays so: the histories only grow.
LEMMA LoginsKept ==
    ASSUME CompleteLogin, denied \subseteq denied', checked \subseteq checked',
           NEW l \in logins, IdentifiesOnce(l.flow), NEW i \in 1..l.position - 1
    PROVE  \/ <<l.run, FlowBindings[l.flow][i]>> \in denied'
           \/ \E u \in {l.user, None} : <<l.run, FlowBindings[l.flow][i], u>> \in checked'
  BY ZenonT(60) DEF CompleteLogin

\* A step of a request that leaves the store, the cache and the policies alone.
LEMMA Whole ==
    ASSUME IInv, Copies', ReqTyped', UNCHANGED <<session, cache, policies, logins, changes>>,
           denied \subseteq denied', checked \subseteq checked', runs' \in 0..MaxPlans
    PROVE  IInv'
  <1>1. /\ store' = store /\ cookie' = cookie /\ sids' = sids /\ cache' = cache
        /\ policy' = policy /\ admitting' = admitting /\ logins' = logins /\ changes' = changes
    BY SMTT(60) DEF session, policies
  <1>2. TypeOK'
    BY <1>1, ZenonT(60) DEF IInv, TypeOK, ReqTyped
  <1>3. CacheFine'
    BY <1>1, ZenonT(60) DEF IInv, CacheFine
  <1>4. CompleteLogin'
    BY <1>1, LoginsKept, ZenonT(60) DEF IInv, CompleteLogin
  <1> QED BY <1>2, <1>3, <1>4, Zenon DEF IInv

\* A request that is not in progress.
LEMMA FreeFine ==
    ASSUME NEW D, NEW C
    PROVE  Free \in Request /\ ReqFine(Free, D, C)
  <1>1. Good(NewSession, D, C) /\ NewSession \in SessionData
    BY NewGood, Zenon
  <1>2. Free \in Request /\ Free.own = NewSession /\ Free.at = "free"
    BY <1>1, FlowAssumption, SMTT(60) DEF Free, Request
  <1> QED BY <1>1, <1>2, SMTT(60) DEF ReqFine

\* SessionStore.load
LEMMA LoadStep ==
    ASSUME IInv, NEW r \in Reqs, NEW f \in Flows, NEW m \in {"GET", "POST", "CANCEL"}, Load(r, f, m)
    PROVE  IInv'
  <1> DEFINE live == cookie # 0 /\ store[cookie].live
             data == IF live THEN store[cookie].data ELSE NewSession
             q == [at |-> "loaded", flow |-> f, method |-> m,
                   sid |-> IF live THEN cookie ELSE 0, own |-> data, out |-> None]
  <1>1. TypeOK /\ Copies
    BY Zenon DEF IInv
  <1>2. cookie # 0 => cookie \in 1..MaxSids
    BY <1>1, FlowAssumption, SMTT(60) DEF TypeOK
  <1>3. Good(data, denied, checked)
    BY <1>1, <1>2, NewGood, ZenonT(60) DEF Copies
  <1>4. data \in SessionData /\ cookie \in 0..MaxSids /\ 0 \in 0..MaxSids
    BY <1>1, <1>3, FlowAssumption, SMTT(60) DEF Good, TypeOK
  <1>5. req' = [req EXCEPT ![r] = q] /\ req \in [Reqs -> Request]
    BY <1>1, Zenon DEF Load, TypeOK
  <1>6. UNCHANGED <<session, planner, policies, history, changes>>
    BY Zenon DEF Load
  <1> HIDE DEF data, live
  <1>7. q \in Request /\ q.own = data /\ q.at = "loaded" /\ q.flow = f
    BY <1>4, SMTT(60) DEF Request
  <1> HIDE DEF q
  <1>8. ReqFine(q, denied, checked)
    BY <1>3, <1>7, SMTT(60) DEF ReqFine
  <1>9. /\ req' \in [Reqs -> Request] /\ req'[r] = q
        /\ \A x \in Reqs \ {r} : req'[x] = req[x]
    BY <1>5, <1>7, SMTT(60)
  <1>10. /\ store' = store /\ denied' = denied /\ checked' = checked /\ runs' = runs
         /\ UNCHANGED <<session, cache, policies, logins, changes>>
    BY <1>6, SMTT(60) DEF planner, history, session
  <1>11. denied \subseteq denied' /\ checked \subseteq checked'
    BY <1>10, Zenon
  <1>12. Copies' /\ ReqTyped'
    BY <1>1, <1>8, <1>9, <1>10, <1>11, OneRequest, ZenonT(60)
  <1>13. runs' \in 0..MaxPlans
    BY <1>1, <1>10, Zenon DEF TypeOK
  <1> QED BY <1>10, <1>11, <1>12, <1>13, Whole, ZenonT(60)

\* A request that is answered with its own session, or with its plan cancelled.
LEMMA AnswerStep ==
    ASSUME IInv, NEW r \in Reqs, req[r].at # "free", NEW out \in Outs,
           Respond(r, Own(r), out) \/ Respond(r, Cancel(Own(r)), out),
           UNCHANGED <<session, planner, policies, history, changes>>
    PROVE  IInv'
  <1>1. TypeOK /\ Copies
    BY Zenon DEF IInv
  <1>2. /\ store' = store /\ denied' = denied /\ checked' = checked /\ runs' = runs
        /\ UNCHANGED <<session, cache, policies, logins, changes>>
    BY SMTT(60) DEF planner, history, session
  <1>3. denied \subseteq denied' /\ checked \subseteq checked'
    BY <1>2, Zenon
  <1>4. Good(Own(r), denied', checked') /\ Own(r) \in SessionData
    BY <1>1, <1>2, ZenonT(60) DEF Copies, ReqFine, Own, Good
  <1>5. Good(Cancel(Own(r)), denied', checked')
    BY <1>4, CancelGood, Zenon
  <1>6. Copies' /\ ReqTyped'
    BY <1>1, <1>2, <1>3, <1>4, <1>5, Response, ZenonT(60)
  <1>7. runs' \in 0..MaxPlans
    BY <1>1, <1>2, Zenon DEF TypeOK
  <1> QED BY <1>2, <1>3, <1>6, <1>7, Whole, ZenonT(60)

\* An existing plan is continued.
LEMMA ContinueStep ==
    ASSUME IInv, NEW r \in Reqs, Continue(r)
    PROVE  IInv'
  <1>1. TypeOK /\ Copies /\ req[r].at = "loaded"
    BY Zenon DEF IInv, Continue
  <1>2. Present(r, Own(r).plan, {}) /\ UNCHANGED <<session, planner, policies, changes>>
    BY Zenon DEF Continue
  <1>3. store' = store /\ cache' = cache /\ runs' = runs /\ logins' = logins
    BY <1>2, SMTT(60) DEF planner, session, Present
  <1>4. ReqFine(req[r], denied, checked) /\ Own(r).plan.flow = req[r].flow
    BY <1>1, Zenon DEF Copies, Continue, HasPlan
  <1>5. req[r].flow \in Flows /\ Good(Own(r), denied, checked)
    BY <1>1, <1>4, SMTT(60) DEF ReqFine, Own
  <1>6. Own(r).plan \in Plan
    BY <1>5, SMTT(60) DEF Good, SessionData
  <1>7. PlanFine(Own(r).plan, denied, checked)
    BY <1>4, <1>5, FlowAssumption, ZenonT(60) DEF Good
  <1>8. LeftOut(Own(r).plan.run, Own(r).plan.flow, {}) = {}
    BY ZenonT(60) DEF LeftOut
  <1>9. denied \cup LeftOut(Own(r).plan.run, Own(r).plan.flow, {}) = denied
    BY <1>8, ZenonT(60)
  <1>10. Copies' /\ ReqTyped' /\ denied \subseteq denied' /\ checked' = checked
    BY <1>1, <1>2, <1>3, <1>4, <1>5, <1>6, <1>7, <1>9, PresentStep, ZenonT(60)
  <1>11. runs' \in 0..MaxPlans /\ checked \subseteq checked'
    BY <1>1, <1>3, <1>10, Zenon DEF TypeOK
  <1>12. UNCHANGED <<session, cache, policies, logins, changes>>
    BY <1>2, <1>3, SMTT(60)
  <1> QED BY <1>10, <1>11, <1>12, Whole, ZenonT(60)

\* The planner is asked: a plan from the cache or a new one.
LEMMA PlannedFine ==
    ASSUME TypeOK, CacheFine, NEW f \in Flows, NEW u \in Users \cup {None}
    PROVE  /\ Planned(f, u) \in [set : BOOLEAN, bindings : SUBSET Nat, out : SUBSET Nat]
           /\ Planned(f, u).bindings \subseteq Positions(f)
           /\ Positions(f) \ Planned(f, u).bindings \subseteq Planned(f, u).out
  <1>1. CASE cache[<<f, u>>].set
    <2>1. Planned(f, u) = cache[<<f, u>>] /\ EntryFine(f, cache[<<f, u>>])
      BY <1>1, ZenonT(60) DEF Planned, CacheFine
    <2>2. cache[<<f, u>>] \in [set : BOOLEAN, bindings : SUBSET Nat, out : SUBSET Nat]
      BY SMTT(60) DEF TypeOK
    <2> QED BY <1>1, <2>1, <2>2, ZenonT(60) DEF EntryFine
  <1>2. CASE ~ cache[<<f, u>>].set
    <2> DEFINE e == [set |-> TRUE, bindings |-> Build(f), out |-> FailsOnPlan(f)]
    <2>1. Planned(f, u) = e
      BY <1>2, Zenon DEF Planned
    <2>2. /\ Build(f) \subseteq Positions(f) /\ FailsOnPlan(f) \subseteq Positions(f)
          /\ Positions(f) \ Build(f) \subseteq FailsOnPlan(f)
      BY Zenon DEF Build, FailsOnPlan
    <2>3. Build(f) \in SUBSET Nat /\ FailsOnPlan(f) \in SUBSET Nat
      BY <2>2, PositionsFrom1, ZenonT(60)
    <2>4. /\ e \in [set : BOOLEAN, bindings : SUBSET Nat, out : SUBSET Nat]
          /\ e.bindings = Build(f) /\ e.out = FailsOnPlan(f)
      BY <2>3, SMTT(60)
    <2> HIDE DEF e
    <2> QED BY <2>1, <2>2, <2>4, ZenonT(60)
  <1> QED BY <1>1, <1>2

\* One entry of the cache is replaced.
LEMMA CacheStep ==
    ASSUME TypeOK, CacheFine, NEW f \in Flows, NEW u \in Users \cup {None},
           NEW e \in [set : BOOLEAN, bindings : SUBSET Nat, out : SUBSET Nat],
           EntryFine(f, e), cache' = [cache EXCEPT ![<<f, u>>] = e]
    PROVE  /\ CacheFine'
           /\ cache' \in [Flows \X (Users \cup {None}) ->
                            [set : BOOLEAN, bindings : SUBSET Nat, out : SUBSET Nat]]
  <1>1. cache' \in [Flows \X (Users \cup {None}) ->
                       [set : BOOLEAN, bindings : SUBSET Nat, out : SUBSET Nat]]
    BY SMTT(60) DEF TypeOK
  <1>2. \A g \in Flows, v \in Users \cup {None} :
          cache'[<<g, v>>] = IF g = f /\ v = u THEN e ELSE cache[<<g, v>>]
    BY SMTT(60) DEF TypeOK
  <1>3. ASSUME NEW g \in Flows, NEW v \in Users \cup {None}
        PROVE  EntryFine(g, cache'[<<g, v>>])
    <2>1. EntryFine(g, cache[<<g, v>>])
      BY Zenon DEF CacheFine
    <2>2. CASE g = f /\ v = u
      <3>1. cache'[<<g, v>>] = e
        BY <1>2, <2>2, Zenon
      <3> QED BY <2>2, <3>1, Zenon
    <2>3. CASE ~ (g = f /\ v = u)
      <3>1. cache'[<<g, v>>] = cache[<<g, v>>]
        BY <1>2, <2>3, Zenon
      <3> QED BY <2>1, <3>1, Zenon
    <2> QED BY <2>2, <2>3
  <1>4. CacheFine'
    BY <1>3, ZenonT(60) DEF CacheFine
  <1> QED BY <1>1, <1>4

\* _initiate_plan, and the first presentation of the plan.
LEMMA InitiateStep ==
    ASSUME IInv, NEW r \in Reqs, Initiate(r)
    PROVE  IInv'
  <1> DEFINE f == req[r].flow
             u == Own(r).user
             e == Planned(f, u)
             p == NewPlan(f, e.bindings, None)
  <1>1. TypeOK /\ Copies /\ CacheFine /\ CompleteLogin /\ req[r].at = "loaded"
    BY Zenon DEF IInv, Initiate
  <1>2. /\ runs < MaxPlans /\ cache' = [cache EXCEPT ![<<f, u>>] = e]
        /\ UNCHANGED <<session, policies, changes>>
    BY Zenon DEF Initiate
  <1>3. /\ store' = store /\ cookie' = cookie /\ sids' = sids
        /\ policy' = policy /\ admitting' = admitting /\ changes' = changes
    BY <1>2, SMTT(60) DEF session, policies
  <1>4. ReqFine(req[r], denied, checked)
    BY <1>1, Zenon DEF Copies
  <1>5. f \in Flows /\ Own(r) \in SessionData
    BY <1>1, <1>4, SMTT(60) DEF ReqFine, Good, Own
  <1>6. u \in Users \cup {None}
    BY <1>5, SMTT(60) DEF SessionData
  <1>7. /\ e \in [set : BOOLEAN, bindings : SUBSET Nat, out : SUBSET Nat]
        /\ e.bindings \subseteq Positions(f)
        /\ Positions(f) \ e.bindings \subseteq e.out
    BY <1>1, <1>5, <1>6, PlannedFine, ZenonT(60)
  <1>8. CacheFine' /\ cache' \in [Flows \X (Users \cup {None}) ->
                          [set : BOOLEAN, bindings : SUBSET Nat, out : SUBSET Nat]]
    BY <1>1, <1>2, <1>5, <1>6, <1>7, CacheStep, ZenonT(60) DEF EntryFine
  <1>9. /\ Copies' /\ ReqTyped' /\ denied \subseteq denied' /\ checked' = checked
        /\ runs' \in 0..MaxPlans /\ logins' = logins
    <2>1. CASE Respond(r, Cancel(Own(r)), "done") /\ UNCHANGED <<runs, history>>
      <3>1. denied' = denied /\ checked' = checked /\ logins' = logins /\ runs' = runs
        BY <2>1, SMTT(60) DEF history
      <3>2. Good(Cancel(Own(r)), denied', checked')
        BY <1>5, CancelGood, Zenon
      <3>3. "done" \in Outs /\ req[r].at # "free"
        BY <1>1, SMTT(60) DEF Outs
      <3>4. denied \subseteq denied' /\ checked \subseteq checked'
        BY <3>1, Zenon
      <3>5. Copies' /\ ReqTyped'
        BY <1>1, <1>3, <2>1, <3>2, <3>3, <3>4, Response, ZenonT(60)
      <3>6. runs' \in 0..MaxPlans
        BY <1>1, <3>1, Zenon DEF TypeOK
      <3> QED BY <3>1, <3>4, <3>5, <3>6
    <2>2. CASE runs' = runs + 1 /\ Present(r, p, e.out)
      <3>1. runs + 1 \in 0..MaxPlans
        BY <1>1, <1>2, FlowAssumption, SMTT(60) DEF TypeOK
      <3>2. e.bindings \in SUBSET Nat
        BY <1>5, <1>7, PositionsFrom1, ZenonT(60)
      <3>3. p \in Plan /\ p.flow = f /\ p.run = runs + 1
        BY <1>5, <3>1, <3>2, SMTT(60) DEF NewPlan, Plan
      <3>4. \A i \in Positions(f) \ e.bindings :
              <<runs + 1, FlowBindings[f][i]>> \in denied \cup LeftOut(runs + 1, f, e.out)
        BY <1>7, ZenonT(60) DEF LeftOut
      <3>5. PlanFine(p, denied \cup LeftOut(runs + 1, f, e.out), checked)
        BY <1>5, <1>7, <3>4, NewFine, ZenonT(60) DEF NewPlan
      <3>6. PlanFine(p, denied \cup LeftOut(p.run, p.flow, e.out), checked)
        BY <3>3, <3>5, Zenon
      <3> HIDE DEF p, e, u
      <3>7. Copies' /\ ReqTyped' /\ denied \subseteq denied' /\ checked' = checked
        BY <1>1, <1>3, <1>5, <2>2, <3>3, <3>6, PresentStep, ZenonT(60)
      <3>8. logins' = logins
        BY <2>2, Zenon DEF Present
      <3> QED BY <2>2, <3>1, <3>7, <3>8, Zenon
    <2> QED BY <2>1, <2>2, ZenonT(60) DEF Initiate
  <1>10. TypeOK'
    BY <1>1, <1>3, <1>8, <1>9, ZenonT(60) DEF TypeOK, ReqTyped
  <1>11. checked \subseteq checked'
    BY <1>9, Zenon
  <1>12. CompleteLogin'
    BY <1>1, <1>9, <1>11, LoginsKept, ZenonT(60) DEF CompleteLogin
  <1> QED BY <1>8, <1>9, <1>10, <1>12, Zenon DEF IInv

\* A stage that is passed.
LEMMA PassStep ==
    ASSUME IInv, NEW r \in Reqs, Password(r) \/ Prompt(r) \/ \E u \in Users : Identify(r, u)
    PROVE  IInv'
  <1>1. TypeOK /\ Copies /\ req[r].at = "planned"
    BY Zenon DEF IInv, Password, Prompt, Identify, At
  <1>2. UNCHANGED <<session, planner, policies, denied, logins, changes>>
    BY Zenon DEF Password, Prompt, Identify
  <1>3. /\ store' = store /\ denied' = denied /\ runs' = runs
        /\ UNCHANGED <<session, cache, policies, logins, changes>>
    BY <1>2, SMTT(60) DEF session, planner
  <1>4. /\ Good(Own(r), denied, checked) /\ Own(r) \in SessionData
        /\ Own(r).plan.flow = req[r].flow /\ req[r].flow \in Flows
        /\ Own(r).plan.bindings # {}
        /\ Head1(r) = FlowBindings[Own(r).plan.flow][Min(Own(r).plan.bindings)]
    BY <1>1, Mine, ZenonT(60)
  <1>5. PICK s : /\ Good(s, denied, checked) /\ s.plan.flow = Own(r).plan.flow
                 /\ s.plan.bindings = Own(r).plan.bindings /\ StageOk(r, s)
    <2>1. CASE StageOk(r, Own(r))
      BY <1>4, <2>1, Zenon
    <2>2. ASSUME NEW u \in Users, Identify(r, u)
          PROVE  \E s : /\ Good(s, denied, checked) /\ s.plan.flow = Own(r).plan.flow
                        /\ s.plan.bindings = Own(r).plan.bindings /\ StageOk(r, s)
      <3> DEFINE t == SetPending(Own(r), u)
      <3>1. StageOk(r, t) /\ Head1(r).stage = "identification"
        BY <2>2, Zenon DEF Identify, At
      <3>2. /\ Good(t, denied, checked) /\ t.plan.flow = Own(r).plan.flow
            /\ t.plan.bindings = Own(r).plan.bindings
        <4>1. FlowBindings[Own(r).plan.flow][Min(Own(r).plan.bindings)].stage = "identification"
          BY <1>4, <3>1, Zenon
        <4>2. u \in Users \cup {Unknown} /\ Own(r).plan.flow \in Flows
          BY <1>4, <2>2, Zenon
        <4> QED BY <1>4, <4>1, <4>2, PendingGood, ZenonT(60)
      <3> HIDE DEF t
      <3> QED BY <3>1, <3>2, Zenon
    <2> QED BY <2>1, <2>2, Zenon DEF Password, Prompt
  <1>6. Copies' /\ ReqTyped' /\ checked \subseteq checked'
    BY <1>1, <1>3, <1>5, StageOkStep, ZenonT(60)
  <1>7. runs' \in 0..MaxPlans /\ denied \subseteq denied'
    BY <1>1, <1>3, Zenon DEF TypeOK
  <1> QED BY <1>3, <1>6, <1>7, Whole, ZenonT(60)

\* The session a stage leaves after an invalid response.
LEMMA TriesGood ==
    ASSUME TypeOK, Copies, NEW r \in Reqs, req[r].at = "planned", NEW n \in 0..MaxTries - 1
    PROVE  Good([Own(r) EXCEPT !.tries = n], denied, checked)
  <1>1. Own(r) \in SessionData /\ Good(Own(r), denied, checked)
    BY Mine, ZenonT(60)
  <1>2. /\ [Own(r) EXCEPT !.tries = n] \in SessionData
        /\ [Own(r) EXCEPT !.tries = n].plan = Own(r).plan
    BY <1>1, SMTT(60) DEF SessionData
  <1> QED BY <1>1, <1>2, SamePlan, ZenonT(60)

\* A stage that is not passed.
LEMMA FailStep ==
    ASSUME IInv, NEW r \in Reqs,
           \/ IdentifyInvalid(r) \/ PasswordNobody(r) \/ PasswordInvalid(r)
           \/ PromptInvalid(r) \/ Deny(r) \/ LoginNobody(r)
    PROVE  IInv'
  <1>1. TypeOK /\ Copies /\ req[r].at = "planned"
    BY Zenon DEF IInv, IdentifyInvalid, PasswordNobody, PasswordInvalid, PromptInvalid, Deny,
                 LoginNobody, At
  <1>2. UNCHANGED <<session, cache, policies, checked, logins, changes>>
    BY Zenon DEF IdentifyInvalid, PasswordNobody, PasswordInvalid, PromptInvalid, Deny, LoginNobody
  <1>3. /\ store' = store /\ checked' = checked
        /\ UNCHANGED <<session, cache, policies, logins, changes>>
    BY <1>2, SMTT(60) DEF session
  <1>4. /\ Good(Own(r), denied, checked) /\ Own(r) \in SessionData
        /\ Own(r).plan.flow = req[r].flow /\ req[r].flow \in Flows
        /\ Own(r).plan.bindings # {}
        /\ Head1(r) = FlowBindings[Own(r).plan.flow][Min(Own(r).plan.bindings)]
    BY <1>1, Mine, ZenonT(60)
  <1>5. PICK s : Good(s, denied, checked) /\ (StageInvalid(r, s) \/ ChallengeInvalid(r, s))
    <2>1. CASE PasswordNobody(r) \/ PromptInvalid(r) \/ Deny(r) \/ LoginNobody(r)
      BY <1>4, <2>1, Zenon DEF PasswordNobody, PromptInvalid, Deny, LoginNobody
    <2>2. CASE IdentifyInvalid(r)
      BY <1>4, <2>2, PendingGood, ZenonT(60) DEF IdentifyInvalid, At
    <2>3. CASE PasswordInvalid(r)
      <3> DEFINE n == Own(r).tries + 1
      <3>1. Own(r).tries \in 0..MaxTries - 1 /\ 0 \in 0..MaxTries - 1
        BY <1>4, FlowAssumption, SMTT(60) DEF SessionData
      <3>2. ~ TriedOut(n) => n \in 0..MaxTries - 1
        BY <3>1, FlowAssumption, SMTT(60) DEF TriedOut
      <3>3. CASE Head1(r).action = "retry" /\ TriedOut(n)
        BY <1>1, <2>3, <3>1, <3>3, TriesGood, ZenonT(60) DEF PasswordInvalid
      <3>4. CASE Head1(r).action = "retry" /\ ~ TriedOut(n)
        <4>1. ChallengeInvalid(r, [Own(r) EXCEPT !.tries = n])
          BY <2>3, <3>4, SMTT(60) DEF PasswordInvalid
        <4>2. Good([Own(r) EXCEPT !.tries = n], denied, checked)
          BY <1>1, <3>2, <3>4, TriesGood, ZenonT(60)
        <4> QED BY <4>1, <4>2, Zenon
      <3>5. CASE Head1(r).action # "retry"
        <4>1. ChallengeInvalid(r, [Own(r) EXCEPT !.tries = Own(r).tries])
          BY <2>3, <3>5, SMTT(60) DEF PasswordInvalid
        <4>2. Good([Own(r) EXCEPT !.tries = Own(r).tries], denied, checked)
          BY <1>1, <3>1, TriesGood, ZenonT(60)
        <4> QED BY <4>1, <4>2, Zenon
      <3> QED BY <3>3, <3>4, <3>5, Zenon
    <2> QED BY <2>1, <2>2, <2>3, Zenon
  <1>6. Copies' /\ ReqTyped' /\ denied \subseteq denied' /\ runs' \in 0..MaxPlans
    BY <1>1, <1>3, <1>5, InvalidStep, ZenonT(60)
  <1>7. checked \subseteq checked'
    BY <1>3, Zenon
  <1> QED BY <1>3, <1>6, <1>7, Whole, ZenonT(60)

\* A row of the store is written, and the request ends.
LEMMA RowStep ==
    ASSUME IInv, NEW r \in Reqs, NEW k \in 1..MaxSids, req[r].at # "free",
           store' \in [1..MaxSids -> [live : BOOLEAN, data : SessionData]],
           store'[k].data = Own(r), \A j \in 1..MaxSids \ {k} : store'[j] = store[j],
           cookie' = k, sids' \in 0..MaxSids, req' = [req EXCEPT ![r] = Free],
           UNCHANGED <<planner, policies, history, changes>>
    PROVE  IInv'
  <1>1. TypeOK /\ Copies /\ CacheFine /\ CompleteLogin
    BY Zenon DEF IInv
  <1>2. /\ cache' = cache /\ runs' = runs /\ policy' = policy /\ admitting' = admitting
        /\ checked' = checked /\ denied' = denied /\ logins' = logins /\ changes' = changes
    BY SMTT(60) DEF planner, policies, history
  <1>3. Free \in Request /\ ReqFine(Free, denied, checked)
    BY FreeFine, Zenon
  <1>4. /\ req' \in [Reqs -> Request] /\ req'[r] = Free
        /\ \A x \in Reqs \ {r} : req'[x] = req[x]
    BY <1>1, <1>3, SMTT(60) DEF TypeOK
  <1>5. \A x \in Reqs : ReqFine(req'[x], denied, checked)
    BY <1>1, <1>3, <1>4, ZenonT(60) DEF Copies
  <1>6. \A j \in 1..MaxSids : Good(store'[j].data, denied, checked)
    BY <1>1, ZenonT(60) DEF Copies, ReqFine, Own
  <1>7. Copies'
    BY <1>2, <1>5, <1>6, ZenonT(60) DEF Copies
  <1>8. cookie' \in 0..MaxSids
    BY FlowAssumption, SMTT(60)
  <1>9. \A x \in Reqs : req'[x].at = "planned" => req'[x].own.plan.bindings # {}
    BY <1>5, ZenonT(60) DEF ReqFine
  <1>10. TypeOK'
    BY <1>1, <1>2, <1>4, <1>8, <1>9, ZenonT(60) DEF TypeOK
  <1>11. CacheFine' /\ CompleteLogin'
    BY <1>1, <1>2, ZenonT(60) DEF CacheFine, CompleteLogin
  <1> QED BY <1>7, <1>10, <1>11, Zenon DEF IInv

\* SessionMiddleware.process_response: the copy is written, to its row or a new one.
LEMMA SaveStep ==
    ASSUME IInv, NEW r \in Reqs, Save(r) \/ SaveNew(r)
    PROVE  IInv'
  <1>1. TypeOK /\ Copies
    BY Zenon DEF IInv
  <1>2. /\ req[r] \in Request /\ Own(r) \in SessionData /\ MaxSids \in Nat
        /\ store \in [1..MaxSids -> [live : BOOLEAN, data : SessionData]]
    BY <1>1, FlowAssumption, SMTT(60) DEF TypeOK, Own, Request
  <1>3. CASE Save(r)
    <2> DEFINE k == req[r].sid
    <2>1. /\ req[r].at = "handled" /\ k # 0 /\ store' = [store EXCEPT ![k].data = Own(r)]
          /\ cookie' = k /\ req' = [req EXCEPT ![r] = Free]
          /\ UNCHANGED <<sids, planner, policies, history, changes>>
      BY <1>3, Zenon DEF Save
    <2>2. k \in 1..MaxSids
      BY <1>2, <2>1, SMTT(60) DEF Request
    <2>3. /\ store' \in [1..MaxSids -> [live : BOOLEAN, data : SessionData]]
          /\ store'[k].data = Own(r) /\ \A j \in 1..MaxSids \ {k} : store'[j] = store[j]
      BY <1>2, <2>1, <2>2, SMTT(60)
    <2>4. /\ sids' \in 0..MaxSids /\ req[r].at # "free"
          /\ UNCHANGED <<planner, policies, history, changes>>
      BY <1>1, <2>1, SMTT(60) DEF TypeOK
    <2> QED BY <2>1, <2>2, <2>3, <2>4, RowStep, ZenonT(60)
  <1>4. CASE SaveNew(r)
    <2> DEFINE k == sids + 1
    <2>1. /\ req[r].at = "handled" /\ sids < MaxSids /\ sids' = k
          /\ store' = [store EXCEPT ![k] = [live |-> TRUE, data |-> Own(r)]]
          /\ cookie' = k /\ req' = [req EXCEPT ![r] = Free]
          /\ UNCHANGED <<planner, policies, history, changes>>
      BY <1>4, Zenon DEF SaveNew
    <2>2. k \in 1..MaxSids /\ k \in 0..MaxSids
      BY <1>1, <1>2, <2>1, SMTT(60) DEF TypeOK
    <2> HIDE DEF k
    <2>3. /\ store' \in [1..MaxSids -> [live : BOOLEAN, data : SessionData]]
          /\ store'[k].data = Own(r) /\ \A j \in 1..MaxSids \ {k} : store'[j] = store[j]
      BY <1>2, <2>1, <2>2, SMTT(60)
    <2>4. sids' \in 0..MaxSids /\ req[r].at # "free"
      BY <2>1, <2>2, SMTT(60)
    <2> QED BY <2>1, <2>2, <2>3, <2>4, RowStep, ZenonT(60)
  <1> QED BY <1>3, <1>4

\* SessionInterrupted
LEMMA InterruptedStep ==
    ASSUME IInv, NEW r \in Reqs, Interrupted(r)
    PROVE  IInv'
  <1>1. TypeOK /\ Copies
    BY Zenon DEF IInv
  <1>2. req' = [req EXCEPT ![r] = Free] /\ UNCHANGED <<session, planner, policies, history, changes>>
    BY Zenon DEF Interrupted
  <1>3. /\ store' = store /\ denied' = denied /\ checked' = checked /\ runs' = runs
        /\ UNCHANGED <<session, cache, policies, logins, changes>>
    BY <1>2, SMTT(60) DEF planner, history, session
  <1>4. denied \subseteq denied' /\ checked \subseteq checked'
    BY <1>3, Zenon
  <1>5. Free \in Request /\ ReqFine(Free, denied', checked')
    BY FreeFine, Zenon
  <1>6. /\ req' \in [Reqs -> Request] /\ req'[r] = Free
        /\ \A x \in Reqs \ {r} : req'[x] = req[x]
    BY <1>1, <1>2, <1>5, SMTT(60) DEF TypeOK
  <1>7. Copies' /\ ReqTyped'
    BY <1>1, <1>3, <1>4, <1>5, <1>6, OneRequest, ZenonT(60)
  <1>8. runs' \in 0..MaxPlans
    BY <1>1, <1>3, Zenon DEF TypeOK
  <1> QED BY <1>3, <1>4, <1>7, <1>8, Whole, ZenonT(60)

\* The login of a fine plan is complete: the bindings before it were all taken.
LEMMA LoginFine ==
    ASSUME NEW p \in Plan, NEW D, NEW C, PlanFine(p, D, C), p.flow \in Flows,
           p.bindings # {}, IdentifiesOnce(p.flow), NEW i \in 1..Min(p.bindings) - 1
    PROVE  Passed(p.run, FlowBindings[p.flow][i], p.pending, D, C)
  <1>1. p.bindings \subseteq Positions(p.flow) /\ p.bindings \in SUBSET Nat
    BY PositionsFrom1, ZenonT(60) DEF PlanFine
  <1>2. Min(p.bindings) \in p.bindings /\ \A k \in p.bindings : Min(p.bindings) <= k
    BY <1>1, MinIn, ZenonT(60)
  <1>3. FlowBindings[p.flow] \in Seq(Binding)
    BY FlowAssumption, ZenonT(60)
  <1>4. Min(p.bindings) \in Positions(p.flow) /\ Min(p.bindings) \in Nat
    BY <1>1, <1>2, Zenon
  <1>5. i \in Positions(p.flow)
    BY <1>3, <1>4, SMTT(60) DEF Positions
  <1>6. i \in Nat /\ ~ (Min(p.bindings) <= i)
    BY <1>4, SMTT(60)
  <1>7. i \notin p.bindings
    BY <1>2, <1>6, Zenon
  <1> QED BY <1>5, <1>7, ZenonT(60) DEF PlanFine, TakenPassed

\* UserLoginStageView.do_login
LEMMA LoginStep ==
    ASSUME IInv, NEW r \in Reqs, Login(r)
    PROVE  IInv'
  <1> DEFINE own == Own(r)
             user == own.plan.pending
             n == IF own.user \notin {None, user} THEN 0 ELSE own.tries
             s == [own EXCEPT !.user = user, !.tries = n]
             old == req[r].sid
             new == sids + 1
             plan == Pop(s.plan)
             done == plan.bindings = {}
             entry == [live |-> TRUE, data |-> [NewSession EXCEPT !.user = user]]
             gone == [live |-> FALSE, data |-> NewSession]
             out == IF done THEN "done" ELSE "redirect"
             t == IF done THEN Cancel(s) ELSE [s EXCEPT !.plan = plan]
             l == [run |-> plan.run, flow |-> plan.flow, user |-> user,
                   position |-> Min(s.plan.bindings)]
  <1>1. /\ TypeOK /\ Copies /\ CacheFine /\ CompleteLogin /\ req[r].at = "planned"
        /\ user \in Users /\ sids < MaxSids /\ sids' = new
    BY Zenon DEF IInv, Login, At
  <1>2. /\ store' = [k \in 1..MaxSids |->
                       IF k = new THEN entry ELSE IF k = old THEN gone ELSE store[k]]
        /\ req' = [req EXCEPT ![r] = [Handled(@, t, out) EXCEPT !.sid = new]]
        /\ logins' = logins \cup {l}
        /\ checked' = checked \cup {<<plan.run, Head1(r), user>>}
        /\ UNCHANGED <<cookie, planner, policies, denied, changes>>
    BY ZenonT(60) DEF Login
  <1>c. <<plan.run, Head1(r), user>> \in checked'
    <2> HIDE DEF plan, user
    <2> QED BY <1>2, SMTT(60)
  <1>3. /\ Good(own, denied, checked) /\ own \in SessionData
        /\ own.plan.flow = req[r].flow /\ req[r].flow \in Flows
        /\ own.plan.bindings # {}
        /\ Head1(r) = FlowBindings[own.plan.flow][Min(own.plan.bindings)]
    BY <1>1, Mine, ZenonT(60)
  <1>4. n \in 0..MaxTries - 1
    BY <1>3, FlowAssumption, SMTT(60) DEF SessionData
  <1>5. s \in SessionData /\ s.plan = own.plan /\ s.plan \in Plan
    <2> DEFINE s1 == [own EXCEPT !.user = user]
               s2 == [s1 EXCEPT !.tries = n]
    <2>1. s = s2
      OBVIOUS
    <2>2. s1 \in SessionData /\ s1.plan = own.plan
      BY <1>1, <1>3, SMTT(60) DEF SessionData
    <2> HIDE DEF s1
    <2>3. s2 \in SessionData /\ s2.plan = own.plan
      BY <1>4, <2>2, SMTT(60) DEF SessionData
    <2>4. own.plan \in Plan
      BY <1>3, SMTT(60) DEF SessionData
    <2> HIDE DEF s2
    <2> QED BY <2>1, <2>3, <2>4
  <1>6. Good(s, denied, checked)
    BY <1>3, <1>5, SamePlan, ZenonT(60)
  <1>7. plan.run = own.plan.run /\ plan.flow = own.plan.flow
    BY <1>5, PopFields, ZenonT(60)
  <1>8. /\ checked \subseteq checked' /\ denied \subseteq denied' /\ denied' = denied
        /\ cookie' = cookie /\ cache' = cache /\ runs' = runs /\ policy' = policy
        /\ admitting' = admitting /\ changes' = changes
    BY <1>2, SMTT(60) DEF planner, policies
  <1>9. new \in 1..MaxSids /\ new \in 0..MaxSids
    BY <1>1, FlowAssumption, SMTT(60) DEF TypeOK
  <1>10. Good(t, denied', checked')
    <2>1. <<s.plan.run, FlowBindings[s.plan.flow][Min(s.plan.bindings)], s.plan.pending>> \in checked'
      <3>1. <<plan.run, Head1(r), user>> \in checked'
        BY <1>c
      <3>2. plan.run = s.plan.run /\ user = s.plan.pending
            /\ Head1(r) = FlowBindings[s.plan.flow][Min(s.plan.bindings)]
        BY <1>3, <1>5, <1>7, Zenon
      <3> QED BY <3>1, <3>2, Zenon
    <2>2. Good([s EXCEPT !.plan = plan], denied, checked')
      BY <1>3, <1>5, <1>6, <1>8, <2>1, PopGood, ZenonT(60)
    <2>3. Good(Cancel(s), denied, checked')
      BY <1>5, CancelGood, Zenon
    <2> QED BY <1>8, <2>2, <2>3, Zenon
  <1>11. t \in SessionData /\ out \in Outs
    BY <1>10, SMTT(60) DEF Good, Outs
  <1>12. /\ Good([NewSession EXCEPT !.user = user], denied', checked')
         /\ Good(NewSession, denied', checked')
    BY <1>1, NewGood, ZenonT(60)
  <1>13. [NewSession EXCEPT !.user = user] \in SessionData /\ NewSession \in SessionData
    BY <1>12, Zenon DEF Good
  <1>14. l.run = own.plan.run /\ l.flow = own.plan.flow /\ l.user = user
         /\ l.position = Min(own.plan.bindings)
    BY <1>5, <1>7, SMTT(60)
  <1>15. PlanFine(own.plan, denied, checked) /\ own.plan \in Plan
    BY <1>3, <1>5, FlowAssumption, ZenonT(60) DEF Good
  <1> DEFINE data == [NewSession EXCEPT !.user = user]
  <1>16. entry.data = data /\ gone.data = NewSession
    BY SMTT(60)
  <1>17. entry \in [live : BOOLEAN, data : SessionData] /\ gone \in [live : BOOLEAN, data : SessionData]
    BY <1>13, SMTT(60)
  <1>18. req \in [Reqs -> Request] /\ store \in [1..MaxSids -> [live : BOOLEAN, data : SessionData]]
    BY <1>1, Zenon DEF TypeOK
  <1> HIDE DEF entry, gone, data, t, out, l, new, old, s, plan, user, own, done
  <1>19. store' \in [1..MaxSids -> [live : BOOLEAN, data : SessionData]]
    BY <1>2, <1>17, <1>18, SMTT(60)
  <1>20. \A k \in 1..MaxSids : store'[k] \in {entry, gone, store[k]}
    BY <1>2, SMTT(60)
  <1>21. \A k \in 1..MaxSids : Good(store[k].data, denied', checked')
    BY <1>1, <1>8, GoodGrows, ZenonT(60) DEF Copies
  <1>22. \A k \in 1..MaxSids : Good(store'[k].data, denied', checked')
    BY <1>12, <1>16, <1>20, <1>21, ZenonT(60) DEF data
  <1> DEFINE h == Handled(req[r], t, out)
             q == [h EXCEPT !.sid = new]
  <1>a. q \in Request /\ q.own = t /\ q.at = "handled" /\ q.flow = req[r].flow
    <2>1. req[r] \in Request
      BY <1>18, SMTT(60)
    <2>2. h \in Request /\ h.own = t /\ h.at = "handled" /\ h.flow = req[r].flow
      BY ONLY <1>11, <2>1, HandledFields, SMTT(60)
    <2> HIDE DEF h
    <2> QED BY <1>9, <2>2, CycledFields, SMTT(60)
  <1>b. req' = [req EXCEPT ![r] = q]
    BY <1>2, Zenon
  <1> HIDE DEF q
  <1>23. /\ req' \in [Reqs -> Request] /\ \A x \in Reqs \ {r} : req'[x] = req[x]
         /\ req'[r].own = t /\ req'[r].at = "handled" /\ req'[r].flow = req[r].flow
    BY <1>18, <1>a, <1>b, ZenonT(60)
  <1>24. ReqFine(req'[r], denied', checked')
    BY <1>3, <1>10, <1>23, SMTT(60) DEF ReqFine
  <1>25. \A x \in Reqs : ReqFine(req'[x], denied', checked')
    <2> SUFFICES ASSUME NEW x \in Reqs, x # r PROVE ReqFine(req'[x], denied', checked')
      BY <1>24, Zenon
    <2>1. ReqFine(req[x], denied, checked) /\ req'[x] = req[x]
      BY <1>1, <1>23, Zenon DEF Copies
    <2> QED BY <1>8, <2>1, ReqGrows, ZenonT(60)
  <1>26. Copies'
    BY <1>22, <1>25, ZenonT(60) DEF Copies
  <1>27. \A x \in Reqs : req'[x].at = "planned" => req'[x].own.plan.bindings # {}
    BY <1>25, ZenonT(60) DEF ReqFine
  <1>28. TypeOK'
    BY <1>1, <1>8, <1>9, <1>19, <1>23, <1>27, ZenonT(60) DEF TypeOK
  <1>29. CacheFine'
    BY <1>1, <1>8, ZenonT(60) DEF CacheFine
  <1>30. ASSUME NEW x \in logins', IdentifiesOnce(x.flow), NEW i \in 1..x.position - 1
         PROVE  \/ <<x.run, FlowBindings[x.flow][i]>> \in denied'
                \/ \E u \in {x.user, None} : <<x.run, FlowBindings[x.flow][i], u>> \in checked'
    <2>1. CASE x \in logins
      BY <1>1, <1>8, <1>30, <2>1, LoginsKept, ZenonT(60)
    <2>2. CASE x = l
      <3>1. Passed(own.plan.run, FlowBindings[own.plan.flow][i], own.plan.pending, denied, checked)
        BY <1>3, <1>14, <1>15, <1>30, <2>2, LoginFine, ZenonT(60)
      <3>2. own.plan.pending = x.user /\ x.run = own.plan.run /\ x.flow = own.plan.flow
        BY <1>14, <2>2, Zenon DEF user
      <3> QED BY <1>8, <3>1, <3>2, ZenonT(60) DEF Passed
    <2> QED BY <1>2, <1>30, <2>1, <2>2, Zenon
  <1>31. CompleteLogin'
    BY <1>30, ZenonT(60) DEF CompleteLogin
  <1> QED BY <1>26, <1>28, <1>29, <1>31, Zenon DEF IInv

\* A step outside the requests: the sessions and histories stay.
LEMMA SurroundingsStep ==
    ASSUME IInv, UNCHANGED <<session, req, runs, history>>,
           changes' \in 0..MaxPolicyChanges, policy' \in [Guarded -> BOOLEAN],
           admitting' \subseteq Flows, CacheFine',
           cache' \in [Flows \X (Users \cup {None}) ->
                        [set : BOOLEAN, bindings : SUBSET Nat, out : SUBSET Nat]]
    PROVE  IInv'
  <1>1. TypeOK /\ Copies /\ CompleteLogin
    BY Zenon DEF IInv
  <1>2. /\ store' = store /\ cookie' = cookie /\ sids' = sids /\ req' = req /\ runs' = runs
        /\ checked' = checked /\ denied' = denied /\ logins' = logins
    BY SMTT(60) DEF session, history
  <1>3. Copies' /\ CompleteLogin'
    BY <1>1, <1>2, ZenonT(60) DEF Copies, CompleteLogin
  <1>4. TypeOK'
    BY <1>1, <1>2, ZenonT(60) DEF TypeOK
  <1> QED BY <1>3, <1>4, Zenon DEF IInv

\* The outcome of policies changes.
LEMMA PolicyStep ==
    ASSUME IInv, \/ \E b \in Guarded : PolicyChange(b)
                 \/ \E f \in Flows : FlowPolicyChange(f)
    PROVE  IInv'
  <1>1. TypeOK /\ CacheFine
    BY Zenon DEF IInv
  <1>2. /\ changes < MaxPolicyChanges /\ changes' = changes + 1
        /\ UNCHANGED <<session, req, planner, history>>
    BY Zenon DEF PolicyChange, FlowPolicyChange
  <1>3. UNCHANGED <<session, req, runs, history>> /\ cache' = cache
    BY <1>2, SMTT(60) DEF planner
  <1>4. changes' \in 0..MaxPolicyChanges
    BY <1>1, <1>2, FlowAssumption, SMTT(60) DEF TypeOK
  <1>5. policy' \in [Guarded -> BOOLEAN] /\ admitting' \subseteq Flows
    <2>1. ASSUME NEW b \in Guarded, PolicyChange(b)
          PROVE  policy' \in [Guarded -> BOOLEAN] /\ admitting' \subseteq Flows
      BY <1>1, <2>1, SMTT(60) DEF TypeOK, PolicyChange
    <2>2. ASSUME NEW f \in Flows, FlowPolicyChange(f)
          PROVE  policy' \in [Guarded -> BOOLEAN] /\ admitting' \subseteq Flows
      BY <1>1, <2>2, SMTT(60) DEF TypeOK, FlowPolicyChange
    <2> QED BY <2>1, <2>2, Zenon
  <1>6. CacheFine' /\ cache' \in [Flows \X (Users \cup {None}) ->
                          [set : BOOLEAN, bindings : SUBSET Nat, out : SUBSET Nat]]
    BY <1>1, <1>3, ZenonT(60) DEF CacheFine, TypeOK
  <1> QED BY <1>3, <1>4, <1>5, <1>6, SurroundingsStep, Zenon

\* A cached plan goes.
LEMMA ExpiryStep ==
    ASSUME IInv, NEW f \in Flows, NEW u \in Users \cup {None}, CacheExpires(f, u)
    PROVE  IInv'
  <1>1. TypeOK /\ CacheFine
    BY Zenon DEF IInv
  <1>2. /\ cache' = [cache EXCEPT ![<<f, u>>] = NotCached]
        /\ UNCHANGED <<session, req, runs, policies, history, changes>>
    BY Zenon DEF CacheExpires
  <1>3. /\ UNCHANGED <<session, req, runs, history>>
        /\ changes' = changes /\ policy' = policy /\ admitting' = admitting
    BY <1>2, SMTT(60) DEF policies
  <1>4. NotCached \in [set : BOOLEAN, bindings : SUBSET Nat, out : SUBSET Nat] /\ ~NotCached.set
    BY SMTT(60) DEF NotCached
  <1>5. EntryFine(f, NotCached)
    BY <1>4, Zenon DEF EntryFine
  <1>6. CacheFine' /\ cache' \in [Flows \X (Users \cup {None}) ->
                          [set : BOOLEAN, bindings : SUBSET Nat, out : SUBSET Nat]]
    BY <1>1, <1>2, <1>4, <1>5, CacheStep, ZenonT(60)
  <1>7. /\ changes' \in 0..MaxPolicyChanges /\ policy' \in [Guarded -> BOOLEAN]
        /\ admitting' \subseteq Flows
    BY <1>1, <1>3, Zenon DEF TypeOK
  <1> QED BY <1>3, <1>6, <1>7, SurroundingsStep, Zenon

\* Before the first request nobody has a plan.
LEMMA InitIInv == Init => IInv
  <1> SUFFICES ASSUME Init PROVE IInv
    OBVIOUS
  <1>1. NewSession \in SessionData /\ Good(NewSession, denied, checked)
    BY NewGood, Zenon
  <1>2. Free \in Request /\ ReqFine(Free, denied, checked)
    BY FreeFine, Zenon
  <1> DEFINE entry == [live |-> FALSE, data |-> NewSession]
  <1>3. entry \in [live : BOOLEAN, data : SessionData] /\ entry.data = NewSession
    BY <1>1, SMTT(60)
  <1>4. store = [k \in 1..MaxSids |-> entry]
    BY Zenon DEF Init
  <1> HIDE DEF entry
  <1>5. /\ store \in [1..MaxSids -> [live : BOOLEAN, data : SessionData]]
        /\ \A k \in 1..MaxSids : store[k] = entry
    BY <1>3, <1>4, SMTT(60)
  <1>6. req \in [Reqs -> Request] /\ \A r \in Reqs : req[r] = Free
    BY <1>2, SMTT(60) DEF Init
  <1>7. Copies
    BY <1>1, <1>2, <1>3, <1>5, <1>6, ZenonT(60) DEF Copies
  <1>8. \A r \in Reqs : req[r].at = "planned" => req[r].own.plan.bindings # {}
    BY <1>2, <1>6, ZenonT(60) DEF ReqFine
  <1>9. NotCached \in [set : BOOLEAN, bindings : SUBSET Nat, out : SUBSET Nat] /\ ~NotCached.set
    BY SMTT(60) DEF NotCached
  <1>10. /\ cache \in [Flows \X (Users \cup {None}) ->
                         [set : BOOLEAN, bindings : SUBSET Nat, out : SUBSET Nat]]
         /\ \A f \in Flows, u \in Users \cup {None} : cache[<<f, u>>] = NotCached
    BY <1>9, SMTT(60) DEF Init
  <1>11. CacheFine
    BY <1>9, <1>10, ZenonT(60) DEF CacheFine, EntryFine
  <1>12. /\ cookie \in 0..MaxSids /\ sids \in 0..MaxSids /\ runs \in 0..MaxPlans
         /\ changes \in 0..MaxPolicyChanges
         /\ policy \in [Guarded -> BOOLEAN] /\ admitting \subseteq Flows
    BY FlowAssumption, SMTT(60) DEF Init
  <1>13. TypeOK
    BY <1>5, <1>6, <1>8, <1>10, <1>12, Zenon DEF TypeOK
  <1>14. CompleteLogin
    BY Zenon DEF Init, CompleteLogin
  <1> QED BY <1>7, <1>11, <1>13, <1>14, Zenon DEF IInv

\* Every step keeps the inductive invariant.
LEMMA NextIInv == IInv /\ [Next]_vars => IInv'
  <1> SUFFICES ASSUME IInv, [Next]_vars PROVE IInv'
    OBVIOUS
  <1>1. ASSUME NEW r \in Reqs, NEW f \in Flows, NEW m \in {"GET", "POST", "CANCEL"}, Load(r, f, m)
        PROVE  IInv'
    BY <1>1, LoadStep, Zenon
  <1>2. ASSUME NEW r \in Reqs, Continue(r) \/ Initiate(r) PROVE IInv'
    BY <1>2, ContinueStep, InitiateStep, Zenon
  <1>3. ASSUME NEW r \in Reqs, NotApplicable(r) \/ CancelRequest(r) \/ GetChallenge(r) PROVE IInv'
    <2>1. /\ "denied" \in Outs /\ "redirect" \in Outs /\ "challenge" \in Outs
          /\ req[r].at # "free"
      BY <1>3, SMTT(60) DEF Outs, NotApplicable, CancelRequest, GetChallenge
    <2> QED BY <1>3, <2>1, AnswerStep, ZenonT(60) DEF NotApplicable, CancelRequest, GetChallenge
  <1>4. ASSUME NEW r \in Reqs, Stage(r) PROVE IInv'
    BY <1>3, <1>4, PassStep, FailStep, LoginStep, ZenonT(60) DEF Stage
  <1>5. ASSUME NEW r \in Reqs, Save(r) \/ SaveNew(r) \/ Interrupted(r) PROVE IInv'
    BY <1>5, SaveStep, InterruptedStep, Zenon
  <1>6. CASE \/ \E b \in Guarded : PolicyChange(b)
             \/ \E f \in Flows : FlowPolicyChange(f)
             \/ \E f \in Flows, u \in Users \cup {None} : CacheExpires(f, u)
    BY <1>6, PolicyStep, ExpiryStep, Zenon
  <1>7. CASE UNCHANGED vars
    <2>1. /\ UNCHANGED <<session, cache, policies, logins, changes>>
          /\ req' = req /\ store' = store /\ denied' = denied /\ checked' = checked /\ runs' = runs
      BY <1>7, SMTT(60) DEF vars, session, planner, history
    <2>2. TypeOK /\ Copies
      BY Zenon DEF IInv
    <2>3. denied \subseteq denied' /\ checked \subseteq checked' /\ runs' \in 0..MaxPlans
      BY <2>1, <2>2, Zenon DEF TypeOK
    <2>4. Copies' /\ ReqTyped'
      BY <2>1, <2>2, ZenonT(60) DEF Copies, ReqTyped, TypeOK
    <2> QED BY <2>1, <2>3, <2>4, Whole, ZenonT(60)
  <1> QED BY <1>1, <1>2, <1>3, <1>4, <1>5, <1>6, <1>7, ZenonT(60) DEF Next

\* The inductive invariant holds in every reachable state.
THEOREM FlowInvariance == Spec => []IInv
  <1> QED BY InitIInv, NextIInv, PTL DEF Spec

\* Every variable stays in its domain, and no request is at a stage of an empty plan.
THEOREM FlowTypes == Spec => []TypeOK
  <1>1. IInv => TypeOK
    BY Zenon DEF IInv
  <1> QED BY FlowInvariance, <1>1, PTL

\* However many requests of the browser overlap, for any flows, policies and users: a
\* login rests on every binding before it, passed with this user or left out by policy.
THEOREM CompleteLoginTheorem == Spec => []CompleteLogin
  <1>1. IInv => CompleteLogin
    BY Zenon DEF IInv
  <1> QED BY FlowInvariance, <1>1, PTL

-----------------------------------------------------------------------------
(* Authenticators: a code is accepted once. *)

\* A row has its fields, and numbers where it counts.
GoodRow(r) ==
    /\ r = [there |-> r.there, confirmed |-> r.confirmed, lastT |-> r.lastT, drift |-> r.drift,
            token |-> r.token, until |-> r.until, fails |-> r.fails, failedAt |-> r.failedAt]
    /\ r.lastT \in Int /\ r.until \in Int

\* The fields that decide whether a code is accepted again.
SameCodes(r, s) == s.lastT = r.lastT /\ s.token = r.token /\ s.until = r.until

\* A device with row r and tokens held does not accept x.
Used(d, r, held, x) ==
    /\ class[d] = "totp" => x <= r.lastT
    /\ class[d] = "static" => x \notin held
    /\ class[d] = "side" => r.token # x \/ r.until <= now

ClockShape ==
    /\ now \in Int /\ skew \in Int /\ mail.code \in Int
    /\ class \in [Devices -> {"side", "static", "totp"}]

RowShape ==
    /\ row = [d \in Devices |-> row[d]]
    /\ \A d \in Devices : GoodRow(row[d]) /\ (row[d].confirmed => d \in spent)
    /\ tokens = [d \in Devices |-> tokens[d]]

\* A request under way holds a copy of a device that was confirmed.
RequestGood(q) ==
    /\ GoodRow(q.copy)
    /\ q.at = "idle" => q.dev = 0
    /\ q.at # "idle" => q.dev \in Devices /\ q.dev \in spent /\ q.copy.confirmed

\* A setup holds a device that is not confirmed.
SetupGood(s) == GoodRow(s.copy) /\ ~ s.copy.confirmed /\ s.dev \in Devices \cup {0}

HolderShape ==
    /\ request = [b \in AuthBrowsers |-> request[b]]
    /\ \A b \in AuthBrowsers : RequestGood(request[b])
    /\ setup = [b \in AuthBrowsers |-> setup[b]]
    /\ \A b \in AuthBrowsers : SetupGood(setup[b])

\* An accepted code belongs to a device that had a row; one that was sent is not a later one.
CodeGood(c) ==
    /\ c[1] \in Devices /\ c[1] \in spent
    /\ class[c[1]] = "totp" => c[2] \in Int
    /\ class[c[1]] = "side" => c[2] \in Int /\ c[2] <= mail.code

\* No code of a device that is being set up has been accepted, and nobody else has the device.
Untouched(b) ==
    setup[b].dev # 0 =>
        /\ \A c \in accepted : c[1] # setup[b].dev
        /\ ~ row[setup[b].dev].confirmed
        /\ \A a \in AuthBrowsers : request[a].dev # setup[b].dev
        /\ \A a \in AuthBrowsers : a # b => setup[a].dev # setup[b].dev

\* A confirmed device that was not raced accepts no code again.
Once(d) ==
    row[d].confirmed => \A c \in accepted : c[1] = d => Used(d, row[d], tokens[d], c[2])

OnceInv ==
    /\ ClockShape /\ RowShape /\ HolderShape
    /\ \A c \in accepted : CodeGood(c)
    /\ \A b \in AuthBrowsers : Untouched(b)
    /\ \A d \in Devices \ raced : Once(d)
    /\ again \subseteq raced

-----------------------------------------------------------------------------
(* Rows. *)

\* An accepted TOTP code moves last_t.
LEMMA AcceptTotp ==
    ASSUME NEW r, GoodRow(r), NEW t \in Int, NEW x,
           NEW s, s = [[r EXCEPT !.fails = 0, !.failedAt = 0] EXCEPT !.lastT = t, !.drift = x]
    PROVE  GoodRow(s) /\ s.lastT = t /\ s.confirmed = r.confirmed
BY Zenon DEF GoodRow

\* throttle_reset leaves the fields that matter.
LEMMA ResetFields ==
    ASSUME NEW r, GoodRow(r), NEW s, s = ThrottleReset(r)
    PROVE  GoodRow(s) /\ SameCodes(r, s) /\ s.confirmed = r.confirmed
BY Zenon DEF GoodRow, SameCodes, ThrottleReset

\* ... and so does throttle_increment.
LEMMA IncrementFields ==
    ASSUME NEW r, GoodRow(r), NEW s, s = ThrottleIncrement(r)
    PROVE  GoodRow(s) /\ SameCodes(r, s) /\ s.confirmed = r.confirmed
BY Zenon DEF GoodRow, SameCodes, ThrottleIncrement

\* A code that was sent and is accepted is cleared.
LEMMA AcceptSide ==
    ASSUME NEW r, GoodRow(r), NEW t \in Int, NEW s, s = [r EXCEPT !.token = 0, !.until = t]
    PROVE  GoodRow(s) /\ s.until = t /\ s.confirmed = r.confirmed
BY Zenon DEF GoodRow

\* generate_token
LEMMA TokenFields ==
    ASSUME ClockShape, NEW r, GoodRow(r), NEW s, s = WithToken(r)
    PROVE  GoodRow(s) /\ s.lastT = r.lastT /\ s.token = mail.code + 1 /\ s.confirmed = r.confirmed
<1>1. now + Validity \in Int
  BY AuthAssumption DEF ClockShape
<1> QED
  BY <1>1, Zenon DEF GoodRow, WithToken

\* A device is confirmed.
LEMMA ConfirmFields ==
    ASSUME NEW r, GoodRow(r), NEW s, s = Confirmed(r)
    PROVE  GoodRow(s) /\ SameCodes(r, s)
BY Zenon DEF GoodRow, SameCodes, Confirmed

\* ... which the row says.
LEMMA ConfirmedTrue == ASSUME NEW r, GoodRow(r) PROVE Confirmed(r).confirmed
BY Zenon DEF GoodRow, Confirmed

\* The rows at first.
LEMMA NewFields ==
    /\ GoodRow(NoRow) /\ ~ NoRow.confirmed
    /\ GoodRow(NewRow) /\ ~ NewRow.confirmed /\ NewRow.until = 0
<1>1. 0 \in Int
  OBVIOUS
<1>2. /\ GoodRow(NoRow) /\ ~ NoRow.confirmed /\ NoRow.until = 0
  BY <1>1, Zenon DEF GoodRow, NoRow
<1>3. PICK r : r = NoRow
  OBVIOUS
<1>4. PICK s : s = [r EXCEPT !.there = TRUE]
  BY Zenon
<1>5. GoodRow(r)
  BY <1>2, <1>3, Zenon
<1>6. GoodRow(s) /\ s.confirmed = r.confirmed /\ s.until = r.until
  BY <1>4, <1>5, Zenon DEF GoodRow
<1>7. NewRow = s
  BY <1>3, <1>4, Zenon DEF NewRow
<1> QED
  BY <1>2, <1>3, <1>6, <1>7, Zenon

\* A refused code leaves the fields that matter (throttle_increment, or nothing).
LEMMA RefuseFields ==
    ASSUME NEW d, NEW r, GoodRow(r)
    PROVE  /\ GoodRow(AfterRefuse(d, r)) /\ SameCodes(r, AfterRefuse(d, r))
           /\ AfterRefuse(d, r).confirmed = r.confirmed
<1>1. PICK s : s = ThrottleIncrement(r)
  OBVIOUS
<1>2. GoodRow(s) /\ SameCodes(r, s) /\ s.confirmed = r.confirmed
  BY <1>1, IncrementFields, Zenon
<1>3. AfterRefuse(d, r) = s \/ AfterRefuse(d, r) = r
  BY <1>1, Zenon DEF AfterRefuse
<1>4. SameCodes(r, r)
  BY DEF SameCodes
<1> QED
  BY <1>2, <1>3, <1>4, Zenon

\* What may be entered: a step of a TOTP device, the code last sent, or a static token.
LEMMA EnterableFacts ==
    ASSUME ClockShape, NEW code \in Enterable, code[1] \in Devices
    PROVE  /\ class[code[1]] = "totp" => code[2] \in Int
           /\ class[code[1]] = "side" => code[2] = mail.code
<1>1. Current \in Int
  BY AuthAssumption DEF ClockShape, Current, Epoch
<1>2. CASE code = Wrong
  BY <1>2, AuthAssumption DEF Wrong
<1>3. ASSUME NEW d \in Devices, class[d] = "totp", NEW late \in {0, 1},
             code = <<d, Current + skew - late>>
      PROVE  code[2] \in Int /\ class[code[1]] = "totp"
  BY <1>1, <1>3 DEF ClockShape
<1>4. ASSUME NEW d \in Devices, class[d] = "static", NEW k \in StaticTokens, code = <<d, k>>
      PROVE  class[code[1]] = "static"
  BY <1>4
<1>5. ASSUME NEW d \in Devices, class[d] = "side", code = <<d, mail.code>>
      PROVE  class[code[1]] = "side" /\ code[2] = mail.code
  BY <1>5
<1>6. \/ code = Wrong
      \/ \E d \in Devices, late \in {0, 1} : class[d] = "totp" /\ code = <<d, Current + skew - late>>
      \/ \E d \in Devices, k \in StaticTokens : class[d] = "static" /\ code = <<d, k>>
      \/ \E d \in Devices : class[d] = "side" /\ code = <<d, mail.code>>
  BY DEF Enterable
<1>7. "totp" # "side" /\ "static" # "side" /\ "static" # "totp"
  OBVIOUS
<1> QED
  BY <1>2, <1>3, <1>4, <1>5, <1>6, <1>7, Zenon

\* The row s after an accepted code does not accept it again, nor one that was used before.
AcceptedRow(d, r, held, code, s) ==
    /\ GoodRow(s) /\ s.confirmed = r.confirmed
    /\ \A new : code[2] \notin new => Used(d, s, new, code[2])
    /\ \A x, new : /\ Used(d, r, held, x) /\ new \subseteq held
                   /\ class[d] = "totp" => x \in Int
                   => Used(d, s, new, x)

\* ... which is what verify_token's save does.
LEMMA AcceptFields ==
    ASSUME ClockShape, NEW d \in Devices, NEW r, GoodRow(r), NEW held,
           NEW code \in Enterable, Accepts(d, r, held, code),
           NEW s, s = AfterAccept(d, r, code)
    PROVE  AcceptedRow(d, r, held, code, s)
<1>0. code[1] = d /\ class[d] \in {"side", "static", "totp"} /\ now \in Int
  BY DEF Accepts, ClockShape
<1>1. CASE class[d] = "totp"
  <2>1. code[2] \in Int
    BY <1>0, <1>1, EnterableFacts, Zenon
  <2>2. s = [[r EXCEPT !.fails = 0, !.failedAt = 0] EXCEPT !.lastT = code[2], !.drift = code[2] - Current]
    BY <1>1 DEF AfterAccept, ThrottleReset
  <2>3. GoodRow(s) /\ s.lastT = code[2] /\ s.confirmed = r.confirmed
    BY <2>1, <2>2, Zenon DEF GoodRow
  <2>4. code[2] >= r.lastT + 1
    BY <1>1 DEF Accepts, StepMatches
  <2>5. r.lastT \in Int
    BY DEF GoodRow
  <2>6. \A x \in Int : x <= r.lastT => x <= s.lastT
    BY <2>1, <2>3, <2>4, <2>5
  <2>7. code[2] <= s.lastT
    BY <2>1, <2>3
  <2>8. "totp" # "side" /\ "totp" # "static"
    OBVIOUS
  <2> QED
    BY <1>1, <2>3, <2>6, <2>7, <2>8, Zenon DEF Used, AcceptedRow
<1>2. CASE class[d] = "static"
  <2>1. s = ThrottleReset(r)
    BY <1>2 DEF AfterAccept
  <2>2. GoodRow(s) /\ s.confirmed = r.confirmed
    BY <2>1, ResetFields, Zenon
  <2>3. "static" # "side" /\ "totp" # "static"
    OBVIOUS
  <2> QED
    BY <1>2, <2>2, <2>3, Zenon DEF Used, AcceptedRow
<1>3. CASE class[d] = "side"
  <2>1. s = [r EXCEPT !.token = 0, !.until = now]
    BY <1>3 DEF AfterAccept
  <2>2. GoodRow(s) /\ s.until = now /\ s.confirmed = r.confirmed
    BY <2>1, <1>0, Zenon DEF GoodRow
  <2>3. s.until <= now
    BY <2>2, <1>0
  <2>4. "static" # "side" /\ "totp" # "side"
    OBVIOUS
  <2> QED
    BY <1>3, <2>2, <2>3, <2>4, Zenon DEF Used, AcceptedRow
<1> QED
  BY <1>0, <1>1, <1>2, <1>3, Zenon

-----------------------------------------------------------------------------
(* Steps. *)

\* No request, and no setup.
LEMMA IdleHolders ==
    /\ RequestGood(NoRequest) /\ NoRequest.dev = 0
    /\ SetupGood(NoSetup) /\ NoSetup.dev = 0
<1>1. NoRequest.at = "idle" /\ NoRequest.dev = 0 /\ NoRequest.copy = NoRow
  BY DEF NoRequest, Asked
<1>2. NoSetup.dev = 0 /\ NoSetup.copy = NoRow
  BY DEF NoSetup
<1> QED
  BY <1>1, <1>2, NewFields, Zenon DEF RequestGood, SetupGood

\* A request or a setup of one browser.
LEMMA OneHolder ==
    ASSUME NEW f, f = [b \in AuthBrowsers |-> f[b]], NEW b \in AuthBrowsers, NEW v,
           NEW g, g = [f EXCEPT ![b] = v]
    PROVE  /\ g[b] = v /\ \A a \in AuthBrowsers : a # b => g[a] = f[a]
           /\ g = [a \in AuthBrowsers |-> g[a]]
<1>1. g = [a \in AuthBrowsers |-> IF a = b THEN v ELSE f[a]]
  BY Zenon
<1>2. \A a \in AuthBrowsers : g[a] = IF a = b THEN v ELSE f[a]
  BY <1>1, Zenon
<1>3. g = [a \in AuthBrowsers |-> g[a]]
  BY <1>1, <1>2, Zenon
<1> QED
  BY <1>2, <1>3, Zenon

\* A row, or the tokens, of one device.
LEMMA OneDevice ==
    ASSUME NEW f, f = [d \in Devices |-> f[d]], NEW d \in Devices, NEW v,
           NEW g, g = [f EXCEPT ![d] = v]
    PROVE  /\ g[d] = v /\ \A e \in Devices : e # d => g[e] = f[e]
           /\ g = [e \in Devices |-> g[e]]
<1>1. g = [e \in Devices |-> IF e = d THEN v ELSE f[e]]
  BY Zenon
<1>2. \A e \in Devices : g[e] = IF e = d THEN v ELSE f[e]
  BY <1>1, Zenon
<1>3. g = [e \in Devices |-> g[e]]
  BY <1>1, <1>2, Zenon
<1> QED
  BY <1>2, <1>3, Zenon

\* A device whose row keeps its codes, while nothing more is accepted.
LEMMA OnceKept ==
    ASSUME ClockShape, class' = class, now' \in Int, now <= now', accepted' = accepted,
           NEW d, GoodRow(row[d]), Once(d), SameCodes(row[d], row'[d]),
           row'[d].confirmed = row[d].confirmed, tokens'[d] \subseteq tokens[d]
    PROVE  Once(d)'
<1>1. ASSUME row'[d].confirmed, NEW c \in accepted, c[1] = d
      PROVE  Used(d, row[d], tokens[d], c[2])'
  <2>1. Used(d, row[d], tokens[d], c[2])
    BY <1>1, Zenon DEF Once
  <2>2. row'[d].lastT = row[d].lastT /\ row'[d].token = row[d].token /\ row'[d].until = row[d].until
    BY Zenon DEF SameCodes
  <2>3. row[d].until \in Int /\ now \in Int
    BY Zenon DEF GoodRow, ClockShape
  <2>4. row[d].until <= now => row[d].until <= now'
    BY <2>3
  <2>5. c[2] \notin tokens[d] => c[2] \notin tokens'[d]
    BY Zenon
  <2> QED
    BY <2>1, <2>2, <2>4, <2>5, Zenon DEF Used
<1> QED
  BY <1>1, Zenon DEF Once

\* Time passes.
LEMMA TickOnce == ASSUME OnceInv, Tick PROVE OnceInv'
<1>0. ClockShape /\ RowShape /\ HolderShape
  BY Zenon DEF OnceInv
<1>1. /\ now' = now + 1 /\ class' = class /\ skew' = skew /\ row' = row /\ tokens' = tokens
      /\ spent' = spent /\ request' = request /\ setup' = setup /\ mail' = mail
      /\ accepted' = accepted /\ again' = again /\ raced' = raced
  BY DEF Tick
<1>2. now' \in Int /\ now <= now'
  BY <1>0, <1>1 DEF ClockShape
<1>3. ClockShape'
  BY <1>0, <1>1, <1>2, Zenon DEF ClockShape
<1>4. RowShape' /\ HolderShape'
  BY <1>0, <1>1, Zenon DEF RowShape, HolderShape, RequestGood, SetupGood
<1>5. ASSUME NEW c \in accepted' PROVE CodeGood(c)'
  BY <1>1, Zenon DEF OnceInv, CodeGood
<1>6. ASSUME NEW b \in AuthBrowsers PROVE Untouched(b)'
  BY <1>1, Zenon DEF OnceInv, Untouched
<1>7. ASSUME NEW d \in Devices \ raced' PROVE Once(d)'
  <2>1. Once(d) /\ GoodRow(row[d])
    BY <1>1, Zenon DEF OnceInv, RowShape
  <2>2. SameCodes(row[d], row'[d])
    BY <1>1, Zenon DEF SameCodes
  <2> QED
    BY <2>1, <2>2, <1>0, <1>1, <1>2, OnceKept, Zenon
<1>8. again' \subseteq raced'
  BY <1>1, Zenon DEF OnceInv
<1> QED
  BY <1>3, <1>4, <1>5, <1>6, <1>7, <1>8, Zenon DEF OnceInv

\* A request reads the device it shall send to.
LEMMA SelectOnce == ASSUME OnceInv, NEW b \in AuthBrowsers, SelectChallenge(b) PROVE OnceInv'
<1>0. ClockShape /\ RowShape /\ HolderShape
  BY Zenon DEF OnceInv
<1>1. PICK d \in Devices : row[d].confirmed /\ request' = [request EXCEPT ![b] = Asked("send", d, row[d])]
  BY Zenon DEF SelectChallenge, Tried
<1>2. /\ now' = now /\ class' = class /\ skew' = skew /\ row' = row /\ tokens' = tokens
      /\ spent' = spent /\ setup' = setup /\ mail' = mail
      /\ accepted' = accepted /\ again' = again /\ raced' = raced
  BY DEF SelectChallenge
<1>3. PICK q : q = Asked("send", d, row[d])
  OBVIOUS
<1>4. q.at = "send" /\ q.dev = d /\ q.copy = row[d] /\ "send" # "idle"
  <2>1. "send" # "idle"
    OBVIOUS
  <2> QED
    BY <1>3, <2>1, Zenon DEF Asked
<1>5. RequestGood(q)
  BY <1>0, <1>1, <1>4, Zenon DEF RequestGood, RowShape
<1>6. /\ request'[b] = q /\ \A a \in AuthBrowsers : a # b => request'[a] = request[a]
      /\ request' = [a \in AuthBrowsers |-> request'[a]]
  BY <1>0, <1>1, <1>3, OneHolder, Zenon DEF HolderShape
<1>7. ClockShape' /\ RowShape'
  BY <1>0, <1>2, Zenon DEF ClockShape, RowShape
<1>8. \A a \in AuthBrowsers : RequestGood(request'[a]) /\ SetupGood(setup'[a])
  BY <1>0, <1>2, <1>5, <1>6, Zenon DEF HolderShape
<1>9. HolderShape'
  BY <1>0, <1>2, <1>6, <1>8, Zenon DEF HolderShape, RequestGood, SetupGood
<1>10. ASSUME NEW c \in accepted' PROVE CodeGood(c)'
  BY <1>2, Zenon DEF OnceInv, CodeGood
<1>11. ASSUME NEW e \in AuthBrowsers PROVE Untouched(e)'
  <2>1. Untouched(e)
    BY Zenon DEF OnceInv
  <2>2. ASSUME setup[e].dev # 0 PROVE \A a \in AuthBrowsers : request'[a].dev # setup[e].dev
    <3>1. ~ row[setup[e].dev].confirmed /\ \A a \in AuthBrowsers : request[a].dev # setup[e].dev
      BY <2>1, <2>2, Zenon DEF Untouched
    <3> QED
      BY <3>1, <1>1, <1>4, <1>6, Zenon
  <2> QED
    BY <2>1, <2>2, <1>2, Zenon DEF Untouched
<1>12. ASSUME NEW e \in Devices \ raced' PROVE Once(e)'
  BY <1>2, Zenon DEF OnceInv, Once, Used
<1>13. again' \subseteq raced'
  BY <1>2, Zenon DEF OnceInv
<1> QED
  BY <1>7, <1>9, <1>10, <1>11, <1>12, <1>13, Zenon DEF OnceInv

\* A device is deleted: its row accepts nothing.
LEMMA DeleteOnce == ASSUME OnceInv, DeleteDevice PROVE OnceInv'
<1>0. ClockShape /\ RowShape /\ HolderShape
  BY Zenon DEF OnceInv
<1>1. PICK d \in Devices : /\ row' = [row EXCEPT ![d] = NoRow]
                           /\ tokens' = [tokens EXCEPT ![d] = {}]
  BY Zenon DEF DeleteDevice
<1>2. /\ now' = now /\ class' = class /\ skew' = skew /\ request' = request
      /\ spent' = spent /\ setup' = setup /\ mail' = mail
      /\ accepted' = accepted /\ again' = again /\ raced' = raced
  BY DEF DeleteDevice
<1>3. /\ row'[d] = NoRow /\ \A e \in Devices : e # d => row'[e] = row[e]
      /\ row' = [e \in Devices |-> row'[e]]
  BY <1>0, <1>1, OneDevice, Zenon DEF RowShape
<1>4. /\ tokens'[d] = {} /\ \A e \in Devices : e # d => tokens'[e] = tokens[e]
      /\ tokens' = [e \in Devices |-> tokens'[e]]
  BY <1>0, <1>1, OneDevice, Zenon DEF RowShape
<1>5. GoodRow(NoRow) /\ ~ NoRow.confirmed
  BY NewFields, Zenon
<1>6. \A e \in Devices : GoodRow(row'[e]) /\ (row'[e].confirmed => row[e].confirmed /\ e # d)
  BY <1>0, <1>3, <1>5, Zenon DEF RowShape
<1>7. ClockShape' /\ HolderShape'
  BY <1>0, <1>2, Zenon DEF ClockShape, HolderShape, RequestGood, SetupGood
<1>8. RowShape'
  BY <1>0, <1>2, <1>3, <1>4, <1>6, Zenon DEF RowShape
<1>9. ASSUME NEW c \in accepted' PROVE CodeGood(c)'
  BY <1>2, Zenon DEF OnceInv, CodeGood
<1>10. ASSUME NEW e \in AuthBrowsers PROVE Untouched(e)'
  <2>1. Untouched(e) /\ setup[e].dev \in Devices \cup {0}
    BY <1>0, Zenon DEF OnceInv, HolderShape, SetupGood
  <2>2. setup[e].dev # 0 => ~ row'[setup[e].dev].confirmed
    BY <2>1, <1>6, Zenon DEF Untouched
  <2> QED
    BY <2>1, <2>2, <1>2, Zenon DEF Untouched
<1>11. ASSUME NEW e \in Devices \ raced' PROVE Once(e)'
  <2>1. Once(e)
    BY <1>2, Zenon DEF OnceInv
  <2>2. row'[e].confirmed => row'[e] = row[e] /\ tokens'[e] = tokens[e]
    BY <1>3, <1>4, <1>6, Zenon
  <2> QED
    BY <2>1, <2>2, <1>2, <1>6, Zenon DEF Once, Used
<1>12. again' \subseteq raced'
  BY <1>2, Zenon DEF OnceInv
<1> QED
  BY <1>7, <1>8, <1>9, <1>10, <1>11, <1>12, Zenon DEF OnceInv

(* A request saves its copy, with a new code or without: if nobody wrote the row
   meanwhile, it has the codes it had, or a code that was never sent before. *)
LEMMA SaveOnce ==
    ASSUME OnceInv, NEW b \in AuthBrowsers, request[b].at # "idle",
           NEW r, GoodRow(r), r.confirmed,
           SameCodes(request[b].copy, r) \/ (r.lastT = request[b].copy.lastT /\ r.token = mail.code + 1),
           SaveCopy(request[b].dev, r, request[b].copy),
           request' = [request EXCEPT ![b] = NoRequest],
           mail'.code \in Int, mail.code <= mail'.code,
           UNCHANGED <<now, class, skew, tokens, spent, setup, accepted, again>>
    PROVE  OnceInv'
<1>0. ClockShape /\ RowShape /\ HolderShape
  BY Zenon DEF OnceInv
<1>1. RequestGood(request[b])
  BY <1>0, Zenon DEF HolderShape
<1>d. PICK d : d = request[b].dev
  OBVIOUS
<1>c. PICK copy : copy = request[b].copy
  OBVIOUS
<1>2. d \in Devices /\ d \in spent /\ copy.confirmed /\ GoodRow(copy)
  BY <1>1, <1>d, <1>c, Zenon DEF RequestGood
<1>s. SameCodes(copy, r) \/ (r.lastT = copy.lastT /\ r.token = mail.code + 1)
  BY <1>c, Zenon
<1>3. /\ now' = now /\ class' = class /\ skew' = skew /\ tokens' = tokens
      /\ spent' = spent /\ setup' = setup /\ accepted' = accepted /\ again' = again
  OBVIOUS
<1>4. /\ row' = [row EXCEPT ![d] = r]
      /\ raced' = IF row[d] # copy THEN raced \cup {d} ELSE raced
  BY <1>d, <1>c, Zenon DEF SaveCopy
<1>5. raced \subseteq raced' /\ (d \notin raced' => row[d] = copy)
  BY <1>4, Zenon
<1>6. /\ row'[d] = r /\ \A e \in Devices : e # d => row'[e] = row[e]
      /\ row' = [e \in Devices |-> row'[e]]
  BY <1>0, <1>2, <1>4, OneDevice, Zenon DEF RowShape
<1>7. /\ request'[b] = NoRequest /\ \A a \in AuthBrowsers : a # b => request'[a] = request[a]
      /\ request' = [a \in AuthBrowsers |-> request'[a]]
  BY <1>0, OneHolder, Zenon DEF HolderShape
<1>8. RequestGood(NoRequest) /\ NoRequest.dev = 0
  BY IdleHolders, Zenon
<1>9. ClockShape'
  BY <1>0, <1>3, Zenon DEF ClockShape
<1>10. RowShape'
  <2>1. \A e \in Devices : GoodRow(row'[e]) /\ (row'[e].confirmed => e \in spent)
    BY <1>0, <1>2, <1>6, Zenon DEF RowShape
  <2> QED
    BY <2>1, <1>0, <1>3, <1>6, Zenon DEF RowShape
<1>11. HolderShape'
  <2>1. \A a \in AuthBrowsers : RequestGood(request'[a]) /\ SetupGood(setup'[a])
    BY <1>0, <1>3, <1>7, <1>8, Zenon DEF HolderShape
  <2> QED
    BY <2>1, <1>0, <1>3, <1>7, Zenon DEF HolderShape, RequestGood, SetupGood
<1>12. ASSUME NEW c \in accepted' PROVE CodeGood(c)'
  <2>1. CodeGood(c)
    BY <1>3, Zenon DEF OnceInv
  <2>2. ASSUME c[2] \in Int, c[2] <= mail.code PROVE c[2] <= mail'.code
    BY <2>2, <1>0 DEF ClockShape
  <2> QED
    BY <2>1, <2>2, <1>3, Zenon DEF CodeGood
<1>13. ASSUME NEW e \in AuthBrowsers PROVE Untouched(e)'
  <2>1. Untouched(e) /\ setup[e].dev \in Devices \cup {0}
    BY <1>0, Zenon DEF OnceInv, HolderShape, SetupGood
  <2>2. ASSUME setup[e].dev # 0
        PROVE  /\ ~ row'[setup[e].dev].confirmed
               /\ \A a \in AuthBrowsers : request'[a].dev # setup[e].dev
    <3>1. /\ ~ row[setup[e].dev].confirmed
          /\ \A a \in AuthBrowsers : request[a].dev # setup[e].dev
      BY <2>1, <2>2, Zenon DEF Untouched
    <3>2. setup[e].dev # d
      BY <3>1, <1>d, Zenon
    <3> QED
      BY <3>1, <3>2, <2>1, <2>2, <1>6, <1>7, <1>8, Zenon
  <2> QED
    BY <2>1, <2>2, <1>3, Zenon DEF Untouched
<1>14. ASSUME NEW e \in Devices \ raced' PROVE Once(e)'
  <2>1. Once(e) /\ GoodRow(row[e])
    BY <1>0, <1>5, Zenon DEF OnceInv, RowShape
  <2>2. CASE e # d
    <3>1. row'[e] = row[e]
      BY <2>2, <1>6, Zenon
    <3> QED
      BY <3>1, <2>1, <1>3, Zenon DEF Once, Used
  <2>3. CASE e = d
    <3>1. row[d] = copy /\ row[d].confirmed
      BY <2>3, <1>2, <1>5, Zenon
    <3>2. ASSUME NEW c \in accepted, c[1] = d PROVE Used(d, row[d], tokens[d], c[2])'
      <4>1. Used(d, copy, tokens[d], c[2]) /\ CodeGood(c)
        BY <3>1, <3>2, <2>1, <2>3, Zenon DEF Once, OnceInv
      <4>2. CASE SameCodes(copy, r)
        BY <4>1, <4>2, <1>3, <1>6, Zenon DEF Used, SameCodes
      <4>3. CASE r.lastT = copy.lastT /\ r.token = mail.code + 1
        <5>1. ASSUME class[d] = "side" PROVE r.token # c[2]
          <6>1. c[2] \in Int /\ c[2] <= mail.code /\ mail.code \in Int
            BY <5>1, <4>1, <3>2, <1>0, Zenon DEF CodeGood, ClockShape
          <6> QED
            BY <6>1, <4>3
        <5> QED
          BY <5>1, <4>1, <4>3, <1>3, <1>6, Zenon DEF Used
      <4> QED
        BY <4>2, <4>3, <1>s, Zenon
    <3> QED
      BY <3>2, <2>3, <1>3, Zenon DEF Once
  <2> QED
    BY <2>2, <2>3, Zenon
<1>15. again' \subseteq raced'
  BY <1>3, <1>5, Zenon DEF OnceInv
<1> QED
  BY <1>9, <1>10, <1>11, <1>12, <1>13, <1>14, <1>15, Zenon DEF OnceInv

\* The validation stage saves last_used.
LEMMA LastUsedOnce == ASSUME OnceInv, NEW b \in AuthBrowsers, SaveLastUsed(b) PROVE OnceInv'
<1>1. /\ request[b].at = "save" /\ SaveCopy(request[b].dev, request[b].copy, request[b].copy)
      /\ request' = [request EXCEPT ![b] = NoRequest]
      /\ mail' = mail /\ UNCHANGED <<now, class, skew, tokens, spent, setup, accepted, again>>
  BY DEF SaveLastUsed
<1>2. request[b].at # "idle"
  BY <1>1
<1>3. RequestGood(request[b]) /\ mail.code \in Int
  BY Zenon DEF OnceInv, HolderShape, ClockShape
<1>4. GoodRow(request[b].copy) /\ request[b].copy.confirmed
  BY <1>2, <1>3, Zenon DEF RequestGood
<1>5. SameCodes(request[b].copy, request[b].copy)
  BY DEF SameCodes
<1>6. mail'.code \in Int /\ mail.code <= mail'.code
  BY <1>1, <1>3
<1> QED
  BY <1>1, <1>2, <1>4, <1>5, <1>6, SaveOnce, Zenon

\* generate_token saves a new code.
LEMMA GenerateOnce == ASSUME OnceInv, NEW b \in AuthBrowsers, GenerateToken(b) PROVE OnceInv'
<1>0. PICK r : r = WithToken(request[b].copy)
  OBVIOUS
<1>1. /\ request[b].at = "send" /\ SaveCopy(request[b].dev, r, request[b].copy)
      /\ request' = [request EXCEPT ![b] = NoRequest] /\ Mail(request[b].dev)
      /\ UNCHANGED <<now, class, skew, tokens, spent, setup, accepted, again>>
  BY <1>0 DEF GenerateToken
<1>2. request[b].at # "idle"
  BY <1>1
<1>3. RequestGood(request[b]) /\ mail.code \in Int /\ ClockShape
  BY Zenon DEF OnceInv, HolderShape, ClockShape
<1>4. GoodRow(request[b].copy) /\ request[b].copy.confirmed
  BY <1>2, <1>3, Zenon DEF RequestGood
<1>5. /\ GoodRow(r) /\ r.lastT = request[b].copy.lastT /\ r.token = mail.code + 1
      /\ r.confirmed = request[b].copy.confirmed
  BY <1>0, <1>3, <1>4, TokenFields, Zenon
<1>6. mail'.code = mail.code + 1
  BY <1>1 DEF Mail
<1>7. mail'.code \in Int /\ mail.code <= mail'.code
  BY <1>3, <1>6
<1>8. r.confirmed
  BY <1>4, <1>5, Zenon
<1> QED
  BY <1>1, <1>2, <1>5, <1>7, <1>8, SaveOnce, Zenon

\* A setup begins with a key that no row had.
LEMMA BeginSetupOnce == ASSUME OnceInv, NEW b \in AuthBrowsers, BeginSetup(b) PROVE OnceInv'
<1>0. ClockShape /\ RowShape /\ HolderShape
  BY Zenon DEF OnceInv
<1>1. PICK d \in Devices \ (spent \cup {setup[c].dev : c \in AuthBrowsers}) :
        /\ IF class[d] = "side" THEN Mail(d) ELSE UNCHANGED mail
        /\ setup' = [setup EXCEPT ![b] =
             [dev |-> d, copy |-> IF class[d] = "side" THEN WithToken(NewRow) ELSE NewRow]]
  BY Zenon DEF BeginSetup
<1>2. /\ now' = now /\ class' = class /\ skew' = skew /\ row' = row /\ tokens' = tokens
      /\ spent' = spent /\ request' = request
      /\ accepted' = accepted /\ again' = again /\ raced' = raced
  BY DEF BeginSetup
<1>3. PICK t : t = WithToken(NewRow)
  OBVIOUS
<1>4. GoodRow(t) /\ t.confirmed = NewRow.confirmed /\ GoodRow(NewRow) /\ ~ NewRow.confirmed
  BY <1>0, <1>3, NewFields, TokenFields, Zenon
<1>5. PICK r : r = IF class[d] = "side" THEN WithToken(NewRow) ELSE NewRow
  OBVIOUS
<1>6. GoodRow(r) /\ ~ r.confirmed
  BY <1>3, <1>4, <1>5, Zenon
<1>7. PICK s : s = [dev |-> d, copy |-> r]
  BY Zenon
<1>8. s.dev = d /\ s.copy = r
  BY <1>7
<1>9. SetupGood(s)
  BY <1>6, <1>8, Zenon DEF SetupGood
<1>10. /\ setup'[b] = s /\ \A a \in AuthBrowsers : a # b => setup'[a] = setup[a]
       /\ setup' = [a \in AuthBrowsers |-> setup'[a]]
  BY <1>0, <1>1, <1>5, <1>7, OneHolder, Zenon DEF HolderShape
<1>11. mail'.code \in Int /\ mail.code <= mail'.code
  <2>1. mail'.code = mail.code + 1 \/ mail'.code = mail.code
    BY <1>1 DEF Mail
  <2> QED
    BY <2>1, <1>0 DEF ClockShape
<1>12. ClockShape' /\ RowShape'
  BY <1>0, <1>2, <1>11, Zenon DEF ClockShape, RowShape
<1>13. HolderShape'
  <2>1. \A a \in AuthBrowsers : RequestGood(request'[a]) /\ SetupGood(setup'[a])
    BY <1>0, <1>2, <1>9, <1>10, Zenon DEF HolderShape
  <2> QED
    BY <2>1, <1>0, <1>2, <1>10, Zenon DEF HolderShape, RequestGood, SetupGood
<1>14. ASSUME NEW c \in accepted' PROVE CodeGood(c)'
  <2>1. CodeGood(c)
    BY <1>2, Zenon DEF OnceInv
  <2>2. ASSUME c[2] \in Int, c[2] <= mail.code PROVE c[2] <= mail'.code
    BY <2>2, <1>0, <1>11 DEF ClockShape
  <2> QED
    BY <2>1, <2>2, <1>2, Zenon DEF CodeGood
<1>15. /\ d \notin spent /\ d # 0 /\ \A a \in AuthBrowsers : setup[a].dev # d
  BY <1>1, AuthAssumption, Zenon
<1>16. \A a \in AuthBrowsers : request[a].dev # d
  BY <1>0, <1>15, Zenon DEF HolderShape, RequestGood
<1>17. ~ row[d].confirmed /\ \A c \in accepted : c[1] # d
  BY <1>0, <1>15, Zenon DEF RowShape, OnceInv, CodeGood
<1>18. ASSUME NEW e \in AuthBrowsers PROVE Untouched(e)'
  <2>1. CASE e = b
    <3>1. \A a \in AuthBrowsers : a # b => setup'[a].dev # d
      BY <1>10, <1>15, Zenon
    <3> QED
      BY <3>1, <2>1, <1>2, <1>8, <1>10, <1>16, <1>17, Zenon DEF Untouched
  <2>2. CASE e # b
    <3>1. Untouched(e) /\ setup'[e] = setup[e] /\ setup[e].dev # d
      BY <2>2, <1>10, <1>15, Zenon DEF OnceInv
    <3>2. ASSUME setup[e].dev # 0, NEW a \in AuthBrowsers, a # e PROVE setup'[a].dev # setup[e].dev
      BY <3>1, <3>2, <1>8, <1>10, Zenon DEF Untouched
    <3> QED
      BY <3>1, <3>2, <1>2, Zenon DEF Untouched
  <2> QED
    BY <2>1, <2>2, Zenon
<1>19. ASSUME NEW e \in Devices \ raced' PROVE Once(e)'
  BY <1>2, Zenon DEF OnceInv, Once, Used
<1>20. again' \subseteq raced'
  BY <1>2, Zenon DEF OnceInv
<1> QED
  BY <1>12, <1>13, <1>14, <1>18, <1>19, <1>20, Zenon DEF OnceInv

\* A setup ends with a row, and with codes X of its device.
Ends(b, d, r, X) ==
    /\ d = setup[b].dev /\ d # 0 /\ GoodRow(r) /\ row' = [row EXCEPT ![d] = r]
    /\ setup' = [setup EXCEPT ![b] = NoSetup] /\ spent' = spent \cup {d} /\ raced \subseteq raced'
    /\ tokens' = [e \in Devices |-> tokens'[e]]
    /\ \A e \in Devices : e # d => tokens'[e] = tokens[e]
    /\ now' = now /\ class' = class /\ skew' = skew /\ request' = request
    /\ mail' = mail /\ again' = again /\ accepted' = accepted \cup X
    /\ \A c \in X : /\ c[1] = d /\ Used(d, r, tokens'[d], c[2])
                    /\ class[d] = "totp" => c[2] \in Int
                    /\ class[d] = "side" => c[2] = mail.code

\* ... which no device that was set up before notices.
LEMMA EndSetup ==
    ASSUME OnceInv, NEW b \in AuthBrowsers, NEW d, NEW r, NEW X, Ends(b, d, r, X)
    PROVE  OnceInv'
<1>e. /\ d = setup[b].dev /\ d # 0 /\ GoodRow(r) /\ row' = [row EXCEPT ![d] = r]
      /\ setup' = [setup EXCEPT ![b] = NoSetup] /\ spent' = spent \cup {d} /\ raced \subseteq raced'
      /\ tokens' = [e \in Devices |-> tokens'[e]]
      /\ \A e \in Devices : e # d => tokens'[e] = tokens[e]
      /\ accepted' = accepted \cup X
      /\ \A c \in X : /\ c[1] = d /\ Used(d, r, tokens'[d], c[2])
                      /\ class[d] = "totp" => c[2] \in Int
                      /\ class[d] = "side" => c[2] = mail.code
  BY Zenon DEF Ends
<1> USE <1>e
<1>0. ClockShape /\ RowShape /\ HolderShape
  BY Zenon DEF OnceInv
<1>1. /\ now' = now /\ class' = class /\ skew' = skew /\ request' = request
      /\ mail' = mail /\ again' = again
  BY Zenon DEF Ends
<1>2. d \in Devices /\ Untouched(b)
  BY <1>0, Zenon DEF HolderShape, SetupGood, OnceInv
<1>3. /\ \A c \in accepted : c[1] # d
      /\ \A a \in AuthBrowsers : request[a].dev # d
      /\ \A a \in AuthBrowsers : a # b => setup[a].dev # d
  BY <1>2, Zenon DEF Untouched
<1>4. /\ row'[d] = r /\ \A e \in Devices : e # d => row'[e] = row[e]
      /\ row' = [e \in Devices |-> row'[e]]
  BY <1>0, <1>2, OneDevice, Zenon DEF RowShape
<1>5. /\ setup'[b] = NoSetup /\ \A a \in AuthBrowsers : a # b => setup'[a] = setup[a]
      /\ setup' = [a \in AuthBrowsers |-> setup'[a]]
  BY <1>0, OneHolder, Zenon DEF HolderShape
<1>6. SetupGood(NoSetup) /\ NoSetup.dev = 0
  BY IdleHolders, Zenon
<1>7. ClockShape'
  BY <1>0, <1>1, Zenon DEF ClockShape
<1>8. RowShape'
  <2>1. \A e \in Devices : GoodRow(row'[e]) /\ (row'[e].confirmed => e \in spent')
    BY <1>0, <1>4, Zenon DEF RowShape
  <2> QED
    BY <2>1, <1>4, Zenon DEF RowShape
<1>9. HolderShape'
  <2>1. \A a \in AuthBrowsers : RequestGood(request[a]) /\ SetupGood(setup'[a])
    BY <1>0, <1>5, <1>6, Zenon DEF HolderShape
  <2>2. spent \subseteq spent'
    BY Zenon
  <2> QED
    BY <2>1, <2>2, <1>0, <1>1, <1>5, Zenon DEF HolderShape, RequestGood, SetupGood
<1>10. ASSUME NEW c \in accepted' PROVE CodeGood(c)'
  <2>1. CASE c \in accepted
    <3>1. CodeGood(c) /\ spent \subseteq spent'
      BY <2>1, Zenon DEF OnceInv
    <3> QED
      BY <3>1, <1>1, Zenon DEF CodeGood
  <2>2. CASE c \in X
    <3>1. /\ c[1] = d /\ (class[d] = "totp" => c[2] \in Int)
          /\ (class[d] = "side" => c[2] = mail.code) /\ d \in spent'
      BY <2>2, Zenon
    <3>2. mail.code \in Int /\ mail.code <= mail.code
      BY <1>0 DEF ClockShape
    <3> QED
      BY <3>1, <3>2, <1>1, <1>2, Zenon DEF CodeGood
  <2> QED
    BY <2>1, <2>2, Zenon
<1>11. ASSUME NEW e \in AuthBrowsers PROVE Untouched(e)'
  <2>1. CASE e = b
    BY <2>1, <1>5, <1>6, Zenon DEF Untouched
  <2>2. CASE e # b
    <3>1. Untouched(e) /\ setup'[e] = setup[e] /\ setup[e].dev # d /\ setup[e].dev \in Devices \cup {0}
      BY <2>2, <1>0, <1>3, <1>5, Zenon DEF OnceInv, HolderShape, SetupGood
    <3>2. ASSUME setup[e].dev # 0
          PROVE  /\ \A c \in accepted' : c[1] # setup[e].dev
                 /\ ~ row'[setup[e].dev].confirmed
                 /\ \A a \in AuthBrowsers : request'[a].dev # setup[e].dev
                 /\ \A a \in AuthBrowsers : a # e => setup'[a].dev # setup[e].dev
      <4>1. /\ \A c \in accepted : c[1] # setup[e].dev
            /\ ~ row[setup[e].dev].confirmed
            /\ \A a \in AuthBrowsers : request[a].dev # setup[e].dev
            /\ \A a \in AuthBrowsers : a # e => setup[a].dev # setup[e].dev
        BY <3>1, <3>2, Zenon DEF Untouched
      <4>2. row'[setup[e].dev] = row[setup[e].dev]
        BY <3>1, <3>2, <1>4, Zenon
      <4>3. \A c \in accepted' : c[1] # setup[e].dev
        BY <4>1, <3>1, Zenon
      <4>4. \A a \in AuthBrowsers : a # e => setup'[a].dev # setup[e].dev
        BY <4>1, <3>2, <1>5, <1>6, Zenon
      <4> QED
        BY <4>1, <4>2, <4>3, <4>4, <1>1, Zenon
    <3> QED
      BY <3>1, <3>2, Zenon DEF Untouched
  <2> QED
    BY <2>1, <2>2, Zenon
<1>12. ASSUME NEW e \in Devices \ raced' PROVE Once(e)'
  <2>1. CASE e = d
    <3>1. ASSUME NEW c \in accepted', c[1] = d PROVE Used(d, row[d], tokens[d], c[2])'
      <4>1. c \in X
        BY <3>1, <1>3, Zenon
      <4>2. Used(d, r, tokens'[d], c[2])
        BY <4>1, Zenon
      <4> QED
        BY <4>2, <1>1, <1>4, Zenon DEF Used
    <3> QED
      BY <3>1, <2>1, Zenon DEF Once
  <2>2. CASE e # d
    <3>1. Once(e) /\ row'[e] = row[e] /\ tokens'[e] = tokens[e]
      BY <2>2, <1>4, Zenon DEF OnceInv
    <3>2. \A c \in accepted' : c[1] = e => c \in accepted
      BY <2>2, Zenon
    <3> QED
      BY <3>1, <3>2, <1>1, Zenon DEF Once, Used
  <2> QED
    BY <2>1, <2>2, Zenon
<1>13. again' \subseteq raced'
  BY <1>1, Zenon DEF OnceInv
<1> QED
  BY <1>7, <1>8, <1>9, <1>10, <1>11, <1>12, <1>13, Zenon DEF OnceInv

\* The tokens that a static setup saves are new.
LEMMA FinishOnce == ASSUME OnceInv, NEW b \in AuthBrowsers, FinishStatic(b) PROVE OnceInv'
<1>d. PICK d : d = setup[b].dev
  OBVIOUS
<1>0. RowShape /\ HolderShape
  BY Zenon DEF OnceInv
<1>1. PICK r : r = Confirmed(setup[b].copy)
  OBVIOUS
<1>2. /\ d # 0 /\ row' = [row EXCEPT ![d] = r] /\ tokens' = [tokens EXCEPT ![d] = StaticTokens]
      /\ setup' = [setup EXCEPT ![b] = NoSetup] /\ spent' = spent \cup {d}
      /\ now' = now /\ class' = class /\ skew' = skew /\ request' = request
      /\ mail' = mail /\ again' = again /\ accepted' = accepted /\ raced' = raced
  BY <1>1, <1>d DEF FinishStatic
<1>3. SetupGood(setup[b])
  BY <1>0, Zenon DEF HolderShape
<1>4. GoodRow(r) /\ d \in Devices
  BY <1>d, <1>1, <1>2, <1>3, ConfirmFields, Zenon DEF SetupGood
<1>5. /\ \A e \in Devices : e # d => tokens'[e] = tokens[e]
      /\ tokens' = [e \in Devices |-> tokens'[e]]
  BY <1>0, <1>2, <1>4, OneDevice, Zenon DEF RowShape
<1>6. accepted' = accepted \cup {} /\ raced \subseteq raced'
  BY <1>2
<1>7. Ends(b, d, r, {})
  BY <1>d, <1>2, <1>4, <1>5, <1>6, Zenon DEF Ends
<1> QED
  BY <1>7, EndSetup, Zenon

\* A setup that refuses a code keeps a device that is not confirmed.
LEMMA RefuseSetup ==
    ASSUME OnceInv, NEW b \in AuthBrowsers, NEW d, d = setup[b].dev, d # 0,
           NEW r, GoodRow(r), ~ r.confirmed,
           row' = row \/ row' = [row EXCEPT ![d] = r],
           setup' = [setup EXCEPT ![b] = [dev |-> d, copy |-> r]],
           spent \subseteq spent', raced \subseteq raced',
           UNCHANGED <<now, class, skew, request, mail, tokens, accepted, again>>
    PROVE  OnceInv'
<1>0. ClockShape /\ RowShape /\ HolderShape
  BY Zenon DEF OnceInv
<1>1. /\ now' = now /\ class' = class /\ skew' = skew /\ request' = request
      /\ mail' = mail /\ tokens' = tokens /\ accepted' = accepted /\ again' = again
  OBVIOUS
<1>2. d \in Devices /\ Untouched(b)
  BY <1>0, Zenon DEF HolderShape, SetupGood, OnceInv
<1>3. PICK s : s = [dev |-> d, copy |-> r]
  BY Zenon
<1>4. s.dev = d /\ s.copy = r
  BY <1>3
<1>5. SetupGood(s)
  BY <1>2, <1>4, Zenon DEF SetupGood
<1>6. /\ setup'[b] = s /\ \A a \in AuthBrowsers : a # b => setup'[a] = setup[a]
      /\ setup' = [a \in AuthBrowsers |-> setup'[a]]
  BY <1>0, <1>3, OneHolder, Zenon DEF HolderShape
<1>7. \A a \in AuthBrowsers : setup'[a].dev = setup[a].dev
  BY <1>4, <1>6, Zenon
<1>8. ~ row[d].confirmed
  BY <1>2, Zenon DEF Untouched
<1>9. /\ row' = [e \in Devices |-> row'[e]]
      /\ \A e \in Devices : /\ GoodRow(row'[e])
                            /\ row'[e] = row[e] \/ (e = d /\ ~ row'[e].confirmed)
  <2>1. CASE row' = row
    BY <2>1, <1>0, Zenon DEF RowShape
  <2>2. CASE row' = [row EXCEPT ![d] = r]
    <3>1. /\ row'[d] = r /\ \A e \in Devices : e # d => row'[e] = row[e]
          /\ row' = [e \in Devices |-> row'[e]]
      BY <2>2, <1>0, <1>2, OneDevice, Zenon DEF RowShape
    <3> QED
      BY <3>1, <1>0, Zenon DEF RowShape
  <2> QED
    BY <2>1, <2>2, Zenon
<1>10. ClockShape'
  BY <1>0, <1>1, Zenon DEF ClockShape
<1>11. RowShape'
  <2>1. \A e \in Devices : row'[e].confirmed => e \in spent'
    BY <1>0, <1>9, Zenon DEF RowShape
  <2> QED
    BY <2>1, <1>0, <1>1, <1>9, Zenon DEF RowShape
<1>12. HolderShape'
  <2>1. \A a \in AuthBrowsers : RequestGood(request[a]) /\ SetupGood(setup'[a])
    BY <1>0, <1>5, <1>6, Zenon DEF HolderShape
  <2> QED
    BY <2>1, <1>0, <1>1, <1>6, Zenon DEF HolderShape, RequestGood, SetupGood
<1>13. ASSUME NEW c \in accepted' PROVE CodeGood(c)'
  <2>1. CodeGood(c)
    BY <1>1, Zenon DEF OnceInv
  <2> QED
    BY <2>1, <1>1, Zenon DEF CodeGood
<1>14. ASSUME NEW e \in AuthBrowsers PROVE Untouched(e)'
  <2>1. Untouched(e) /\ setup[e].dev \in Devices \cup {0}
    BY <1>0, Zenon DEF OnceInv, HolderShape, SetupGood
  <2>2. setup[e].dev # 0 => ~ row'[setup[e].dev].confirmed
    BY <2>1, <1>9, Zenon DEF Untouched
  <2> QED
    BY <2>1, <2>2, <1>1, <1>7, Zenon DEF Untouched
<1>15. ASSUME NEW e \in Devices \ raced' PROVE Once(e)'
  <2>1. Once(e)
    BY Zenon DEF OnceInv
  <2>2. CASE row'[e] = row[e]
    BY <2>1, <2>2, <1>1, Zenon DEF Once, Used
  <2>3. CASE ~ row'[e].confirmed
    BY <2>3, Zenon DEF Once
  <2> QED
    BY <2>2, <2>3, <1>9, Zenon
<1>16. again' \subseteq raced'
  BY <1>1, Zenon DEF OnceInv
<1> QED
  BY <1>10, <1>11, <1>12, <1>13, <1>14, <1>15, <1>16, Zenon DEF OnceInv

\* The response of a setup stage.
LEMMA VerifyOnce == ASSUME OnceInv, NEW b \in AuthBrowsers, VerifySetup(b) PROVE OnceInv'
<1> DEFINE read == IF setup[b].dev \in spent THEN setup[b].copy ELSE NoRow
<1>0. ClockShape /\ RowShape /\ HolderShape /\ Untouched(b)
  BY Zenon DEF OnceInv
<1>1. PICK d : d = setup[b].dev
  OBVIOUS
<1>2. PICK copy : copy = setup[b].copy
  OBVIOUS
<1>3. SetupGood(setup[b])
  BY <1>0, Zenon DEF HolderShape
<1>4. /\ d # 0 /\ tokens' = tokens
      /\ UNCHANGED <<now, class, skew, request, mail>>
  BY <1>1 DEF VerifySetup
<1>5. GoodRow(copy) /\ ~ copy.confirmed /\ d \in Devices
  BY <1>1, <1>2, <1>3, <1>4, Zenon DEF SetupGood
<1>6. PICK code \in Enterable :
        \/ /\ Accepts(d, copy, {}, code)
           /\ SaveCopy(d, Confirmed(AfterAccept(d, copy, code)), read)
           /\ setup' = [setup EXCEPT ![b] = NoSetup] /\ spent' = spent \cup {d} /\ Record(code)
        \/ /\ setup' = [setup EXCEPT ![b] = [dev |-> d, copy |-> AfterRefuse(d, copy)]]
           /\ \/ SaveCopy(d, AfterRefuse(d, copy), read) /\ spent' = spent \cup {d}
              \/ row' = row /\ raced' = raced /\ spent' = spent
           /\ accepted' = accepted /\ again' = again
  BY <1>1, <1>2, Zenon DEF VerifySetup
<1> HIDE DEF read
<1>7. ASSUME NEW r, SaveCopy(d, r, read) PROVE row' = [row EXCEPT ![d] = r] /\ raced \subseteq raced'
  BY <1>7, Zenon DEF SaveCopy
<1>8. CASE /\ Accepts(d, copy, {}, code)
           /\ SaveCopy(d, Confirmed(AfterAccept(d, copy, code)), read)
           /\ setup' = [setup EXCEPT ![b] = NoSetup] /\ spent' = spent \cup {d} /\ Record(code)
  <2>1. PICK s : s = AfterAccept(d, copy, code)
    OBVIOUS
  <2>2. PICK r : r = Confirmed(s)
    OBVIOUS
  <2>3. GoodRow(s) /\ Used(d, s, {}, code[2])
    <3>1. code[2] \notin {}
      OBVIOUS
    <3>2. AcceptedRow(d, copy, {}, code, s)
      BY <2>1, <1>0, <1>5, <1>8, AcceptFields, Zenon
    <3> QED
      BY <3>1, <3>2, Zenon DEF AcceptedRow
  <2>4. GoodRow(r) /\ SameCodes(s, r)
    BY <2>2, <2>3, ConfirmFields, Zenon
  <2>5. row' = [row EXCEPT ![d] = r] /\ raced \subseteq raced'
    BY <2>1, <2>2, <1>7, <1>8, Zenon
  <2>6. code[1] = d
    BY <1>8, Zenon DEF Accepts
  <2>7. code \notin accepted
    BY <2>6, <1>0, <1>1, <1>4, Zenon DEF Untouched
  <2>8. accepted' = accepted \cup {code} /\ again' = again
    BY <2>7, <1>8, Zenon DEF Record
  <2>9. class[d] # "static"
    BY <1>1, Zenon DEF VerifySetup
  <2>10. Used(d, r, tokens'[d], code[2])
    BY <2>3, <2>4, <2>9, Zenon DEF Used, SameCodes
  <2>11. /\ class[d] = "totp" => code[2] \in Int
         /\ class[d] = "side" => code[2] = mail.code
    BY <2>6, <1>0, <1>5, EnterableFacts, Zenon
  <2>12. tokens' = [e \in Devices |-> tokens'[e]] /\ \A e \in Devices : tokens'[e] = tokens[e]
    BY <1>0, <1>4, Zenon DEF RowShape
  <2>13. /\ now' = now /\ class' = class /\ skew' = skew /\ request' = request
         /\ mail' = mail /\ again' = again
    BY <2>8, <1>4
  <2>14. PICK X : X = {code}
    BY Zenon
  <2>15. /\ accepted' = accepted \cup X
         /\ \A c \in X : /\ c[1] = d /\ Used(d, r, tokens'[d], c[2])
                         /\ class[d] = "totp" => c[2] \in Int
                         /\ class[d] = "side" => c[2] = mail.code
    BY <2>6, <2>8, <2>10, <2>11, <2>14, Zenon
  <2>16. Ends(b, d, r, X)
    BY <2>4, <2>5, <2>12, <2>13, <2>15, <1>1, <1>4, <1>8, Zenon DEF Ends
  <2> QED
    BY <2>16, EndSetup, Zenon
<1>9. CASE /\ setup' = [setup EXCEPT ![b] = [dev |-> d, copy |-> AfterRefuse(d, copy)]]
           /\ \/ SaveCopy(d, AfterRefuse(d, copy), read) /\ spent' = spent \cup {d}
              \/ row' = row /\ raced' = raced /\ spent' = spent
           /\ accepted' = accepted /\ again' = again
  <2>1. PICK r : r = AfterRefuse(d, copy)
    OBVIOUS
  <2>2. GoodRow(r) /\ r.confirmed = copy.confirmed
    BY <2>1, <1>5, RefuseFields, Zenon
  <2>3. ~ r.confirmed
    BY <2>2, <1>5, Zenon
  <2>4. /\ row' = row \/ row' = [row EXCEPT ![d] = r]
        /\ spent \subseteq spent' /\ raced \subseteq raced'
    BY <2>1, <1>7, <1>9, Zenon
  <2>5. setup' = [setup EXCEPT ![b] = [dev |-> d, copy |-> r]]
    BY <2>1, <1>9, Zenon
  <2>6. UNCHANGED <<now, class, skew, request, mail, tokens, accepted, again>>
    BY <1>4, <1>9, ZenonT(60)
  <2> QED
    BY <2>2, <2>3, <2>4, <2>5, <2>6, <1>1, <1>4, RefuseSetup, Zenon
<1> QED
  BY <1>6, <1>8, <1>9, Zenon

\* A code that was used is not accepted.
LEMMA UsedRefused ==
    ASSUME ClockShape, NEW d \in Devices, NEW r, GoodRow(r), NEW held, NEW code \in Enterable,
           Accepts(d, r, held, code), Used(d, r, held, code[2])
    PROVE  FALSE
<1>0. code[1] = d /\ class[d] \in {"side", "static", "totp"} /\ now \in Int
  BY DEF Accepts, ClockShape
<1>1. CASE class[d] = "totp"
  <2>1. code[2] \in Int /\ r.lastT \in Int
    BY <1>0, <1>1, EnterableFacts, Zenon DEF GoodRow
  <2>2. code[2] >= r.lastT + 1
    BY <1>1 DEF Accepts, StepMatches
  <2>3. code[2] <= r.lastT
    BY <1>1, Zenon DEF Used
  <2> QED
    BY <2>1, <2>2, <2>3
<1>2. CASE class[d] = "static"
  BY <1>2 DEF Accepts, Used
<1>3. CASE class[d] = "side"
  <2>1. r.token = code[2] /\ now < r.until
    BY <1>3 DEF Accepts
  <2>2. r.until \in Int
    BY DEF GoodRow
  <2>3. r.until <= now
    BY <2>1, <1>3, Zenon DEF Used
  <2> QED
    BY <2>1, <2>2, <2>3, <1>0
<1> QED
  BY <1>0, <1>1, <1>2, <1>3

\* No device accepts the code.
LEMMA NotMatchedOnce ==
    ASSUME OnceInv, NEW code, NotMatched(code),
           UNCHANGED <<now, class, skew, spent, setup, mail, raced>>
    PROVE  OnceInv'
<1>0. ClockShape /\ RowShape /\ HolderShape
  BY Zenon DEF OnceInv
<1>1. /\ now' = now /\ class' = class /\ skew' = skew /\ spent' = spent /\ setup' = setup
      /\ mail' = mail /\ raced' = raced /\ tokens' = tokens /\ accepted' = accepted
      /\ again' = again /\ request' = request
  BY DEF NotMatched
<1>2. /\ row' = [e \in Devices |-> row'[e]]
      /\ \A e \in Devices : row'[e] = AfterRefuse(e, row[e]) \/ row'[e] = row[e]
  <2>1. row' = [e \in Devices |-> IF e \in Tried THEN AfterRefuse(e, row[e]) ELSE row[e]]
    BY Zenon DEF NotMatched
  <2>2. \A e \in Devices : row'[e] = IF e \in Tried THEN AfterRefuse(e, row[e]) ELSE row[e]
    BY <2>1, Zenon
  <2>3. row' = [e \in Devices |-> row'[e]]
    BY <2>1, <2>2, Zenon
  <2> QED
    BY <2>2, <2>3, Zenon
<1>3. ASSUME NEW e \in Devices
      PROVE  GoodRow(row'[e]) /\ SameCodes(row[e], row'[e]) /\ row'[e].confirmed = row[e].confirmed
  <2>1. GoodRow(row[e])
    BY <1>0, Zenon DEF RowShape
  <2>2. SameCodes(row[e], row[e])
    BY DEF SameCodes
  <2>3. /\ GoodRow(AfterRefuse(e, row[e])) /\ SameCodes(row[e], AfterRefuse(e, row[e]))
        /\ AfterRefuse(e, row[e]).confirmed = row[e].confirmed
    BY <2>1, RefuseFields, Zenon
  <2> QED
    BY <2>1, <2>2, <2>3, <1>2, Zenon
<1>4. ClockShape' /\ HolderShape'
  BY <1>0, <1>1, Zenon DEF ClockShape, HolderShape, RequestGood, SetupGood
<1>5. RowShape'
  <2>1. \A e \in Devices : GoodRow(row'[e]) /\ (row'[e].confirmed => e \in spent')
    BY <1>0, <1>1, <1>3, Zenon DEF RowShape
  <2> QED
    BY <2>1, <1>0, <1>1, <1>2, Zenon DEF RowShape
<1>6. ASSUME NEW c \in accepted' PROVE CodeGood(c)'
  BY <1>1, Zenon DEF OnceInv, CodeGood
<1>7. ASSUME NEW b \in AuthBrowsers PROVE Untouched(b)'
  <2>1. Untouched(b) /\ setup[b].dev \in Devices \cup {0}
    BY <1>0, Zenon DEF OnceInv, HolderShape, SetupGood
  <2>2. setup[b].dev # 0 => ~ row'[setup[b].dev].confirmed
    BY <2>1, <1>3, Zenon DEF Untouched
  <2> QED
    BY <2>1, <2>2, <1>1, Zenon DEF Untouched
<1>8. ASSUME NEW d \in Devices \ raced' PROVE Once(d)'
  <2>1. Once(d) /\ GoodRow(row[d])
    BY <1>0, <1>1, Zenon DEF OnceInv, RowShape
  <2>2. now' \in Int /\ now <= now' /\ tokens'[d] \subseteq tokens[d]
    BY <1>0, <1>1 DEF ClockShape
  <2> QED
    BY <2>1, <2>2, <1>0, <1>1, <1>3, OnceKept, Zenon
<1>9. again' \subseteq raced'
  BY <1>1, Zenon DEF OnceInv
<1> QED
  BY <1>4, <1>5, <1>6, <1>7, <1>8, <1>9, Zenon DEF OnceInv

\* A device accepts the code, and it was not used on it unless the device was raced.
LEMMA MatchedOnce ==
    ASSUME OnceInv, NEW b \in AuthBrowsers, NEW code \in Enterable, NEW d \in Accepting(code),
           Matched(b, code, d), UNCHANGED <<now, class, skew, spent, setup, mail, raced>>
    PROVE  OnceInv'
<1>0. ClockShape /\ RowShape /\ HolderShape
  BY Zenon DEF OnceInv
<1>1. d \in Devices /\ row[d].confirmed /\ Accepts(d, row[d], tokens[d], code)
  BY Zenon DEF Accepting, Tried
<1>2. GoodRow(row[d]) /\ d \in spent /\ code[1] = d
  BY <1>0, <1>1, Zenon DEF RowShape, Accepts
<1>3. PICK r : r = AfterAccept(d, row[d], code)
  BY Zenon
<1>4. /\ now' = now /\ class' = class /\ skew' = skew /\ spent' = spent /\ setup' = setup
      /\ mail' = mail /\ raced' = raced
      /\ accepted' = accepted \cup {code}
      /\ again' = IF code \in accepted THEN again \cup {code[1]} ELSE again
      /\ tokens' = IF class[d] = "static" THEN [tokens EXCEPT ![d] = tokens[d] \ {code[2]}] ELSE tokens
      /\ request' = [request EXCEPT ![b] = Asked("save", d, r)]
      /\ row' = [e \in Devices |-> IF e \in Tried /\ e < d THEN AfterRefuse(e, row[e])
                                   ELSE IF e = d THEN r ELSE row[e]]
  BY <1>3 DEF Matched, Record, Consume
<1>5. /\ GoodRow(r) /\ r.confirmed = row[d].confirmed
      /\ \A new : code[2] \notin new => Used(d, r, new, code[2])
      /\ \A x, new : /\ Used(d, row[d], tokens[d], x) /\ new \subseteq tokens[d]
                     /\ class[d] = "totp" => x \in Int
                     => Used(d, r, new, x)
  <2>1. AcceptedRow(d, row[d], tokens[d], code, r)
    BY <1>0, <1>1, <1>2, <1>3, AcceptFields, Zenon
  <2> QED
    BY <2>1, Zenon DEF AcceptedRow
<1>6. /\ row' = [e \in Devices |-> row'[e]]
      /\ \A e \in Devices : e # d => row'[e] = AfterRefuse(e, row[e]) \/ row'[e] = row[e]
      /\ row'[d] = r
  <2>1. \A e \in Devices : row'[e] = IF e \in Tried /\ e < d THEN AfterRefuse(e, row[e])
                                     ELSE IF e = d THEN r ELSE row[e]
    BY <1>4, Zenon
  <2>2. row' = [e \in Devices |-> row'[e]]
    BY <2>1, <1>4, Zenon
  <2>3. ~ (d < d)
    BY <1>1, AuthAssumption
  <2> QED
    BY <2>1, <2>2, <2>3, <1>1, Zenon
<1>7. ASSUME NEW e \in Devices
      PROVE  /\ GoodRow(row'[e]) /\ row'[e].confirmed = row[e].confirmed
             /\ e # d => SameCodes(row[e], row'[e])
  <2>1. GoodRow(row[e])
    BY <1>0, Zenon DEF RowShape
  <2>2. SameCodes(row[e], row[e])
    BY DEF SameCodes
  <2>3. /\ GoodRow(AfterRefuse(e, row[e])) /\ SameCodes(row[e], AfterRefuse(e, row[e]))
        /\ AfterRefuse(e, row[e]).confirmed = row[e].confirmed
    BY <2>1, RefuseFields, Zenon
  <2>4. CASE e = d
    BY <2>4, <1>5, <1>6, Zenon
  <2>5. CASE e # d
    BY <2>1, <2>2, <2>3, <2>5, <1>6, Zenon
  <2> QED
    BY <2>4, <2>5, Zenon
<1>8. /\ tokens' = [e \in Devices |-> tokens'[e]]
      /\ \A e \in Devices : e # d => tokens'[e] = tokens[e]
      /\ tokens'[d] \subseteq tokens[d] /\ (class[d] = "static" => code[2] \notin tokens'[d])
  <2>1. CASE class[d] = "static"
    <3>1. PICK v : v = tokens[d] \ {code[2]}
      BY Zenon
    <3>2. tokens' = [tokens EXCEPT ![d] = v]
      BY <2>1, <3>1, <1>4, Zenon
    <3>3. /\ tokens'[d] = v /\ \A e \in Devices : e # d => tokens'[e] = tokens[e]
          /\ tokens' = [e \in Devices |-> tokens'[e]]
      BY <3>2, <1>0, <1>1, OneDevice, Zenon DEF RowShape
    <3> QED
      BY <3>1, <3>3, Zenon
  <2>2. CASE class[d] # "static"
    <3>1. tokens' = tokens
      BY <2>2, <1>4, Zenon
    <3> QED
      BY <3>1, <2>2, <1>0, Zenon DEF RowShape
  <2> QED
    BY <2>1, <2>2, Zenon
<1>9. PICK q : q = Asked("save", d, r)
  OBVIOUS
<1>10. q.at = "save" /\ q.dev = d /\ q.copy = r /\ "save" # "idle"
  <2>1. "save" # "idle"
    OBVIOUS
  <2> QED
    BY <2>1, <1>9, Zenon DEF Asked
<1>11. RequestGood(q)
  BY <1>1, <1>2, <1>5, <1>10, Zenon DEF RequestGood
<1>12. /\ request'[b] = q /\ \A a \in AuthBrowsers : a # b => request'[a] = request[a]
       /\ request' = [a \in AuthBrowsers |-> request'[a]]
  BY <1>0, <1>4, <1>9, OneHolder, Zenon DEF HolderShape
<1>13. ClockShape'
  BY <1>0, <1>4, Zenon DEF ClockShape
<1>14. RowShape'
  <2>1. \A e \in Devices : GoodRow(row'[e]) /\ (row'[e].confirmed => e \in spent')
    BY <1>0, <1>4, <1>7, Zenon DEF RowShape
  <2> QED
    BY <2>1, <1>6, <1>8, Zenon DEF RowShape
<1>15. HolderShape'
  <2>1. \A a \in AuthBrowsers : RequestGood(request'[a]) /\ SetupGood(setup[a])
    BY <1>0, <1>11, <1>12, Zenon DEF HolderShape
  <2> QED
    BY <2>1, <1>0, <1>4, <1>12, Zenon DEF HolderShape, RequestGood, SetupGood
<1>16. ASSUME NEW c \in accepted' PROVE CodeGood(c)'
  <2>1. CASE c \in accepted
    <3>1. CodeGood(c)
      BY <2>1, Zenon DEF OnceInv
    <3> QED
      BY <3>1, <1>4, Zenon DEF CodeGood
  <2>2. CASE c = code
    <3>1. /\ class[d] = "totp" => code[2] \in Int
          /\ class[d] = "side" => code[2] = mail.code
      BY <1>0, <1>1, <1>2, EnterableFacts, Zenon
    <3>2. mail.code \in Int /\ mail.code <= mail.code
      BY <1>0 DEF ClockShape
    <3> QED
      BY <2>2, <3>1, <3>2, <1>1, <1>2, <1>4, Zenon DEF CodeGood
  <2> QED
    BY <2>1, <2>2, <1>4, Zenon
<1>17. ASSUME NEW e \in AuthBrowsers PROVE Untouched(e)'
  <2>1. Untouched(e) /\ setup[e].dev \in Devices \cup {0}
    BY <1>0, Zenon DEF OnceInv, HolderShape, SetupGood
  <2>2. ASSUME setup[e].dev # 0
        PROVE  /\ \A c \in accepted' : c[1] # setup[e].dev
               /\ ~ row'[setup[e].dev].confirmed
               /\ \A a \in AuthBrowsers : request'[a].dev # setup[e].dev
    <3>1. /\ \A c \in accepted : c[1] # setup[e].dev
          /\ ~ row[setup[e].dev].confirmed
          /\ \A a \in AuthBrowsers : request[a].dev # setup[e].dev
      BY <2>1, <2>2, Zenon DEF Untouched
    <3>2. setup[e].dev # d
      BY <3>1, <1>1, Zenon
    <3>3. ~ row'[setup[e].dev].confirmed
      BY <3>1, <2>1, <2>2, <1>7, Zenon
    <3>4. \A c \in accepted' : c[1] # setup[e].dev
      BY <3>1, <3>2, <1>2, <1>4, Zenon
    <3>5. \A a \in AuthBrowsers : request'[a].dev # setup[e].dev
      BY <3>1, <3>2, <1>10, <1>12, Zenon
    <3> QED
      BY <3>3, <3>4, <3>5, Zenon
  <2> QED
    BY <2>1, <2>2, <1>4, Zenon DEF Untouched
<1>18. ASSUME NEW e \in Devices \ raced' PROVE Once(e)'
  <2>1. Once(e) /\ GoodRow(row[e])
    BY <1>0, <1>4, Zenon DEF OnceInv, RowShape
  <2>2. CASE e = d
    <3>1. ASSUME NEW c \in accepted', c[1] = d PROVE Used(d, r, tokens'[d], c[2])
      <4>1. CASE c = code
        <5>1. CASE class[d] = "static"
          BY <4>1, <5>1, <1>5, <1>8, Zenon
        <5>2. CASE class[d] # "static"
          <6>1. Used(d, r, {}, code[2])
            <7>1. code[2] \notin {}
              OBVIOUS
            <7> QED
              BY <7>1, <1>5, Zenon
          <6> QED
            BY <6>1, <4>1, <5>2, Zenon DEF Used
        <5> QED
          BY <5>1, <5>2, Zenon
      <4>2. CASE c \in accepted
        <5>1. Used(d, row[d], tokens[d], c[2]) /\ CodeGood(c)
          BY <4>2, <3>1, <2>1, <2>2, <1>1, Zenon DEF Once, OnceInv
        <5>2. class[d] = "totp" => c[2] \in Int
          BY <5>1, <3>1, Zenon DEF CodeGood
        <5> QED
          BY <5>1, <5>2, <1>5, <1>8, Zenon
      <4> QED
        BY <4>1, <4>2, <1>4, Zenon
    <3>2. now' = now /\ class' = class /\ row'[d] = r
      BY <1>4, <1>6, Zenon
    <3>3. ASSUME NEW c \in accepted', c[1] = d PROVE Used(d, row[d], tokens[d], c[2])'
      <4>1. Used(d, r, tokens'[d], c[2])
        BY <3>1, <3>3, Zenon
      <4> QED
        BY <4>1, <3>2, Zenon DEF Used
    <3> QED
      BY <3>3, <2>2, Zenon DEF Once
  <2>3. CASE e # d
    <3>1. ASSUME row'[e].confirmed, NEW c \in accepted', c[1] = e
          PROVE  Used(e, row[e], tokens[e], c[2])'
      <4>1. c \in accepted /\ row[e].confirmed
        BY <3>1, <2>3, <1>2, <1>4, <1>7, Zenon
      <4>2. Used(e, row[e], tokens[e], c[2])
        BY <4>1, <3>1, <2>1, Zenon DEF Once
      <4>3. SameCodes(row[e], row'[e]) /\ tokens'[e] = tokens[e]
        BY <2>3, <1>7, <1>8, Zenon
      <4> QED
        BY <4>2, <4>3, <1>4, Zenon DEF Used, SameCodes
    <3> QED
      BY <3>1, Zenon DEF Once
  <2> QED
    BY <2>2, <2>3, Zenon
<1>19. again' \subseteq raced'
  <2>1. ASSUME code \in accepted, d \notin raced PROVE FALSE
    <3>1. Once(d)
      BY <2>1, <1>1, Zenon DEF OnceInv
    <3>2. Used(d, row[d], tokens[d], code[2])
      BY <3>1, <2>1, <1>1, <1>2, Zenon DEF Once
    <3> QED
      BY <3>2, <1>0, <1>1, <1>2, UsedRefused, Zenon
  <2>2. again \subseteq raced
    BY Zenon DEF OnceInv
  <2> QED
    BY <2>1, <2>2, <1>2, <1>4, Zenon
<1> QED
  BY <1>13, <1>14, <1>15, <1>16, <1>17, <1>18, <1>19, Zenon DEF OnceInv

\* validate_code
LEMMA ValidateOnce == ASSUME OnceInv, NEW b \in AuthBrowsers, ValidateCode(b) PROVE OnceInv'
<1>1. UNCHANGED <<now, class, skew, spent, setup, mail, raced>>
  BY DEF ValidateCode
<1>2. PICK code \in Enterable : NotMatched(code) \/ \E d \in Accepting(code) : Matched(b, code, d)
  BY Zenon DEF ValidateCode
<1> QED
  BY <1>1, <1>2, NotMatchedOnce, MatchedOnce, Zenon

\* Nothing has been accepted at first.
LEMMA OnceInit == AuthInit => OnceInv
<1> SUFFICES ASSUME AuthInit PROVE OnceInv
  OBVIOUS
<1>1. PICK owned \in SUBSET Devices :
        /\ row = [d \in Devices |-> IF d \in owned THEN Confirmed(NewRow) ELSE NoRow]
        /\ tokens = [d \in Devices |-> IF d \in owned /\ class[d] = "static" THEN StaticTokens ELSE {}]
        /\ spent = owned
  BY Zenon DEF AuthInit
<1>2. /\ now = 0 /\ class \in Classes /\ skew \in -1 .. 1
      /\ request = [b \in AuthBrowsers |-> NoRequest] /\ setup = [b \in AuthBrowsers |-> NoSetup]
      /\ mail = [dev |-> 0, code |-> 0, until |-> 0]
      /\ accepted = {} /\ again = {} /\ raced = {}
  BY DEF AuthInit
<1>3. ClockShape
  BY <1>2, AuthAssumption DEF ClockShape
<1>4. GoodRow(NoRow) /\ ~ NoRow.confirmed /\ GoodRow(NewRow)
  BY NewFields, Zenon
<1>5. PICK c : c = Confirmed(NewRow)
  OBVIOUS
<1>6. GoodRow(c)
  BY <1>4, <1>5, ConfirmFields, Zenon
<1>7. RowShape
  <2>1. \A d \in Devices : row[d] = IF d \in owned THEN c ELSE NoRow
    BY <1>1, <1>5, Zenon
  <2>2. \A d \in Devices : GoodRow(row[d]) /\ (row[d].confirmed => d \in spent)
    BY <2>1, <1>1, <1>4, <1>6, Zenon
  <2>3. row = [d \in Devices |-> row[d]]
    BY <1>1, Zenon
  <2>4. tokens = [d \in Devices |-> tokens[d]]
    BY <1>1, Zenon
  <2> QED
    BY <2>2, <2>3, <2>4, Zenon DEF RowShape
<1>8. HolderShape
  BY <1>2, IdleHolders, Zenon DEF HolderShape
<1>9. \A b \in AuthBrowsers : Untouched(b)
  BY <1>2, IdleHolders, Zenon DEF Untouched
<1>10. \A d \in Devices : Once(d)
  BY <1>2, Zenon DEF Once
<1> QED
  BY <1>2, <1>3, <1>7, <1>8, <1>9, <1>10, Zenon DEF OnceInv

\* A code is accepted once (OnceEach), whichever requests, setups and deletions overlap.
THEOREM OnceTheorem == AuthSpec => []OnceEach
<1>1. AuthInit => OnceInv
  BY OnceInit
<1>2. OnceInv /\ [AuthNext]_authVars => OnceInv'
  <2> SUFFICES ASSUME OnceInv, [AuthNext]_authVars PROVE OnceInv'
    OBVIOUS
  <2>1. CASE UNCHANGED authVars
    <3>1. /\ now' = now /\ class' = class /\ skew' = skew /\ row' = row /\ tokens' = tokens
          /\ spent' = spent /\ request' = request /\ setup' = setup /\ mail' = mail
          /\ accepted' = accepted /\ again' = again /\ raced' = raced
      BY <2>1 DEF authVars
    <3> QED
      BY <3>1, Zenon DEF OnceInv, ClockShape, RowShape, HolderShape, RequestGood, SetupGood,
                         CodeGood, Untouched, Once, Used
  <2>2. ASSUME NEW b \in AuthBrowsers,
               \/ ValidateCode(b) \/ SaveLastUsed(b) \/ SelectChallenge(b) \/ GenerateToken(b)
               \/ BeginSetup(b) \/ FinishStatic(b) \/ VerifySetup(b)
        PROVE  OnceInv'
    BY <2>2, ValidateOnce, LastUsedOnce, SelectOnce, GenerateOnce, BeginSetupOnce, FinishOnce,
       VerifyOnce, Zenon
  <2> QED
    BY <2>1, <2>2, DeleteOnce, TickOnce, Zenon DEF AuthNext
<1>3. OnceInv => OnceEach
  BY Zenon DEF OnceInv, OnceEach
<1> QED
  BY <1>1, <1>2, <1>3, PTL DEF AuthSpec
=============================================================================
