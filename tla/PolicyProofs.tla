---------------------------- MODULE PolicyProofs ----------------------------
(***************************************************************************)
(* Proofs about the policy engine (PolicyEngine), for any bindings, policies, *)
(* requests and edits, and about blueprints (Blueprints), for any files,   *)
(* workers and needs.                                                      *)
(***************************************************************************)
EXTENDS PolicyEngine, Blueprints, TLAPS

\* A value some state of the binding and some state of its policy give for the user.
Explained(b, u, v) == \E x, y \in were : v = Result(x.attr[b], y.matches[b][u])

\* An engine has its fields.
IsEngine(e) ==
    e = [pc |-> e.pc, use_cache |-> e.use_cache, static |-> e.static, todo |-> e.todo,
         rows |-> e.rows, child |-> e.child, results |-> e.results, fresh |-> e.fresh,
         answer |-> e.answer]

\* Where the bindings that were read are: to do, in a process, or answered.
Placed(e) ==
    /\ IF e.pc \in {"start", "load"}
         THEN e.todo = {} /\ DOMAIN e.child = {} /\ DOMAIN e.results = {} /\ DOMAIN e.rows = {}
         ELSE DOMAIN e.rows = e.todo \cup DOMAIN e.child \cup DOMAIN e.results
    /\ \A b \in DOMAIN e.child : e.child[b] # "run" => b \in DOMAIN e.results
    /\ e.pc = "done" => e.todo = {} /\ \A b \in DOMAIN e.child : e.child[b] # "run"

\* Rows are those of some time, and results are explained.
Sound(e, u) ==
    /\ \A b \in DOMAIN e.rows : \E x \in were : e.rows[b] = x.attr[b] /\ x.attr[b].policy
    /\ \A b \in DOMAIN e.results : Explained(b, u, e.results[b])

Engine(e, u) == IsEngine(e) /\ Placed(e) /\ Sound(e, u)

AnswerInv ==
    /\ [attr |-> attr, matches |-> matches] \in were
    /\ eng = [r \in Requests |-> eng[r]]
    /\ \A r \in Requests : Engine(eng[r], Of[r].user)
    /\ \A c \in cached : Explained(c.binding, c.user, c.passing)

\* What was explained stays so, as the history grows.
LEMMA StaysSound ==
    ASSUME NEW e, NEW u, Sound(e, u), were \subseteq were'
    PROVE  Sound(e, u)' 
BY Zenon DEF Sound, Explained

\* The invariant explains every answer.
LEMMA AnswerDone == AnswerInv => AnswerExplained
<1> SUFFICES ASSUME AnswerInv, NEW r \in Requests, eng[r].pc = "done"
             PROVE  /\ DOMAIN eng[r].results = DOMAIN eng[r].rows
                    /\ \A b \in DOMAIN eng[r].results : \E x, y \in were :
                         eng[r].results[b] = Result(x.attr[b], y.matches[b][Of[r].user])
  BY Zenon DEF AnswerExplained, At
<1>1. Placed(eng[r]) /\ Sound(eng[r], Of[r].user)
  BY Zenon DEF AnswerInv, Engine
<1>2. \A b \in DOMAIN eng[r].child : b \in DOMAIN eng[r].results
  BY <1>1, Zenon DEF Placed
<1>3. DOMAIN eng[r].rows = eng[r].todo \cup DOMAIN eng[r].child \cup DOMAIN eng[r].results
  BY <1>1 DEF Placed
<1>4. eng[r].todo = {}
  BY <1>1 DEF Placed
<1>5. DOMAIN eng[r].results = DOMAIN eng[r].rows
  BY <1>2, <1>3, <1>4, Zenon
<1> QED
  BY <1>1, <1>5, Zenon DEF Sound, Explained

\* A step of one engine.
LEMMA EngineStep ==
    ASSUME AnswerInv, Unedited, NEW r \in Requests, NEW e, Engine(e, Of[r].user), Set(r, e),
           \A c \in cached' : Explained(c.binding, c.user, c.passing)
    PROVE  AnswerInv'
<1>1. attr' = attr /\ matches' = matches /\ were' = were
  BY DEF Unedited
<1>2. eng' = [q \in Requests |-> IF q = r THEN e ELSE eng[q]]
  BY Zenon DEF Set, AnswerInv
<1>3. eng' = [q \in Requests |-> eng'[q]] /\ \A q \in Requests : eng'[q] = IF q = r THEN e ELSE eng[q]
  BY <1>2
<1>4. \A q \in Requests : Engine(eng'[q], Of[q].user)
  BY <1>3, Zenon DEF AnswerInv
<1>5. [attr |-> attr', matches |-> matches'] \in were'
  BY <1>1 DEF AnswerInv
<1>6. ASSUME NEW q \in Requests PROVE Engine(eng[q], Of[q].user)'
  <2>1. IsEngine(eng'[q]) /\ Placed(eng'[q]) /\ Sound(eng'[q], Of[q].user)
    BY <1>4, Zenon DEF Engine
  <2>2. IsEngine(eng[q])'
    BY <2>1, Zenon DEF IsEngine
  <2>3. Placed(eng[q])'
    BY <2>1, Zenon DEF Placed
  <2>4. Sound(eng[q], Of[q].user)'
    BY <1>1, <2>1, Zenon DEF Sound, Explained
  <2> QED
    BY <2>2, <2>3, <2>4, Zenon DEF Engine
<1>7. (\A c \in cached : Explained(c.binding, c.user, c.passing))'
  BY <1>1, Zenon DEF Explained
<1> QED
  BY <1>3, <1>5, <1>6, <1>7, Zenon DEF AnswerInv

\* Assigning to the fields of an engine, one at a time.
LEMMA OtherSet ==
    ASSUME NEW e, IsEngine(e), NEW v, NEW q,
           \/ q = [e EXCEPT !.use_cache = v] \/ q = [e EXCEPT !.static = v]
           \/ q = [e EXCEPT !.fresh = v] \/ q = [e EXCEPT !.answer = v]
    PROVE  /\ IsEngine(q) /\ q.pc = e.pc /\ q.todo = e.todo /\ q.rows = e.rows
           /\ q.child = e.child /\ q.results = e.results
BY DEF IsEngine

\* Assigning to pc.
LEMMA PcSet ==
    ASSUME NEW e, IsEngine(e), NEW v, NEW q, q = [e EXCEPT !.pc = v]
    PROVE  IsEngine(q) /\ q.pc = v /\ q.todo = e.todo /\ q.rows = e.rows /\ q.child = e.child /\ q.results = e.results
BY DEF IsEngine

\* Assigning to todo.
LEMMA TodoSet ==
    ASSUME NEW e, IsEngine(e), NEW v, NEW q, q = [e EXCEPT !.todo = v]
    PROVE  IsEngine(q) /\ q.todo = v /\ q.pc = e.pc /\ q.rows = e.rows /\ q.child = e.child /\ q.results = e.results
BY DEF IsEngine

\* Assigning to rows.
LEMMA RowsSet ==
    ASSUME NEW e, IsEngine(e), NEW v, NEW q, q = [e EXCEPT !.rows = v]
    PROVE  IsEngine(q) /\ q.rows = v /\ q.pc = e.pc /\ q.todo = e.todo /\ q.child = e.child /\ q.results = e.results
BY DEF IsEngine

\* Assigning to child.
LEMMA ChildSet ==
    ASSUME NEW e, IsEngine(e), NEW v, NEW q, q = [e EXCEPT !.child = v]
    PROVE  IsEngine(q) /\ q.child = v /\ q.pc = e.pc /\ q.todo = e.todo /\ q.rows = e.rows /\ q.results = e.results
BY DEF IsEngine

\* Assigning to results.
LEMMA ResultsSet ==
    ASSUME NEW e, IsEngine(e), NEW v, NEW q, q = [e EXCEPT !.results = v]
    PROVE  IsEngine(q) /\ q.results = v /\ q.pc = e.pc /\ q.todo = e.todo /\ q.rows = e.rows /\ q.child = e.child
BY DEF IsEngine

\* Put adds the key.
LEMMA PutFacts ==
    ASSUME NEW f, NEW b, NEW v
    PROVE  /\ DOMAIN Put(f, b, v) = DOMAIN f \cup {b} /\ Put(f, b, v)[b] = v
           /\ \A x \in DOMAIN f : x # b => Put(f, b, v)[x] = f[x]
BY DEF Put

\* Putting an explained result among the results.
LEMMA PutResult ==
    ASSUME NEW e, NEW u, Sound(e, u), NEW b, NEW v, Explained(b, u, v), NEW q,
           q.rows = e.rows, q.results = Put(e.results, b, v)
    PROVE  Sound(q, u)
<1>1. \A x \in DOMAIN q.results : Explained(x, u, q.results[x])
  <2> SUFFICES ASSUME NEW x \in DOMAIN q.results PROVE Explained(x, u, q.results[x])
    OBVIOUS
  <2>0. /\ DOMAIN q.results = DOMAIN e.results \cup {b} /\ q.results[b] = v
        /\ \A y \in DOMAIN e.results : y # b => q.results[y] = e.results[y]
    BY DEF Put
  <2>1. CASE x = b
    BY <2>0, <2>1, Zenon
  <2>2. CASE x # b
    <3>1. x \in DOMAIN e.results /\ q.results[x] = e.results[x]
      BY <2>0, <2>2, Zenon
    <3> QED
      BY <3>1, Zenon DEF Sound
  <2> QED
    BY <2>1, <2>2
<1> QED
  BY <1>1, Zenon DEF Sound

\* compute_static_bindings changes nothing the invariant speaks of.
LEMMA StaticEngine == ASSUME AnswerInv, NEW r \in Requests, ComputeStatic(r) PROVE AnswerInv'
<1> DEFINE static == Static(Enabled)
           s == IF static = {} THEN {}
                ELSE {\E b \in static : StaticPasses(attr[b], matches[b][Of[r].user])}
<1>1. PICK use \in BOOLEAN :
        Set(r, [eng[r] EXCEPT !.pc = "load", !.use_cache = use, !.static = s])
  BY Zenon DEF ComputeStatic
<1> DEFINE q == [eng[r] EXCEPT !.pc = "load", !.use_cache = use, !.static = s]
<1>2. Engine(eng[r], Of[r].user) /\ eng[r].pc = "start"
  BY Zenon DEF AnswerInv, ComputeStatic, At
<1>3. /\ IsEngine(q) /\ q.pc = "load" /\ q.todo = eng[r].todo /\ q.rows = eng[r].rows
      /\ q.child = eng[r].child /\ q.results = eng[r].results
  <2> DEFINE r1 == [eng[r] EXCEPT !.pc = "load"]
             r2 == [r1 EXCEPT !.use_cache = use]
             r3 == [r2 EXCEPT !.static = s]
  <2>1. IsEngine(eng[r])
    BY <1>2, Zenon DEF Engine
  <2>2. q = r3
    BY Zenon
  <2> HIDE DEF q, s
  <2>3. /\ IsEngine(r1) /\ r1.pc = "load" /\ r1.todo = eng[r].todo /\ r1.rows = eng[r].rows
        /\ r1.child = eng[r].child /\ r1.results = eng[r].results
    BY ONLY <2>1, PcSet, SMT
  <2> HIDE DEF r1
  <2>4. /\ IsEngine(r2) /\ r2.pc = r1.pc /\ r2.todo = r1.todo /\ r2.rows = r1.rows
        /\ r2.child = r1.child /\ r2.results = r1.results
    BY ONLY <2>3, OtherSet, SMT
  <2> HIDE DEF r2
  <2>5. /\ IsEngine(r3) /\ r3.pc = r2.pc /\ r3.todo = r2.todo /\ r3.rows = r2.rows
        /\ r3.child = r2.child /\ r3.results = r2.results
    BY ONLY <2>4, OtherSet, SMT
  <2> HIDE DEF r3
  <2> QED
    BY <2>2, <2>3, <2>4, <2>5, Zenon
<1>4. Set(r, q)
  BY <1>1
<1> HIDE DEF q
<1>5. eng[r].todo = {} /\ DOMAIN eng[r].child = {} /\ DOMAIN eng[r].results = {} /\ DOMAIN eng[r].rows = {}
  BY <1>2 DEF Engine, Placed
<1>6. q.todo = {} /\ DOMAIN q.child = {} /\ DOMAIN q.results = {} /\ DOMAIN q.rows = {}
  BY <1>3, <1>5, Zenon
<1>7. Placed(q)
  BY <1>3, <1>6 DEF Placed
<1>8. Sound(q, Of[r].user)
  BY <1>6, Zenon DEF Sound
<1>9. Unedited /\ cached' = cached
  BY DEF ComputeStatic
<1> QED
  BY <1>3, <1>4, <1>7, <1>8, <1>9, EngineStep, Zenon DEF Engine, AnswerInv

\* The bindings are read: their rows are those of now.
LEMMA LoadEngine == ASSUME AnswerInv, NEW r \in Requests, LoadBindings(r) PROVE AnswerInv'
<1> DEFINE bs == {b \in Enabled : IsPolicy(b)}
           f == [b \in bs |-> attr[b]]
           q == [eng[r] EXCEPT !.pc = "next", !.todo = bs, !.rows = f]
<1>1. Set(r, q) /\ Unedited /\ cached' = cached
  BY Zenon DEF LoadBindings
<1>2. Engine(eng[r], Of[r].user) /\ eng[r].pc = "load"
  BY Zenon DEF AnswerInv, LoadBindings, At
<1>3. DOMAIN f = bs /\ \A b \in bs : f[b] = attr[b]
  OBVIOUS
<1>4. \A b \in bs : attr[b].policy
  BY DEF IsPolicy
<1> HIDE DEF bs, f
<1>5. /\ IsEngine(q) /\ q.pc = "next" /\ q.todo = bs /\ q.rows = f
      /\ q.child = eng[r].child /\ q.results = eng[r].results
  <2> DEFINE r1 == [eng[r] EXCEPT !.pc = "next"]
             r2 == [r1 EXCEPT !.todo = bs]
             r3 == [r2 EXCEPT !.rows = f]
  <2>1. IsEngine(eng[r])
    BY <1>2, Zenon DEF Engine
  <2>2. q = r3
    BY Zenon
  <2> HIDE DEF q
  <2>3. /\ IsEngine(r1) /\ r1.pc = "next" /\ r1.child = eng[r].child /\ r1.results = eng[r].results
    BY ONLY <2>1, PcSet, SMT
  <2> HIDE DEF r1
  <2>4. /\ IsEngine(r2) /\ r2.pc = r1.pc /\ r2.todo = bs
        /\ r2.child = r1.child /\ r2.results = r1.results
    BY ONLY <2>3, TodoSet, SMT
  <2> HIDE DEF r2
  <2>5. /\ IsEngine(r3) /\ r3.pc = r2.pc /\ r3.todo = r2.todo /\ r3.rows = f
        /\ r3.child = r2.child /\ r3.results = r2.results
    BY ONLY <2>4, RowsSet, SMT
  <2> HIDE DEF r3
  <2> QED
    BY <2>2, <2>3, <2>4, <2>5, Zenon
<1> HIDE DEF q
<1>6. DOMAIN eng[r].child = {} /\ DOMAIN eng[r].results = {}
  BY <1>2 DEF Engine, Placed
<1>7. DOMAIN q.child = {} /\ DOMAIN q.results = {} /\ DOMAIN q.rows = bs
  BY <1>3, <1>5, <1>6, Zenon
<1>8. Placed(q)
  <2>1. DOMAIN q.rows = q.todo \cup DOMAIN q.child \cup DOMAIN q.results
    BY <1>5, <1>7, Zenon
  <2> QED
    BY <1>5, <1>7, <2>1 DEF Placed
<1>9. Sound(q, Of[r].user)
  <2> DEFINE x == [attr |-> attr, matches |-> matches]
  <2>1. x \in were /\ x.attr = attr
    BY DEF AnswerInv
  <2> HIDE DEF x
  <2>2. \A b \in DOMAIN q.rows : q.rows[b] = x.attr[b] /\ x.attr[b].policy
    BY <1>3, <1>4, <1>5, <2>1, Zenon
  <2>3. DOMAIN q.results = {}
    BY <1>7, SMTT(60)
  <2> QED
    BY <2>1, <2>2, <2>3, Zenon DEF Sound
<1> QED
  BY <1>1, <1>5, <1>8, <1>9, EngineStep, Zenon DEF Engine, AnswerInv

\* One binding after the other: from the cache, or a PolicyProcess.
LEMMA NextEngine == ASSUME AnswerInv, NEW r \in Requests, NextBinding(r) PROVE AnswerInv'
<1>1. Unedited /\ cached' = cached /\ eng[r].pc = "next"
  BY ZenonT(60) DEF NextBinding, At
<1>2. PICK b \in eng[r].todo :
        \/ \E c \in Hits(r, b) : Set(r, [eng[r] EXCEPT !.todo = @ \ {b}, !.results = Put(@, b, c.passing)])
        \/ Set(r, [eng[r] EXCEPT !.todo = @ \ {b}, !.child = Put(@, b, "run")])
  BY Zenon DEF NextBinding
<1>3. IsEngine(eng[r]) /\ Placed(eng[r]) /\ Sound(eng[r], Of[r].user)
  BY Zenon DEF AnswerInv, Engine
<1>4. DOMAIN eng[r].rows = eng[r].todo \cup DOMAIN eng[r].child \cup DOMAIN eng[r].results
  BY <1>1, <1>3 DEF Placed
<1> DEFINE t == eng[r].todo \ {b}
           r1 == [eng[r] EXCEPT !.todo = t]
<1>5. /\ IsEngine(r1) /\ r1.todo = t /\ r1.pc = eng[r].pc /\ r1.rows = eng[r].rows
      /\ r1.child = eng[r].child /\ r1.results = eng[r].results
  BY ONLY <1>3, TodoSet, SMT
<1>6. CASE \E c \in Hits(r, b) : Set(r, [eng[r] EXCEPT !.todo = @ \ {b}, !.results = Put(@, b, c.passing)])
  <2>1. PICK c \in Hits(r, b) : Set(r, [eng[r] EXCEPT !.todo = @ \ {b}, !.results = Put(@, b, c.passing)])
    BY <1>6, ZenonT(60)
  <2> DEFINE f == Put(eng[r].results, b, c.passing)
             q == [r1 EXCEPT !.results = f]
  <2>2. Set(r, q)
    BY <2>1
  <2>3. c \in cached /\ c.binding = b /\ c.user = Of[r].user
    BY DEF Hits, Key
  <2>4. Explained(b, Of[r].user, c.passing)
    BY <2>3, Zenon DEF AnswerInv
  <2>5. DOMAIN f = DOMAIN eng[r].results \cup {b}
    BY DEF Put
  <2> HIDE DEF r1, f
  <2>6. /\ IsEngine(q) /\ q.results = f /\ q.pc = r1.pc /\ q.todo = r1.todo
        /\ q.rows = r1.rows /\ q.child = r1.child
    BY ONLY <1>5, ResultsSet, SMT
  <2> HIDE DEF q
  <2>7. DOMAIN q.rows = q.todo \cup DOMAIN q.child \cup DOMAIN q.results
    BY <1>4, <1>5, <2>5, <2>6, Zenon
  <2>8. Placed(q)
    <3>1. q.pc = "next"
      BY <1>1, <1>5, <2>6
    <3>2. \A x \in DOMAIN q.child : q.child[x] # "run" => x \in DOMAIN q.results
      BY <1>3, <1>5, <2>5, <2>6, Zenon DEF Placed
    <3> QED
      BY <2>7, <3>1, <3>2 DEF Placed
  <2>9. Sound(q, Of[r].user)
    <3>1. q.rows = eng[r].rows /\ q.results = Put(eng[r].results, b, c.passing)
      BY <1>5, <2>6 DEF f
    <3> QED
      BY <1>3, <2>4, <3>1, PutResult
  <2> QED
    BY <1>1, <2>2, <2>6, <2>8, <2>9, EngineStep, ZenonT(60) DEF Engine, AnswerInv
<1>7. CASE Set(r, [eng[r] EXCEPT !.todo = @ \ {b}, !.child = Put(@, b, "run")])
  <2> DEFINE f == Put(eng[r].child, b, "run")
             q == [r1 EXCEPT !.child = f]
  <2>2. Set(r, q)
    BY <1>7
  <2>5. /\ DOMAIN f = DOMAIN eng[r].child \cup {b} /\ f[b] = "run"
        /\ \A x \in DOMAIN eng[r].child : x # b => f[x] = eng[r].child[x]
    BY DEF Put
  <2> HIDE DEF r1, f
  <2>6. /\ IsEngine(q) /\ q.child = f /\ q.pc = r1.pc /\ q.todo = r1.todo
        /\ q.rows = r1.rows /\ q.results = r1.results
    BY ONLY <1>5, ChildSet, SMT
  <2> HIDE DEF q
  <2>7. DOMAIN q.rows = q.todo \cup DOMAIN q.child \cup DOMAIN q.results
    BY <1>4, <1>5, <2>5, <2>6, ZenonT(60)
  <2>8. Placed(q)
    <3>1. q.pc = "next"
      BY <1>1, <1>5, <2>6
    <3>2. \A x \in DOMAIN q.child : q.child[x] # "run" => x \in DOMAIN q.results
      BY <1>3, <1>5, <2>5, <2>6, Zenon DEF Placed
    <3> QED
      BY <2>7, <3>1, <3>2 DEF Placed
  <2>9. Sound(q, Of[r].user)
    BY <1>3, <1>5, <2>6, ZenonT(60) DEF Sound
  <2> QED
    BY <1>1, <2>2, <2>6, <2>8, <2>9, EngineStep, Zenon DEF Engine, AnswerInv
<1> QED
  BY <1>2, <1>6, <1>7, ZenonT(60)

\* A process has a binding that was read, in an engine that is not through.
LEMMA ChildRead ==
    ASSUME NEW e, Placed(e), NEW b \in DOMAIN e.child
    PROVE  /\ e.pc \notin {"start", "load"} /\ b \in DOMAIN e.rows
           /\ DOMAIN e.rows = e.todo \cup DOMAIN e.child \cup DOMAIN e.results
           /\ e.child[b] = "run" => e.pc # "done"
           /\ e.child[b] # "run" => b \in DOMAIN e.results
<1>1. e.pc \notin {"start", "load"}
  BY Zenon DEF Placed
<1>2. DOMAIN e.rows = e.todo \cup DOMAIN e.child \cup DOMAIN e.results
  BY <1>1 DEF Placed
<1> QED
  BY <1>1, <1>2, Zenon DEF Placed

\* PolicyProcess evaluates: the row was one of the binding, and the policy says it of this user.
LEMMA PassesEngine ==
    ASSUME AnswerInv, NEW r \in Requests, NEW b \in Bindings, Passes(r, b) PROVE AnswerInv'
<1> DEFINE what == matches[b][Of[r].user]
           v == Execute(eng[r].rows[b], what)
           c == IF what = "error" \/ Of[r].debug THEN "sent" ELSE "cache"
           f == Put(eng[r].child, b, c)
           g == Put(eng[r].results, b, v)
           r1 == [eng[r] EXCEPT !.child = f]
           q == [r1 EXCEPT !.results = g]
<1>1. Unedited /\ cached' = cached /\ b \in DOMAIN eng[r].child /\ eng[r].child[b] = "run"
  BY DEF Passes
<1>2. Set(r, q)
  BY DEF Passes
<1>3. IsEngine(eng[r]) /\ Placed(eng[r]) /\ Sound(eng[r], Of[r].user)
  BY Zenon DEF AnswerInv, Engine
<1>4. /\ eng[r].pc \notin {"start", "load", "done"} /\ b \in DOMAIN eng[r].rows
      /\ DOMAIN eng[r].rows = eng[r].todo \cup DOMAIN eng[r].child \cup DOMAIN eng[r].results
  BY <1>1, <1>3, ChildRead
<1>5. Explained(b, Of[r].user, v)
  <2> DEFINE y == [attr |-> attr, matches |-> matches]
  <2>1. PICK x \in were : eng[r].rows[b] = x.attr[b] /\ x.attr[b].policy
    BY <1>3, <1>4, Zenon DEF Sound
  <2>2. y \in were /\ y.matches = matches
    BY DEF AnswerInv
  <2> HIDE DEF y
  <2>3. v = Result(x.attr[b], y.matches[b][Of[r].user])
    BY <2>1, <2>2, Zenon DEF Result
  <2> QED
    BY <2>2, <2>3, Zenon DEF Explained
<1>6. /\ DOMAIN f = DOMAIN eng[r].child \cup {b}
      /\ \A x \in DOMAIN eng[r].child : x # b => f[x] = eng[r].child[x]
  BY DEF Put
<1>7. DOMAIN g = DOMAIN eng[r].results \cup {b}
  BY DEF Put
<1> HIDE DEF f
<1>8. /\ IsEngine(r1) /\ r1.child = f /\ r1.pc = eng[r].pc /\ r1.todo = eng[r].todo
      /\ r1.rows = eng[r].rows /\ r1.results = eng[r].results
  BY ONLY <1>3, ChildSet, SMT
<1> HIDE DEF r1, v
<1>9. g = Put(eng[r].results, b, v)
  OBVIOUS
<1> HIDE DEF g
<1>10. /\ IsEngine(q) /\ q.results = g /\ q.pc = r1.pc /\ q.todo = r1.todo
       /\ q.rows = r1.rows /\ q.child = r1.child
  BY ONLY <1>8, ResultsSet, SMT
<1> HIDE DEF q
<1>11. DOMAIN q.rows = q.todo \cup DOMAIN q.child \cup DOMAIN q.results
  BY <1>1, <1>4, <1>6, <1>7, <1>8, <1>10, ZenonT(60)
<1>12. Placed(q)
  <2>1. q.pc \notin {"start", "load", "done"}
    BY <1>4, <1>8, <1>10, Zenon
  <2>2. \A x \in DOMAIN q.child : q.child[x] # "run" => x \in DOMAIN q.results
    BY <1>3, <1>6, <1>7, <1>8, <1>10, Zenon DEF Placed
  <2> QED
    BY <1>11, <2>1, <2>2, Zenon DEF Placed
<1>13. Sound(q, Of[r].user)
  <2>1. q.rows = eng[r].rows /\ q.results = Put(eng[r].results, b, v)
    BY <1>8, <1>9, <1>10, Zenon
  <2> QED
    BY <1>3, <1>5, <2>1, PutResult
<1> QED
  BY <1>1, <1>2, <1>10, <1>12, <1>13, EngineStep, Zenon DEF Engine, AnswerInv

\* The result goes to the cache under the user and the binding it is for.
LEMMA StoreEngine ==
    ASSUME AnswerInv, NEW r \in Requests, NEW b \in Bindings, Store(r, b) PROVE AnswerInv'
<1> DEFINE f == Put(eng[r].child, b, "sent")
           q == [eng[r] EXCEPT !.child = f]
           n == [binding |-> b, session |-> Of[r].session, user |-> Of[r].user,
                 passing |-> eng[r].results[b]]
<1>1. /\ Unedited /\ b \in DOMAIN eng[r].child /\ eng[r].child[b] # "run"
      /\ cached' = (cached \ Hits(r, b)) \cup {n}
  BY DEF Store
<1>2. Set(r, q)
  BY DEF Store
<1>3. IsEngine(eng[r]) /\ Placed(eng[r]) /\ Sound(eng[r], Of[r].user)
  BY Zenon DEF AnswerInv, Engine
<1>4. /\ eng[r].pc \notin {"start", "load"} /\ b \in DOMAIN eng[r].results
      /\ DOMAIN eng[r].rows = eng[r].todo \cup DOMAIN eng[r].child \cup DOMAIN eng[r].results
  BY <1>1, <1>3, ChildRead
<1>5. n.binding = b /\ n.user = Of[r].user /\ n.passing = eng[r].results[b]
  OBVIOUS
<1> HIDE DEF n
<1>6. \A c \in cached' : Explained(c.binding, c.user, c.passing)
  <2>1. Explained(n.binding, n.user, n.passing)
    BY <1>3, <1>4, <1>5, Zenon DEF Sound
  <2> QED
    BY <1>1, <2>1, Zenon DEF AnswerInv
<1>7. /\ DOMAIN f = DOMAIN eng[r].child \cup {b}
      /\ \A x \in DOMAIN eng[r].child : x # b => f[x] = eng[r].child[x]
  BY DEF Put
<1> HIDE DEF f
<1>8. /\ IsEngine(q) /\ q.child = f /\ q.pc = eng[r].pc /\ q.todo = eng[r].todo
      /\ q.rows = eng[r].rows /\ q.results = eng[r].results
  BY ONLY <1>3, ChildSet, SMT
<1>9. f[b] = "sent"
  BY DEF f, Put
<1> HIDE DEF q
<1>10. DOMAIN q.rows = q.todo \cup DOMAIN q.child \cup DOMAIN q.results
  BY <1>1, <1>4, <1>7, <1>8, Zenon
<1>11. Placed(q)
  <2>1. q.pc \notin {"start", "load"}
    BY <1>4, <1>8, Zenon
  <2>2. \A x \in DOMAIN q.child : q.child[x] # "run" => x \in DOMAIN q.results
    BY <1>3, <1>4, <1>7, <1>8, ZenonT(60) DEF Placed
  <2>3. q.pc = "done" => q.todo = {} /\ \A x \in DOMAIN q.child : q.child[x] # "run"
    <3>1. "sent" # "run"
      OBVIOUS
    <3> QED
      BY <1>3, <1>7, <1>8, <1>9, <3>1, Zenon DEF Placed
  <2> QED
    BY <1>10, <2>1, <2>2, <2>3, Zenon DEF Placed
<1>12. Sound(q, Of[r].user)
  BY <1>3, <1>8, Zenon DEF Sound
<1> QED
  BY <1>1, <1>2, <1>6, <1>8, <1>11, <1>12, EngineStep, Zenon DEF Engine

\* The answer: nothing is to do and every process has sent its result.
LEMMA AnswerEngine == ASSUME AnswerInv, NEW r \in Requests, Answer(r) PROVE AnswerInv'
<1> DEFINE a == Combine({eng[r].results[b] : b \in DOMAIN eng[r].results} \cup eng[r].static)
           r1 == [eng[r] EXCEPT !.pc = "done"]
           q == [r1 EXCEPT !.answer = a]
<1>1. Unedited /\ cached' = cached /\ eng[r].pc = "next" /\ eng[r].todo = {} /\ Running(r) = {}
  BY DEF Answer, At
<1>2. Set(r, q)
  BY DEF Answer
<1>3. IsEngine(eng[r]) /\ Placed(eng[r]) /\ Sound(eng[r], Of[r].user)
  BY Zenon DEF AnswerInv, Engine
<1> HIDE DEF a
<1>4. /\ IsEngine(r1) /\ r1.pc = "done" /\ r1.todo = eng[r].todo /\ r1.rows = eng[r].rows
      /\ r1.child = eng[r].child /\ r1.results = eng[r].results
  BY ONLY <1>3, PcSet, SMTT(60)
<1> HIDE DEF r1
<1>5. /\ IsEngine(q) /\ q.pc = r1.pc /\ q.todo = r1.todo /\ q.rows = r1.rows
      /\ q.child = r1.child /\ q.results = r1.results
  BY ONLY <1>4, OtherSet, SMT
<1> HIDE DEF q
<1>6. DOMAIN eng[r].rows = eng[r].todo \cup DOMAIN eng[r].child \cup DOMAIN eng[r].results
  BY <1>1, <1>3 DEF Placed
<1>7. \A x \in DOMAIN eng[r].child : eng[r].child[x] = "sent"
  BY <1>1, Zenon DEF Running
<1>8. Placed(q)
  <2>1. q.pc = "done" /\ q.todo = {} /\ DOMAIN q.rows = q.todo \cup DOMAIN q.child \cup DOMAIN q.results
    BY <1>1, <1>4, <1>5, <1>6, Zenon
  <2>2. \A x \in DOMAIN q.child : q.child[x] = "sent"
    BY <1>4, <1>5, <1>7, Zenon
  <2>3. \A x \in DOMAIN q.child : q.child[x] # "run"
    BY <2>2
  <2>4. \A x \in DOMAIN q.child : q.child[x] # "run" => x \in DOMAIN q.results
    BY <1>3, <1>4, <1>5, Zenon DEF Placed
  <2> QED
    BY <2>1, <2>3, <2>4 DEF Placed
<1>9. Sound(q, Of[r].user)
  BY <1>3, <1>4, <1>5, ZenonT(60) DEF Sound
<1> QED
  BY <1>1, <1>2, <1>5, <1>8, <1>9, EngineStep, Zenon DEF Engine, AnswerInv

\* An edit: what was explained stays explained, and the new state is remembered.
LEMMA EditEngine == ASSUME AnswerInv, Edit, Remember, cached' = cached PROVE AnswerInv'
<1>1. were \subseteq were' /\ [attr |-> attr', matches |-> matches'] \in were'
  BY DEF Remember
<1>2. eng' = [r \in Requests |-> [eng[r] EXCEPT !.fresh = @ /\ At(r, "start")]]
  BY DEF Edit
<1>3. eng' = [r \in Requests |-> eng'[r]]
  BY <1>2
<1>4. ASSUME NEW r \in Requests PROVE Engine(eng[r], Of[r].user)'
  <2> DEFINE v == eng[r].fresh /\ At(r, "start")
             q == [eng[r] EXCEPT !.fresh = v]
  <2>1. eng'[r] = q
    BY <1>2
  <2>2. IsEngine(eng[r]) /\ Placed(eng[r]) /\ Sound(eng[r], Of[r].user)
    BY Zenon DEF AnswerInv, Engine
  <2> HIDE DEF v
  <2>3. /\ IsEngine(q) /\ q.pc = eng[r].pc /\ q.todo = eng[r].todo /\ q.rows = eng[r].rows
        /\ q.child = eng[r].child /\ q.results = eng[r].results
    BY ONLY <2>2, OtherSet, SMT
  <2> HIDE DEF q
  <2>4. Placed(q)
    BY <2>2, <2>3, Zenon DEF Placed
  <2>5. Sound(q, Of[r].user)
    BY <2>2, <2>3, Zenon DEF Sound
  <2>6. IsEngine(eng[r])'
    BY <2>1, <2>3, Zenon DEF IsEngine
  <2>7. Placed(eng[r])'
    BY <2>1, <2>4, Zenon DEF Placed
  <2>8. Sound(eng[r], Of[r].user)'
    BY <1>1, <2>1, <2>5, Zenon DEF Sound, Explained
  <2> QED
    BY <2>6, <2>7, <2>8, Zenon DEF Engine
<1>5. (\A c \in cached : Explained(c.binding, c.user, c.passing))'
  BY <1>1, Zenon DEF AnswerInv, Explained
<1> QED
  BY <1>1, <1>3, <1>4, <1>5, Zenon DEF AnswerInv

\* Results leave the cache, or nothing changes.
LEMMA EngineSame ==
    ASSUME AnswerInv, UNCHANGED <<attr, matches, were, eng>>, cached' \subseteq cached
    PROVE  AnswerInv'
<1>1. attr' = attr /\ matches' = matches /\ were' = were /\ eng' = eng
  OBVIOUS
<1>2. [attr |-> attr', matches |-> matches'] \in were'
  BY <1>1 DEF AnswerInv
<1>3. ASSUME NEW r \in Requests PROVE Engine(eng[r], Of[r].user)'
  <2>1. IsEngine(eng[r]) /\ Placed(eng[r]) /\ Sound(eng[r], Of[r].user)
    BY Zenon DEF AnswerInv, Engine
  <2>2. IsEngine(eng[r])'
    BY <1>1, <2>1, Zenon DEF IsEngine
  <2>3. Placed(eng[r])'
    BY <1>1, <2>1, Zenon DEF Placed
  <2> DEFINE q == eng[r]
  <2>4. eng'[r] = q /\ Sound(q, Of[r].user)
    BY <1>1, <2>1
  <2> HIDE DEF q
  <2>5. Sound(eng[r], Of[r].user)'
    BY <1>1, <2>4, Zenon DEF Sound, Explained
  <2> QED
    BY <2>2, <2>3, <2>5, Zenon DEF Engine
<1>4. (\A c \in cached : Explained(c.binding, c.user, c.passing))'
  BY <1>1, Zenon DEF AnswerInv, Explained
<1>5. eng' = [r \in Requests |-> eng'[r]]
  BY <1>1, Zenon DEF AnswerInv
<1> QED
  BY <1>2, <1>3, <1>4, <1>5, Zenon DEF AnswerInv

\* Every step preserves the invariant.
LEMMA AnswerNextInv == AnswerInv /\ [PolicyNext]_policyVars => AnswerInv'
<1> SUFFICES ASSUME AnswerInv, [PolicyNext]_policyVars PROVE AnswerInv'
  OBVIOUS
<1>1. CASE UNCHANGED policyVars
  <2>1. UNCHANGED <<attr, matches, were, eng>> /\ cached' \subseteq cached
    BY <1>1 DEF policyVars
  <2> QED
    BY <2>1, EngineSame
<1>2. CASE CacheTimeout
  <2>1. UNCHANGED <<attr, matches, were, eng>> /\ cached' \subseteq cached
    BY <1>2 DEF CacheTimeout, Unedited
  <2> QED
    BY <2>1, EngineSame
<1>3. ASSUME NEW b \in Bindings, SavePolicy(b) \/ SaveBinding(b) PROVE AnswerInv'
  <2>1. Edit /\ Remember /\ cached' = cached
    BY <1>3 DEF SavePolicy, SaveBinding
  <2> QED
    BY <2>1, EditEngine
<1> QED
  BY <1>1, <1>2, <1>3, StaticEngine, LoadEngine, NextEngine, AnswerEngine, PassesEngine,
     StoreEngine, Zenon DEF PolicyNext

\* It holds initially: no engine has read anything.
LEMMA AnswerInitInv == PolicyInit => AnswerInv
<1> SUFFICES ASSUME PolicyInit PROVE AnswerInv
  OBVIOUS
<1>1. [attr |-> attr, matches |-> matches] \in were /\ cached = {}
  BY DEF PolicyInit
<1>2. eng = [r \in Requests |-> eng[r]] /\ \A r \in Requests : eng[r] = NewEngine
  BY DEF PolicyInit
<1>3. /\ IsEngine(NewEngine) /\ NewEngine.pc = "start" /\ NewEngine.todo = {}
      /\ NewEngine.child = << >> /\ NewEngine.results = << >> /\ NewEngine.rows = << >>
  BY DEF NewEngine, IsEngine
<1>4. DOMAIN << >> = {}
  OBVIOUS
<1>5. Placed(NewEngine)
  BY <1>3, <1>4 DEF Placed
<1>6. \A r \in Requests : Sound(NewEngine, Of[r].user)
  BY <1>3, <1>4, Zenon DEF Sound
<1> QED
  BY <1>1, <1>2, <1>3, <1>5, <1>6, Zenon DEF AnswerInv, Engine

\* Every answer of the policy engine has a result for every binding read, and each is one this
\* binding gave this user at some time, for every set of bindings, users, requests and edits.
THEOREM AnswerTheorem == PolicySpec => []AnswerExplained
  BY AnswerInitInv, AnswerNextInv, AnswerDone, PTL DEF PolicySpec

-----------------------------------------------------------------------------
(* Blueprints: the hash of an instance. *)

\* An instance and a job have their fields.
IsInst(i) == i = [pk |-> i.pk, enabled |-> i.enabled, hash |-> i.hash, status |-> i.status]
IsJob(j) == j = [pc |-> j.pc, path |-> j.path, copy |-> j.copy, v |-> j.v,
                 needed |-> j.needed, nv |-> j.nv, found |-> j.found]

\* A job has its fields, and those that apply have what they apply.
JobShape(j) ==
    /\ IsJob(j) /\ IsInst(j.copy) /\ IsInst(j.needed)
    /\ j.nv \in Versions \cup {Gone}
    /\ j.pc \in {"validate", "commit", "save"} <=> j.path \in Paths
    /\ j.pc \in {"validate", "commit"} => j.v \in Versions /\ j.copy.enabled

BlueShape ==
    /\ file = [p \in Paths |-> file[p]] /\ \A p \in Paths : file[p] \in Versions \cup {Gone}
    /\ inst = [p \in Paths |-> inst[p]] /\ \A p \in Paths : IsInst(inst[p])
    /\ job = [w \in BWorkers |-> job[w]] /\ \A w \in BWorkers : JobShape(job[w])

\* Worker w is applying p, as its task or as what its task needs.
Inside(w, p) == job[w].path = p \/ (job[w].pc = "commit" /\ <<job[w].path, p>> \in Needs)

\* A path that is not overlapped has one worker at most.
Sole ==
    \A p \in Paths \ overlapped : \A w, u \in BWorkers : Inside(w, p) /\ Inside(u, p) => w = u

\* A hash is none, or of a file that the object reflects.
Trusted(p, h) == h = Gone \/ Reflects(h, obj[p])

\* An instance that took the place of a worker's has not been applied.
Replaced(p) ==
    \A w \in BWorkers : job[w].path = p =>
        inst[p].pk \in {0, job[w].copy.pk} \/ inst[p].hash = Gone

NoneCommitted(p) == \A w \in BWorkers : job[w].path = p => ~ Committed(w)

\* Every hash of p, in its instance or in a copy, can be trusted.
HashSafe(p) ==
    /\ NoneCommitted(p) => Trusted(p, inst[p].hash)
    /\ \A w \in BWorkers : job[w].path = p => Trusted(p, job[w].copy.hash)
    /\ \A w \in BWorkers : job[w].pc = "commit" /\ <<job[w].path, p>> \in Needs =>
         Trusted(p, job[w].needed.hash)

HashInv ==
    /\ BlueShape
    /\ Sole
    /\ \A p \in Paths \ overlapped : Replaced(p)
    /\ \A p \in Paths \ (overlapped \cup torn) : HashSafe(p)

-----------------------------------------------------------------------------
(* Records. *)

\* Instance d is i with another status and hash.
BecomesInst(d, i, status, hash) ==
    IsInst(d) /\ d.hash = hash /\ d.pk = i.pk /\ d.status = status /\ d.enabled = i.enabled

\* An applied instance has the hash of the file that was applied.
LEMMA DoneFields ==
    ASSUME NEW i, IsInst(i), NEW v PROVE BecomesInst(Done(i, v), i, "successful", v)
<1>1. PICK d : d = Done(i, v)
  OBVIOUS
<1>2. BecomesInst(d, i, "successful", v)
  BY <1>1, Zenon DEF IsInst, Done, BecomesInst
<1> QED
  BY <1>1, <1>2, Zenon

\* A failed one keeps its hash.
LEMMA FailedFields ==
    ASSUME NEW i, IsInst(i) PROVE BecomesInst(Failed(i), i, "error", i.hash)
<1>1. PICK d : d = Failed(i)
  OBVIOUS
<1>2. BecomesInst(d, i, "error", i.hash)
  BY <1>1, Zenon DEF IsInst, Failed, BecomesInst
<1> QED
  BY <1>1, <1>2, Zenon

Toggled(i) == [i EXCEPT !.enabled = ~ i.enabled]

\* An instance that an administrator switched keeps its hash.
LEMMA ToggledFields ==
    ASSUME NEW i, IsInst(i)
    PROVE  IsInst(Toggled(i)) /\ Toggled(i).hash = i.hash /\ Toggled(i).pk = i.pk
<1>1. PICK d : d = Toggled(i)
  OBVIOUS
<1>2. IsInst(d) /\ d.hash = i.hash /\ d.pk = i.pk
  BY <1>1, Zenon DEF IsInst, Toggled
<1> QED
  BY <1>1, <1>2, Zenon

\* Job k follows j, at pc, with its copy and with what it needs.
Follows(k, j, pc, copy, needed, nv) ==
    /\ IsJob(k) /\ k.pc = pc /\ k.path = j.path /\ k.copy = copy
    /\ k.needed = needed /\ k.nv = nv /\ k.v = j.v

\* A job that only has to save.
LEMMA ToSaveFields ==
    ASSUME NEW j, IsJob(j), NEW c
    PROVE  Follows(ToSave(j, c), j, "save", c, j.needed, j.nv)
<1>1. PICK k : k = ToSave(j, c)
  OBVIOUS
<1>2. /\ IsJob(k) /\ k.pc = "save" /\ k.path = j.path /\ k.copy = c
      /\ k.needed = j.needed /\ k.nv = j.nv /\ k.v = j.v
  BY <1>1, Zenon DEF IsJob, ToSave
<1> QED
  BY <1>1, <1>2, Zenon DEF Follows

\* A discovery that looked at a file.
LEMMA CheckedFields ==
    ASSUME NEW j, IsJob(j), NEW p
    PROVE  Follows(Checked(j, p), j, j.pc, j.copy, j.needed, j.nv)
<1>1. PICK k : k = Checked(j, p)
  OBVIOUS
<1>2. Follows(k, j, j.pc, j.copy, j.needed, j.nv)
  BY <1>1, Zenon DEF IsJob, Checked, Follows
<1> QED
  BY <1>1, <1>2, Zenon

\* A job that goes to its transaction.
LEMMA CommitFields ==
    ASSUME NEW j, IsJob(j), NEW k, k = [j EXCEPT !.pc = "commit"]
    PROVE  Follows(k, j, "commit", j.copy, j.needed, j.nv)
BY Zenon DEF IsJob, Follows

WithNeeded(j, n, nv) == [j EXCEPT !.pc = "commit", !.needed = n, !.nv = nv]

\* ... and takes what it needs with it.
LEMMA NeededFields ==
    ASSUME NEW j, IsJob(j), NEW n, NEW nv
    PROVE  Follows(WithNeeded(j, n, nv), j, "commit", j.copy, n, nv)
<1>1. PICK k : k = WithNeeded(j, n, nv)
  OBVIOUS
<1>2. /\ IsJob(k) /\ k.pc = "commit" /\ k.path = j.path /\ k.copy = j.copy
      /\ k.needed = n /\ k.nv = nv /\ k.v = j.v
  BY <1>1, Zenon DEF IsJob, WithNeeded
<1> QED
  BY <1>1, <1>2, Zenon DEF Follows

Begun(p, c, v) == [Idle EXCEPT !.pc = "validate", !.path = p, !.copy = c, !.v = v]

BeginsAs(k, p, c, v) ==
    /\ IsJob(k) /\ k.pc = "validate" /\ k.path = p /\ k.copy = c /\ k.v = v
    /\ k.needed = NoInst /\ k.nv = Gone

\* A job that begins.
LEMMA BeginFields ==
    ASSUME NEW p, NEW c, NEW v
    PROVE  BeginsAs(Begun(p, c, v), p, c, v)
<1>1. PICK k : k = Begun(p, c, v)
  OBVIOUS
<1>2. /\ IsJob(k) /\ k.pc = "validate" /\ k.path = p /\ k.copy = c /\ k.v = v
      /\ k.needed = NoInst /\ k.nv = Gone
  BY <1>1, Zenon DEF IsJob, Idle, Begun
<1> QED
  BY <1>1, <1>2, Zenon DEF BeginsAs

\* No job.
LEMMA IdleFields ==
    /\ JobShape(Idle) /\ Idle.pc = "idle" /\ Idle.path \notin Paths /\ IsInst(NoInst)
    /\ NoInst.hash = Gone /\ NoInst.pk = 0
<1>1. IsJob(Idle) /\ Idle.pc = "idle" /\ Idle.path = "" /\ Idle.copy = NoInst
      /\ Idle.needed = NoInst /\ Idle.nv = Gone
  BY DEF IsJob, Idle
<1>2. IsInst(NoInst) /\ NoInst.hash = Gone /\ NoInst.pk = 0
  BY DEF IsInst, NoInst
<1>3. Idle.path \notin Paths
  BY <1>1, BlueprintAssumption
<1>4. Idle.pc \notin {"validate", "commit", "save"}
  BY <1>1
<1> QED
  BY <1>1, <1>2, <1>3, <1>4, Zenon DEF JobShape

\* The job of a discovery.
LEMMA FindFields ==
    ASSUME NEW f, NEW k, k = [Idle EXCEPT !.pc = "check", !.found = f]
    PROVE  JobShape(k) /\ k.pc = "check" /\ k.path \notin Paths
<1>1. IsJob(k) /\ k.pc = "check" /\ k.path = Idle.path /\ k.copy = Idle.copy
      /\ k.needed = Idle.needed /\ k.nv = Idle.nv
  BY DEF IsJob, Idle
<1>2. k.pc \notin {"validate", "commit", "save"}
  BY <1>1
<1> QED
  BY <1>1, <1>2, IdleFields, Zenon DEF JobShape

\* What a valid entry writes is what it wants (Importer._apply_models).
LEMMA AppliedReflects ==
    ASSUME NEW v \in Versions, NEW old, Valid(v, old)
    PROVE  Reflects(v, Applied(v, old))
<1> USE BlueprintAssumption
<1>1. CASE Desired[v] = "present"
  BY <1>1 DEF Reflects, Applied
<1>2. CASE Desired[v] \in {"created", "must_created"}
  <2>1. v # Gone
    OBVIOUS
  <2>2. Applied(v, old) = IF old = Gone THEN v ELSE old
    BY <1>2 DEF Applied
  <2> QED
    BY <1>2, <2>1, <2>2 DEF Reflects
<1>3. CASE Desired[v] = "absent"
  BY <1>3 DEF Reflects, Applied
<1> QED
  BY <1>1, <1>2, <1>3 DEF Valid

-----------------------------------------------------------------------------
(* Steps. *)

\* A step of one job.
LEMMA OneJob ==
    ASSUME BlueShape, NEW w \in BWorkers, NEW j, job' = [job EXCEPT ![w] = j]
    PROVE  /\ job'[w] = j
           /\ \A u \in BWorkers : u # w => job'[u] = job[u]
           /\ JobShape(j) => /\ job' = [u \in BWorkers |-> job'[u]]
                             /\ \A u \in BWorkers : JobShape(job'[u])
<1>1. job = [u \in BWorkers |-> job[u]] /\ \A u \in BWorkers : JobShape(job[u])
  BY Zenon DEF BlueShape
<1>2. job' = [u \in BWorkers |-> IF u = w THEN j ELSE job[u]]
  BY <1>1, Zenon
<1>3. \A u \in BWorkers : job'[u] = IF u = w THEN j ELSE job[u]
  BY <1>2, Zenon
<1>4. job' = [u \in BWorkers |-> job'[u]]
  BY <1>2, <1>3, Zenon
<1> QED
  BY <1>1, <1>3, <1>4, Zenon

\* An instance is written.
LEMMA OneInst ==
    ASSUME BlueShape, NEW p \in Paths, NEW i, IsInst(i), inst' = [inst EXCEPT ![p] = i]
    PROVE  /\ inst'[p] = i /\ \A q \in Paths : q # p => inst'[q] = inst[q]
           /\ inst' = [q \in Paths |-> inst'[q]] /\ \A q \in Paths : IsInst(inst'[q])
<1>1. inst = [q \in Paths |-> inst[q]] /\ \A q \in Paths : IsInst(inst[q])
  BY Zenon DEF BlueShape
<1>2. inst' = [q \in Paths |-> IF q = p THEN i ELSE inst[q]]
  BY <1>1, Zenon
<1>3. \A q \in Paths : inst'[q] = IF q = p THEN i ELSE inst[q]
  BY <1>2, Zenon
<1>4. inst' = [q \in Paths |-> inst'[q]]
  BY <1>2, <1>3, Zenon
<1> QED
  BY <1>1, <1>3, <1>4, Zenon

\* Where no worker joins, or the first one does, there is still one at most.
LEMMA SoleStep ==
    ASSUME Sole, overlapped \subseteq overlapped',
           \A p \in Paths \ overlapped' :
              \/ \A u \in BWorkers : Inside(u, p)' => Inside(u, p)
              \/ \E w \in BWorkers : \A u \in BWorkers : Inside(u, p)' => u = w
    PROVE  Sole'
<1> SUFFICES ASSUME NEW p \in Paths \ overlapped', NEW w \in BWorkers, NEW u \in BWorkers,
                    Inside(w, p)', Inside(u, p)'
             PROVE  w = u
  BY Zenon DEF Sole
<1>1. p \in Paths \ overlapped
  BY Zenon
<1>2. CASE \A x \in BWorkers : Inside(x, p)' => Inside(x, p)
  BY <1>1, <1>2, Zenon DEF Sole
<1>3. CASE \E x \in BWorkers : \A y \in BWorkers : Inside(y, p)' => y = x
  BY <1>3, Zenon
<1> QED
  BY <1>2, <1>3, Zenon

\* The instance of p stays as it is, or becomes one that has not been applied.
InstKept(p) ==
    (inst'[p].hash = inst[p].hash /\ inst'[p].pk = inst[p].pk) \/ inst'[p].hash = Gone

\* No worker comes to p or changes its copy of it.
CopiesKept(p) ==
    \A u \in BWorkers : job'[u].path = p =>
        /\ job[u].path = p
        /\ job'[u].copy.pk = job[u].copy.pk /\ job'[u].copy.hash = job[u].copy.hash

\* What was committed remains to be saved.
CommittedKept(p) ==
    \A u \in BWorkers : job[u].path = p /\ Committed(u) => job'[u].path = p /\ Committed(u)'

\* No worker comes to apply p as what its task needs.
NeededKept(p) ==
    \A u \in BWorkers : job'[u].pc = "commit" /\ <<job'[u].path, p>> \in Needs =>
        /\ job[u].pc = "commit" /\ <<job[u].path, p>> \in Needs
        /\ job'[u].needed = job[u].needed

\* An instance and its copies that stay as they are.
LEMMA ReplacedKept ==
    ASSUME NEW p, Replaced(p), InstKept(p), CopiesKept(p)
    PROVE  Replaced(p)'
<1> SUFFICES ASSUME NEW w \in BWorkers, job'[w].path = p
             PROVE  inst'[p].pk \in {0, job'[w].copy.pk} \/ inst'[p].hash = Gone
  BY Zenon DEF Replaced
<1>1. job[w].path = p /\ job'[w].copy.pk = job[w].copy.pk
  BY Zenon DEF CopiesKept
<1>2. inst[p].pk \in {0, job[w].copy.pk} \/ inst[p].hash = Gone
  BY <1>1, Zenon DEF Replaced
<1> QED
  BY <1>1, <1>2, Zenon DEF InstKept

\* ... keep hashes that can be trusted, as the object stays.
LEMMA SafeKept ==
    ASSUME NEW p, HashSafe(p), obj'[p] = obj[p],
           InstKept(p), CopiesKept(p), CommittedKept(p), NeededKept(p)
    PROVE  HashSafe(p)'
<1>1. ASSUME NEW h, Trusted(p, h) PROVE h = Gone \/ Reflects(h, obj'[p])
  BY <1>1, Zenon DEF Trusted
<1>2. ASSUME NEW w \in BWorkers, job'[w].path = p
      PROVE  job'[w].copy.hash = Gone \/ Reflects(job'[w].copy.hash, obj'[p])
  <2>1. job[w].path = p /\ job'[w].copy.hash = job[w].copy.hash
    BY <1>2, Zenon DEF CopiesKept
  <2> QED
    BY <2>1, <1>1, Zenon DEF HashSafe
<1>3. ASSUME NEW w \in BWorkers, job'[w].pc = "commit", <<job'[w].path, p>> \in Needs
      PROVE  job'[w].needed.hash = Gone \/ Reflects(job'[w].needed.hash, obj'[p])
  <2>1. job[w].pc = "commit" /\ <<job[w].path, p>> \in Needs /\ job'[w].needed = job[w].needed
    BY <1>3, Zenon DEF NeededKept
  <2> QED
    BY <2>1, <1>1, Zenon DEF HashSafe
<1>4. ASSUME NoneCommitted(p)' PROVE inst'[p].hash = Gone \/ Reflects(inst'[p].hash, obj'[p])
  <2>1. NoneCommitted(p)
    BY <1>4, Zenon DEF NoneCommitted, CommittedKept
  <2>2. inst[p].hash = Gone \/ Reflects(inst[p].hash, obj'[p])
    BY <2>1, <1>1, Zenon DEF HashSafe
  <2> QED
    BY <2>2, Zenon DEF InstKept
<1> QED
  BY <1>2, <1>3, <1>4, Zenon DEF HashSafe, Trusted

JobsKept(p) == CopiesKept(p) /\ CommittedKept(p) /\ NeededKept(p)

\* A step that leaves objects and copies alone.
LEMMA KeptStep ==
    ASSUME HashInv, BlueShape', overlapped' = overlapped, torn' = torn, obj' = obj,
           \A p \in Paths : InstKept(p) /\ JobsKept(p)
    PROVE  HashInv'
<1>1. ASSUME NEW p \in Paths, NEW u \in BWorkers, Inside(u, p)' PROVE Inside(u, p)
  BY <1>1, Zenon DEF Inside, JobsKept, CopiesKept, NeededKept
<1>2. Sole /\ overlapped \subseteq overlapped'
  BY DEF HashInv
<1>3. Sole'
  BY <1>1, <1>2, SoleStep, Zenon
<1>4. ASSUME NEW p \in Paths \ overlapped' PROVE Replaced(p)'
  <2>1. Replaced(p)
    BY Zenon DEF HashInv
  <2> QED
    BY <2>1, ReplacedKept, Zenon DEF JobsKept
<1>5. ASSUME NEW p \in Paths \ (overlapped' \cup torn') PROVE HashSafe(p)'
  <2>1. HashSafe(p)
    BY Zenon DEF HashInv
  <2> QED
    BY <2>1, SafeKept, Zenon DEF JobsKept
<1> QED
  BY <1>3, <1>4, <1>5, Zenon DEF HashInv

\* Jobs that stay as they are.
LEMMA SameJobs == ASSUME job' = job, NEW p PROVE JobsKept(p)
<1>1. CopiesKept(p) /\ NeededKept(p)
  BY Zenon DEF CopiesKept, NeededKept
<1>2. CommittedKept(p)
  BY Zenon DEF CommittedKept, Committed
<1> QED
  BY <1>1, <1>2, Zenon DEF JobsKept

\* A worker that does not come to p, nor leaves it with something to save.
LEMMA OtherJobs ==
    ASSUME NEW p, NEW w \in BWorkers, \A u \in BWorkers : u # w => job'[u] = job[u],
           job'[w].path # p, job[w].path = p => ~ Committed(w),
           job'[w].pc = "commit" => <<job'[w].path, p>> \notin Needs
    PROVE  JobsKept(p)
<1>1. CopiesKept(p)
  BY Zenon DEF CopiesKept
<1>2. NeededKept(p)
  BY Zenon DEF NeededKept
<1>3. ASSUME NEW u \in BWorkers, job[u].path = p, Committed(u)
      PROVE  job'[u].path = p /\ Committed(u)'
  <2>1. u # w
    BY <1>3, Zenon
  <2>2. job'[u] = job[u]
    BY <2>1, Zenon
  <2> QED
    BY <2>2, <1>3, Zenon DEF Committed
<1>4. CommittedKept(p)
  BY <1>3, Zenon DEF CommittedKept
<1> QED
  BY <1>1, <1>2, <1>4, Zenon DEF JobsKept

\* A worker that goes on with p.
LEMMA OwnJob ==
    ASSUME NEW p, NEW w \in BWorkers, \A u \in BWorkers : u # w => job'[u] = job[u],
           job'[w].path = job[w].path, ~ Committed(w),
           job'[w].copy.pk = job[w].copy.pk, job'[w].copy.hash = job[w].copy.hash,
           job'[w].pc = "commit" => <<job'[w].path, p>> \notin Needs
    PROVE  JobsKept(p)
<1>1. CopiesKept(p)
  BY Zenon DEF CopiesKept
<1>2. NeededKept(p)
  BY Zenon DEF NeededKept
<1>3. ASSUME NEW u \in BWorkers, job[u].path = p, Committed(u)
      PROVE  job'[u].path = p /\ Committed(u)'
  <2>1. u # w
    BY <1>3, Zenon
  <2>2. job'[u] = job[u]
    BY <2>1, Zenon
  <2> QED
    BY <2>2, <1>3, Zenon DEF Committed
<1>4. CommittedKept(p)
  BY <1>3, Zenon DEF CommittedKept
<1> QED
  BY <1>1, <1>2, <1>4, Zenon DEF JobsKept

-----------------------------------------------------------------------------
(* Every action keeps the invariant. *)

\* A step that writes neither instances nor jobs.
LEMMA FileStep ==
    ASSUME HashInv, inst' = inst, job' = job, obj' = obj, overlapped' = overlapped, torn' = torn,
           file' = [p \in Paths |-> file'[p]], \A p \in Paths : file'[p] \in Versions \cup {Gone}
    PROVE  HashInv'
<1>1. BlueShape'
  BY Zenon DEF HashInv, BlueShape
<1>2. \A p \in Paths : InstKept(p)
  BY Zenon DEF InstKept
<1> QED
  BY <1>1, <1>2, SameJobs, KeptStep, Zenon

\* The watcher, the schedule and an application by hand.
LEMMA OutsideHash ==
    ASSUME HashInv,
           \/ Schedule
           \/ \E p \in Paths : \/ ApplyByHand(p)
                               \/ \E v \in Versions \cup {Gone} : WriteFile(p, v)
           \/ \E w \in BWorkers, p \in Paths, k \in Keys : ApplyNothing(w, p, k)
    PROVE  HashInv'
<1>1. file = [p \in Paths |-> file[p]] /\ \A p \in Paths : file[p] \in Versions \cup {Gone}
  BY Zenon DEF HashInv, BlueShape
<1>2. ASSUME NEW p \in Paths, NEW v \in Versions \cup {Gone}, WriteFile(p, v) PROVE HashInv'
  <2>1. file' = [file EXCEPT ![p] = v] /\ inst' = inst /\ job' = job /\ obj' = obj
        /\ overlapped' = overlapped /\ torn' = torn
    BY <1>2 DEF WriteFile, history
  <2>2. file' = [q \in Paths |-> IF q = p THEN v ELSE file[q]]
    BY <2>1, <1>1, Zenon
  <2>3. file' = [q \in Paths |-> file'[q]] /\ \A q \in Paths : file'[q] \in Versions \cup {Gone}
    BY <2>2, <1>1
  <2> QED
    BY <2>1, <2>3, FileStep, Zenon
<1>3. ASSUME \/ Schedule \/ \E p \in Paths : ApplyByHand(p)
             \/ \E w \in BWorkers, p \in Paths, k \in Keys : ApplyNothing(w, p, k)
      PROVE HashInv'
  <2>1. file' = file /\ inst' = inst /\ job' = job /\ obj' = obj
        /\ overlapped' = overlapped /\ torn' = torn
    BY <1>3 DEF Schedule, ApplyByHand, ApplyNothing, history
  <2> QED
    BY <2>1, <1>1, FileStep, Zenon
<1> QED
  BY <1>2, <1>3, Zenon

\* The administrator switches an instance: its hash stays.
LEMMA ToggleHash == ASSUME HashInv, NEW p \in Paths, Toggle(p) PROVE HashInv'
<1>0. BlueShape /\ IsInst(inst[p])
  BY Zenon DEF HashInv, BlueShape
<1>1. PICK i : i = Toggled(inst[p])
  OBVIOUS
<1>2. inst' = [inst EXCEPT ![p] = i] /\ job' = job /\ obj' = obj /\ file' = file
      /\ overlapped' = overlapped /\ torn' = torn
  BY <1>1 DEF Toggle, Toggled
<1>3. IsInst(i) /\ i.hash = inst[p].hash /\ i.pk = inst[p].pk
  BY <1>0, <1>1, ToggledFields, Zenon
<1>4. /\ inst'[p] = i /\ \A q \in Paths : q # p => inst'[q] = inst[q]
      /\ inst' = [q \in Paths |-> inst'[q]] /\ \A q \in Paths : IsInst(inst'[q])
  BY <1>0, <1>2, <1>3, OneInst, Zenon
<1>5. BlueShape'
  BY <1>0, <1>2, <1>4, Zenon DEF BlueShape
<1>6. ASSUME NEW q \in Paths PROVE InstKept(q)
  <2>1. inst'[q].hash = inst[q].hash /\ inst'[q].pk = inst[q].pk
    BY <1>3, <1>4, Zenon
  <2> QED
    BY <2>1, Zenon DEF InstKept
<1> QED
  BY <1>2, <1>5, <1>6, SameJobs, KeptStep, Zenon

\* An instance whose file is gone is removed.
LEMMA ClearHash == ASSUME HashInv, NEW p \in Paths, ClearFailed(p) PROVE HashInv'
<1>0. BlueShape
  BY Zenon DEF HashInv
<1>2. inst' = [inst EXCEPT ![p] = NoInst] /\ job' = job /\ obj' = obj /\ file' = file
      /\ overlapped' = overlapped /\ torn' = torn
  BY DEF ClearFailed
<1>3. IsInst(NoInst) /\ NoInst.hash = Gone
  BY IdleFields, Zenon
<1>4. /\ inst'[p] = NoInst /\ \A q \in Paths : q # p => inst'[q] = inst[q]
      /\ inst' = [q \in Paths |-> inst'[q]] /\ \A q \in Paths : IsInst(inst'[q])
  BY <1>0, <1>2, <1>3, OneInst, Zenon
<1>5. BlueShape'
  BY <1>0, <1>2, <1>4, Zenon DEF BlueShape
<1>6. ASSUME NEW q \in Paths PROVE InstKept(q)
  BY <1>3, <1>4, Zenon DEF InstKept
<1> QED
  BY <1>2, <1>5, <1>6, SameJobs, KeptStep, Zenon

\* A worker that applies nothing, before or after the step.
LEMMA DiscoveryStep ==
    ASSUME HashInv, BlueShape', overlapped' = overlapped, torn' = torn, obj' = obj,
           NEW w \in BWorkers, \A u \in BWorkers : u # w => job'[u] = job[u],
           job[w].path \notin Paths, job'[w].path \notin Paths, job'[w].pc # "commit",
           \A p \in Paths : InstKept(p)
    PROVE  HashInv'
<1>1. ASSUME NEW p \in Paths PROVE JobsKept(p)
  <2>1. job[w].path # p /\ job'[w].path # p
    BY Zenon
  <2> QED
    BY <2>1, OtherJobs, Zenon
<1> QED
  BY <1>1, KeptStep, Zenon

\* blueprints_find reads the files.
LEMMA FindHash == ASSUME HashInv, NEW w \in BWorkers, Find(w) PROVE HashInv'
<1>0. BlueShape
  BY Zenon DEF HashInv
<1>1. PICK j : j = [Idle EXCEPT !.pc = "check", !.found = file]
  OBVIOUS
<1>2. inst' = inst /\ job' = [job EXCEPT ![w] = j] /\ obj' = obj /\ file' = file
      /\ overlapped' = overlapped /\ torn' = torn /\ job[w] = Idle
  BY <1>1 DEF Find, history
<1>3. JobShape(j) /\ j.pc = "check" /\ j.path \notin Paths
  BY <1>1, FindFields, Zenon
<1>4. /\ job'[w] = j /\ \A u \in BWorkers : u # w => job'[u] = job[u]
      /\ job' = [u \in BWorkers |-> job'[u]] /\ \A u \in BWorkers : JobShape(job'[u])
  BY <1>0, <1>2, <1>3, OneJob, Zenon
<1>5. BlueShape'
  BY <1>0, <1>2, <1>4, Zenon DEF BlueShape
<1>6. job[w].path \notin Paths
  BY <1>2, IdleFields, Zenon
<1>7. job'[w].path \notin Paths /\ job'[w].pc # "commit"
  BY <1>3, <1>4
<1>8. \A p \in Paths : InstKept(p)
  BY <1>2, Zenon DEF InstKept
<1> QED
  BY <1>2, <1>4, <1>5, <1>6, <1>7, <1>8, DiscoveryStep, Zenon

\* ... and ends.
LEMMA FoundHash == ASSUME HashInv, NEW w \in BWorkers, Found(w) PROVE HashInv'
<1>0. BlueShape /\ JobShape(job[w])
  BY Zenon DEF HashInv, BlueShape
<1>2. inst' = inst /\ job' = [job EXCEPT ![w] = Idle] /\ obj' = obj /\ file' = file
      /\ overlapped' = overlapped /\ torn' = torn /\ job[w].pc = "check"
  BY DEF Found, history
<1>3. JobShape(Idle) /\ Idle.pc = "idle" /\ Idle.path \notin Paths
  BY IdleFields, Zenon
<1>4. /\ job'[w] = Idle /\ \A u \in BWorkers : u # w => job'[u] = job[u]
      /\ job' = [u \in BWorkers |-> job'[u]] /\ \A u \in BWorkers : JobShape(job'[u])
  BY <1>0, <1>2, <1>3, OneJob, Zenon
<1>5. BlueShape'
  BY <1>0, <1>2, <1>4, Zenon DEF BlueShape
<1>6. job[w].pc \notin {"validate", "commit", "save"}
  BY <1>2
<1>7. job[w].path \notin Paths
  BY <1>0, <1>6, Zenon DEF JobShape
<1>8. job'[w].path \notin Paths /\ job'[w].pc # "commit"
  BY <1>3, <1>4
<1>9. \A p \in Paths : InstKept(p)
  BY <1>2, Zenon DEF InstKept
<1> QED
  BY <1>2, <1>4, <1>5, <1>7, <1>8, <1>9, DiscoveryStep, Zenon

\* check_blueprint_v1_file: a new instance has no hash.
LEMMA CheckHash == ASSUME HashInv, NEW w \in BWorkers, NEW p \in Paths, Check(w, p) PROVE HashInv'
<1>0. BlueShape /\ JobShape(job[w])
  BY Zenon DEF HashInv, BlueShape
<1>1. PICK j : j = Checked(job[w], p)
  OBVIOUS
<1>2. job' = [job EXCEPT ![w] = j] /\ obj' = obj /\ file' = file
      /\ overlapped' = overlapped /\ torn' = torn /\ job[w].pc = "check"
  BY <1>1 DEF Check, history
<1>3. /\ IsJob(j) /\ j.pc = job[w].pc /\ j.path = job[w].path /\ j.copy = job[w].copy
      /\ j.needed = job[w].needed /\ j.nv = job[w].nv /\ j.v = job[w].v
  <2>1. IsJob(job[w])
    BY <1>0, Zenon DEF JobShape
  <2>2. Follows(j, job[w], job[w].pc, job[w].copy, job[w].needed, job[w].nv)
    BY <2>1, <1>1, CheckedFields, Zenon
  <2> QED
    BY <2>2, Zenon DEF Follows
<1>4. JobShape(j)
  BY <1>0, <1>3, Zenon DEF JobShape
<1>5. /\ job'[w] = j /\ \A u \in BWorkers : u # w => job'[u] = job[u]
      /\ job' = [u \in BWorkers |-> job'[u]] /\ \A u \in BWorkers : JobShape(job'[u])
  BY <1>0, <1>2, <1>4, OneJob, Zenon
<1>6. job[w].pc \notin {"validate", "commit", "save"}
  BY <1>2
<1>7. job[w].path \notin Paths
  BY <1>0, <1>6, Zenon DEF JobShape
<1>8. job'[w].path \notin Paths /\ job'[w].pc # "commit"
  BY <1>2, <1>3, <1>5, <1>7
<1>9. /\ inst' = [q \in Paths |-> inst'[q]] /\ \A q \in Paths : IsInst(inst'[q])
      /\ \A q \in Paths : InstKept(q)
  <2>1. CASE inst' = inst
    BY <2>1, <1>0, Zenon DEF BlueShape, InstKept
  <2>2. ASSUME NEW k, inst' = [inst EXCEPT ![p] = NewInst(k)]
        PROVE  /\ inst' = [q \in Paths |-> inst'[q]] /\ \A q \in Paths : IsInst(inst'[q])
               /\ \A q \in Paths : InstKept(q)
    <3>1. IsInst(NewInst(k)) /\ NewInst(k).hash = Gone
      BY DEF IsInst, NewInst
    <3>2. /\ inst'[p] = NewInst(k) /\ \A q \in Paths : q # p => inst'[q] = inst[q]
          /\ inst' = [q \in Paths |-> inst'[q]] /\ \A q \in Paths : IsInst(inst'[q])
      BY <1>0, <2>2, <3>1, OneInst, Zenon
    <3> QED
      BY <3>1, <3>2, Zenon DEF InstKept
  <2>3. inst' = inst \/ \E k \in NewKeys(p) : inst' = [inst EXCEPT ![p] = NewInst(k)]
    BY Zenon DEF Check
  <2> QED
    BY <2>1, <2>2, <2>3, Zenon
<1>10. BlueShape'
  BY <1>0, <1>2, <1>5, <1>9, Zenon DEF BlueShape
<1> QED
  BY <1>2, <1>5, <1>7, <1>8, <1>9, <1>10, DiscoveryStep, Zenon

\* A new copy is of an instance that no other worker applies.
LEMMA BeginHash ==
    ASSUME HashInv, NEW w \in BWorkers, NEW p \in Paths, NEW k \in Keys, BeginApply(w, p, k)
    PROVE  HashInv'
<1>0. BlueShape /\ Sole /\ IsInst(inst[p]) /\ file[p] \in Versions \cup {Gone}
  BY Zenon DEF HashInv, BlueShape
<1>1. PICK b : b = Begun(p, inst[p], file[p])
  OBVIOUS
<1>2. PICK j : j = IF ~ inst[p].enabled THEN ToSave(b, inst[p])
                   ELSE IF file[p] = Gone THEN ToSave(b, Failed(inst[p])) ELSE b
  OBVIOUS
<1>3. /\ job[w] = Idle /\ job' = [job EXCEPT ![w] = j]
      /\ inst' = inst /\ obj' = obj /\ file' = file /\ torn' = torn
      /\ overlapped' = IF Applying(p) = {} THEN overlapped ELSE overlapped \cup {p}
  BY <1>1, <1>2, Zenon DEF BeginApply, Take, Begun
<1>4. /\ IsJob(b) /\ b.pc = "validate" /\ b.path = p /\ b.copy = inst[p] /\ b.v = file[p]
      /\ b.needed = NoInst /\ b.nv = Gone
  <2>1. BeginsAs(b, p, inst[p], file[p])
    BY <1>1, BeginFields, Zenon
  <2> QED
    BY <2>1, Zenon DEF BeginsAs
<1>5. PICK f : f = Failed(inst[p])
  OBVIOUS
<1>6. /\ IsInst(f) /\ f.hash = inst[p].hash /\ f.pk = inst[p].pk /\ f.status = "error"
      /\ f.enabled = inst[p].enabled
  <2>1. BecomesInst(f, inst[p], "error", inst[p].hash)
    BY <1>0, <1>5, FailedFields, Zenon
  <2> QED
    BY <2>1, Zenon DEF BecomesInst
<1>7. /\ IsJob(j) /\ j.path = p /\ j.needed = NoInst /\ j.nv = Gone /\ j.v = file[p]
      /\ IsInst(j.copy) /\ j.copy.hash = inst[p].hash /\ j.copy.pk = inst[p].pk
      /\ \/ j.pc = "save" /\ ~ j.copy.enabled
         \/ j.pc = "save" /\ j.copy.status = "error"
         \/ j.pc = "validate" /\ j.copy.enabled /\ j.v # Gone
  <2>1. CASE ~ inst[p].enabled
    <3>1. j = ToSave(b, inst[p])
      BY <2>1, <1>2, Zenon
    <3>2. /\ IsJob(j) /\ j.pc = "save" /\ j.path = p /\ j.copy = inst[p]
          /\ j.needed = NoInst /\ j.nv = Gone /\ j.v = file[p]
      <4>1. Follows(j, b, "save", inst[p], b.needed, b.nv)
        BY <3>1, <1>4, ToSaveFields, Zenon
      <4> QED
        BY <4>1, <1>4, Zenon DEF Follows
    <3> QED
      BY <2>1, <3>2, <1>0, Zenon
  <2>2. CASE inst[p].enabled /\ file[p] = Gone
    <3>1. j = ToSave(b, f)
      BY <2>2, <1>2, <1>5, Zenon
    <3>2. /\ IsJob(j) /\ j.pc = "save" /\ j.path = p /\ j.copy = f
          /\ j.needed = NoInst /\ j.nv = Gone /\ j.v = file[p]
      <4>1. Follows(j, b, "save", f, b.needed, b.nv)
        BY <3>1, <1>4, ToSaveFields, Zenon
      <4> QED
        BY <4>1, <1>4, Zenon DEF Follows
    <3> QED
      BY <3>2, <1>6, Zenon
  <2>3. CASE inst[p].enabled /\ file[p] # Gone
    <3>1. j = b
      BY <2>3, <1>2, Zenon
    <3> QED
      BY <2>3, <3>1, <1>0, <1>4, Zenon
  <2> QED
    BY <2>1, <2>2, <2>3, Zenon
<1>8. IsInst(NoInst) /\ job[w].path \notin Paths
  BY <1>3, IdleFields, Zenon
<1>9. "validate" # "commit" /\ "save" # "commit" /\ "error" # "successful" /\ "validate" # "save"
  OBVIOUS
<1>10. JobShape(j)
  <2>1. j.pc \in {"validate", "commit", "save"} /\ j.path \in Paths
    BY <1>7, Zenon
  <2>2. j.pc \in {"validate", "commit"} => j.v \in Versions /\ j.copy.enabled
    BY <1>7, <1>9, <1>0, Zenon
  <2>3. j.nv \in Versions \cup {Gone}
    BY <1>7, Zenon
  <2> QED
    BY <2>1, <2>2, <2>3, <1>7, <1>8, Zenon DEF JobShape
<1>11. /\ job'[w] = j /\ \A u \in BWorkers : u # w => job'[u] = job[u]
       /\ job' = [u \in BWorkers |-> job'[u]] /\ \A u \in BWorkers : JobShape(job'[u])
  BY <1>0, <1>3, <1>10, OneJob, Zenon
<1>12. BlueShape'
  BY <1>0, <1>3, <1>11, Zenon DEF BlueShape
<1>13. job'[w].path = p /\ job'[w].pc # "commit" /\ ~ Committed(w)'
  <2>1. job'[w].path = p /\ job'[w].pc # "commit"
    BY <1>7, <1>9, <1>11, Zenon
  <2>2. ~ (j.pc = "save" /\ j.copy.enabled /\ j.copy.status = "successful")
    BY <1>7, <1>9, Zenon
  <2> QED
    BY <2>1, <2>2, <1>11, Zenon DEF Committed
<1>14. p \notin overlapped' => \A u \in BWorkers : ~ Inside(u, p)
  BY <1>3, Zenon DEF Applying, Inside
<1>15. overlapped \subseteq overlapped'
  BY <1>3
<1>16. ASSUME NEW q \in Paths, q # p PROVE JobsKept(q) /\ InstKept(q)
  <2>1. job[w].path # q /\ job'[w].path # q
    BY <1>8, <1>13, <1>16, Zenon
  <2>2. JobsKept(q)
    BY <2>1, <1>11, <1>13, OtherJobs, Zenon
  <2> QED
    BY <2>2, <1>3, Zenon DEF InstKept
<1>17. Sole'
  <2>1. ASSUME NEW q \in Paths \ overlapped'
        PROVE  \/ \A u \in BWorkers : Inside(u, q)' => Inside(u, q)
               \/ \E x \in BWorkers : \A u \in BWorkers : Inside(u, q)' => u = x
    <3>1. CASE q = p
      <4>1. ASSUME NEW u \in BWorkers, u # w PROVE ~ Inside(u, p)'
        <5>1. ~ Inside(u, p) /\ job'[u] = job[u]
          BY <4>1, <3>1, <1>11, <1>14, Zenon
        <5> QED
          BY <5>1, Zenon DEF Inside
      <4> QED
        BY <4>1, <3>1, Zenon
    <3>2. CASE q # p
      <4>1. JobsKept(q)
        BY <3>2, <1>16, Zenon
      <4> QED
        BY <4>1, Zenon DEF Inside, JobsKept, CopiesKept, NeededKept
    <3> QED
      BY <3>1, <3>2, Zenon
  <2> QED
    BY <2>1, <1>0, <1>15, SoleStep, Zenon
<1>18. ASSUME NEW q \in Paths \ overlapped' PROVE Replaced(q)'
  <2>0. Replaced(q)
    BY <1>15, Zenon DEF HashInv
  <2>1. CASE q = p
    <3>1. ASSUME NEW u \in BWorkers, job'[u].path = p PROVE inst'[p].pk \in {0, job'[u].copy.pk}
      <4>1. CASE u = w
        BY <4>1, <1>3, <1>7, <1>11, Zenon
      <4>2. CASE u # w
        <5>1. job[u].path = p /\ ~ Inside(u, p)
          BY <4>2, <3>1, <2>1, <1>11, <1>14, Zenon
        <5> QED
          BY <5>1, Zenon DEF Inside
      <4> QED
        BY <4>1, <4>2, Zenon
    <3> QED
      BY <2>1, <3>1, Zenon DEF Replaced
  <2>2. CASE q # p
    BY <2>0, <2>2, <1>16, ReplacedKept, Zenon DEF JobsKept
  <2> QED
    BY <2>1, <2>2, Zenon
<1>19. ASSUME NEW q \in Paths \ (overlapped' \cup torn') PROVE HashSafe(q)'
  <2>0. HashSafe(q)
    BY <1>3, <1>15, Zenon DEF HashInv
  <2>1. CASE q = p
    <3>1. ASSUME NEW u \in BWorkers, u # w PROVE job'[u].path # p /\ ~ (job'[u].pc = "commit" /\ <<job'[u].path, p>> \in Needs)
      <4>1. ~ Inside(u, p) /\ job'[u] = job[u]
        BY <3>1, <2>1, <1>11, <1>14, Zenon
      <4> QED
        BY <4>1, Zenon DEF Inside
    <3>2. NoneCommitted(p)
      BY <1>14, <2>1, Zenon DEF NoneCommitted, Inside
    <3>3. inst[p].hash = Gone \/ Reflects(inst[p].hash, obj'[p])
      BY <2>0, <2>1, <3>2, <1>3, Zenon DEF HashSafe, Trusted
    <3>4. j.copy.hash = Gone \/ Reflects(j.copy.hash, obj'[p])
      BY <3>3, <1>7, Zenon
    <3> QED
      BY <2>1, <3>1, <3>3, <3>4, <1>3, <1>11, <1>13, Zenon DEF HashSafe, Trusted
  <2>2. CASE q # p
    BY <2>0, <2>2, <1>3, <1>16, SafeKept, Zenon DEF JobsKept
  <2> QED
    BY <2>1, <2>2, Zenon
<1> QED
  BY <1>12, <1>17, <1>18, <1>19, Zenon DEF HashInv

\* A worker that applies is at a path, and one that validates has nothing to save.
LEMMA ApplierFacts ==
    ASSUME BlueShape, NEW w \in BWorkers, job[w].pc \in {"validate", "commit", "save"}
    PROVE  /\ JobShape(job[w]) /\ IsJob(job[w]) /\ IsInst(job[w].copy) /\ IsInst(job[w].needed)
           /\ job[w].path \in Paths /\ job[w].nv \in Versions \cup {Gone}
           /\ job[w].pc # "save" => ~ Committed(w) /\ job[w].v \in Versions /\ job[w].copy.enabled
<1>1. JobShape(job[w])
  BY Zenon DEF BlueShape
<1>2. job[w].pc # "save" => job[w].pc \in {"validate", "commit"}
  BY Zenon
<1> QED
  BY <1>1, <1>2, Zenon DEF JobShape, Committed

\* Importer.validate changes nothing, and what is needed is read where no other worker applies it.
LEMMA ValidateHash == ASSUME HashInv, NEW w \in BWorkers, Validate(w) PROVE HashInv'
<1> DEFINE r == job[w]
           p == job[w].path
           n == CHOOSE x \in Needed(p) : TRUE
<1>0. BlueShape /\ Sole
  BY Zenon DEF HashInv
<1>1. PICK j : j = IF ~ NeedsMet(p) \/ ~ Valid(r.v, obj[p]) THEN ToSave(r, Failed(r.copy))
                   ELSE IF Needed(p) = {} THEN [r EXCEPT !.pc = "commit"]
                   ELSE WithNeeded(r, inst[n], file[n])
  BY Zenon
<1>2. /\ r.pc = "validate" /\ job' = [job EXCEPT ![w] = j]
      /\ inst' = inst /\ obj' = obj /\ file' = file /\ torn' = torn
      /\ overlapped' = overlapped \cup {x \in Needed(p) : Applying(x) # {}}
  BY <1>1, Zenon DEF Validate, WithNeeded
<1>3. /\ JobShape(r) /\ IsJob(r) /\ IsInst(r.copy) /\ IsInst(r.needed)
      /\ p \in Paths /\ r.nv \in Versions \cup {Gone}
      /\ ~ Committed(w) /\ r.v \in Versions /\ r.copy.enabled
  <2>1. r.pc \in {"validate", "commit", "save"} /\ r.pc # "save"
    BY <1>2
  <2> QED
    BY <2>1, <1>0, ApplierFacts, Zenon
<1>4. PICK f : f = Failed(r.copy)
  OBVIOUS
<1>5. /\ IsInst(f) /\ f.hash = r.copy.hash /\ f.pk = r.copy.pk /\ f.status = "error"
      /\ f.enabled = r.copy.enabled
  <2>1. BecomesInst(f, r.copy, "error", r.copy.hash)
    BY <1>3, <1>4, FailedFields, Zenon
  <2> QED
    BY <2>1, Zenon DEF BecomesInst
<1>6. Needed(p) # {} => n \in Paths /\ <<p, n>> \in Needs
  BY Zenon DEF Needed
<1>7. \A q \in Paths : <<p, q>> \in Needs => q # p /\ \A x \in Paths : <<p, x>> \in Needs => x = q
  BY <1>3, BlueprintAssumption, Zenon
<1>8. /\ IsJob(j) /\ j.path = p /\ j.v = r.v
      /\ IsInst(j.copy) /\ j.copy.hash = r.copy.hash /\ j.copy.pk = r.copy.pk
      /\ IsInst(j.needed) /\ j.nv \in Versions \cup {Gone}
      /\ j.copy.enabled
      /\ \/ j.pc = "save"
         \/ j.pc = "commit" /\ \A q \in Paths : <<p, q>> \in Needs => j.needed = inst[q]
  <2> HIDE DEF n, r, p
  <2>1. CASE ~ NeedsMet(p) \/ ~ Valid(r.v, obj[p])
    <3>1. j = ToSave(r, f)
      BY <2>1, <1>1, <1>4, Zenon
    <3>2. /\ IsJob(j) /\ j.pc = "save" /\ j.path = r.path /\ j.copy = f
          /\ j.needed = r.needed /\ j.nv = r.nv /\ j.v = r.v
      <4>1. Follows(j, r, "save", f, r.needed, r.nv)
        BY <3>1, <1>3, ToSaveFields, Zenon
      <4> QED
        BY <4>1, Zenon DEF Follows
    <3>3. r.path = p
      BY DEF r, p
    <3> QED
      BY <3>2, <3>3, <1>3, <1>5, Zenon
  <2>2. CASE ~ (~ NeedsMet(p) \/ ~ Valid(r.v, obj[p])) /\ Needed(p) = {}
    <3>1. j = [r EXCEPT !.pc = "commit"]
      BY <2>2, <1>1, Zenon
    <3>2. /\ IsJob(j) /\ j.pc = "commit" /\ j.path = r.path /\ j.copy = r.copy
          /\ j.needed = r.needed /\ j.nv = r.nv /\ j.v = r.v
      <4>1. Follows(j, r, "commit", r.copy, r.needed, r.nv)
        BY <3>1, <1>3, CommitFields, Zenon
      <4> QED
        BY <4>1, Zenon DEF Follows
    <3>3. r.path = p
      BY DEF r, p
    <3>4. \A q \in Paths : <<p, q>> \notin Needs
      BY <2>2, Zenon DEF Needed
    <3> QED
      BY <3>2, <3>3, <3>4, <1>3, Zenon
  <2>3. CASE ~ (~ NeedsMet(p) \/ ~ Valid(r.v, obj[p])) /\ Needed(p) # {}
    <3>1. j = WithNeeded(r, inst[n], file[n])
      BY <2>3, <1>1, Zenon
    <3>2. /\ IsJob(j) /\ j.pc = "commit" /\ j.path = r.path /\ j.copy = r.copy
          /\ j.needed = inst[n] /\ j.nv = file[n] /\ j.v = r.v
      <4>1. Follows(j, r, "commit", r.copy, inst[n], file[n])
        BY <3>1, <1>3, NeededFields, Zenon
      <4> QED
        BY <4>1, Zenon DEF Follows
    <3>3. r.path = p
      BY DEF r, p
    <3>4. n \in Paths /\ \A q \in Paths : <<p, q>> \in Needs => q = n
      BY <2>3, <1>6, <1>7, Zenon
    <3>5. IsInst(inst[n]) /\ file[n] \in Versions \cup {Gone}
      BY <3>4, <1>0, Zenon DEF BlueShape
    <3> QED
      BY <3>2, <3>3, <3>4, <3>5, <1>3, Zenon
  <2> QED
    BY <2>1, <2>2, <2>3, Zenon
<1> HIDE DEF n, r
<1>9. JobShape(j)
  <2>1. j.pc \in {"validate", "commit", "save"} /\ j.path \in Paths
    BY <1>8, <1>3, Zenon
  <2> QED
    BY <2>1, <1>3, <1>8, Zenon DEF JobShape
<1>10. /\ job'[w] = j /\ \A u \in BWorkers : u # w => job'[u] = job[u]
       /\ job' = [u \in BWorkers |-> job'[u]] /\ \A u \in BWorkers : JobShape(job'[u])
  BY <1>0, <1>2, <1>9, OneJob, Zenon
<1>11. BlueShape'
  BY <1>0, <1>2, <1>10, Zenon DEF BlueShape
<1>12. overlapped \subseteq overlapped'
  BY <1>2
<1>13. ASSUME NEW q \in Paths, <<p, q>> \notin Needs \/ j.pc = "save" PROVE JobsKept(q)
  <2>1. job'[w].path = job[w].path /\ job'[w].copy.pk = job[w].copy.pk
        /\ job'[w].copy.hash = job[w].copy.hash
    BY <1>8, <1>10, Zenon DEF r
  <2>2. "save" # "commit"
    OBVIOUS
  <2>3. job'[w].pc = "commit" => <<job'[w].path, q>> \notin Needs
    BY <1>8, <1>10, <1>13, <2>2, Zenon
  <2> QED
    BY <2>1, <2>3, <1>3, <1>10, OwnJob, Zenon
<1>14. ASSUME NEW q \in Paths \ overlapped', <<p, q>> \in Needs, j.pc = "commit"
       PROVE  /\ \A u \in BWorkers : ~ Inside(u, q)
              /\ \A u \in BWorkers : Inside(u, q)' => u = w
  <2>1. Applying(q) = {}
    BY <1>2, <1>14, Zenon DEF Needed
  <2>2. \A u \in BWorkers : ~ Inside(u, q)
    BY <2>1, Zenon DEF Applying, Inside
  <2>3. ASSUME NEW u \in BWorkers, u # w PROVE ~ Inside(u, q)'
    <3>1. job'[u] = job[u]
      BY <2>3, <1>10, Zenon
    <3> QED
      BY <3>1, <2>2, Zenon DEF Inside
  <2> QED
    BY <2>2, <2>3, Zenon
<1>15. ASSUME NEW q \in Paths \ overlapped'
       PROVE JobsKept(q) \/ (<<p, q>> \in Needs /\ j.pc = "commit")
  BY <1>8, <1>13, Zenon
<1>16. Sole'
  <2>1. ASSUME NEW q \in Paths \ overlapped'
        PROVE  \/ \A u \in BWorkers : Inside(u, q)' => Inside(u, q)
               \/ \E x \in BWorkers : \A u \in BWorkers : Inside(u, q)' => u = x
    <3>1. CASE JobsKept(q)
      BY <3>1, Zenon DEF Inside, JobsKept, CopiesKept, NeededKept
    <3>2. CASE <<p, q>> \in Needs /\ j.pc = "commit"
      BY <3>2, <1>14, Zenon
    <3> QED
      BY <3>1, <3>2, <1>15, Zenon
  <2> QED
    BY <2>1, <1>0, <1>12, SoleStep, Zenon
<1>17. ASSUME NEW q \in Paths PROVE InstKept(q)
  BY <1>2, Zenon DEF InstKept
<1>18. ASSUME NEW q \in Paths \ overlapped', <<p, q>> \in Needs, j.pc = "commit"
       PROVE  \A u \in BWorkers : job'[u].path # q
  <2>1. q # p /\ job'[w].path = p
    BY <1>7, <1>8, <1>10, <1>18, Zenon
  <2> QED
    BY <2>1, <1>14, <1>18, Zenon DEF Inside
<1>19. ASSUME NEW q \in Paths \ overlapped' PROVE Replaced(q)'
  <2>0. Replaced(q)
    BY <1>12, Zenon DEF HashInv
  <2>1. CASE JobsKept(q)
    BY <2>0, <2>1, <1>17, ReplacedKept, Zenon DEF JobsKept
  <2>2. CASE <<p, q>> \in Needs /\ j.pc = "commit"
    BY <2>2, <1>18, Zenon DEF Replaced
  <2> QED
    BY <2>1, <2>2, <1>15, Zenon
<1>20. ASSUME NEW q \in Paths \ (overlapped' \cup torn') PROVE HashSafe(q)'
  <2>0. HashSafe(q)
    BY <1>2, <1>12, Zenon DEF HashInv
  <2>1. CASE JobsKept(q)
    BY <2>0, <2>1, <1>2, <1>17, SafeKept, Zenon DEF JobsKept
  <2>2. CASE <<p, q>> \in Needs /\ j.pc = "commit"
    <3>1. NoneCommitted(q)
      BY <2>2, <1>14, Zenon DEF NoneCommitted, Inside
    <3>2. inst[q].hash = Gone \/ Reflects(inst[q].hash, obj'[q])
      BY <2>0, <3>1, <1>2, Zenon DEF HashSafe, Trusted
    <3>3. j.needed = inst[q]
      <4>1. "save" # "commit"
        OBVIOUS
      <4> QED
        BY <4>1, <2>2, <1>8, Zenon
    <3>4. ASSUME NEW u \in BWorkers, job'[u].pc = "commit", <<job'[u].path, q>> \in Needs
          PROVE  job'[u].needed.hash = Gone \/ Reflects(job'[u].needed.hash, obj'[q])
      <4>1. u = w
        BY <3>4, <2>2, <1>14, Zenon DEF Inside
      <4> QED
        BY <4>1, <3>2, <3>3, <1>10, Zenon
    <3> QED
      BY <2>2, <3>2, <3>4, <1>2, <1>18, Zenon DEF HashSafe, Trusted
  <2> QED
    BY <2>1, <2>2, <1>15, Zenon
<1> QED
  BY <1>11, <1>16, <1>19, <1>20, Zenon DEF HashInv

\* The instance a nested application leaves, and its hash.
LEMMA NestedFields ==
    ASSUME NEW w, NEW q, IsInst(job[w].needed)
    PROVE  /\ IsInst(NestedCopy(w, q))
           /\ NestedWorks(w, q) => NestedCopy(w, q).hash = job[w].nv
           /\ ~ NestedWorks(w, q) => NestedCopy(w, q).hash = job[w].needed.hash
<1>1. PICK n : n = job[w].needed
  OBVIOUS
<1>2. PICK d : d = Done(n, job[w].nv)
  OBVIOUS
<1>3. PICK f : f = Failed(n)
  OBVIOUS
<1>4. IsInst(d) /\ d.hash = job[w].nv
  <2>1. BecomesInst(d, n, "successful", job[w].nv)
    BY <1>1, <1>2, DoneFields, Zenon
  <2> QED
    BY <2>1, Zenon DEF BecomesInst
<1>5. IsInst(f) /\ f.hash = n.hash
  <2>1. BecomesInst(f, n, "error", n.hash)
    BY <1>1, <1>3, FailedFields, Zenon
  <2> QED
    BY <2>1, Zenon DEF BecomesInst
<1>6. NestedWorks(w, q) => n.enabled
  BY <1>1, Zenon DEF NestedWorks
<1>7. NestedCopy(w, q) = IF ~ n.enabled THEN n ELSE IF NestedWorks(w, q) THEN d ELSE f
  BY <1>1, <1>2, <1>3, Zenon DEF NestedCopy
<1> QED
  BY <1>1, <1>4, <1>5, <1>6, <1>7, Zenon

\* Importer.apply: what is written is what the new hashes stand for.
LEMMA CommitHash == ASSUME HashInv, NEW w \in BWorkers, Commit(w) PROVE HashInv'
<1> DEFINE r == job[w]
<1>p. PICK p : p = job[w].path
  OBVIOUS
<1>0. BlueShape /\ Sole
  BY Zenon DEF HashInv
<1>1. /\ r.pc = "commit" /\ file' = file /\ overlapped' = overlapped
      /\ \/ /\ CanCommit(w, p) /\ Write(w, p)
            /\ job' = [job EXCEPT ![w] = ToSave(r, Done(r.copy, r.v))]
         \/ /\ obj' = obj /\ inst' = inst /\ torn' = torn
            /\ job' = [job EXCEPT ![w] = ToSave(r, Failed(r.copy))]
  BY <1>p, Zenon DEF Commit
<1>2. /\ JobShape(r) /\ IsJob(r) /\ IsInst(r.copy) /\ IsInst(r.needed)
      /\ p \in Paths /\ r.nv \in Versions \cup {Gone}
      /\ ~ Committed(w) /\ r.v \in Versions /\ r.copy.enabled
  <2>1. r.pc \in {"validate", "commit", "save"} /\ r.pc # "save"
    BY <1>1
  <2> QED
    BY <2>1, <1>p, <1>0, ApplierFacts, Zenon
<1>3. \A q \in Paths : <<p, q>> \in Needs => q # p
  BY <1>2, BlueprintAssumption, Zenon
<1>4. "save" # "commit"
  OBVIOUS
<1>5. ASSUME NEW c, IsInst(c), c.pk = r.copy.pk,
             NEW j, j = ToSave(r, c), job' = [job EXCEPT ![w] = j]
      PROVE  /\ job'[w] = j /\ \A u \in BWorkers : u # w => job'[u] = job[u]
             /\ job' = [u \in BWorkers |-> job'[u]] /\ \A u \in BWorkers : JobShape(job'[u])
             /\ j.path = p /\ j.pc = "save" /\ j.copy = c
  <2> HIDE DEF r
  <2>1. /\ IsJob(j) /\ j.pc = "save" /\ j.path = r.path /\ j.copy = c
        /\ j.needed = r.needed /\ j.nv = r.nv /\ j.v = r.v
    <3>1. Follows(j, r, "save", c, r.needed, r.nv)
      BY <1>5, <1>2, ToSaveFields, Zenon
    <3> QED
      BY <3>1, Zenon DEF Follows
  <2>2. r.path = p
    BY <1>p, Zenon DEF r
  <2>3. j.pc \in {"validate", "commit", "save"} /\ j.path \in Paths
    BY <2>1, <2>2, <1>2, Zenon
  <2>4. j.pc \notin {"validate", "commit"}
    BY <2>1
  <2>5. JobShape(j)
    BY <2>1, <2>3, <2>4, <1>2, <1>5, Zenon DEF JobShape
  <2> QED
    BY <2>1, <2>2, <2>5, <1>0, <1>5, OneJob, Zenon
<1>6. CASE obj' = obj /\ inst' = inst /\ torn' = torn
           /\ job' = [job EXCEPT ![w] = ToSave(r, Failed(r.copy))]
  <2>1. PICK f : f = Failed(r.copy)
    OBVIOUS
  <2>2. IsInst(f) /\ f.hash = r.copy.hash /\ f.pk = r.copy.pk
    <3>1. BecomesInst(f, r.copy, "error", r.copy.hash)
      BY <2>1, <1>2, FailedFields, Zenon
    <3> QED
      BY <3>1, Zenon DEF BecomesInst
  <2>3. PICK j : j = ToSave(r, f)
    OBVIOUS
  <2>4. /\ job'[w] = j /\ \A u \in BWorkers : u # w => job'[u] = job[u]
        /\ job' = [u \in BWorkers |-> job'[u]] /\ \A u \in BWorkers : JobShape(job'[u])
        /\ j.path = p /\ j.pc = "save" /\ j.copy = f
    BY <2>1, <2>2, <2>3, <1>5, <1>6, Zenon
  <2>5. BlueShape'
    BY <2>4, <1>0, <1>1, <1>6, Zenon DEF BlueShape
  <2>6. ASSUME NEW q \in Paths PROVE InstKept(q) /\ JobsKept(q)
    <3>1. InstKept(q)
      BY <1>6, Zenon DEF InstKept
    <3>2. /\ job'[w].path = job[w].path /\ job'[w].copy.pk = job[w].copy.pk
          /\ job'[w].copy.hash = job[w].copy.hash
          /\ (job'[w].pc = "commit" => <<job'[w].path, q>> \notin Needs)
      BY <2>2, <2>4, <1>p, <1>4, Zenon
    <3> QED
      BY <3>1, <3>2, <2>4, <1>2, OwnJob, Zenon
  <2> QED
    BY <2>5, <2>6, <1>1, <1>6, KeptStep, Zenon
<1>7. CASE CanCommit(w, p) /\ Write(w, p)
           /\ job' = [job EXCEPT ![w] = ToSave(r, Done(r.copy, r.v))]
  <2>1. PICK d : d = Done(r.copy, r.v)
    OBVIOUS
  <2>2. /\ IsInst(d) /\ d.hash = r.v /\ d.pk = r.copy.pk /\ d.status = "successful"
        /\ d.enabled = r.copy.enabled
    <3>1. BecomesInst(d, r.copy, "successful", r.v)
      BY <2>1, <1>2, DoneFields, Zenon
    <3> QED
      BY <3>1, Zenon DEF BecomesInst
  <2>3. PICK j : j = ToSave(r, d)
    OBVIOUS
  <2>4. /\ job'[w] = j /\ \A u \in BWorkers : u # w => job'[u] = job[u]
        /\ job' = [u \in BWorkers |-> job'[u]] /\ \A u \in BWorkers : JobShape(job'[u])
        /\ j.path = p /\ j.pc = "save" /\ j.copy = d
    BY <2>1, <2>2, <2>3, <1>5, <1>7, Zenon
  <2>5. /\ obj' = [x \in Paths |-> IF x = p THEN Applied(r.v, obj[p])
                     ELSE IF x \in Needed(p) /\ NestedWorks(w, x) THEN Applied(r.nv, obj[x])
                     ELSE obj[x]]
        /\ inst' = [x \in Paths |-> IF x \in Needed(p) THEN NestedCopy(w, x) ELSE inst[x]]
        /\ torn' = torn \ ({p} \cup {x \in Needed(p) : NestedWorks(w, x)})
    BY <1>7, Zenon DEF Write
  <2>6. \A q \in Paths : q \in Needed(p) <=> <<p, q>> \in Needs
    BY Zenon DEF Needed
  <2>7. /\ inst' = [q \in Paths |-> inst'[q]]
        /\ \A q \in Paths : inst'[q] = IF <<p, q>> \in Needs THEN NestedCopy(w, q) ELSE inst[q]
    BY <2>5, <2>6, Zenon
  <2>8. ASSUME NEW q \in Paths PROVE IsInst(inst'[q])
    <3>1. IsInst(inst[q]) /\ IsInst(NestedCopy(w, q))
      BY <1>0, <1>2, NestedFields, Zenon DEF BlueShape
    <3> QED
      BY <3>1, <2>7, Zenon
  <2>9. BlueShape'
    BY <2>4, <2>7, <2>8, <1>0, <1>1, Zenon DEF BlueShape
  <2>10. Inside(w, p) /\ \A q \in Paths : <<p, q>> \in Needs => Inside(w, q)
    BY <1>1, <1>p, Zenon DEF Inside
  <2>11. ASSUME NEW q \in Paths \ overlapped, q = p \/ <<p, q>> \in Needs,
                NEW u \in BWorkers, u # w
         PROVE  job'[u] = job[u] /\ ~ Inside(u, q)
    BY <2>4, <2>10, <2>11, <1>0, Zenon DEF Sole
  <2>12. job'[w].path = p /\ job'[w].pc # "commit" /\ job'[w].copy = d
    BY <2>4, <1>4, Zenon
  <2>13. ASSUME NEW q \in Paths, q # p, <<p, q>> \notin Needs
         PROVE  /\ obj'[q] = obj[q] /\ InstKept(q) /\ JobsKept(q)
                /\ q \notin torn' => q \notin torn
    <3>1. obj'[q] = obj[q]
      BY <2>5, <2>6, <2>13, Zenon
    <3>2. InstKept(q)
      BY <2>7, <2>13, Zenon DEF InstKept
    <3>3. job'[w].path # q /\ (job[w].path = q => ~ Committed(w))
      BY <2>12, <2>13, <1>2, Zenon
    <3>4. JobsKept(q)
      BY <3>3, <2>4, <2>12, OtherJobs, Zenon
    <3>5. q \notin torn' => q \notin torn
      BY <2>5, <2>6, <2>13, Zenon
    <3> QED
      BY <3>1, <3>2, <3>4, <3>5, Zenon
  <2>14. ASSUME NEW q \in Paths \ overlapped, <<p, q>> \in Needs, NEW u \in BWorkers
         PROVE  ~ Inside(u, q)'
    <3>1. CASE u = w
      BY <3>1, <2>12, <2>14, <1>3, Zenon DEF Inside
    <3>2. CASE u # w
      <4>1. job'[u] = job[u] /\ ~ Inside(u, q)
        BY <3>2, <2>11, <2>14, Zenon
      <4> QED
        BY <4>1, Zenon DEF Inside
    <3> QED
      BY <3>1, <3>2, Zenon
  <2>15. ASSUME NEW u \in BWorkers, u # w, p \notin overlapped PROVE ~ Inside(u, p)'
    <3>1. job'[u] = job[u] /\ ~ Inside(u, p)
      BY <2>11, <2>15, <1>2, Zenon
    <3> QED
      BY <3>1, Zenon DEF Inside
  <2>16. Sole'
    <3>1. ASSUME NEW q \in Paths \ overlapped'
          PROVE  \/ \A u \in BWorkers : Inside(u, q)' => Inside(u, q)
                 \/ \E x \in BWorkers : \A u \in BWorkers : Inside(u, q)' => u = x
      <4>1. CASE q = p
        BY <4>1, <2>15, <1>1, Zenon
      <4>2. CASE <<p, q>> \in Needs
        BY <4>2, <2>14, <1>1, Zenon
      <4>3. CASE q # p /\ <<p, q>> \notin Needs
        <5>1. JobsKept(q)
          BY <4>3, <2>13, Zenon
        <5> QED
          BY <5>1, Zenon DEF Inside, JobsKept, CopiesKept, NeededKept
      <4> QED
        BY <4>1, <4>2, <4>3, Zenon
    <3>2. overlapped \subseteq overlapped'
      BY <1>1
    <3> QED
      BY <3>1, <3>2, <1>0, SoleStep, Zenon
  <2>17. ASSUME NEW q \in Paths \ overlapped' PROVE Replaced(q)'
    <3>0. Replaced(q) /\ q \in Paths \ overlapped
      BY <1>1, Zenon DEF HashInv
    <3>1. CASE q = p
      <4>1. inst'[p] = inst[p]
        BY <2>7, <1>2, <1>3, Zenon
      <4>2. ASSUME NEW u \in BWorkers, job'[u].path = p
            PROVE  job[u].path = p /\ job'[u].copy.pk = job[u].copy.pk
        BY <4>2, <2>2, <2>4, <1>p, Zenon
      <4>3. ASSUME NEW u \in BWorkers, job'[u].path = p
            PROVE  inst'[p].pk \in {0, job'[u].copy.pk} \/ inst'[p].hash = Gone
        <5>1. inst[p].pk \in {0, job[u].copy.pk} \/ inst[p].hash = Gone
          BY <4>2, <4>3, <3>0, <3>1, Zenon DEF Replaced
        <5> QED
          BY <5>1, <4>1, <4>2, <4>3, Zenon
      <4> QED
        BY <3>1, <4>3, Zenon DEF Replaced
    <3>2. CASE <<p, q>> \in Needs
      BY <3>0, <3>2, <2>14, Zenon DEF Replaced, Inside
    <3>3. CASE q # p /\ <<p, q>> \notin Needs
      BY <3>0, <3>3, <2>13, ReplacedKept, Zenon DEF JobsKept
    <3> QED
      BY <3>1, <3>2, <3>3, Zenon
  <2>18. ASSUME NEW q \in Paths \ (overlapped' \cup torn') PROVE HashSafe(q)'
    <3>0. q \in Paths \ overlapped /\ q \notin torn'
      BY <1>1, Zenon
    <3>1. CASE q = p
      <4>1. Valid(r.v, obj[p])
        BY <1>7, Zenon DEF CanCommit
      <4>2. Reflects(r.v, obj'[p])
        <5>1. obj'[p] = Applied(r.v, obj[p])
          BY <2>5, <1>2, Zenon
        <5> QED
          BY <5>1, <4>1, <1>2, AppliedReflects, Zenon
      <4>3. Committed(w)'
        BY <2>2, <2>4, <1>2, Zenon DEF Committed
      <4>4. ~ NoneCommitted(p)'
        BY <4>3, <2>12, Zenon DEF NoneCommitted
      <4>5. ASSUME NEW u \in BWorkers, job'[u].path = p
            PROVE  Reflects(job'[u].copy.hash, obj'[p])
        <5>1. u = w
          BY <4>5, <3>0, <3>1, <2>15, Zenon DEF Inside
        <5> QED
          BY <5>1, <4>2, <2>2, <2>12, Zenon
      <4>6. ASSUME NEW u \in BWorkers, job'[u].pc = "commit", <<job'[u].path, p>> \in Needs
            PROVE  FALSE
        BY <4>6, <3>0, <3>1, <2>12, <2>15, Zenon DEF Inside
      <4> QED
        BY <3>1, <4>4, <4>5, <4>6, Zenon DEF HashSafe, Trusted
    <3>2. CASE <<p, q>> \in Needs
      <4>1. ASSUME NEW u \in BWorkers
            PROVE  job'[u].path # q /\ ~ (job'[u].pc = "commit" /\ <<job'[u].path, q>> \in Needs)
        BY <3>0, <3>2, <2>14, Zenon DEF Inside
      <4>2. inst'[q] = NestedCopy(w, q) /\ q # p
        BY <3>2, <2>7, <1>3, Zenon
      <4>3. CASE NestedWorks(w, q)
        <5>1. obj'[q] = Applied(r.nv, obj[q])
          BY <4>2, <4>3, <3>2, <2>5, <2>6, Zenon
        <5>2. r.nv \in Versions /\ Valid(r.nv, obj[q])
          BY <4>3, <1>2, Zenon DEF NestedWorks
        <5>3. Reflects(r.nv, obj'[q])
          BY <5>1, <5>2, AppliedReflects, Zenon
        <5>4. inst'[q].hash = r.nv
          BY <4>2, <4>3, <1>2, NestedFields, Zenon
        <5> QED
          BY <5>3, <5>4, <4>1, Zenon DEF HashSafe, Trusted
      <4>4. CASE ~ NestedWorks(w, q)
        <5>1. obj'[q] = obj[q] /\ q \notin torn
          BY <4>2, <4>4, <3>0, <2>5, <2>6, Zenon
        <5>2. HashSafe(q)
          BY <5>1, <3>0, Zenon DEF HashInv
        <5>3. r.needed.hash = Gone \/ Reflects(r.needed.hash, obj'[q])
          BY <5>1, <5>2, <3>2, <1>1, <1>p, Zenon DEF HashSafe, Trusted
        <5>4. inst'[q].hash = r.needed.hash
          BY <4>2, <4>4, <1>2, NestedFields, Zenon
        <5> QED
          BY <5>3, <5>4, <4>1, Zenon DEF HashSafe, Trusted
      <4> QED
        BY <4>3, <4>4, Zenon
    <3>3. CASE q # p /\ <<p, q>> \notin Needs
      <4>1. obj'[q] = obj[q] /\ InstKept(q) /\ JobsKept(q) /\ q \notin torn
        BY <3>0, <3>3, <2>13, Zenon
      <4>2. HashSafe(q)
        BY <4>1, <3>0, Zenon DEF HashInv
      <4> QED
        BY <4>1, <4>2, SafeKept, Zenon DEF JobsKept
    <3> QED
      BY <3>1, <3>2, <3>3, Zenon
  <2> QED
    BY <2>9, <2>16, <2>17, <2>18, Zenon DEF HashInv
<1> QED
  BY <1>1, <1>6, <1>7, Zenon

\* The finally clause saves a hash that can be trusted, or leaves the instance that took its place.
LEMMA SaveHash == ASSUME HashInv, NEW w \in BWorkers, Save(w) PROVE HashInv'
<1> DEFINE r == job[w]
<1>p. PICK p : p = job[w].path
  OBVIOUS
<1>0. BlueShape /\ Sole
  BY Zenon DEF HashInv
<1>1. /\ r.pc = "save" /\ file' = file /\ obj' = obj /\ overlapped' = overlapped /\ torn' = torn
      /\ inst' = IF CanSave(p, r.copy) THEN [inst EXCEPT ![p] = r.copy] ELSE inst
      /\ job' = [job EXCEPT ![w] = Idle]
  BY <1>p DEF Save, history
<1>2. IsInst(r.copy) /\ p \in Paths
  <2>1. r.pc \in {"validate", "commit", "save"}
    BY <1>1
  <2> QED
    BY <2>1, <1>p, <1>0, ApplierFacts, Zenon
<1>3. JobShape(Idle) /\ Idle.pc = "idle" /\ Idle.path \notin Paths /\ NoInst.pk = 0
  BY IdleFields, Zenon
<1>4. /\ job'[w] = Idle /\ \A u \in BWorkers : u # w => job'[u] = job[u]
      /\ job' = [u \in BWorkers |-> job'[u]] /\ \A u \in BWorkers : JobShape(job'[u])
  BY <1>0, <1>1, <1>3, OneJob, Zenon
<1>5. /\ inst' = [q \in Paths |-> inst'[q]] /\ \A q \in Paths : IsInst(inst'[q])
      /\ \A q \in Paths : q # p => inst'[q] = inst[q]
      /\ inst'[p] = IF CanSave(p, r.copy) THEN r.copy ELSE inst[p]
  <2>1. CASE CanSave(p, r.copy)
    <3>1. inst' = [inst EXCEPT ![p] = r.copy]
      BY <2>1, <1>1, Zenon
    <3>2. /\ inst'[p] = r.copy /\ \A q \in Paths : q # p => inst'[q] = inst[q]
          /\ inst' = [q \in Paths |-> inst'[q]] /\ \A q \in Paths : IsInst(inst'[q])
      BY <3>1, <1>0, <1>2, OneInst, Zenon
    <3> QED
      BY <2>1, <3>2, Zenon
  <2>2. CASE ~ CanSave(p, r.copy)
    <3>1. inst' = inst
      BY <2>2, <1>1, Zenon
    <3> QED
      BY <2>2, <3>1, <1>0, Zenon DEF BlueShape
  <2> QED
    BY <2>1, <2>2, Zenon
<1>6. BlueShape'
  BY <1>0, <1>1, <1>4, <1>5, Zenon DEF BlueShape
<1>7. job'[w].path \notin Paths /\ job'[w].pc # "commit"
  BY <1>3, <1>4
<1>8. ASSUME NEW q \in Paths, q # p PROVE InstKept(q) /\ JobsKept(q)
  <2>1. InstKept(q)
    BY <1>5, <1>8, Zenon DEF InstKept
  <2>2. job'[w].path # q /\ job[w].path # q
    BY <1>7, <1>8, <1>p, Zenon
  <2> QED
    BY <2>1, <2>2, <1>4, <1>7, OtherJobs, Zenon
<1>9. ASSUME p \notin overlapped, NEW u \in BWorkers PROVE ~ Inside(u, p)'
  <2>1. CASE u = w
    BY <2>1, <1>2, <1>7, Zenon DEF Inside
  <2>2. CASE u # w
    <3>1. Inside(w, p)
      BY <1>p, Zenon DEF Inside
    <3>2. ~ Inside(u, p) /\ job'[u] = job[u]
      BY <2>2, <3>1, <1>0, <1>2, <1>4, <1>9, Zenon DEF Sole
    <3> QED
      BY <3>2, Zenon DEF Inside
  <2> QED
    BY <2>1, <2>2, Zenon
<1>10. Sole'
  <2>1. ASSUME NEW q \in Paths \ overlapped', NEW u \in BWorkers, Inside(u, q)' PROVE Inside(u, q)
    <3>1. CASE q = p
      BY <3>1, <2>1, <1>1, <1>9, Zenon
    <3>2. CASE q # p
      <4>1. JobsKept(q)
        BY <3>2, <1>8, Zenon
      <4> QED
        BY <4>1, <2>1, Zenon DEF Inside, JobsKept, CopiesKept, NeededKept
    <3> QED
      BY <3>1, <3>2, Zenon
  <2>2. overlapped \subseteq overlapped'
    BY <1>1
  <2> QED
    BY <2>1, <2>2, <1>0, SoleStep, Zenon
<1>11. ASSUME NEW q \in Paths \ overlapped' PROVE Replaced(q)'
  <2>0. Replaced(q) /\ q \in Paths \ overlapped
    BY <1>1, Zenon DEF HashInv
  <2>1. CASE q = p
    BY <2>0, <2>1, <1>9, Zenon DEF Replaced, Inside
  <2>2. CASE q # p
    BY <2>0, <2>2, <1>8, ReplacedKept, Zenon DEF JobsKept
  <2> QED
    BY <2>1, <2>2, Zenon
<1>12. ASSUME NEW q \in Paths \ (overlapped' \cup torn') PROVE HashSafe(q)'
  <2>0. HashSafe(q) /\ Replaced(q) /\ q \in Paths \ overlapped
    BY <1>1, Zenon DEF HashInv
  <2>1. CASE q = p
    <3>1. r.copy.hash = Gone \/ Reflects(r.copy.hash, obj'[p])
      BY <2>0, <2>1, <1>1, <1>p, Zenon DEF HashSafe, Trusted
    <3>2. inst'[p].hash = Gone \/ Reflects(inst'[p].hash, obj'[p])
      <4>1. CASE CanSave(p, r.copy)
        BY <4>1, <3>1, <1>5, Zenon
      <4>2. CASE ~ CanSave(p, r.copy)
        <5>1. inst[p].hash = Gone
          BY <4>2, <2>0, <2>1, <1>3, <1>p, Zenon DEF Replaced, CanSave
        <5> QED
          BY <5>1, <4>2, <1>5, Zenon
      <4> QED
        BY <4>1, <4>2, Zenon
    <3>3. ASSUME NEW u \in BWorkers
          PROVE  job'[u].path # p /\ ~ (job'[u].pc = "commit" /\ <<job'[u].path, p>> \in Needs)
      BY <2>0, <2>1, <1>9, Zenon DEF Inside
    <3> QED
      BY <2>1, <3>2, <3>3, Zenon DEF HashSafe, Trusted
  <2>2. CASE q # p
    BY <2>0, <2>2, <1>1, <1>8, SafeKept, Zenon DEF JobsKept
  <2> QED
    BY <2>1, <2>2, Zenon
<1> QED
  BY <1>6, <1>10, <1>11, <1>12, Zenon DEF HashInv

\* A crash loses a copy; one that was committed makes the path a torn one.
LEMMA CrashHash == ASSUME HashInv, NEW w \in BWorkers, Crash(w) PROVE HashInv'
<1>0. BlueShape /\ Sole
  BY Zenon DEF HashInv
<1>1. /\ file' = file /\ obj' = obj /\ inst' = inst /\ overlapped' = overlapped
      /\ job' = [job EXCEPT ![w] = Idle]
      /\ torn' = IF Committed(w) THEN torn \cup {job[w].path} ELSE torn
  BY DEF Crash
<1>3. JobShape(Idle) /\ Idle.pc = "idle" /\ Idle.path \notin Paths
  BY IdleFields, Zenon
<1>4. /\ job'[w] = Idle /\ \A u \in BWorkers : u # w => job'[u] = job[u]
      /\ job' = [u \in BWorkers |-> job'[u]] /\ \A u \in BWorkers : JobShape(job'[u])
  BY <1>0, <1>1, <1>3, OneJob, Zenon
<1>6. BlueShape'
  BY <1>0, <1>1, <1>4, Zenon DEF BlueShape
<1>7. job'[w].path \notin Paths /\ job'[w].pc # "commit"
  BY <1>3, <1>4
<1>8. ASSUME NEW q \in Paths PROVE InstKept(q) /\ CopiesKept(q) /\ NeededKept(q)
  <2>1. InstKept(q)
    BY <1>1, Zenon DEF InstKept
  <2>2. CopiesKept(q)
    BY <1>4, <1>7, Zenon DEF CopiesKept
  <2>3. NeededKept(q)
    BY <1>4, <1>7, Zenon DEF NeededKept
  <2> QED
    BY <2>1, <2>2, <2>3, Zenon
<1>10. Sole'
  <2>1. ASSUME NEW q \in Paths \ overlapped', NEW u \in BWorkers, Inside(u, q)' PROVE Inside(u, q)
    BY <2>1, <1>8, Zenon DEF Inside, CopiesKept, NeededKept
  <2>2. overlapped \subseteq overlapped'
    BY <1>1
  <2> QED
    BY <2>1, <2>2, <1>0, SoleStep, Zenon
<1>11. ASSUME NEW q \in Paths \ overlapped' PROVE Replaced(q)'
  <2>0. Replaced(q)
    BY <1>1, Zenon DEF HashInv
  <2> QED
    BY <2>0, <1>8, ReplacedKept, Zenon
<1>12. ASSUME NEW q \in Paths \ (overlapped' \cup torn') PROVE HashSafe(q)'
  <2>1. q \notin torn /\ ~ (Committed(w) /\ job[w].path = q)
    BY <1>1, Zenon
  <2>2. HashSafe(q)
    BY <2>1, <1>1, Zenon DEF HashInv
  <2>3. job'[w].path # q /\ (job[w].path = q => ~ Committed(w))
    BY <2>1, <1>7, Zenon
  <2>4. JobsKept(q)
    BY <2>3, <1>4, <1>7, OtherJobs, Zenon
  <2> QED
    BY <2>2, <2>4, <1>1, <1>8, SafeKept, Zenon DEF JobsKept
<1> QED
  BY <1>6, <1>10, <1>11, <1>12, Zenon DEF HashInv

\* The invariant holds at first.
LEMMA HashInit == BlueprintInit => HashInv
<1> SUFFICES ASSUME BlueprintInit PROVE HashInv
  OBVIOUS
<1>1. /\ file \in [Paths -> {1, Gone}] /\ inst = [p \in Paths |-> NoInst]
      /\ job = [w \in BWorkers |-> Idle]
  BY DEF BlueprintInit
<1>2. /\ JobShape(Idle) /\ Idle.pc = "idle" /\ Idle.path \notin Paths /\ IsInst(NoInst)
      /\ NoInst.hash = Gone
  BY IdleFields, Zenon
<1>3. "idle" # "commit"
  OBVIOUS
<1>4. \A w \in BWorkers : job[w] = Idle
  BY <1>1, Zenon
<1>5. \A p \in Paths : inst[p] = NoInst
  BY <1>1, Zenon
<1>6. file = [p \in Paths |-> file[p]] /\ \A p \in Paths : file[p] \in Versions \cup {Gone}
  BY <1>1, BlueprintAssumption
<1>7. BlueShape
  BY <1>1, <1>2, <1>4, <1>5, <1>6, Zenon DEF BlueShape
<1>8. \A p \in Paths, w \in BWorkers : job[w].path # p /\ job[w].pc # "commit"
  BY <1>2, <1>3, <1>4, Zenon
<1>9. Sole
  BY <1>8, Zenon DEF Sole, Inside
<1>10. \A p \in Paths : Replaced(p)
  BY <1>8, Zenon DEF Replaced
<1>11. \A p \in Paths : HashSafe(p)
  BY <1>2, <1>5, <1>8, Zenon DEF HashSafe, Trusted
<1> QED
  BY <1>7, <1>9, <1>10, <1>11, Zenon DEF HashInv

\* A hash that can be trusted is the promise.
LEMMA HashDone == HashInv => HashTrue
<1> SUFFICES ASSUME HashInv, NEW p \in Paths \ (overlapped \cup torn), Quiet(p),
                    file[p] # Gone, inst[p].hash = file[p]
             PROVE  Reflects(file[p], obj[p])
  BY Zenon DEF HashTrue
<1>1. HashSafe(p)
  BY Zenon DEF HashInv
<1>2. Applying(p) = {}
  BY Zenon DEF Quiet
<1>3. NoneCommitted(p)
  BY <1>2, Zenon DEF Applying, NoneCommitted
<1> QED
  BY <1>1, <1>3, Zenon DEF HashSafe, Trusted

\* last_applied_hash can be trusted (HashTrue), however many workers, crashes and edits.
THEOREM HashTheorem == BlueprintSpec => []HashTrue
<1>1. BlueprintInit => HashInv
  BY HashInit
<1>2. HashInv /\ [BlueprintNext]_blueprintVars => HashInv'
  <2> SUFFICES ASSUME HashInv, [BlueprintNext]_blueprintVars PROVE HashInv'
    OBVIOUS
  <2>1. CASE UNCHANGED blueprintVars
    <3>1. /\ file' = file /\ inst' = inst /\ obj' = obj /\ job' = job
          /\ overlapped' = overlapped /\ torn' = torn
      BY <2>1 DEF blueprintVars
    <3>2. file = [p \in Paths |-> file[p]] /\ \A p \in Paths : file[p] \in Versions \cup {Gone}
      BY Zenon DEF HashInv, BlueShape
    <3> QED
      BY <3>1, <3>2, FileStep, Zenon
  <2>2. CASE BlueprintNext
    <3>1. \/ Schedule
          \/ \E p \in Paths : \/ Toggle(p) \/ ApplyByHand(p) \/ ClearFailed(p)
                              \/ \E v \in Versions \cup {Gone} : WriteFile(p, v)
          \/ \E w \in BWorkers :
               \/ Find(w) \/ Found(w) \/ \E p \in Paths : Check(w, p)
               \/ \E p \in Paths, k \in Keys : ApplyNothing(w, p, k) \/ BeginApply(w, p, k)
               \/ Validate(w) \/ Commit(w) \/ Save(w) \/ Crash(w)
      BY <2>2, Zenon DEF BlueprintNext, StepDiscovery, TakeApply, StepApply
    <3>2. ASSUME NEW p \in Paths, Toggle(p) PROVE HashInv'
      BY <3>2, ToggleHash, Zenon
    <3>3. ASSUME NEW p \in Paths, ClearFailed(p) PROVE HashInv'
      BY <3>3, ClearHash, Zenon
    <3>4. ASSUME NEW w \in BWorkers, Find(w) \/ Found(w) \/ Validate(w) \/ Commit(w) \/ Save(w) \/ Crash(w)
          PROVE  HashInv'
      BY <3>4, FindHash, FoundHash, ValidateHash, CommitHash, SaveHash, CrashHash, Zenon
    <3>5. ASSUME NEW w \in BWorkers, NEW p \in Paths, Check(w, p) PROVE HashInv'
      BY <3>5, CheckHash, Zenon
    <3>6. ASSUME NEW w \in BWorkers, NEW p \in Paths, NEW k \in Keys, BeginApply(w, p, k)
          PROVE  HashInv'
      BY <3>6, BeginHash, Zenon
    <3> QED
      BY <3>1, <3>2, <3>3, <3>4, <3>5, <3>6, OutsideHash, Zenon
  <2> QED
    BY <2>1, <2>2
<1>3. HashInv => HashTrue
  BY HashDone
<1> QED
  BY <1>1, <1>2, <1>3, PTL DEF BlueprintSpec
=============================================================================
