------------------------------ MODULE PolicyEngine ------------------------------
(* The policy engine (authentik/policies/engine.py, process.py): requests ask
   whether a user passes the bindings of one object.

   A binding carries a policy, or it is static: it names a user or a group.  All
   static bindings are answered by one query.  Every policy is evaluated by a
   PolicyProcess, either inside the engine's own process, one after the other,
   or in forked children that run side by side, and its result goes to a cache
   keyed by binding, session and user.  Policies and bindings are edited
   meanwhile. *)
EXTENDS Integers, FiniteSets

CONSTANTS
    Bindings,   \* the bindings of the object, numbered by their order
    Attrs,      \* what a binding may be: [policy, negate, failure, enabled]
    Outcomes,   \* what an edit may make of a policy: pass, fail, exception, error
    Rows,       \* binding -> row: the ones to begin with
    Matches,    \* binding -> user -> outcome: the ones to begin with
    Requests,   \* requests that build an engine
    Of,         \* request -> [user, session, debug]
    MaxEdits    \* bound on edits

VARIABLES
    attr,       \* binding -> its row
    matches,    \* binding -> user -> what its policy evaluates to, or whether it names the user
    engineMode, \* policy_engine_mode of the object: "all" or "any"
    forked,     \* the server's process is a daemon: policies run in children
    cached,     \* the cache: set of [binding, session, user, passing]
    eng,        \* request -> its engine
    edits,
    were        \* history: every [attr, matches] there has been

policyVars == <<attr, matches, engineMode, forked, cached, eng, edits, were>>

Users == {Of[r].user : r \in Requests}

-----------------------------------------------------------------------------
(* What a binding evaluates to. *)

IsPolicy(b) == attr[b].policy

(* PolicyProcess.execute and run.  A PolicyException gives the failure result of
   the binding, which is not negated; any other exception gives False. *)
Execute(at, what) ==
    CASE what \in {"pass", "fail"} -> (what = "pass") # at.negate
      [] what = "exception"        -> at.failure
      [] OTHER                     -> FALSE

\* A static binding that applies to the user, as compute_static_bindings counts it.
StaticPasses(at, what) == (what = "pass") # at.negate

Result(at, what) == IF at.policy THEN Execute(at, what) ELSE StaticPasses(at, what)

Static(bs) == {b \in bs : ~ IsPolicy(b)}
Enabled == {b \in Bindings : attr[b].enabled}

\* PolicyEngine.result: no results at all pass.
Combine(results) ==
    \/ results = {}
    \/ engineMode = "all" /\ results = {TRUE}
    \/ engineMode = "any" /\ TRUE \in results

-----------------------------------------------------------------------------
NewEngine == [pc |-> "start", use_cache |-> TRUE, static |-> {}, todo |-> {}, rows |-> << >>,
              child |-> << >>, results |-> << >>, fresh |-> TRUE, answer |-> FALSE]

PolicyInit ==
    /\ attr \in Rows
    /\ matches \in Matches
    /\ \A b \in Static(Bindings) : \A u \in Users : matches[b][u] \in {"pass", "fail"}
    /\ engineMode \in {"all", "any"}
    /\ forked \in BOOLEAN
    /\ cached = {}
    /\ eng = [r \in Requests |-> NewEngine]
    /\ edits = 0
    /\ were = {[attr |-> attr, matches |-> matches]}

Unedited == UNCHANGED <<attr, matches, engineMode, forked, edits, were>>
Set(r, e) == eng' = [eng EXCEPT ![r] = e]
At(r, pc) == eng[r].pc = pc

\* build begins; compute_static_bindings: one passing static binding is enough.
ComputeStatic(r) ==
    /\ At(r, "start")
    /\ LET static == Static(Enabled)
           u == Of[r].user
       IN \E use \in BOOLEAN : Set(r, [eng[r] EXCEPT !.pc = "load", !.use_cache = use,
                    !.static = IF static = {} THEN {}
                               ELSE {\E b \in static : StaticPasses(attr[b], matches[b][u])}])
    /\ Unedited /\ UNCHANGED cached

\* The bindings with a policy are read.
LoadBindings(r) ==
    /\ At(r, "load")
    /\ LET bs == {b \in Enabled : IsPolicy(b)}
       IN Set(r, [eng[r] EXCEPT !.pc = "next", !.todo = bs,
                    !.rows = [b \in bs |-> attr[b]]])
    /\ Unedited /\ UNCHANGED cached

\* Mutant: one key for all users of a session.
KeyNoUser(b, session, user) == <<b, session>>

\* cache_key
Key(b, session, user) == <<b, session, user>>

Hits(r, b) ==
    {c \in cached : Key(c.binding, c.session, c.user) = Key(b, Of[r].session, Of[r].user)}

Running(r) == {b \in DOMAIN eng[r].child : eng[r].child[b] # "sent"}

Put(f, b, v) == [x \in DOMAIN f \cup {b} |-> IF x = b THEN v ELSE f[x]]

\* The next binding in their order: _check_cache, or a PolicyProcess.  In the engine's own process it ends first.
NextBinding(r) ==
    /\ At(r, "next") /\ (forked \/ Running(r) = {})
    /\ \E b \in eng[r].todo :
         /\ \A c \in eng[r].todo : b <= c
         /\ LET hits == Hits(r, b)
            IN \/ /\ eng[r].use_cache
                  /\ \E c \in hits : Set(r, [eng[r] EXCEPT !.todo = @ \ {b},
                                                !.results = Put(@, b, c.passing)])
               \/ /\ ~ (eng[r].use_cache /\ hits # {})
                  /\ Set(r, [eng[r] EXCEPT !.todo = @ \ {b}, !.child = Put(@, b, "run")])
    /\ Unedited /\ UNCHANGED cached

(* A PolicyProcess evaluates its policy with the binding the engine has read ... *)
Passes(r, b) ==
    /\ b \in DOMAIN eng[r].child /\ eng[r].child[b] = "run"
    /\ LET what == matches[b][Of[r].user]
       IN Set(r, [eng[r] EXCEPT
            !.child = Put(@, b, IF what = "error" \/ Of[r].debug THEN "sent" ELSE "cache"),
            !.results = Put(@, b, Execute(eng[r].rows[b], what))])
    /\ Unedited /\ UNCHANGED cached

\* ... and stores the result, unless the evaluation failed unexpectedly or is a debug request.
Store(r, b) ==
    /\ b \in DOMAIN eng[r].child /\ eng[r].child[b] = "cache"
    /\ cached' = (cached \ Hits(r, b)) \cup
                 {[binding |-> b, session |-> Of[r].session, user |-> Of[r].user,
                   passing |-> eng[r].results[b]]}
    /\ Set(r, [eng[r] EXCEPT !.child = Put(@, b, "sent")])
    /\ Unedited

\* Every process has been joined and its result received.
Answer(r) ==
    /\ At(r, "next") /\ eng[r].todo = {} /\ Running(r) = {}
    /\ LET e == eng[r]
       IN Set(r, [e EXCEPT !.pc = "done",
                    !.answer = Combine({e.results[b] : b \in DOMAIN e.results} \cup e.static)])
    /\ Unedited /\ UNCHANGED cached

-----------------------------------------------------------------------------
Edit ==
    /\ edits < MaxEdits
    /\ edits' = edits + 1
    /\ eng' = [r \in Requests |-> [eng[r] EXCEPT !.fresh = @ /\ At(r, "start")]]
    /\ UNCHANGED <<engineMode, forked>>

Remember == were' = were \cup {[attr |-> attr', matches |-> matches']}

(* A policy is saved and evaluates differently from now on.  The handler of
   post_save deletes the keys that start with the binding and the policy; no key
   does, since a key has the session or the user after the binding. *)
SavePolicy(b) ==
    /\ Edit
    /\ \E what \in Outcomes :
         /\ attr[b].policy \/ what \in {"pass", "fail"}
         /\ matches' = [matches EXCEPT ![b] = [u \in Users |-> what]]
    /\ UNCHANGED <<attr, cached>>
    /\ Remember

\* A binding is saved.
SaveBinding(b) ==
    /\ Edit
    /\ \E at \in Attrs : at.policy = attr[b].policy /\ attr' = [attr EXCEPT ![b] = at]
    /\ UNCHANGED <<matches, cached>>
    /\ Remember

\* A cached result reaches its timeout.
CacheTimeout ==
    /\ \E c \in cached : cached' = cached \ {c}
    /\ Unedited /\ UNCHANGED eng

PolicyNext ==
    \/ \E r \in Requests :
         \/ ComputeStatic(r) \/ LoadBindings(r) \/ NextBinding(r) \/ Answer(r)
         \/ \E b \in Bindings : Passes(r, b) \/ Store(r, b)
    \/ \E b \in Bindings : SavePolicy(b) \/ SaveBinding(b)
    \/ CacheTimeout

PolicySpec == PolicyInit /\ [][PolicyNext]_policyVars

-----------------------------------------------------------------------------
(* Properties. *)

\* Every variable has its type.
PolicyTypeOK ==
    /\ attr \in [Bindings -> Attrs]
    /\ matches \in [Bindings -> [Users -> {"pass", "fail", "exception", "error"}]]
    /\ \A c \in cached :
         /\ c.binding \in Bindings /\ c.user \in Users /\ c.passing \in BOOLEAN
         /\ c.session \in {Of[r].session : r \in Requests}
         /\ \A d \in cached : [c EXCEPT !.passing = TRUE] = [d EXCEPT !.passing = TRUE] => c = d
    /\ \A r \in Requests :
         /\ DOMAIN eng[r].child \subseteq Bindings
         /\ DOMAIN eng[r].results \subseteq Bindings
         /\ ~ forked => Cardinality(Running(r)) <= 1

(* Whatever requests overlap and however old the cached results are, an answer
   has a result for every binding that was read, and it is one that this
   binding, as it was at some time, gives for what its policy said of this user
   at some time: never another user's or another binding's. *)
AnswerExplained ==
    \A r \in Requests : At(r, "done") =>
        /\ DOMAIN eng[r].results = DOMAIN eng[r].rows
        /\ \A b \in DOMAIN eng[r].results : \E x, y \in were :
             eng[r].results[b] = Result(x.attr[b], y.matches[b][Of[r].user])

(* What the engine is for, as one formula over the bindings: a policy counts by
   itself, the static bindings count once and one of them is enough. *)
Reference(u) ==
    LET at(b) == CASE matches[b][u] = "pass"      -> ~ attr[b].negate
                   [] matches[b][u] = "fail"      -> attr[b].negate
                   [] matches[b][u] = "exception" -> attr[b].failure
                   [] matches[b][u] = "error"     -> FALSE
        static == Static(Enabled)
    IN Combine({at(b) : b \in Enabled \ static}
               \cup IF static = {} THEN {} ELSE {\E b \in static : at(b)})

(* An engine that does not use the cache, and during which nothing is edited,
   answers exactly what the bindings say, in either way of running policies. *)
UncachedExact ==
    \A r \in Requests :
        At(r, "done") /\ eng[r].fresh /\ ~ eng[r].use_cache =>
            eng[r].answer = Reference(Of[r].user)

(* "Invalidate Policy cache when policy is updated" (policies/signals.py): an
   engine that starts after the last edit answers what the bindings say. *)
FreshAfterSave ==
    \A r \in Requests :
        At(r, "done") /\ eng[r].fresh => eng[r].answer = Reference(Of[r].user)
=============================================================================
