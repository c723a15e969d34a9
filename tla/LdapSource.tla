------------------------------- MODULE LdapSource -------------------------------
(* The synchronisation of LDAP sources (authentik/sources/ldap): ldap_sync reads
   the directory, keeps what it read in the cache as pages, and sends the pages
   as tasks in three groups: users and groups, then the members of the groups,
   then deletions.  All pages are built before the first one is sent, so a page
   may say what the directory no longer says when it is applied.

   Users and groups are synchronised by the same code, and are the objects of
   the model; a user's name stands for the username and the distinguished name.
   A page holds one object.  Members without a distinguished name, whom only an
   administrator adds, stay in their group and are left out, and so are the
   attributes that do not identify an object (vendor/ms_ad.py, vendor/freeipa.py). *)
EXTENDS Integers, FiniteSets, FiniteSetsExt

CONSTANTS
    Sources,        \* LDAP sources, all of the same directory
    People, Groups, \* the uniqueness fields of users and of groups
    UserNames,      \* names of users
    SyncWorkers,    \* worker threads that run pages
    PKs,            \* primary keys
    Options,        \* configurations: [deletes, lookup]
    MaxEdits,       \* bound on changes of the directory
    MaxMishaps      \* bound on changes of the directory and mishaps of tasks together

VARIABLES
    options,    \* delete_not_found_objects and lookup_groups_from_user
    entry,      \* object -> its name in the directory, or Nobody
    belongs,    \* the pairs <<group, user>> of the directory's memberships
    rec,        \* primary key -> the User or Group: uniqueness attribute and name
    conns,      \* [src, uniq, pk] of User- and GroupLDAPSourceConnection
    members,    \* the pairs <<group pk, user pk>>
    valid,      \* source -> identifiers whose connections hold the uuid of its run
    sync,       \* source -> [pc, built] of ldap_sync: the pages it has not sent yet
    pages,      \* the ldap_sync_page tasks in the queue
    page,       \* worker -> [pc, page, pk]: the page it runs
    edits, mishaps,
    missing,    \* history: source -> objects absent at some moment since its run began
    overlapped  \* history: pages have outlived their run

ldapVars == <<options, entry, belongs, rec, conns, members, valid, sync, pages, page, edits,
              mishaps, missing, overlapped>>
directory == <<entry, belongs>>
records == <<rec, conns, members>>
bounds == <<edits, mishaps>>

Nobody == "nobody"
NoPk == 0
Objects == People \cup Groups
Names(o) == IF o \in People THEN UserNames ELSE {"group"}
Present == {o \in Objects : entry[o] # Nobody}
NoRec == [uniq |-> NoPk, name |-> Nobody]

Page(s, kind, what, name, dns, pks) ==
    [src |-> s, live |-> TRUE, kind |-> kind, what |-> what, name |-> name, dns |-> dns, pks |-> pks]
NoPage == Page(0, "none", NoPk, Nobody, {}, {})
Free == [pc |-> "idle", page |-> NoPage, pk |-> NoPk]
Resting == [pc |-> "idle", built |-> {}]
Running == {page[w].page : w \in SyncWorkers} \ {NoPage}
Outstanding(s) == {p \in pages \cup Running : p.live /\ p.src = s}

\* filter(attributes__ldap_uniq=...).first(): the oldest record, or NoPk.
Find(o) ==
    LET found == {k \in PKs : rec[k].uniq = o} IN IF found = {} THEN NoPk ELSE Min(found)

\* A key nothing refers to stands for the next one of the database.
Fresh ==
    LET used == {page[w].pk : w \in SyncWorkers}
                \cup UNION {p.pks : p \in pages \cup Running \cup UNION {sync[s].built : s \in Sources}}
    IN Min({k \in PKs \ used : rec[k] = NoRec})

-----------------------------------------------------------------------------
(* The directory, which its own administrators change. *)

Edit ==
    /\ edits < MaxEdits /\ edits + mishaps < MaxMishaps
    /\ edits' = edits + 1
    /\ UNCHANGED <<options, records, valid, sync, pages, page, mishaps, overlapped>>

Leave(o) ==
    /\ Edit
    /\ o \in Present
    /\ entry' = [entry EXCEPT ![o] = Nobody]
    /\ belongs' = {b \in belongs : o \notin {b[1], b[2]}}
    /\ missing' = [s \in Sources |-> missing[s] \cup {o}]

\* An entry appears, or gets another name.
Name(o, n) ==
    /\ Edit
    /\ \A x \in Objects : entry[x] # n
    /\ entry' = [entry EXCEPT ![o] = n]
    /\ UNCHANGED <<belongs, missing>>

Member(g, u) ==
    /\ Edit
    /\ {g, u} \subseteq Present
    /\ belongs' = IF <<g, u>> \in belongs THEN belongs \ {<<g, u>>} ELSE belongs \cup {<<g, u>>}
    /\ UNCHANGED <<entry, missing>>

-----------------------------------------------------------------------------
(* ldap_sync: the pages are built by searching the directory ... *)

ToSync(s, pc, new) ==
    sync' = [sync EXCEPT ![s] = [pc |-> pc, built |-> sync[s].built \cup new]]

\* The lock is free; UserLDAPSynchronizer and GroupLDAPSynchronizer search.
BeginSync(s) ==
    /\ sync[s].pc = "idle"
    /\ ToSync(s, "members", {Page(s, "object", o, entry[o], {}, {}) : o \in Present})
    /\ missing' = [missing EXCEPT ![s] = Objects \ Present]
    /\ UNCHANGED <<options, directory, records, valid, pages, page, bounds, overlapped>>

\* MembershipLDAPSynchronizer.get_objects; the members are left to the page with lookup.
DNs(g) == {entry[u] : u \in {x \in People : <<g, x>> \in belongs}}

SearchMembers(s) ==
    /\ sync[s].pc = "members"
    /\ ToSync(s, IF options.deletes THEN "mark" ELSE "send",
              {Page(s, "members", g, Nobody, IF options.lookup THEN {} ELSE DNs(g), {}) :
                 g \in Groups \cap Present})
    /\ UNCHANGED <<options, directory, records, valid, pages, page, bounds, missing, overlapped>>

\* Mutant: only the first batch of what the search found is marked.
MarkFirstBatch(s) ==
    /\ sync[s].pc = "mark"
    /\ ToSync(s, "list", {})
    /\ LET batch == IF Present = {} THEN {} ELSE {Min(Present)} IN
       valid' = [t \in Sources |->
                   IF t = s THEN {c.uniq : c \in {d \in conns : d.src = s}} \cap batch
                            ELSE valid[t] \ batch]
    /\ UNCHANGED <<options, directory, records, pages, page, bounds, missing, overlapped>>

(* The deletions' get_objects searches once more, and writes the uuid of this run
   to the connections of everything it found, whatever source they are of ... *)
Mark(s) ==
    /\ sync[s].pc = "mark"
    /\ ToSync(s, "list", {})
    /\ valid' = [t \in Sources |->
                   IF t = s THEN {c.uniq : c \in {d \in conns : d.src = s}} \cap Present
                            ELSE valid[t] \ Present]
    /\ UNCHANGED <<options, directory, records, pages, page, bounds, missing, overlapped>>

\* ... and puts the source's other users, and groups, on a page each.
List(s) ==
    /\ sync[s].pc = "list"
    /\ LET unmarked(kind) == {c.pk : c \in {d \in conns : d.src = s /\ d.uniq \in kind \ valid[s]}}
       IN ToSync(s, "send", {Page(s, "delete", NoPk, Nobody, {}, ks) :
                               ks \in {unmarked(People), unmarked(Groups)} \ {{}}})
    /\ valid' = [valid EXCEPT ![s] = {}]
    /\ UNCHANGED <<options, directory, records, pages, page, bounds, missing, overlapped>>

(* ... and sent, group after group: each waits for the one before. *)
SendPages(s, pc, kind, next) ==
    /\ sync[s].pc = pc
    /\ Outstanding(s) = {}
    /\ LET sent == {p \in sync[s].built : p.kind = kind} IN
       /\ pages' = pages \cup sent
       /\ sync' = [sync EXCEPT ![s] = [pc |-> next, built |-> @.built \ sent]]
    /\ UNCHANGED <<options, directory, records, valid, page, bounds, missing, overlapped>>

EndSync(s) ==
    /\ sync[s].pc = "deletions" /\ Outstanding(s) = {}
    /\ sync' = [sync EXCEPT ![s] = Resting]
    /\ UNCHANGED <<options, directory, records, valid, pages, page, bounds, missing, overlapped>>

StepSync(s) ==
    \/ SearchMembers(s) \/ Mark(s) \/ List(s)
    \/ SendPages(s, "send", "object", "objects")
    \/ SendPages(s, "objects", "members", "memberships")
    \/ SendPages(s, "memberships", "delete", "deletions")
    \/ EndSync(s)

-----------------------------------------------------------------------------
(* ldap_sync_page on a worker. *)

Take(w, p) == page[w] = Free /\ p \in pages /\ pages' = pages \ {p}

Done(w) == page' = [page EXCEPT ![w] = Free]

\* UserLDAPSynchronizer.sync, GroupLDAPSynchronizer.sync: the record is looked up, ...
TakeObject(w, p) ==
    /\ p.kind = "object"
    /\ Take(w, p)
    /\ page' = [page EXCEPT ![w] = [pc |-> "write", page |-> p, pk |-> Find(p.what)]]
    /\ UNCHANGED <<options, directory, records, valid, sync, bounds, missing, overlapped>>

(* ... then written by update_or_create_attributes: created, or saved, which
   inserts it again under its old key when it was deleted meanwhile.  A username
   that another user has is an IntegrityError, and the object is skipped. *)
Write(w) ==
    LET o == page[w].page.what  n == page[w].page.name
        k == IF page[w].pk = NoPk THEN Fresh ELSE page[w].pk
    IN
    /\ page[w].pc = "write"
    /\ IF o \in People /\ \E x \in PKs \ {k} : rec[x].name = n
         THEN Done(w) /\ UNCHANGED rec
         ELSE /\ rec' = [rec EXCEPT ![k] = [uniq |-> o, name |-> n]]
              /\ page' = [page EXCEPT ![w] = [@ EXCEPT !.pc = "connect", !.pk = k]]
    /\ UNCHANGED <<options, directory, conns, members, valid, sync, pages, bounds, missing, overlapped>>

\* The connection is made unless the identifier has one; its record may be gone.
Connect(w) ==
    LET s == page[w].page.src  o == page[w].page.what  k == page[w].pk IN
    /\ page[w].pc = "connect"
    /\ conns' = IF (\E c \in conns : c.src = s /\ c.uniq = o) \/ rec[k] = NoRec
                  THEN conns ELSE conns \cup {[src |-> s, uniq |-> o, pk |-> k]}
    /\ Done(w)
    /\ UNCHANGED <<options, directory, rec, members, valid, sync, pages, bounds, missing, overlapped>>

Named(dns) == {k \in PKs : rec[k].uniq \in People /\ rec[k].name \in dns}

\* Mutant: members are only added.
SyncMembersAdds(w, p) ==
    LET g == Find(p.what)  dns == IF options.lookup THEN DNs(p.what) ELSE p.dns IN
    /\ p.kind = "members"
    /\ Take(w, p)
    /\ members' = IF g = NoPk THEN members ELSE members \cup {<<g, k>> : k \in Named(dns)}
    /\ UNCHANGED <<options, directory, rec, conns, valid, sync, page, bounds, missing, overlapped>>

\* MembershipLDAPSynchronizer.sync: the users are found by their distinguished names.
SyncMembers(w, p) ==
    LET g == Find(p.what)  dns == IF options.lookup THEN DNs(p.what) ELSE p.dns IN
    /\ p.kind = "members"
    /\ Take(w, p)
    /\ members' = IF g = NoPk THEN members
                  ELSE {m \in members : m[1] # g} \cup {<<g, k>> : k \in Named(dns)}
    /\ UNCHANGED <<options, directory, rec, conns, valid, sync, page, bounds, missing, overlapped>>

\* The sync of the two deletions: connections and memberships go with their record.
Delete(w, p) ==
    /\ p.kind = "delete"
    /\ Take(w, p)
    /\ rec' = [k \in PKs |-> IF k \in p.pks THEN NoRec ELSE rec[k]]
    /\ conns' = {c \in conns : c.pk \notin p.pks}
    /\ members' = {m \in members : {m[1], m[2]} \cap p.pks = {}}
    /\ valid' = [s \in Sources |-> valid[s] \cap {c.uniq : c \in {d \in conns' : d.src = s}}]
    /\ UNCHANGED <<options, directory, sync, page, bounds, missing, overlapped>>

TakePage(w) == \E p \in pages : TakeObject(w, p) \/ SyncMembers(w, p) \/ Delete(w, p)
StepPage(w) == Write(w) \/ Connect(w)

-----------------------------------------------------------------------------
(* Mishaps. *)

Mishap ==
    /\ edits + mishaps < MaxMishaps
    /\ mishaps' = mishaps + 1
    /\ UNCHANGED <<options, directory, records, edits, missing>>

(* The run of s ends: a search failed, a wait timed out or failed, or the worker
   died.  Nobody waits for its pages any more, those of js that run included. *)
Orphaned(p, s) == IF p.src = s THEN [p EXCEPT !.live = FALSE] ELSE p

Abandon(s, ps, js) ==
    /\ sync' = [sync EXCEPT ![s] = Resting]
    /\ valid' = [valid EXCEPT ![s] = {}]
    /\ pages' = {Orphaned(p, s) : p \in ps}
    /\ page' = [w \in SyncWorkers |-> [js[w] EXCEPT !.page = Orphaned(@, s)]]
    /\ overlapped' = (overlapped \/ Outstanding(s) # {})

SyncFails(s) ==
    /\ Mishap
    /\ sync[s].pc # "idle"
    /\ Abandon(s, pages, page)

\* A page is given up after its retries: the wait of its run raises.
PageFails(w) ==
    /\ Mishap
    /\ page[w] # Free
    /\ LET js == [page EXCEPT ![w] = Free] IN
       IF page[w].page.live THEN Abandon(page[w].page.src, pages, js)
       ELSE page' = js /\ UNCHANGED <<valid, sync, pages, overlapped>>

\* The worker dies, or the page is retried: the broker hands it out again.
PageAgain(w) ==
    /\ Mishap
    /\ page[w] # Free
    /\ pages' = pages \cup {page[w].page}
    /\ Done(w)
    /\ UNCHANGED <<valid, sync, overlapped>>

\* The page is no longer in the cache: the task logs an error and ends.
PageExpires(p) ==
    /\ Mishap
    /\ pages' = pages \ {p}
    /\ UNCHANGED <<valid, sync, page, overlapped>>

-----------------------------------------------------------------------------
(* A directory that has been synchronised: the records are numbered like their
   entries, and nobody is a member yet. *)
LdapInit ==
    /\ options \in Options
    /\ LET f == CHOOSE h \in [People -> UserNames] : \A x, y \in People : x # y => h[x] # h[y] IN
       entry = [o \in Objects |-> IF o \in People THEN f[o] ELSE "group"]
    /\ belongs = {} /\ members = {}
    /\ rec = [k \in PKs |-> IF k \in Objects THEN [uniq |-> k, name |-> entry[k]] ELSE NoRec]
    /\ conns = {[src |-> s, uniq |-> o, pk |-> o] : s \in Sources, o \in Objects}
    /\ valid = [s \in Sources |-> {}] /\ sync = [s \in Sources |-> Resting]
    /\ pages = {} /\ page = [w \in SyncWorkers |-> Free]
    /\ edits = 0 /\ mishaps = 0
    /\ missing = [s \in Sources |-> {}] /\ overlapped = FALSE

LdapNext ==
    \/ \E o \in Objects : Leave(o) \/ \E n \in Names(o) : Name(o, n)
    \/ \E g \in Groups, u \in People : Member(g, u)
    \/ \E s \in Sources : BeginSync(s) \/ StepSync(s) \/ SyncFails(s)
    \/ \E w \in SyncWorkers : TakePage(w) \/ StepPage(w) \/ PageFails(w) \/ PageAgain(w)
    \/ \E p \in pages : PageExpires(p)

(* The schedule fires every two hours, the run and the workers go on, and some
   worker takes a page when there is one. *)
LdapFairness ==
    /\ \A s \in Sources : WF_ldapVars(BeginSync(s)) /\ WF_ldapVars(StepSync(s))
    /\ WF_ldapVars(\E w \in SyncWorkers : TakePage(w))
    /\ \A w \in SyncWorkers : WF_ldapVars(StepPage(w))

LdapSpec == LdapInit /\ [][LdapNext]_ldapVars /\ LdapFairness

-----------------------------------------------------------------------------
(* Properties. *)

(* Type invariant, with the constraints of the database: a connection belongs to
   a record with its identifier, usernames are unique, members are records. *)
LdapTypeOK ==
    /\ \A o \in Objects : entry[o] \in Names(o) \cup {Nobody}
    /\ \A k \in PKs : rec[k] # NoRec => rec[k].uniq \in Objects /\ rec[k].name \in Names(rec[k].uniq)
    /\ \A j, k \in PKs : rec[j].uniq \in People /\ rec[j].name = rec[k].name => j = k
    /\ \A c \in conns : rec[c.pk].uniq = c.uniq
    /\ \A m \in members : rec[m[1]].uniq \in Groups /\ rec[m[2]].uniq \in People
    /\ \A s \in Sources : sync[s].pc = "idle" => Outstanding(s) = {} /\ sync[s].built = {}

(* "Mark every object as safe": only what the directory did not have at some
   moment of a run is deleted (ldap_sync, UserLDAPForwardDeletion,
   GroupLDAPForwardDeletion), unless pages of an abandoned run made connections
   while a later run was marking them. *)
PresentKept ==
    [][\A k \in PKs : rec[k] # NoRec /\ rec'[k] = NoRec =>
         overlapped \/ \E s \in Sources : rec[k].uniq \in missing[s]]_ldapVars

Linked(k) == \E c \in conns : c.pk = k

(* The user with key k keeps its name: nothing will rename or delete it, because
   it is not the one the identifier is found by, or its entry is gone and it is
   not deleted (no connection was made, or the source does not delete). *)
Keeps(k) ==
    \/ k # Find(rec[k].uniq)
    \/ rec[k].uniq \notin Present /\ (~ options.deletes \/ ~ Linked(k))

\* The name of u's entry is held by users who wait for each other's names, or keep theirs.
Stuck(u) ==
    \E S \in SUBSET People :
      /\ u \in S
      /\ \A x \in S : \E k \in PKs \ {Find(x)} :
           rec[k].uniq \in People /\ rec[k].name = entry[x] /\ (Keeps(k) \/ rec[k].uniq \in S)

Agrees(o) ==
    IF o \in Present
    THEN Find(o) # NoPk /\ rec[Find(o)].name = entry[o] /\ \E c \in conns : c.uniq = o
    ELSE \A k \in PKs : rec[k].uniq = o => ~ options.deletes \/ ~ Linked(k)

AgreeMembers(g) ==
    g \in Present => {m[2] : m \in {x \in members : x[1] = Find(g)}} = Named(DNs(g))

(* Once the directory is left alone, users, groups and members come to agree with
   it, whatever runs were lost on the way (ldap_sync), except users whose names
   are stuck. *)
Synced ==
    /\ \A o \in Objects : Agrees(o) \/ (o \in People /\ Stuck(o))
    /\ \A g \in Groups : AgreeMembers(g)
LdapConverges == <>[]Synced
=============================================================================
