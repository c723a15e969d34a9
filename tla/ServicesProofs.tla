--------------------------- MODULE ServicesProofs ---------------------------
(***************************************************************************)
(* Proofs about invitations and mailed links (Enrolment), for any browsers and *)
(* links, and about the groups and the users of a SCIM source (ScimSource), for *)
(* any callers and persons.                                                 *)
(***************************************************************************)
EXTENDS Enrolment, ScimSource, FiniteSetTheorems, TLAPS

(* Enrolment: the invariant *)

Places == {"invitation", "invited", "email", "sent", "asked", "confirm", "done", "denied"}
Lists == [Ticks -> Nat]
Visit == [at : Places, link : Links \cup {0}, times : Lists]

EnrolTyped ==
    /\ clock \in Ticks /\ uses \in Nat
    /\ flow \in [Guests -> Visit] /\ times \in Lists /\ resent \in Lists

\* A link that is there was mailed and nobody continued from it; a page that asks to
\* continue came from a mailed link.
LinksFine ==
    /\ links \subseteq mailed /\ mailed \subseteq Links
    /\ continued \subseteq mailed /\ links \cap continued = {}
    /\ \A b \in Guests : flow[b].at = "confirm" => flow[b].link \in mailed

\* The cached list has every repeated mail of the window.
ListTold ==
    "limit" \notin overlapped =>
        \A t \in Ticks : t > clock - Window => times[t] = resent[t]

\* An invitation for a single use that is there was not used.
Unused ==
    single /\ "invite" \notin overlapped => uses <= 1 /\ (invite => uses = 0)

EnrolInv == EnrolTyped /\ LinksFine /\ ListTold /\ RateKept /\ Unused

-----------------------------------------------------------------------------
(* Enrolment: the limit on mails *)

\* A list has finitely many times in the window.
LEMMA ListedFinite ==
    ASSUME clock \in Ticks, NEW list \in Lists
    PROVE  IsFiniteSet(Listed(list)) /\ Cardinality(Listed(list)) \in Nat
  <1> DEFINE W == {u \in Ticks : u > clock - Window}
             F == [t \in W |-> {t} \X (1 .. list[t])]
             R == {{t} \X (1 .. list[t]) : t \in W}
  <1>1. IsFiniteSet(W)
    <2>1. 0 \in Int /\ MaxClock \in Int
      BY EnrolAssumption, SMT
    <2>2. IsFiniteSet(Ticks)
      BY <2>1, FS_Interval, Zenon DEF Ticks
    <2> QED BY <2>2, FS_Subset, Zenon
  <1>2. \A t \in W : IsFiniteSet({t} \X (1 .. list[t]))
    <2> SUFFICES ASSUME NEW t \in W PROVE IsFiniteSet({t} \X (1 .. list[t]))
      OBVIOUS
    <2>1. 1 \in Int /\ list[t] \in Int
      BY SMT DEF Lists
    <2>2. IsFiniteSet(1 .. list[t])
      BY <2>1, FS_Interval, Zenon
    <2>3. IsFiniteSet({t})
      BY FS_Singleton, Zenon
    <2> QED BY <2>2, <2>3, FS_Product, Zenon
  <1>3. F \in Surjection(W, R)
    BY Zenon DEF Surjection
  <1> HIDE DEF W
  <1>4. \A T \in R : IsFiniteSet(T)
    BY <1>2, Zenon
  <1>5. Listed(list) = UNION R
    BY Zenon DEF Listed, W
  <1> HIDE DEF F, R
  <1>6. IsFiniteSet(R)
    BY <1>1, <1>3, FS_Surjection, Zenon
  <1>7. IsFiniteSet(Listed(list))
    BY <1>4, <1>5, <1>6, FS_UNION, Zenon
  <1> QED BY <1>7, FS_CardinalityType, Zenon

\* What a list has in the window.
InList(list, x) == \E t \in Ticks : t > clock - Window /\ \E i \in 1 .. list[t] : x = <<t, i>>

\* That is what _is_rate_limited counts.
LEMMA ListedMember ==
    ASSUME NEW list, NEW x
    PROVE  x \in Listed(list) <=> InList(list, x)
  <1> DEFINE P(t) == {t} \X (1 .. list[t])
  <1>1. \A t : x \in P(t) <=> \E i \in 1 .. list[t] : x = <<t, i>>
    BY SMT
  <1>2. Listed(list) = UNION {P(t) : t \in {u \in Ticks : u > clock - Window}}
    BY Zenon DEF Listed
  <1> HIDE DEF P
  <1>3. x \in Listed(list) <=> \E t \in Ticks : t > clock - Window /\ x \in P(t)
    BY <1>2, Zenon
  <1> QED BY <1>1, <1>3, Zenon DEF InList

\* What _is_rate_limited counts does not depend on times outside the window, and one more
\* resend is one more.
LEMMA OneMore ==
    ASSUME clock \in Ticks, NEW list \in Lists, NEW old \in Lists,
           \A t \in Ticks : t > clock - Window => old[t] = list[t],
           NEW new, new = [InWindow(old) EXCEPT ![clock] = @ + 1]
    PROVE  new \in Lists /\ Recent(new) <= Recent(list) + 1
  <1>1. InWindow(old) \in Lists
        /\ \A t \in Ticks : InWindow(old)[t] = IF t > clock - Window THEN old[t] ELSE 0
    BY SMT DEF InWindow, Lists
  <1>2. new \in Lists /\ new[clock] = InWindow(old)[clock] + 1
        /\ \A t \in Ticks \ {clock} : new[t] = InWindow(old)[t]
    BY <1>1, SMT DEF Lists
  <1> DEFINE x == <<clock, list[clock] + 1>>
  <1>3. Listed(new) \subseteq Listed(list) \cup {x}
    <2> SUFFICES ASSUME NEW y \in Listed(new), y # x PROVE y \in Listed(list)
      BY Zenon
    <2>a. PICK t \in Ticks : t > clock - Window /\ \E i \in 1 .. new[t] : y = <<t, i>>
      <3>1. y \in Listed(new)
        OBVIOUS
      <3>2. InList(new, y)
        BY ONLY <3>1, ListedMember, Zenon
      <3> QED BY ONLY <3>2, Zenon DEF InList
    <2>1. PICK i \in 1 .. new[t] : y = <<t, i>>
      BY <2>a, Zenon
    <2>2. new[t] = list[t] \/ (t = clock /\ new[t] = list[t] + 1)
      BY <1>1, <1>2, <2>a, SMT
    <2>3. list[t] \in Nat
      BY SMT DEF Lists
    <2>b. t = clock => i # list[t] + 1
      BY <2>1, Zenon
    <2>c. i \in 1 .. new[t]
      BY <2>1
    <2>4. i \in 1 .. list[t]
      BY ONLY <2>2, <2>3, <2>b, <2>c, SMT
    <2>5. InList(list, y)
      BY ONLY <2>a, <2>1, <2>4, Zenon DEF InList
    <2> QED BY ONLY <2>5, ListedMember, Zenon
  <1> HIDE DEF x
  <1>4. IsFiniteSet(Listed(list)) /\ Cardinality(Listed(list)) \in Nat
    BY ListedFinite, Zenon
  <1>5. /\ IsFiniteSet(Listed(list) \cup {x})
        /\ Cardinality(Listed(list) \cup {x}) =
             IF x \in Listed(list) THEN Cardinality(Listed(list))
                                   ELSE Cardinality(Listed(list)) + 1
    BY <1>4, FS_AddElement, Zenon
  <1>6. Cardinality(Listed(new)) <= Cardinality(Listed(list) \cup {x})
        /\ Cardinality(Listed(new)) \in Nat
    BY <1>2, <1>3, <1>5, FS_Subset, ListedFinite, Zenon
  <1> QED BY <1>2, <1>4, <1>5, <1>6, SMT DEF Recent

\* The email stage resends: the list has every repeated mail of the window before, so the
\* count is the true one.
LEMMA ResendRate ==
    ASSUME EnrolInv, NEW b \in Guests, Resend(b)
    PROVE  /\ clock' \in Ticks /\ times' \in Lists /\ resent' \in Lists
           /\ ListTold' /\ RateKept'
  <1> DEFINE seen == flow[b].times
  <1>1. clock \in Ticks /\ times \in Lists /\ resent \in Lists /\ seen \in Lists
        /\ clock' = clock
    BY SMT DEF EnrolInv, EnrolTyped, Visit, Resend
  <1>2. CASE UNCHANGED <<times, resent, overlapped>>
    BY <1>1, <1>2, SMT DEF EnrolInv, ListTold, RateKept, Recent, Listed
  <1>3. CASE /\ ~(Recent(seen) >= MaxAttempts)
             /\ times' = [InWindow(seen) EXCEPT ![clock] = @ + 1]
             /\ resent' = [InWindow(resent) EXCEPT ![clock] = @ + 1]
             /\ overlapped' = IF times = seen THEN overlapped ELSE overlapped \cup {"limit"}
    <2> HIDE DEF seen
    <2>1. times' \in Lists
      BY <1>1, <1>3, OneMore, Zenon
    <2>2. resent' \in Lists
      BY <1>1, <1>3, OneMore, Zenon
    <2>3. ASSUME "limit" \notin overlapped' PROVE times' = resent' /\ Recent(resent') <= MaxAttempts
      <3>1. times = seen /\ "limit" \notin overlapped
        BY <1>3, <2>3, Zenon
      <3>2. \A t \in Ticks : t > clock - Window => resent[t] = seen[t]
        BY <3>1, Zenon DEF EnrolInv, ListTold
      <3>3. InWindow(seen) = InWindow(resent)
        BY <3>2, Zenon DEF InWindow
      <3>4. times' = resent'
        BY <1>3, <3>3, Zenon
      <3>5. Recent(resent') <= Recent(seen) + 1
        BY <1>1, <1>3, <3>2, OneMore, Zenon
      <3>6. Recent(seen) \in Nat /\ Recent(resent') \in Nat
        BY <1>1, <2>2, ListedFinite, Zenon DEF Recent
      <3>7. ~(Recent(seen) >= MaxAttempts) /\ MaxAttempts \in Nat
        BY <1>3, EnrolAssumption, Zenon
      <3>8. Recent(resent') <= MaxAttempts
        BY ONLY <3>5, <3>6, <3>7, SMT
      <3> QED BY <3>4, <3>8, Zenon
    <2>4. ListTold'
      BY <2>3, Zenon DEF ListTold
    <2>5. Recent(resent)' = Recent(resent')
      BY <1>1, Zenon DEF Recent, Listed
    <2> QED BY <1>1, <2>1, <2>2, <2>3, <2>4, <2>5, ZenonT(60) DEF RateKept
  <1> QED BY <1>2, <1>3, Zenon DEF Resend

\* A number that is positive only of times the window has left is none.
LEMMA Later ==
    ASSUME NEW t \in Ticks, NEW c \in Ticks, NEW n \in Nat, t > c - Window,
           n > 0 => t <= c - Window
    PROVE  n = 0
  BY EnrolAssumption, SMT DEF Ticks

\* Time passes: the window only loses times, and the cache drops a list with none left in it.
LEMMA PassRate ==
    ASSUME EnrolInv, Pass
    PROVE  /\ clock' \in Ticks /\ times' \in Lists /\ resent' \in Lists
           /\ ListTold' /\ RateKept'
  <1>1. clock \in Ticks /\ times \in Lists /\ resent \in Lists
    BY Zenon DEF EnrolInv, EnrolTyped
  <1>2. clock' = clock + 1 /\ clock < MaxClock /\ resent' = resent /\ overlapped' = overlapped
    BY Zenon DEF Pass
  <1>3. clock' \in Ticks /\ \A t \in Ticks : t > clock' - Window => t > clock - Window
    BY <1>1, <1>2, EnrolAssumption, SMT DEF Ticks
  <1>4. NoTimes \in Lists /\ \A t \in Ticks : NoTimes[t] = 0
    BY SMT DEF NoTimes, Lists
  <1>5. times' \in Lists
    BY <1>1, <1>4, Zenon DEF Pass
  <1>6. ListTold'
    <2> SUFFICES ASSUME "limit" \notin overlapped, NEW t \in Ticks, t > clock' - Window
                 PROVE  times'[t] = resent[t]
      BY <1>2, Zenon DEF ListTold, Ticks
    <2>1. times[t] = resent[t]
      BY <1>3, Zenon DEF EnrolInv, ListTold
    <2>2. CASE times' = times
      BY <2>1, <2>2, Zenon
    <2>3. CASE times' = NoTimes /\ \A u \in Ticks : times[u] > 0 => u <= clock' - Window
      <3>a. times[t] > 0 => t <= clock' - Window
        BY <2>3, Zenon
      <3>n. times[t] \in Nat
        BY <1>1, SMT DEF Lists
      <3>2. times[t] = 0
        BY <1>3, <3>a, <3>n, Later, Zenon
      <3> QED BY <1>4, <2>1, <2>3, <3>2, ZenonT(60)
    <2> QED BY <2>2, <2>3, Zenon DEF Pass
  <1>7. Listed(resent)' \subseteq Listed(resent)
    BY <1>2, <1>3, Zenon DEF Listed, Ticks
  <1>8. RateKept'
    <2> SUFFICES ASSUME "limit" \notin overlapped PROVE Recent(resent)' <= MaxAttempts
      BY <1>2, Zenon DEF RateKept
    <2>1. IsFiniteSet(Listed(resent)) /\ Cardinality(Listed(resent)) \in Nat
      BY <1>1, ListedFinite, Zenon
    <2>2. IsFiniteSet(Listed(resent)')
      BY <1>7, <2>1, FS_Subset, Zenon
    <2>3. Cardinality(Listed(resent)') <= Cardinality(Listed(resent))
          /\ Cardinality(Listed(resent)') \in Nat
      BY <1>7, <2>1, <2>2, FS_Subset, FS_CardinalityType, ZenonT(60)
    <2>4. Cardinality(Listed(resent)) <= MaxAttempts
      BY Zenon DEF EnrolInv, RateKept, Recent
    <2> QED BY <2>1, <2>3, <2>4, EnrolAssumption, SMT DEF Recent
  <1> QED BY <1>1, <1>2, <1>3, <1>5, <1>6, <1>8, ZenonT(60)

\* Steps that send no repeated mail.
LEMMA OtherRate ==
    ASSUME EnrolInv, UNCHANGED <<clock, times, resent>>,
           "limit" \in overlapped => "limit" \in overlapped'
    PROVE  /\ clock' \in Ticks /\ times' \in Lists /\ resent' \in Lists
           /\ ListTold' /\ RateKept'
  <1>1. clock' = clock /\ times' = times /\ resent' = resent
    OBVIOUS
  <1>2. clock' \in Ticks /\ times' \in Lists /\ resent' \in Lists
    BY <1>1, Zenon DEF EnrolInv, EnrolTyped
  <1>3. ListTold'
    BY <1>1, Zenon DEF EnrolInv, ListTold, Ticks
  <1>4. Recent(resent)' = Recent(resent)
    BY <1>1, Zenon DEF Recent, Listed, Ticks
  <1>5. RateKept'
    BY <1>4, Zenon DEF EnrolInv, RateKept
  <1> QED BY <1>2, <1>3, <1>5, Zenon

-----------------------------------------------------------------------------
(* Enrolment: links and invitations *)

\* A browser reaches a stage with an empty plan.
LEMMA ReachedVisit ==
    ASSUME NEW p \in Places
    PROVE  /\ Reached(p) \in Visit /\ Reached(p).at = p
           /\ \A k \in Links : /\ [Reached(p) EXCEPT !.link = k] \in Visit
                               /\ [Reached(p) EXCEPT !.link = k].at = p
                               /\ [Reached(p) EXCEPT !.link = k].link = k
           /\ \A l \in Lists : /\ [Reached(p) EXCEPT !.times = l] \in Visit
                               /\ [Reached(p) EXCEPT !.times = l].at = p
  <1>1. NoTimes \in Lists
    BY SMT DEF NoTimes, Lists
  <1> QED BY <1>1, SMT DEF Reached, Visit

\* The browser goes on to v: a page that asks to continue, if v is one, is of a link that was
\* mailed.
LEMMA VisitStep ==
    ASSUME EnrolInv, NEW b \in Guests, NEW v \in Visit, flow' = [flow EXCEPT ![b] = v],
           mailed \subseteq mailed', v.at = "confirm" => v.link \in mailed'
    PROVE  /\ flow' \in [Guests -> Visit]
           /\ \A c \in Guests : flow'[c].at = "confirm" => flow'[c].link \in mailed'
  <1>1. flow \in [Guests -> Visit]
    BY Zenon DEF EnrolInv, EnrolTyped
  <1>2. flow' \in [Guests -> Visit] /\ flow'[b] = v /\ \A c \in Guests \ {b} : flow'[c] = flow[c]
    BY <1>1, SMT
  <1>3. \A c \in Guests : flow[c].at = "confirm" => flow[c].link \in mailed
    BY Zenon DEF EnrolInv, LinksFine
  <1> QED BY <1>2, <1>3, Zenon

\* The same for a browser that goes on to a stage without a link.
LEMMA GotoStep ==
    ASSUME EnrolInv, NEW b \in Guests, NEW p \in Places \ {"confirm"}, Goto(b, p),
           mailed \subseteq mailed'
    PROVE  /\ flow' \in [Guests -> Visit]
           /\ \A c \in Guests : flow'[c].at = "confirm" => flow'[c].link \in mailed'
  <1>1. Reached(p) \in Visit /\ Reached(p).at # "confirm"
    BY ReachedVisit, Zenon
  <1>2. flow' = [flow EXCEPT ![b] = Reached(p)]
    BY Zenon DEF Goto
  <1> QED BY <1>1, <1>2, VisitStep, Zenon

\* A mail goes out with a new link.
LEMMA MailStep ==
    ASSUME EnrolInv, SendEmail, continued' = continued
    PROVE  /\ mailed \subseteq mailed' /\ links' \subseteq mailed' /\ mailed' \subseteq Links
           /\ continued' \subseteq mailed' /\ links' \cap continued' = {}
  <1>1. PICK k \in Links \ mailed : links' = links \cup {k} /\ mailed' = mailed \cup {k}
    BY Zenon DEF SendEmail
  <1>2. links \subseteq mailed /\ mailed \subseteq Links /\ continued \subseteq mailed
        /\ links \cap continued = {}
    BY Zenon DEF EnrolInv, LinksFine
  <1>3. k \notin continued
    BY <1>1, <1>2, Zenon
  <1> QED BY <1>1, <1>2, <1>3, SMT

\* Steps that neither mail nor spend a link keep what is known of links, also when links go.
LEMMA LinksKept ==
    ASSUME EnrolInv, links' \subseteq links, mailed' = mailed, continued' = continued
    PROVE  /\ links' \subseteq mailed' /\ mailed' \subseteq Links
           /\ continued' \subseteq mailed' /\ links' \cap continued' = {}
           /\ mailed \subseteq mailed'
  BY SMT DEF EnrolInv, LinksFine

\* What every step keeps of the browsers and the links.
LEMMA LinksStep ==
    ASSUME EnrolInv, EnrolNext
    PROVE  flow' \in [Guests -> Visit] /\ LinksFine'
  <1> DEFINE Flows2 == /\ flow' \in [Guests -> Visit]
                       /\ \A c \in Guests : flow'[c].at = "confirm" => flow'[c].link \in mailed'
             Rows2 == /\ links' \subseteq mailed' /\ mailed' \subseteq Links
                      /\ continued' \subseteq mailed' /\ links' \cap continued' = {}
  <1> SUFFICES Flows2 /\ Rows2
    BY Zenon DEF LinksFine
  <1>0. /\ links \subseteq mailed /\ mailed \subseteq Links /\ continued \subseteq mailed
        /\ links \cap continued = {}
        /\ \A c \in Guests : flow[c].at = "confirm" => flow[c].link \in mailed
        /\ flow \in [Guests -> Visit] /\ times \in Lists
    BY Zenon DEF EnrolInv, LinksFine, EnrolTyped
  <1>p. /\ "invited" \in Places \ {"confirm"} /\ "email" \in Places \ {"confirm"}
        /\ "denied" \in Places \ {"confirm"} /\ "sent" \in Places \ {"confirm"}
        /\ "invitation" \in Places \ {"confirm"} /\ "done" \in Places \ {"confirm"}
        /\ "asked" \in Places /\ "confirm" \in Places
    BY SMT DEF Places
  <1>1. ASSUME NEW b \in Guests, GetInvite(b) \/ UseInvite(b) \/ ReloadPage(b) \/ Restart(b)
        PROVE  Flows2 /\ Rows2
    <2>1. links' = links /\ mailed' = mailed /\ continued' = continued
      BY <1>1, Zenon DEF GetInvite, UseInvite, ReloadPage, Restart
    <2>2. Rows2 /\ mailed \subseteq mailed'
      BY <2>1, LinksKept, Zenon
    <2>3. \E p \in Places \ {"confirm"} : Goto(b, p)
      BY <1>1, <1>p, Zenon DEF GetInvite, UseInvite, ReloadPage, Restart
    <2> QED BY <2>2, <2>3, GotoStep, ZenonT(60)
  <1>2. ASSUME NEW b \in Guests, FirstEmail(b)
        PROVE  Flows2 /\ Rows2
    <2>1. SendEmail /\ continued' = continued /\ Goto(b, "sent")
      BY <1>2, Zenon DEF FirstEmail
    <2> QED BY <1>p, <2>1, MailStep, GotoStep, ZenonT(60)
  <1>3. ASSUME NEW b \in Guests, AskAgain(b)
        PROVE  Flows2 /\ Rows2
    <2> DEFINE v == [Reached("asked") EXCEPT !.times = times]
    <2>1. links' = links /\ mailed' = mailed /\ continued' = continued
          /\ flow' = [flow EXCEPT ![b] = v]
      BY <1>3, Zenon DEF AskAgain
    <2>2. v \in Visit /\ v.at # "confirm"
      BY <1>0, <1>p, ReachedVisit, ZenonT(60)
    <2> HIDE DEF v
    <2>3. Rows2 /\ mailed \subseteq mailed'
      BY <2>1, LinksKept, Zenon
    <2> QED BY <2>1, <2>2, <2>3, VisitStep, ZenonT(60)
  <1>4. ASSUME NEW b \in Guests, Resend(b)
        PROVE  Flows2 /\ Rows2
    <2>1. continued' = continued /\ Goto(b, "sent") /\ (SendEmail \/ UNCHANGED <<links, mailed>>)
      BY <1>4, Zenon DEF Resend
    <2>2. Rows2 /\ mailed \subseteq mailed'
      BY <2>1, MailStep, LinksKept, ZenonT(60)
    <2> QED BY <1>p, <2>1, <2>2, GotoStep, ZenonT(60)
  <1>5. ASSUME NEW b \in Guests, NEW k \in Links, OpenLink(b, k)
        PROVE  Flows2 /\ Rows2
    <2> DEFINE v == [Reached("confirm") EXCEPT !.link = k]
    <2>1. links' = links /\ mailed' = mailed /\ continued' = continued /\ k \in links
          /\ flow' = [flow EXCEPT ![b] = v]
      BY <1>5, Zenon DEF OpenLink
    <2>a. v \in Visit /\ v.link = k
      BY <1>p, ReachedVisit, Zenon
    <2>2. v \in Visit /\ v.link \in mailed'
      BY <1>0, <2>1, <2>a, Zenon DEF EnrolInv, LinksFine
    <2> HIDE DEF v
    <2>3. Rows2 /\ mailed \subseteq mailed'
      BY <2>1, LinksKept, Zenon
    <2> QED BY <2>1, <2>2, <2>3, VisitStep, ZenonT(60)
  <1>6. ASSUME NEW b \in Guests, Confirm(b)
        PROVE  Flows2 /\ Rows2
    <2>1. links' = links \ {flow[b].link} /\ continued' = continued \cup {flow[b].link}
          /\ mailed' = mailed /\ Goto(b, "done") /\ flow[b].at = "confirm"
      BY <1>6, Zenon DEF Confirm
    <2>2. flow[b].link \in mailed
      BY <1>0, <2>1, Zenon
    <2>3. Rows2 /\ mailed \subseteq mailed'
      BY <1>0, <2>1, <2>2, SMT
    <2> QED BY <1>p, <2>1, <2>3, GotoStep, ZenonT(60)
  <1>7. ASSUME DeleteInvite \/ ExpireLink \/ Pass
        PROVE  Flows2 /\ Rows2
    <2>1. links' \subseteq links /\ mailed' = mailed /\ continued' = continued /\ flow' = flow
      BY <1>7, Zenon DEF DeleteInvite, ExpireLink, Pass
    <2>2. Rows2
      BY <2>1, LinksKept, Zenon
    <2> QED BY <1>0, <2>1, <2>2, Zenon
  <1> HIDE DEF Flows2, Rows2
  <1> QED BY <1>1, <1>2, <1>3, <1>4, <1>5, <1>6, <1>7, ZenonT(60) DEF EnrolNext

\* What every step keeps of the invitation.
LEMMA InviteStep ==
    ASSUME EnrolInv, EnrolNext
    PROVE  uses' \in Nat /\ Unused'
  <1>1. uses \in Nat /\ Unused
    BY Zenon DEF EnrolInv, EnrolTyped
  <1>2. ASSUME NEW b \in Guests, UseInvite(b) PROVE uses' \in Nat /\ Unused'
    <2>1. uses' = uses + 1 /\ invite' = (invite /\ ~single) /\ single' = single
          /\ overlapped' = IF invite THEN overlapped ELSE overlapped \cup {"invite"}
      BY <1>2, Zenon DEF UseInvite
    <2>2. ASSUME single, "invite" \notin overlapped' PROVE uses = 0 /\ ~invite'
      BY <1>1, <2>1, <2>2, Zenon DEF Unused
    <2>3. uses' \in Nat /\ (uses = 0 => uses' <= 1)
      BY <1>1, <2>1, SMT
    <2> QED BY <2>1, <2>2, <2>3, Zenon DEF Unused
  <1>3. ASSUME DeleteInvite PROVE uses' \in Nat /\ Unused'
    BY <1>1, <1>3, SMT DEF DeleteInvite, Unused
  <1>4. ASSUME NEW b \in Guests, Resend(b) PROVE uses' \in Nat /\ Unused'
    <2>1. UNCHANGED <<uses, single, invite>> /\ overlapped \subseteq overlapped'
      BY <1>4, Zenon DEF Resend
    <2> QED BY <1>1, <2>1, Zenon DEF Unused
  <1>5. ASSUME UNCHANGED <<uses, single, invite, overlapped>> PROVE uses' \in Nat /\ Unused'
    BY <1>1, <1>5, Zenon DEF Unused
  <1>6. ASSUME NEW b \in Guests,
               \/ GetInvite(b) \/ FirstEmail(b) \/ AskAgain(b) \/ ReloadPage(b)
               \/ Confirm(b) \/ Restart(b) \/ \E k \in Links : OpenLink(b, k)
        PROVE  uses' \in Nat /\ Unused'
    BY <1>5, <1>6, Zenon
       DEF GetInvite, FirstEmail, AskAgain, ReloadPage, Confirm, Restart, OpenLink
  <1>7. ASSUME ExpireLink \/ Pass PROVE uses' \in Nat /\ Unused'
    BY <1>5, <1>7, Zenon DEF ExpireLink, Pass
  <1> QED BY <1>2, <1>3, <1>4, <1>6, <1>7, ZenonT(60) DEF EnrolNext

\* What every step keeps of the list of resends.
LEMMA RateStep ==
    ASSUME EnrolInv, EnrolNext
    PROVE  /\ clock' \in Ticks /\ times' \in Lists /\ resent' \in Lists
           /\ ListTold' /\ RateKept'
  <1>1. ASSUME NEW b \in Guests,
               \/ GetInvite(b) \/ FirstEmail(b) \/ AskAgain(b) \/ ReloadPage(b)
               \/ Confirm(b) \/ Restart(b) \/ \E k \in Links : OpenLink(b, k)
        PROVE  UNCHANGED <<clock, times, resent, overlapped>>
    BY <1>1, Zenon
       DEF GetInvite, FirstEmail, AskAgain, ReloadPage, Confirm, Restart, OpenLink
  <1>2. ASSUME NEW b \in Guests, UseInvite(b)
        PROVE  UNCHANGED <<clock, times, resent>> /\ overlapped \subseteq overlapped'
    BY <1>2, Zenon DEF UseInvite
  <1>3. ASSUME DeleteInvite \/ ExpireLink PROVE UNCHANGED <<clock, times, resent, overlapped>>
    BY <1>3, Zenon DEF DeleteInvite, ExpireLink
  <1> QED BY <1>1, <1>2, <1>3, ResendRate, PassRate, OtherRate, ZenonT(60) DEF EnrolNext

\* At the start nothing is mailed, listed or used.
LEMMA EnrolInitInv == EnrolInit => EnrolInv
  <1> SUFFICES ASSUME EnrolInit PROVE EnrolInv
    OBVIOUS
  <1>1. NoTimes \in Lists /\ \A t \in Ticks : NoTimes[t] = 0
    BY SMT DEF NoTimes, Lists
  <1>2. "invitation" \in Places /\ 0 \in Ticks
    BY EnrolAssumption, SMT DEF Places, Ticks
  <1>3. Reached("invitation") \in Visit /\ Reached("invitation").at = "invitation"
    BY <1>2, ReachedVisit, Zenon
  <1>4. flow \in [Guests -> Visit] /\ \A b \in Guests : flow[b].at = "invitation"
    BY <1>3, Zenon DEF EnrolInit
  <1>5. EnrolTyped
    BY <1>1, <1>2, <1>4, SMTT(60) DEF EnrolInit, EnrolTyped
  <1>6. LinksFine
    BY <1>4, SMT DEF EnrolInit, LinksFine
  <1>7. ListTold /\ Unused
    BY SMT DEF EnrolInit, ListTold, Unused
  <1>8. RateKept
    <2>1. Listed(resent) = {}
      <3> SUFFICES ASSUME NEW x \in Listed(resent) PROVE FALSE
        OBVIOUS
      <3>1. PICK t \in Ticks : t > clock - Window /\ \E i \in 1 .. resent[t] : x = <<t, i>>
        <4>1. x \in Listed(resent)
          OBVIOUS
        <4>2. InList(resent, x)
          BY ONLY <4>1, ListedMember, Zenon
        <4> QED BY ONLY <4>2, Zenon DEF InList
      <3>2. resent[t] = 0
        BY <1>1, Zenon DEF EnrolInit
      <3> QED BY <3>1, <3>2, SMT
    <2>2. Recent(resent) = 0
      BY <2>1, FS_EmptySet, Zenon DEF Recent
    <2> QED BY <2>2, EnrolAssumption, SMT DEF RateKept
  <1> QED BY <1>5, <1>6, <1>7, <1>8, ZenonT(60) DEF EnrolInv

\* Every step keeps the invariant.
LEMMA EnrolNextInv == EnrolInv /\ [EnrolNext]_enrolVars => EnrolInv'
  <1>1. ASSUME EnrolInv, EnrolNext PROVE EnrolInv'
    <2>1. flow' \in [Guests -> Visit] /\ LinksFine'
      BY <1>1, LinksStep, Zenon
    <2>2. uses' \in Nat /\ Unused'
      BY <1>1, InviteStep, Zenon
    <2>3. clock' \in Ticks /\ times' \in Lists /\ resent' \in Lists /\ ListTold' /\ RateKept'
      BY <1>1, RateStep, Zenon
    <2>4. EnrolTyped'
      BY <2>1, <2>2, <2>3, Zenon DEF EnrolTyped, Lists, Ticks, Visit
    <2> QED BY <2>1, <2>2, <2>3, <2>4, ZenonT(60) DEF EnrolInv
  <1>2. ASSUME EnrolInv, UNCHANGED enrolVars PROVE EnrolInv'
    <2>1. UNCHANGED <<clock, single, invite, uses, flow, links, mailed, continued, times, resent,
                      overlapped>>
      BY <1>2, Zenon DEF enrolVars
    <2>2. EnrolTyped' /\ LinksFine'
      BY <1>2, <2>1, Zenon DEF EnrolInv, EnrolTyped, LinksFine
    <2>3. ListTold' /\ RateKept'
      BY <1>2, <2>1, OtherRate, Zenon
    <2>4. Unused'
      BY <1>2, <2>1, Zenon DEF EnrolInv, Unused
    <2> QED BY <2>2, <2>3, <2>4, Zenon DEF EnrolInv
  <1> QED BY <1>1, <1>2, Zenon

\* The inductive invariant holds in every reachable state.
THEOREM EnrolInvariance == EnrolSpec => []EnrolInv
  BY EnrolInitInv, EnrolNextInv, PTL DEF EnrolSpec

\* _is_rate_limited: no window sees more repeated mails than recovery_max_attempts, as long as
\* no request writes the list without another's mail; for any window, limit and number of
\* browsers.
THEOREM RateTheorem == EnrolSpec => []RateKept
  <1>1. EnrolInv => RateKept
    BY DEF EnrolInv
  <1> QED BY <1>1, EnrolInvariance, PTL

\* Invitation.single_use: an invitation for a single use is used once, unless a second request
\* had read it before the first deleted it.
THEOREM InviteTheorem == EnrolSpec => []InviteOnce
  <1>1. EnrolInv => InviteOnce
    BY DEF EnrolInv, Unused, InviteOnce
  <1> QED BY <1>1, EnrolInvariance, PTL

\* EmailTokenRevocationConsentStageView: once a browser continued from a link, the link opens
\* in no browser any more.
THEOREM SpentTheorem == EnrolSpec => SpentLink
  <1> DEFINE Step == \A b \in Guests :
               flow'[b].at = "confirm" /\ flow[b].at # "confirm" => flow'[b].link \notin continued
  <1>1. ASSUME EnrolInv, EnrolNext, NEW b \in Guests, flow'[b].at = "confirm",
               flow[b].at # "confirm"
        PROVE  flow'[b].link \notin continued
    <2>0. flow \in [Guests -> Visit] /\ links \cap continued = {} /\ times \in Lists
      BY <1>1, Zenon DEF EnrolInv, EnrolTyped, LinksFine
    <2>p. \A p \in Places : Reached(p) \in Visit /\ Reached(p).at = p
      BY ReachedVisit, Zenon
    <2>1. ASSUME NEW c \in Guests, NEW p \in Places \ {"confirm"}, Goto(c, p) PROVE FALSE
      <3>1. flow' = [flow EXCEPT ![c] = Reached(p)]
        BY <2>1, Zenon DEF Goto
      <3>2. flow'[b] = flow[b] \/ flow'[b] = Reached(p)
        BY <2>0, <3>1, SMT
      <3> QED BY <1>1, <2>p, <3>2, Zenon
    <2>2. ASSUME NEW c \in Guests, NEW k \in Links, OpenLink(c, k)
          PROVE  flow'[b].link \notin continued
      <3> DEFINE v == [Reached("confirm") EXCEPT !.link = k]
      <3>1. flow' = [flow EXCEPT ![c] = v] /\ k \in links
        BY <2>2, Zenon DEF OpenLink
      <3>2. v.link = k
        BY SMT DEF Reached
      <3> HIDE DEF v
      <3>3. flow'[b] = flow[b] \/ flow'[b] = v
        BY <2>0, <3>1, SMT
      <3> QED BY <1>1, <2>0, <3>1, <3>2, <3>3, ZenonT(60)
    <2>3. ASSUME NEW c \in Guests, AskAgain(c) PROVE FALSE
      <3> DEFINE v == [Reached("asked") EXCEPT !.times = times]
      <3>1. flow' = [flow EXCEPT ![c] = v]
        BY <2>3, Zenon DEF AskAgain
      <3>2. v.at = "asked"
        BY SMT DEF Reached
      <3> HIDE DEF v
      <3>3. flow'[b] = flow[b] \/ flow'[b] = v
        BY <2>0, <3>1, SMT
      <3> QED BY <1>1, <3>2, <3>3, ZenonT(60)
    <2>4. /\ "invited" \in Places \ {"confirm"} /\ "email" \in Places \ {"confirm"}
          /\ "denied" \in Places \ {"confirm"} /\ "sent" \in Places \ {"confirm"}
          /\ "invitation" \in Places \ {"confirm"} /\ "done" \in Places \ {"confirm"}
      BY SMT DEF Places
    <2>5. ASSUME NEW c \in Guests,
                 \/ GetInvite(c) \/ UseInvite(c) \/ ReloadPage(c) \/ Restart(c)
                 \/ FirstEmail(c) \/ Resend(c) \/ Confirm(c)
          PROVE  FALSE
      BY <2>1, <2>4, <2>5, ZenonT(60)
         DEF GetInvite, UseInvite, ReloadPage, Restart, FirstEmail, Resend, Confirm
    <2>6. ASSUME DeleteInvite \/ ExpireLink \/ Pass PROVE FALSE
      BY <1>1, <2>6, Zenon DEF DeleteInvite, ExpireLink, Pass
    <2> QED BY <1>1, <2>2, <2>3, <2>5, <2>6, ZenonT(60) DEF EnrolNext
  <1>2. ASSUME EnrolInv, [EnrolNext]_enrolVars PROVE [Step]_enrolVars
    BY <1>1, <1>2, Zenon
  <1> QED BY <1>2, EnrolInvariance, PTL DEF EnrolSpec, SpentLink


-----------------------------------------------------------------------------
(* The SCIM source: what is listed of a group *)

\* A request has all its fields, and is about members or about a user.
Shaped(r) ==
    r = [at |-> r.at, key |-> r.key, user |-> r.user, data |-> r.data, to |-> r.to,
         kept |-> r.kept, op |-> r.op, who |-> r.who, single |-> r.single, seen |-> r.seen,
         did |-> r.did, late |-> r.late, crossed |-> r.crossed]
AboutUser(r) == r.op = "" /\ r.at \in {"none", "look", "save"}
AboutMembers(r) == r.op # "" /\ r.at \in {"change", "skip", "list"} /\ r.late \in BOOLEAN

\* A request on members that nothing overtook has read the list as it is; one that will leave
\* the list alone makes the members what it says.
UpToDate(r) ==
    /\ ~ r.late => r.seen = listed
    /\ r.at = "skip" /\ ~ r.late /\ ~ r.single => Toggle(grouped, r.did) = listed

CallFine(r) == Shaped(r) /\ (AboutUser(r) \/ (AboutMembers(r) /\ UpToDate(r)))

ListInv ==
    /\ call = [c \in Callers |-> call[c]]
    /\ \A c \in Callers : CallFine(call[c])
    /\ unlisted \in BOOLEAN /\ ListTrue

\* What requests have in common on what matters for the members.
Like(q, r) ==
    /\ q.at = r.at /\ q.op = r.op /\ q.single = r.single /\ q.seen = r.seen
    /\ q.did = r.did /\ q.late = r.late

\* Assigning to at leaves the rest of a request.
LEMMA SetAt ==
    ASSUME NEW r, Shaped(r), NEW v, NEW q, q = [r EXCEPT !.at = v]
    PROVE  /\ Shaped(q) /\ q.at = v /\ q.late = r.late /\ q.did = r.did
           /\ q.op = r.op /\ q.single = r.single /\ q.seen = r.seen
BY DEF Shaped

\* Assigning to late leaves the rest of a request.
LEMMA SetLate ==
    ASSUME NEW r, Shaped(r), NEW v, NEW q, q = [r EXCEPT !.late = v]
    PROVE  /\ Shaped(q) /\ q.late = v /\ q.at = r.at /\ q.did = r.did
           /\ q.op = r.op /\ q.single = r.single /\ q.seen = r.seen
BY DEF Shaped

\* Assigning to did leaves the rest of a request.
LEMMA SetDid ==
    ASSUME NEW r, Shaped(r), NEW v, NEW q, q = [r EXCEPT !.did = v]
    PROVE  /\ Shaped(q) /\ q.did = v /\ q.at = r.at /\ q.late = r.late
           /\ q.op = r.op /\ q.single = r.single /\ q.seen = r.seen
BY DEF Shaped

\* Assigning to op leaves the rest of a request.
LEMMA SetOp ==
    ASSUME NEW r, Shaped(r), NEW v, NEW q, q = [r EXCEPT !.op = v]
    PROVE  /\ Shaped(q) /\ q.op = v /\ q.at = r.at /\ q.late = r.late
           /\ q.did = r.did /\ q.single = r.single /\ q.seen = r.seen
BY DEF Shaped

\* Assigning to single leaves the rest of a request.
LEMMA SetSingle ==
    ASSUME NEW r, Shaped(r), NEW v, NEW q, q = [r EXCEPT !.single = v]
    PROVE  /\ Shaped(q) /\ q.single = v /\ q.at = r.at /\ q.late = r.late
           /\ q.did = r.did /\ q.op = r.op /\ q.seen = r.seen
BY DEF Shaped

\* Assigning to seen leaves the rest of a request.
LEMMA SetSeen ==
    ASSUME NEW r, Shaped(r), NEW v, NEW q, q = [r EXCEPT !.seen = v]
    PROVE  /\ Shaped(q) /\ q.seen = v /\ q.at = r.at /\ q.late = r.late
           /\ q.did = r.did /\ q.op = r.op /\ q.single = r.single
BY DEF Shaped

\* The fields that say nothing about the members.
LEMMA OtherField ==
    ASSUME NEW r, Shaped(r), NEW v, NEW q,
           \/ q = [r EXCEPT !.key = v] \/ q = [r EXCEPT !.user = v] \/ q = [r EXCEPT !.data = v]
           \/ q = [r EXCEPT !.to = v] \/ q = [r EXCEPT !.kept = v] \/ q = [r EXCEPT !.who = v]
           \/ q = [r EXCEPT !.crossed = v]
    PROVE  Shaped(q) /\ Like(q, r)
BY ZenonT(60) DEF Shaped, Like

\* No request.
LEMMA NoCallFine == Shaped(NoCall) /\ AboutUser(NoCall) /\ NoCall.late = FALSE
BY DEF NoCall, Shaped, AboutUser

\* A step that changes one request and not the members.
LEMMA CallStep ==
    ASSUME ListInv, NEW c \in Callers, NEW r, CallFine(r), call' = [call EXCEPT ![c] = r],
           UNCHANGED <<grouped, listed, unlisted>>
    PROVE  ListInv'
<1>1. call = [d \in Callers |-> call[d]] /\ \A d \in Callers : CallFine(call[d])
  BY DEF ListInv
<1>2. call' = [d \in Callers |-> IF d = c THEN r ELSE call[d]]
  BY <1>1, ZenonT(60)
<1>3. call' = [d \in Callers |-> call'[d]] /\ \A d \in Callers : call'[d] \in {r, call[d]}
  BY <1>2, ZenonT(60)
<1>4. \A x : CallFine(x)' <=> CallFine(x)
  BY Zenon DEF CallFine, UpToDate
<1>5. \A d \in Callers : CallFine(call'[d])
  BY <1>1, <1>3
<1>6. \A d \in Callers : CallFine(call[d])'
  BY <1>5, Zenon DEF CallFine, UpToDate
<1> QED
  BY <1>3, <1>6, SMTT(60) DEF ListInv, ListTrue

\* Overtaken requests on members are late, and the others do not say anything about members.
LEMMA OvertakenFine ==
    ASSUME ListInv, NEW S, NEW d \in Callers
    PROVE  LET r == Overtaken(S)[d]
           IN  Shaped(r) /\ (AboutUser(r) \/ (AboutMembers(r) /\ r.late = TRUE))
<1> DEFINE q == [call[d] EXCEPT !.late = TRUE]
           x == IF call[d].at \in Changed THEN call[d].crossed \cup S ELSE call[d].crossed
           r == [q EXCEPT !.crossed = x]
<1>1. Shaped(call[d]) /\ (AboutUser(call[d]) \/ AboutMembers(call[d]))
  BY DEF ListInv, CallFine
<1>2. CASE call[d].op = ""
  <2>1. Overtaken(S)[d] = call[d]
    BY <1>2, ZenonT(60) DEF Overtaken
  <2>2. AboutUser(call[d])
    BY <1>1, <1>2, ZenonT(60) DEF AboutMembers
  <2> QED
    BY <1>1, <2>1, <2>2
<1>3. CASE call[d].op # ""
  <2>1. Overtaken(S)[d] = r
    BY <1>1, <1>3, ZenonT(60) DEF Overtaken, Shaped
  <2>2. Shaped(q) /\ q.late = TRUE /\ q.at = call[d].at /\ q.op = call[d].op
    BY ONLY <1>1, SetLate, SMTT(60)
  <2> HIDE DEF q, x
  <2>3. Shaped(r) /\ r.late = q.late /\ r.at = q.at /\ r.op = q.op
    BY ONLY <2>2, OtherField, SMTT(60) DEF Like
  <2> HIDE DEF r
  <2>4. AboutMembers(r)
    BY <1>1, <1>3, <2>2, <2>3, ZenonT(60) DEF AboutMembers, AboutUser
  <2> QED
    BY <2>1, <2>2, <2>3, <2>4
<1> QED
  BY <1>2, <1>3, ZenonT(60)

\* A step that changes the members, the list or both, and overtakes what is under way.
LEMMA MemberStep ==
    ASSUME ListInv, NEW S, call' = Overtaken(S), unlisted' \in BOOLEAN, ListTrue'
    PROVE  ListInv'
<1>1. call' = [d \in Callers |-> call'[d]]
  BY ZenonT(60) DEF Overtaken
<1>2. ASSUME NEW d \in Callers PROVE CallFine(call[d])'
  <2> DEFINE r == call'[d]
  <2>1. Shaped(r) /\ (AboutUser(r) \/ (AboutMembers(r) /\ r.late = TRUE))
    BY OvertakenFine, ZenonT(60)
  <2> QED
    BY <2>1, ZenonT(60) DEF CallFine, Shaped, AboutUser, AboutMembers, UpToDate
<1> QED
  BY <1>1, <1>2, SMTT(60) DEF ListInv

\* The requests on a user.
LEMMA KeepStep ==
    ASSUME ListInv, NEW c \in Callers, NEW k, NEW p, NEW data, Keep(c, k, p, data),
           UNCHANGED memberVars
    PROVE  ListInv'
<1> DEFINE r1 == [NoCall EXCEPT !.at = "look"]
           r2 == [r1 EXCEPT !.key = k]
           r3 == [r2 EXCEPT !.user = p]
           r4 == [r3 EXCEPT !.data = data]
<1>1. call' = [call EXCEPT ![c] = r4]
  BY DEF Keep
<1>2. Shaped(r1) /\ r1.at = "look" /\ r1.op = NoCall.op
  BY ONLY NoCallFine, SetAt, SMTT(60)
<1> HIDE DEF r1
<1>3. Shaped(r2) /\ r2.at = r1.at /\ r2.op = r1.op
  BY ONLY <1>2, OtherField, SMTT(60) DEF Like
<1> HIDE DEF r2
<1>4. Shaped(r3) /\ r3.at = r2.at /\ r3.op = r2.op
  BY ONLY <1>3, OtherField, SMTT(60) DEF Like
<1> HIDE DEF r3
<1>5. Shaped(r4) /\ r4.at = r3.at /\ r4.op = r3.op
  BY ONLY <1>4, OtherField, SMTT(60) DEF Like
<1> HIDE DEF r4
<1>6. CallFine(r4)
  BY <1>2, <1>3, <1>4, <1>5, NoCallFine, ZenonT(60) DEF CallFine, AboutUser
<1> QED
  BY <1>1, <1>6, CallStep, ZenonT(60) DEF memberVars

\* A request that ends without touching the members.
LEMMA LeaveStep ==
    ASSUME ListInv, NEW c \in Callers, Leave(c), UNCHANGED memberVars
    PROVE  ListInv'
<1>1. CallFine(NoCall)
  BY NoCallFine DEF CallFine
<1> QED
  BY <1>1, CallStep, ZenonT(60) DEF Leave, memberVars

\* update_user loads the user.
LEMMA LookUpStep ==
    ASSUME ListInv, NEW c \in Callers, LookUpUser(c)
    PROVE  ListInv'
<1>1. CASE Leave(c)
  BY <1>1, LeaveStep DEF LookUpUser
<1>2. CASE ~ Leave(c)
  <2> DEFINE p == TargetUser(c)
             l == IF p = New THEN NoLabel ELSE account[p].label
             r1 == [call[c] EXCEPT !.at = "save"]
             r2 == [r1 EXCEPT !.to = p]
             r3 == [r2 EXCEPT !.kept = l]
  <2>1. Shaped(call[c]) /\ AboutUser(call[c]) /\ call = [d \in Callers |-> call[d]]
    BY ZenonT(60) DEF ListInv, CallFine, AboutMembers, LookUpUser
  <2>2. call' = [call EXCEPT ![c].at = "save", ![c].to = p, ![c].kept = l]
    BY <1>2 DEF LookUpUser
  <2> HIDE DEF p, l
  <2>3. call' = [call EXCEPT ![c] = r3]
    BY <2>1, <2>2, ZenonT(60)
  <2>4. Shaped(r1) /\ r1.at = "save" /\ r1.op = call[c].op
    BY ONLY <2>1, SetAt, SMT
  <2> HIDE DEF r1
  <2>5. Shaped(r2) /\ r2.at = r1.at /\ r2.op = r1.op
    BY ONLY <2>4, OtherField, SMT DEF Like
  <2> HIDE DEF r2
  <2>6. Shaped(r3) /\ r3.at = r2.at /\ r3.op = r2.op
    BY ONLY <2>5, OtherField, SMT DEF Like
  <2> HIDE DEF r3
  <2>7. CallFine(r3)
    BY <2>1, <2>4, <2>5, <2>6, ZenonT(60) DEF CallFine, AboutUser
  <2> QED
    BY <2>3, <2>7, CallStep, ZenonT(60) DEF LookUpUser, memberVars
<1> QED
  BY <1>1, <1>2

\* GroupsView.patch reads the connection.
LEMMA PatchMembersStep ==
    ASSUME ListInv, NEW c \in Callers, PatchMembers(c)
    PROVE  ListInv'
<1>1. PICK op \in {"add", "remove"}, who \in (SUBSET Persons) \ {{}}, one \in BOOLEAN :
        call' = [call EXCEPT ![c] = [NoCall EXCEPT !.at = "change", !.op = op, !.who = who,
                                                   !.single = one, !.seen = listed]]
  BY ZenonT(60) DEF PatchMembers
<1> DEFINE r1 == [NoCall EXCEPT !.at = "change"]
           r2 == [r1 EXCEPT !.op = op]
           r3 == [r2 EXCEPT !.who = who]
           r4 == [r3 EXCEPT !.single = one]
           r5 == [r4 EXCEPT !.seen = listed]
<1>2. call' = [call EXCEPT ![c] = r5]
  BY <1>1
<1>3. Shaped(r1) /\ r1.at = "change" /\ r1.late = FALSE
  BY ONLY NoCallFine, SetAt, SMTT(60)
<1> HIDE DEF r1
<1>4. Shaped(r2) /\ r2.at = r1.at /\ r2.op = op /\ r2.late = r1.late
  BY ONLY <1>3, SetOp, SMTT(60)
<1> HIDE DEF r2
<1>5. Shaped(r3) /\ r3.at = r2.at /\ r3.op = r2.op /\ r3.late = r2.late
  BY ONLY <1>4, OtherField, SMTT(60) DEF Like
<1> HIDE DEF r3
<1>6. Shaped(r4) /\ r4.at = r3.at /\ r4.op = r3.op /\ r4.late = r3.late
  BY ONLY <1>5, SetSingle, SMTT(60)
<1> HIDE DEF r4
<1>7. Shaped(r5) /\ r5.at = r4.at /\ r5.op = r4.op /\ r5.late = r4.late /\ r5.seen = listed
  BY ONLY <1>6, SetSeen, SMTT(60)
<1> HIDE DEF r5
<1>8. CallFine(r5)
  BY <1>3, <1>4, <1>5, <1>6, <1>7, ZenonT(60) DEF CallFine, AboutMembers, UpToDate
<1> QED
  BY <1>2, <1>8, CallStep, ZenonT(60) DEF PatchMembers, memberVars

\* The comparison: the list is left alone only if it says what the members will be.
LEMMA ChangeStep ==
    ASSUME ListInv, NEW c \in Callers, ChangeMembers(c)
    PROVE  ListInv'
<1> DEFINE w == call[c].who \cap Here
           did == Changes(c)
           at == IF Toggle(grouped, did) \in ReadAfter(c) THEN "skip" ELSE "list"
           r1 == [call[c] EXCEPT !.who = w]
           r2 == [r1 EXCEPT !.did = did]
           r3 == [r2 EXCEPT !.at = at]
<1>1. /\ Shaped(call[c]) /\ AboutMembers(call[c]) /\ UpToDate(call[c])
      /\ call = [d \in Callers |-> call[d]]
  BY ZenonT(60) DEF ListInv, CallFine, AboutUser, ChangeMembers
<1>2. call' = [call EXCEPT ![c].who = @ \cap Here, ![c].did = did, ![c].at = at]
  BY DEF ChangeMembers
<1>3. at \in {"skip", "list"}
  OBVIOUS
<1>4. at = "skip" /\ ~ call[c].single => Toggle(grouped, did) = call[c].seen
  BY DEF ReadAfter
<1> HIDE DEF did, at
<1>5. call' = [call EXCEPT ![c] = r3]
  BY <1>1, <1>2, ZenonT(60)
<1> HIDE DEF w
<1>6. Shaped(r1) /\ r1.op = call[c].op /\ r1.single = call[c].single
      /\ r1.seen = call[c].seen /\ r1.late = call[c].late
  BY ONLY <1>1, OtherField, SMT DEF Like
<1> HIDE DEF r1
<1>7. Shaped(r2) /\ r2.op = r1.op /\ r2.single = r1.single /\ r2.seen = r1.seen
      /\ r2.late = r1.late /\ r2.did = did
  BY ONLY <1>6, SetDid, SMT
<1> HIDE DEF r2
<1>8. Shaped(r3) /\ r3.op = r2.op /\ r3.single = r2.single /\ r3.seen = r2.seen
      /\ r3.late = r2.late /\ r3.did = r2.did /\ r3.at = at
  BY ONLY <1>7, SetAt, SMT
<1> HIDE DEF r3
<1>9. AboutMembers(r3)
  BY <1>1, <1>3, <1>6, <1>7, <1>8, ZenonT(60) DEF AboutMembers
<1>10. UpToDate(r3)
  BY <1>1, <1>4, <1>6, <1>7, <1>8, SMTT(60) DEF UpToDate
<1>11. CallFine(r3)
  BY <1>8, <1>9, <1>10, SMTT(60) DEF CallFine
<1> QED
  BY <1>5, <1>11, CallStep, ZenonT(60) DEF ChangeMembers, memberVars

\* The transaction commits.
LEMMA CommitStep ==
    ASSUME ListInv, NEW c \in Callers, CommitMembers(c)
    PROVE  ListInv'
<1>1. /\ AboutMembers(call[c]) /\ UpToDate(call[c]) /\ unlisted \in BOOLEAN /\ ListTrue
      /\ call[c].at \in {"skip", "list"}
  BY ZenonT(60) DEF ListInv, CallFine, AboutUser, CommitMembers, Changed
<1>2. /\ grouped' = Toggle(grouped, call[c].did)
      /\ listed' = IF call[c].at = "list" THEN Toggle(grouped, call[c].did) ELSE listed
      /\ unlisted' = /\ call[c].at = "skip"
                     /\ unlisted \/ call[c].late \/ call[c].single
      /\ call' = [Overtaken(call[c].did) EXCEPT ![c] = NoCall]
  BY SMTT(60) DEF CommitMembers, ConvertMembers
<1>3. unlisted' \in BOOLEAN
  BY <1>2, SMTT(60)
<1>4. ListTrue'
  <2>1. CASE call[c].at = "list"
    BY <1>2, <2>1, SMTT(60) DEF ListTrue
  <2>2. CASE call[c].at = "skip"
    <3>1. CASE unlisted \/ call[c].late \/ call[c].single
      BY <1>2, <2>2, <3>1, SMTT(60) DEF ListTrue
    <3>2. CASE ~ (unlisted \/ call[c].late \/ call[c].single)
      BY <1>1, <1>2, <2>2, <3>2, SMTT(60) DEF ListTrue, UpToDate
    <3> QED
      BY <3>1, <3>2, SMTT(60)
  <2> QED
    BY <1>1, <2>1, <2>2, SMTT(60)
<1> DEFINE over == Overtaken(call[c].did)
<1>5. /\ call' = [d \in Callers |-> call'[d]]
      /\ \A d \in Callers : call'[d] = IF d = c THEN NoCall ELSE over[d]
  <2>1. over = [d \in Callers |-> over[d]]
    BY DEF Overtaken
  <2> HIDE DEF over
  <2>2. call' = [d \in Callers |-> IF d = c THEN NoCall ELSE over[d]]
    BY <1>2, <2>1, ZenonT(60) DEF over
  <2> QED
    BY <2>2
<1>6. ASSUME NEW d \in Callers PROVE CallFine(call[d])'
  <2> DEFINE r == call'[d]
  <2>1. Shaped(over[d]) /\ (AboutUser(over[d]) \/ (AboutMembers(over[d]) /\ over[d].late = TRUE))
    BY OvertakenFine, ZenonT(60)
  <2> HIDE DEF over
  <2>2. Shaped(r) /\ (AboutUser(r) \/ (AboutMembers(r) /\ r.late = TRUE))
    BY <1>5, <2>1, NoCallFine
  <2> QED
    BY <2>2, ZenonT(60) DEF CallFine, Shaped, AboutUser, AboutMembers, UpToDate
<1> QED
  BY <1>3, <1>4, <1>5, <1>6, SMTT(60) DEF ListInv

\* The invariant is inductive.
LEMMA ListNextInv == ListInv /\ [ScimNext]_scimVars => ListInv'
<1> SUFFICES ASSUME ListInv, [ScimNext]_scimVars PROVE ListInv'
  OBVIOUS
<1>1. ASSUME NEW c \in Callers, PostUser(c) PROVE ListInv'
  BY <1>1, KeepStep DEF PostUser
<1>2. ASSUME NEW c \in Callers, PutUser(c) PROVE ListInv'
  BY <1>2, KeepStep DEF PutUser
<1>3. CASE UNCHANGED <<call, memberVars>>
  BY <1>3, ZenonT(60) DEF ListInv, ListTrue, CallFine, Shaped, AboutUser, AboutMembers, UpToDate, memberVars
<1>4. ASSUME NEW c \in Callers, PatchUser(c) PROVE ListInv'
  BY <1>3, <1>4, KeepStep DEF PatchUser
<1>5. ASSUME NEW c \in Callers, LookUpUser(c) PROVE ListInv'
  BY <1>5, LookUpStep
<1>6. ASSUME NEW c \in Callers, SaveUser(c) PROVE ListInv'
  BY <1>6, LeaveStep, SMTT(60) DEF SaveUser
<1>7. ASSUME NEW c \in Callers, DeleteScimUser(c) PROVE ListInv'
  <2>1. PICK p \in Here : /\ grouped' = grouped \ {p} /\ unlisted' = (unlisted \/ p \in grouped)
                          /\ call' = Overtaken({p}) /\ listed' = listed
    BY <1>7, ZenonT(60) DEF DeleteScimUser
  <2>2. unlisted' \in BOOLEAN
    BY <2>1
  <2>3. ListTrue'
    BY <2>1, ZenonT(60) DEF ListInv, ListTrue
  <2> QED
    BY <2>1, <2>2, <2>3, MemberStep, SMTT(60)
<1>8. ASSUME NEW c \in Callers, PutMembers(c) PROVE ListInv'
  <2>1. PICK S : call' = Overtaken(S) /\ listed' = grouped' /\ unlisted' = FALSE
    BY <1>8 DEF PutMembers
  <2> QED
    BY <2>1, MemberStep, ZenonT(60) DEF ListTrue
<1>9. ASSUME NEW c \in Callers, PatchMembers(c) PROVE ListInv'
  BY <1>9, PatchMembersStep
<1>10. ASSUME NEW c \in Callers, ChangeMembers(c) PROVE ListInv'
  BY <1>10, ChangeStep
<1>11. ASSUME NEW c \in Callers, CommitMembers(c) PROVE ListInv'
  BY <1>11, CommitStep
<1>12. ASSUME NEW c \in Callers, AbortMembers(c) PROVE ListInv'
  BY <1>12, LeaveStep DEF AbortMembers
<1>13. CASE UNCHANGED scimVars
  BY <1>3, <1>13 DEF scimVars, memberVars
<1> QED
  BY <1>1, <1>2, <1>4, <1>5, <1>6, <1>7, <1>8, <1>9, <1>10, <1>11, <1>12, <1>13, Zenon
     DEF ScimNext

\* No request and no member at the start.
LEMMA ListInitInv == ScimInit => ListInv
<1> SUFFICES ASSUME ScimInit PROVE ListInv
  OBVIOUS
<1>1. /\ call = [c \in Callers |-> NoCall] /\ unlisted = FALSE /\ listed = {} /\ grouped = {}
  BY DEF ScimInit
<1>2. \A c \in Callers : call[c] = NoCall
  BY <1>1
<1>3. CallFine(NoCall)
  BY NoCallFine DEF CallFine
<1> QED
  BY <1>1, <1>2, <1>3, ZenonT(60) DEF ListInv, ListTrue

\* The members that the connection of the group lists are its members, unless a user was
\* deleted, one was added by itself, or requests overlapped before the comparison, since.
THEOREM ListTheorem == ScimSpec => []ListTrue
<1>1. ListInv => ListTrue
  BY DEF ListInv
<1> QED
  BY <1>1, ListInitInv, ListNextInv, PTL DEF ScimSpec

-----------------------------------------------------------------------------
(* ScimSource: the users *)

\* A request about a user knows the user and the connection it will write.
Writes(r) ==
    r.at \in {"look", "save"} =>
        /\ r.key \in ScimKeys \cup {New}
        /\ r.key # New => r.user \in Persons
        /\ r.at = "save" => r.to \in Persons \cup {New} /\ (r.key # New => r.to # New)

CallsFine == call = [c \in Callers |-> call[c]] /\ \A c \in Callers : Shaped(call[c]) /\ Writes(call[c])

DataInv ==
    /\ account = [p \in Persons |-> account[p]] /\ scim = [k \in ScimKeys |-> scim[k]]
    /\ CallsFine /\ DataAgree

\* What requests have in common on what matters for users.
Alike(q, r) == q.at = r.at /\ q.key = r.key /\ q.user = r.user /\ q.to = r.to

\* Assigning to the fields that say nothing about users.
LEMMA MemberField ==
    ASSUME NEW r, Shaped(r), NEW v, NEW q,
           \/ q = [r EXCEPT !.data = v] \/ q = [r EXCEPT !.kept = v] \/ q = [r EXCEPT !.op = v]
           \/ q = [r EXCEPT !.who = v] \/ q = [r EXCEPT !.single = v] \/ q = [r EXCEPT !.seen = v]
           \/ q = [r EXCEPT !.did = v] \/ q = [r EXCEPT !.late = v] \/ q = [r EXCEPT !.crossed = v]
    PROVE  Shaped(q) /\ Alike(q, r)
BY DEF Shaped, Alike

\* Assigning to the stage of a request.
LEMMA StageField ==
    ASSUME NEW r, Shaped(r), NEW v, NEW q, q = [r EXCEPT !.at = v]
    PROVE  Shaped(q) /\ q.at = v /\ q.key = r.key /\ q.user = r.user /\ q.to = r.to
BY DEF Shaped

\* Assigning to the connection of a request.
LEMMA KeyField ==
    ASSUME NEW r, Shaped(r), NEW v, NEW q, q = [r EXCEPT !.key = v]
    PROVE  Shaped(q) /\ q.key = v /\ q.at = r.at /\ q.user = r.user /\ q.to = r.to
BY DEF Shaped

\* Assigning to the user of its connection.
LEMMA UserField ==
    ASSUME NEW r, Shaped(r), NEW v, NEW q, q = [r EXCEPT !.user = v]
    PROVE  Shaped(q) /\ q.user = v /\ q.at = r.at /\ q.key = r.key /\ q.to = r.to
BY DEF Shaped

\* Assigning to the user it will write.
LEMMA ToField ==
    ASSUME NEW r, Shaped(r), NEW v, NEW q, q = [r EXCEPT !.to = v]
    PROVE  Shaped(q) /\ q.to = v /\ q.at = r.at /\ q.key = r.key /\ q.user = r.user
BY DEF Shaped

\* A request that was overtaken writes what it would have written.
LEMMA OvertakenWrites ==
    ASSUME CallsFine, NEW S, NEW d \in Callers
    PROVE  Shaped(Overtaken(S)[d]) /\ Writes(Overtaken(S)[d])
<1> DEFINE q == [call[d] EXCEPT !.late = TRUE]
           x == IF call[d].at \in Changed THEN call[d].crossed \cup S ELSE call[d].crossed
           r == [q EXCEPT !.crossed = x]
<1>1. Shaped(call[d]) /\ Writes(call[d])
  BY DEF CallsFine
<1>2. CASE call[d].op = ""
  <2>1. Overtaken(S)[d] = call[d]
    BY <1>2, ZenonT(60) DEF Overtaken
  <2> QED
    BY <1>1, <2>1
<1>3. CASE call[d].op # ""
  <2>1. Overtaken(S)[d] = r
    BY <1>1, <1>3, ZenonT(60) DEF Overtaken, Shaped
  <2>2. Shaped(q) /\ Alike(q, call[d])
    BY ONLY <1>1, MemberField, SMT
  <2> HIDE DEF q, x
  <2>3. Shaped(r) /\ Alike(r, q)
    BY ONLY <2>2, MemberField, SMT
  <2> HIDE DEF r
  <2>4. Writes(r)
    BY <1>1, <2>2, <2>3, Zenon DEF Writes, Alike
  <2> QED
    BY <2>1, <2>3, <2>4
<1> QED
  BY <1>2, <1>3, ZenonT(60)

\* A step of one request that leaves the rows alone.
LEMMA OneCall ==
    ASSUME DataInv, NEW c \in Callers, NEW r, Shaped(r), Writes(r), call' = [call EXCEPT ![c] = r]
    PROVE  CallsFine'
<1>1. call = [d \in Callers |-> call[d]] /\ \A d \in Callers : Shaped(call[d]) /\ Writes(call[d])
  BY Zenon DEF DataInv, CallsFine
<1>2. call' = [d \in Callers |-> IF d = c THEN r ELSE call[d]]
  BY <1>1, Zenon
<1>3. call' = [d \in Callers |-> call'[d]] /\ \A d \in Callers : call'[d] \in {r, call[d]}
  BY <1>2, ZenonT(60)
<1>4. \A d \in Callers : Shaped(call'[d]) /\ Writes(call'[d])
  BY <1>1, <1>3, Zenon
<1> QED
  BY <1>3, <1>4, Zenon DEF CallsFine, Shaped, Writes

\* The rows stay.
LEMMA RowsStay ==
    ASSUME DataInv, CallsFine', UNCHANGED <<account, scim, collided, doubled>>
    PROVE  DataInv'
BY Zenon DEF DataInv, DataAgree

\* No request writes nothing.
LEMMA NoWrites == Shaped(NoCall) /\ Writes(NoCall) /\ NoCall.key = New /\ NoCall.user = 0
BY NoCallFine, ZenonT(60) DEF Writes, NoCall

\* A request ends.
LEMMA LeaveData == ASSUME DataInv, NEW c \in Callers, Leave(c) PROVE CallsFine'
BY NoWrites, OneCall, ZenonT(60) DEF Leave

\* A request on a user begins.
LEMMA KeepData ==
    ASSUME DataInv, NEW c \in Callers, NEW k, NEW p, NEW data, Keep(c, k, p, data),
           k = New \/ (k \in ScimKeys /\ p \in Persons)
    PROVE  CallsFine'
<1> DEFINE r1 == [NoCall EXCEPT !.at = "look"]
           r2 == [r1 EXCEPT !.key = k]
           r3 == [r2 EXCEPT !.user = p]
           r4 == [r3 EXCEPT !.data = data]
<1>1. call' = [call EXCEPT ![c] = r4]
  BY DEF Keep
<1>2. Shaped(r1) /\ r1.at = "look"
  BY ONLY NoWrites, StageField, SMT
<1> HIDE DEF r1
<1>3. Shaped(r2) /\ r2.at = r1.at /\ r2.key = k
  BY ONLY <1>2, KeyField, SMT
<1> HIDE DEF r2
<1>4. Shaped(r3) /\ r3.at = r2.at /\ r3.key = r2.key /\ r3.user = p
  BY ONLY <1>3, UserField, SMT
<1> HIDE DEF r3
<1>5. Shaped(r4) /\ Alike(r4, r3)
  BY ONLY <1>4, MemberField, SMT
<1> HIDE DEF r4
<1>6. Writes(r4)
  BY <1>2, <1>3, <1>4, <1>5, Zenon DEF Writes, Alike
<1> QED
  BY <1>1, <1>5, <1>6, OneCall, ZenonT(60)

\* update_user loads the user: the connection's, or the one of that name.
LEMMA LookUpData == ASSUME DataInv, NEW c \in Callers, LookUpUser(c) PROVE DataInv'
<1>1. UNCHANGED <<account, scim, collided, doubled>>
  BY DEF LookUpUser
<1>2. Shaped(call[c]) /\ Writes(call[c]) /\ call[c].at = "look"
  BY DEF DataInv, CallsFine, LookUpUser
<1>3. CASE Leave(c)
  BY <1>1, <1>3, LeaveData, RowsStay
<1>4. CASE ~ Leave(c)
  <2> DEFINE p == TargetUser(c)
             l == IF p = New THEN NoLabel ELSE account[p].label
             r1 == [call[c] EXCEPT !.at = "save"]
             r2 == [r1 EXCEPT !.to = p]
             r3 == [r2 EXCEPT !.kept = l]
  <2>1. call' = [call EXCEPT ![c].at = "save", ![c].to = p, ![c].kept = l]
    BY <1>4 DEF LookUpUser
  <2>2. p \in Persons \cup {New} /\ (call[c].key # New => p # New)
    <3>1. \A x \in NamedScim(call[c].data.name) : x \in Persons
      BY Zenon DEF NamedScim, Here
    <3>2. call[c].key # New => call[c].user \in Persons
      BY <1>2, Zenon DEF Writes
    <3>3. CASE NamedScim(call[c].data.name) # {}
      <4>1. p \in NamedScim(call[c].data.name)
        BY <3>3, Zenon DEF TargetUser
      <4> QED
        BY <3>1, <4>1, ScimAssumption, Zenon DEF New
    <3>4. CASE NamedScim(call[c].data.name) = {}
      <4>1. p = IF call[c].key # New THEN call[c].user ELSE New
        BY <3>4, Zenon DEF TargetUser
      <4> QED
        BY <3>2, <4>1, ScimAssumption, Zenon DEF New
    <3> QED
      BY <3>3, <3>4
  <2> HIDE DEF p, l
  <2>3. call = [d \in Callers |-> call[d]]
    BY DEF DataInv, CallsFine
  <2>4. call' = [call EXCEPT ![c] = r3]
    BY <1>2, <2>1, <2>3, ZenonT(60)
  <2>5. Shaped(r1) /\ r1.at = "save" /\ r1.key = call[c].key /\ r1.user = call[c].user
    BY ONLY <1>2, StageField, SMT
  <2> HIDE DEF r1
  <2>6. Shaped(r2) /\ r2.at = r1.at /\ r2.key = r1.key /\ r2.user = r1.user /\ r2.to = p
    BY ONLY <2>5, ToField, SMT
  <2> HIDE DEF r2
  <2>7. Shaped(r3) /\ Alike(r3, r2)
    BY ONLY <2>6, MemberField, SMT
  <2> HIDE DEF r3
  <2>8. Writes(r3)
    BY <1>2, <2>2, <2>5, <2>6, <2>7, Zenon DEF Writes, Alike
  <2>9. CallsFine'
    BY <2>4, <2>7, <2>8, OneCall, ZenonT(60)
  <2> QED
    BY <1>1, <2>9, RowsStay
<1> QED
  BY <1>3, <1>4

\* The transaction of update_user: the user and the connection agree, or two users met, or the
\* user has a second connection.
LEMMA WriteData ==
    ASSUME DataInv, NEW c \in Callers, NEW p \in Persons, NEW k \in ScimKeys, WriteUser(c, p, k),
           call[c].key # New => p = call[c].to /\ call[c].to # New /\ call[c].user \in Persons
    PROVE  /\ account' = [q \in Persons |-> account'[q]]
           /\ scim' = [q \in ScimKeys |-> scim'[q]] /\ DataAgree'
<1> DEFINE data == call[c].data
           u == IF call[c].key = New THEN p ELSE call[c].user
           label == IF data.label = NoLabel THEN call[c].kept ELSE data.label
           a == [there |-> TRUE, name |-> data.name, label |-> label]
           s == [user |-> u, data |-> data]
<1>1. account = [q \in Persons |-> account[q]] /\ scim = [q \in ScimKeys |-> scim[q]] /\ DataAgree
  BY ZenonT(60) DEF DataInv
<1>2. /\ account' = [account EXCEPT ![p] = a] /\ scim' = [scim EXCEPT ![k] = s]
      /\ collided' = (IF call[c].key # New /\ call[c].to \notin {New, u}
                        THEN collided \cup {p, u} ELSE collided)
      /\ doubled' = (IF ConnectionsOf(u) \ {k} # {} THEN doubled \cup {u} ELSE doubled)
  BY ZenonT(60) DEF WriteUser
<1>3. a.name = data.name /\ (data.label = NoLabel \/ a.label = data.label)
  BY ZenonT(60)
<1>4. s.user = u /\ s.data = data
  OBVIOUS
<1>14. ConnectionsOf(u) \ {k} # {} => u \in doubled'
  BY <1>2, Zenon
<1>5. u = p \/ (p \in collided' /\ u \in collided')
  BY <1>2, ZenonT(60)
<1>6. u \in Persons
  OBVIOUS
<1> HIDE DEF a, s, u, data
<1>7. account' = [q \in Persons |-> IF q = p THEN a ELSE account[q]]
  BY <1>1, <1>2, Zenon
<1>8. scim' = [q \in ScimKeys |-> IF q = k THEN s ELSE scim[q]]
  BY <1>1, <1>2, Zenon
<1>9. /\ account' = [q \in Persons |-> account'[q]] /\ account'[p] = a
      /\ \A q \in Persons : q # p => account'[q] = account[q]
  BY <1>7
<1>10. /\ scim' = [q \in ScimKeys |-> scim'[q]] /\ scim'[k] = s
       /\ \A q \in ScimKeys : q # k => scim'[q] = scim[q]
  BY <1>8
<1>11. collided \subseteq collided' /\ doubled \subseteq doubled'
  BY <1>2, Zenon
<1>12. ASSUME NEW j \in ScimKeys, scim'[j].user # 0, scim'[j].user \notin collided' \cup doubled'
       PROVE  /\ account'[scim'[j].user].name = scim'[j].data.name
              /\ scim'[j].data.label \in {NoLabel, account'[scim'[j].user].label}
  <2>1. CASE j = k
    <3>1. scim'[j] = s /\ u = p
      BY <1>4, <1>5, <1>10, <1>12, <2>1, Zenon
    <3> QED
      BY <1>3, <1>4, <1>9, <3>1, Zenon
  <2>2. CASE j # k
    <3>1. scim'[j] = scim[j]
      BY <1>10, <2>2, Zenon
    <3>2. scim[j].user # u
      <4>1. scim[j].user = u => ConnectionsOf(u) \ {k} # {}
        BY <2>2, Zenon DEF ConnectionsOf
      <4> QED
        BY <1>12, <1>14, <3>1, <4>1, Zenon
    <3>3. scim[j].user # p
      BY <1>5, <1>12, <3>1, <3>2, Zenon
    <3>4. /\ account[scim[j].user].name = scim[j].data.name
          /\ scim[j].data.label \in {NoLabel, account[scim[j].user].label}
      BY <1>1, <1>11, <1>12, <3>1, Zenon DEF DataAgree
    <3>5. account'[scim[j].user] = account[scim[j].user]
      BY <1>1, <1>2, <3>3
    <3> QED
      BY <3>1, <3>4, <3>5, Zenon
  <2> QED
    BY <2>1, <2>2
<1>13. DataAgree'
  BY <1>12, Zenon DEF DataAgree
<1> QED
  BY <1>9, <1>10, <1>13

\* SaveUser, whether the database refuses the rows or not.
LEMMA SaveData == ASSUME DataInv, NEW c \in Callers, SaveUser(c) PROVE DataInv'
<1>1. CallsFine'
  BY LeaveData DEF SaveUser
<1>2. CASE UNCHANGED <<account, scim, collided, doubled>>
  BY <1>1, <1>2, RowsStay
<1>3. CASE ~ UNCHANGED <<account, scim, collided, doubled>>
  <2>1. PICK p \in (IF call[c].to = New THEN NewUsers ELSE {call[c].to}),
             k \in (IF call[c].key = New THEN NewKeys ELSE {call[c].key}) : WriteUser(c, p, k)
    BY <1>3, Zenon DEF SaveUser
  <2>2. /\ call[c].key \in ScimKeys \cup {New} /\ (call[c].key # New => call[c].user \in Persons)
        /\ call[c].to \in Persons \cup {New} /\ (call[c].key # New => call[c].to # New)
    <3>1. Writes(call[c]) /\ call[c].at = "save"
      BY Zenon DEF DataInv, CallsFine, SaveUser
    <3> QED
      BY <3>1, Zenon DEF Writes
  <2>3. NewUsers \subseteq Persons /\ NewKeys \subseteq ScimKeys
    BY Zenon DEF NewUsers, NewKeys
  <2>4. p \in Persons /\ k \in ScimKeys /\ (call[c].key # New => p = call[c].to)
    BY <2>1, <2>2, <2>3, Zenon
  <2>5. /\ account' = [q \in Persons |-> account'[q]]
        /\ scim' = [q \in ScimKeys |-> scim'[q]] /\ DataAgree'
    BY <2>1, <2>2, <2>4, WriteData
  <2> QED
    BY <1>1, <2>5 DEF DataInv
<1> QED
  BY <1>2, <1>3, ZenonT(60)

\* UsersView.delete: the connections go with the user.
LEMMA DeleteData == ASSUME DataInv, NEW c \in Callers, DeleteScimUser(c) PROVE DataInv'
<1>1. PICK p \in Here :
        /\ account' = [account EXCEPT ![p] = NoAccount]
        /\ scim' = [k \in ScimKeys |-> IF scim[k].user = p THEN NoScim ELSE scim[k]]
        /\ collided' = collided \ {p} /\ doubled' = doubled \ {p}
        /\ call' = Overtaken({p})
  BY Zenon DEF DeleteScimUser
<1>2. CallsFine'
  <2>1. call' = [d \in Callers |-> call'[d]]
    BY <1>1, ZenonT(60) DEF Overtaken
  <2>2. \A d \in Callers : Shaped(call'[d]) /\ Writes(call'[d])
    BY <1>1, OvertakenWrites, Zenon DEF DataInv
  <2> QED
    BY <2>1, <2>2, ZenonT(60) DEF CallsFine, Shaped, Writes
<1>3. account = [q \in Persons |-> account[q]] /\ p \in Persons
  BY <1>1, Zenon DEF DataInv, Here
<1>4. account' = [q \in Persons |-> account'[q]] /\ scim' = [q \in ScimKeys |-> scim'[q]]
  BY <1>1, <1>3
<1>5. ASSUME NEW j \in ScimKeys, scim'[j].user # 0, scim'[j].user \notin collided' \cup doubled'
      PROVE  /\ account'[scim'[j].user].name = scim'[j].data.name
             /\ scim'[j].data.label \in {NoLabel, account'[scim'[j].user].label}
  <2>1. NoScim.user = 0
    BY DEF NoScim
  <2>2. scim'[j] = scim[j] /\ scim[j].user # p
    BY <1>1, <1>5, <2>1, Zenon
  <2>3. scim[j].user # 0 /\ scim[j].user \notin collided \cup doubled
    BY <1>1, <1>5, <2>2, Zenon
  <2>4. /\ account[scim[j].user].name = scim[j].data.name
        /\ scim[j].data.label \in {NoLabel, account[scim[j].user].label}
    BY <2>3, Zenon DEF DataInv, DataAgree
  <2>5. account'[scim[j].user] = account[scim[j].user]
    BY <1>1, <1>3, <2>2
  <2> QED
    BY <2>2, <2>4, <2>5, Zenon
<1>6. DataAgree'
  BY <1>5, Zenon DEF DataAgree
<1> QED
  BY <1>2, <1>4, <1>6 DEF DataInv

\* A PATCH of the members is no request on a user, before and after its operation.
LEMMA PatchMembersData == ASSUME DataInv, NEW c \in Callers, PatchMembers(c) PROVE CallsFine'
<1>1. PICK op, who, one :
        call' = [call EXCEPT ![c] = [NoCall EXCEPT !.at = "change", !.op = op, !.who = who,
                                                   !.single = one, !.seen = listed]]
  BY Zenon DEF PatchMembers
<1> DEFINE r1 == [NoCall EXCEPT !.at = "change"]
           r2 == [r1 EXCEPT !.op = op]
           r3 == [r2 EXCEPT !.who = who]
           r4 == [r3 EXCEPT !.single = one]
           r5 == [r4 EXCEPT !.seen = listed]
<1>2. call' = [call EXCEPT ![c] = r5]
  BY <1>1
<1>3. Shaped(r1) /\ r1.at = "change"
  BY ONLY NoWrites, StageField, SMT
<1> HIDE DEF r1
<1>4. Shaped(r2) /\ Alike(r2, r1)
  BY ONLY <1>3, MemberField, SMT
<1> HIDE DEF r2
<1>5. Shaped(r3) /\ Alike(r3, r2)
  BY ONLY <1>4, MemberField, SMT
<1> HIDE DEF r3
<1>6. Shaped(r4) /\ Alike(r4, r3)
  BY ONLY <1>5, MemberField, SMT
<1> HIDE DEF r4
<1>7. Shaped(r5) /\ Alike(r5, r4)
  BY ONLY <1>6, MemberField, SMT
<1> HIDE DEF r5
<1>8. r5.at = "change"
  BY <1>3, <1>4, <1>5, <1>6, <1>7, Zenon DEF Alike
<1>9. Writes(r5)
  BY <1>8 DEF Writes
<1> QED
  BY <1>2, <1>7, <1>9, OneCall, ZenonT(60)

\* The operation on the members.
LEMMA ChangeMembersData == ASSUME DataInv, NEW c \in Callers, ChangeMembers(c) PROVE CallsFine'
<1> DEFINE w == call[c].who \cap Here
           d == Changes(c)
           v == IF Toggle(grouped, d) \in ReadAfter(c) THEN "skip" ELSE "list"
           r1 == [call[c] EXCEPT !.who = w]
           r2 == [r1 EXCEPT !.did = d]
           r3 == [r2 EXCEPT !.at = v]
<1>1. Shaped(call[c]) /\ call = [x \in Callers |-> call[x]]
  BY Zenon DEF DataInv, CallsFine
<1>2. call' = [call EXCEPT ![c].who = w, ![c].did = d, ![c].at = v]
  BY DEF ChangeMembers
<1>3. v # "look" /\ v # "save"
  OBVIOUS
<1> HIDE DEF w, d, v
<1>4. call' = [call EXCEPT ![c] = r3]
  BY <1>1, <1>2, ZenonT(60)
<1>5. Shaped(r1)
  BY ONLY <1>1, MemberField, SMT
<1> HIDE DEF r1
<1>6. Shaped(r2)
  BY ONLY <1>5, MemberField, SMT
<1> HIDE DEF r2
<1>7. Shaped(r3) /\ r3.at = v
  BY ONLY <1>6, StageField, SMT
<1> HIDE DEF r3
<1>8. Writes(r3)
  BY <1>3, <1>7, Zenon DEF Writes
<1> QED
  BY <1>4, <1>7, <1>8, OneCall, ZenonT(60)

\* The transaction on the members commits.
LEMMA CommitMembersData == ASSUME DataInv, NEW c \in Callers, CommitMembers(c) PROVE CallsFine'
<1> DEFINE S == call[c].did
<1>1. call' = [Overtaken(S) EXCEPT ![c] = NoCall]
  BY DEF CommitMembers
<1> HIDE DEF S
<1>2. Overtaken(S) = [d \in Callers |-> Overtaken(S)[d]]
  BY DEF Overtaken
<1>3. call' = [d \in Callers |-> IF d = c THEN NoCall ELSE Overtaken(S)[d]]
  BY <1>1, <1>2, Zenon
<1>4. call' = [d \in Callers |-> call'[d]] /\ \A d \in Callers : call'[d] \in {NoCall, Overtaken(S)[d]}
  BY <1>3
<1>5. \A d \in Callers : Shaped(call'[d]) /\ Writes(call'[d])
  BY <1>4, NoWrites, OvertakenWrites, Zenon DEF DataInv
<1> QED
  BY <1>4, <1>5, Zenon DEF CallsFine, Shaped, Writes

\* Every step preserves the invariant.
LEMMA DataNextInv == DataInv /\ [ScimNext]_scimVars => DataInv'
<1> SUFFICES ASSUME DataInv, [ScimNext]_scimVars PROVE DataInv'
  OBVIOUS
<1>1. CASE UNCHANGED scimVars
  <2>1. UNCHANGED <<account, scim, collided, doubled>> /\ call' = call
    BY <1>1 DEF scimVars
  <2>2. CallsFine'
    BY <2>1, Zenon DEF DataInv, CallsFine, Shaped, Writes
  <2> QED
    BY <2>1, <2>2, RowsStay
<1>2. ASSUME NEW c \in Callers, PostUser(c) \/ PutUser(c) \/ PatchUser(c) PROVE DataInv'
  <2>1. UNCHANGED <<account, scim, collided, doubled>>
    BY <1>2 DEF PostUser, PutUser, PatchUser
  <2>2. call' = call \/ \E k, p, data : Keep(c, k, p, data)
                                        /\ (k = New \/ (k \in ScimKeys /\ p \in Persons))
    <3>1. \A p \in Here : p \in Persons /\ \A k \in ConnectionsOf(p) : k \in ScimKeys
      BY Zenon DEF Here, ConnectionsOf
    <3>2. CASE PostUser(c)
      BY <3>2, Zenon DEF PostUser
    <3>3. CASE PutUser(c)
      BY <3>1, <3>3, Zenon DEF PutUser
    <3>4. CASE PatchUser(c)
      <4>1. PICK ops \in Patches, p \in Here : \E k \in ConnectionsOf(p) :
              call' = call \/ Keep(c, k, p, ApplyPatches(scim[k].data, ops))
        BY <3>4, Zenon DEF PatchUser
      <4> QED
        BY <3>1, <4>1, Zenon
    <3> QED
      BY <1>2, <3>2, <3>3, <3>4
  <2>3. CallsFine'
    <3>1. CASE call' = call
      BY <3>1, ZenonT(60) DEF DataInv, CallsFine, Shaped, Writes
    <3>2. CASE call' # call
      BY <2>2, <3>2, KeepData, Zenon
    <3> QED
      BY <3>1, <3>2
  <2> QED
    BY <2>1, <2>3, RowsStay
<1>3. ASSUME NEW c \in Callers, PutMembers(c) PROVE DataInv'
  <2>1. UNCHANGED <<account, scim, collided, doubled>>
    BY <1>3 DEF PutMembers
  <2>2. PICK S : call' = Overtaken(S)
    BY <1>3, Zenon DEF PutMembers
  <2>3. call' = [d \in Callers |-> call'[d]]
    BY <2>2, ZenonT(60) DEF Overtaken
  <2>4. \A d \in Callers : Shaped(call'[d]) /\ Writes(call'[d])
    BY <2>2, OvertakenWrites, Zenon DEF DataInv
  <2>5. CallsFine'
    BY <2>3, <2>4, Zenon DEF CallsFine, Shaped, Writes
  <2> QED
    BY <2>1, <2>5, RowsStay
<1>4. ASSUME NEW c \in Callers, PatchMembers(c) PROVE DataInv'
  <2>1. UNCHANGED <<account, scim, collided, doubled>>
    BY <1>4, ZenonT(60) DEF PatchMembers
  <2> QED
    BY <1>4, <2>1, PatchMembersData, RowsStay
<1>5. ASSUME NEW c \in Callers, ChangeMembers(c) PROVE DataInv'
  <2>1. UNCHANGED <<account, scim, collided, doubled>>
    BY <1>5, ZenonT(60) DEF ChangeMembers
  <2> QED
    BY <1>5, <2>1, ChangeMembersData, RowsStay
<1>6. ASSUME NEW c \in Callers, CommitMembers(c) PROVE DataInv'
  <2>1. UNCHANGED <<account, scim, collided, doubled>>
    BY <1>6 DEF CommitMembers
  <2> QED
    BY <1>6, <2>1, CommitMembersData, RowsStay
<1>7. ASSUME NEW c \in Callers, AbortMembers(c) PROVE DataInv'
  <2>1. UNCHANGED <<account, scim, collided, doubled>> /\ Leave(c)
    BY <1>7 DEF AbortMembers
  <2> QED
    BY <2>1, LeaveData, RowsStay, ZenonT(60)
<1> QED
  BY <1>1, <1>2, <1>3, <1>4, <1>5, <1>6, <1>7, LookUpData, SaveData, DeleteData, Zenon DEF ScimNext

\* It holds initially: no connection, no request.
LEMMA DataInitInv == ScimInit => DataInv
<1> SUFFICES ASSUME ScimInit PROVE DataInv
  OBVIOUS
<1>1. account = [p \in Persons |-> account[p]]
  BY DEF ScimInit
<1>2. scim = [k \in ScimKeys |-> scim[k]] /\ \A k \in ScimKeys : scim[k].user = 0
  BY DEF ScimInit, NoScim
<1>3. call = [c \in Callers |-> call[c]] /\ \A c \in Callers : call[c] = NoCall
  BY DEF ScimInit
<1>4. CallsFine
  BY <1>3, NoWrites, Zenon DEF CallsFine
<1>5. DataAgree
  BY <1>2, Zenon DEF DataAgree
<1> QED
  BY <1>1, <1>2, <1>4, <1>5, Zenon DEF DataInv

\* What the SCIM source keeps for a user is what the user is (update_user writes both in one
\* transaction), for every number of users, connections, names and requests, however they overlap.
THEOREM DataTheorem == ScimSpec => []DataAgree
<1>1. DataInv => DataAgree
  BY DEF DataInv
<1> QED
  BY <1>1, DataInitInv, DataNextInv, PTL DEF ScimSpec
=============================================================================
