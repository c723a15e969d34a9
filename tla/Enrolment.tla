------------------------------ MODULE Enrolment ------------------------------
(***************************************************************************)
(* An enrolment or recovery flow with an invitation stage and an email     *)
(* stage (stages/invitation, stages/email): the invitation is read and     *)
(* then, if it is for a single use, deleted; the email stage mails a link  *)
(* that restores the flow in whichever browser opens it, behind a page     *)
(* that asks to continue and spends the link, and limits how often the     *)
(* mail is sent again by a list of times kept in the cache.                *)
(*                                                                         *)
(* Requests of different browsers overlap between a read and the write     *)
(* that depends on it.  `overlapped' records where they did.               *)
(***************************************************************************)
EXTENDS Integers, FiniteSets

CONSTANTS
    Guests,       \* browsers
    Links,        \* keys of the FlowTokens, taken in order
    MaxAttempts,  \* recovery_max_attempts
    Window,       \* recovery_cache_timeout, in ticks
    MaxClock      \* bound on the clock

ASSUME EnrolAssumption == MaxAttempts \in Nat /\ Window \in Nat /\ MaxClock \in Nat

VARIABLES
    clock,
    single,      \* the invitation is for a single use
    openEnded,   \* continue_flow_without_invitation
    invite,      \* the Invitation row is there
    uses,        \* how often the invitation was used
    flow,        \* Guests -> stage of the flow, and what the plan holds
    links,       \* keys of the FlowToken rows that are there
    mailed,      \* keys of the links that were mailed
    continued,   \* links from which a browser continued
    times,       \* the cached list of resends: tick -> number in that tick
    resent,      \* the same for the mails really sent again
    verified,    \* the user was activated
    overlapped   \* parts in which a request used a value read before another's write

enrolVars == <<clock, single, openEnded, invite, uses, flow, links, mailed,
               continued, times, resent, verified, overlapped>>

Ticks == 0 .. MaxClock
NoTimes == [t \in Ticks |-> 0]
Reached(stage) == [at |-> stage, link |-> 0, times |-> NoTimes]
Goto(b, stage) == flow' = [flow EXCEPT ![b] = Reached(stage)]

\* How many of the listed times are later than the start of the window.
Listed(list) == UNION {{t} \X (1 .. list[t]) : t \in {u \in Ticks : u > clock - Window}}
Recent(list) == Cardinality(Listed(list))

InWindow(list) == [t \in Ticks |-> IF t > clock - Window THEN list[t] ELSE 0]

------------------------------------------------------------------------------
(* The invitation stage. *)

\* get_invite.  Expiry is not looked at: an invitation ends when it is deleted.
GetInvite(b) ==
    /\ flow[b].at = "invitation"
    /\ Goto(b, IF invite THEN "invited"
               ELSE IF openEnded THEN "email" ELSE "denied")
    /\ UNCHANGED <<clock, single, openEnded, invite, uses, links, mailed,
                   continued, times, resent, verified, overlapped>>

\* dispatch: the invitation's data goes into the plan; then it is deleted, which
\* does nothing when its row is already gone.
UseInvite(b) ==
    /\ flow[b].at = "invited"
    /\ uses' = uses + 1
    /\ invite' = (invite /\ ~single)
    /\ overlapped' = IF invite THEN overlapped ELSE overlapped \cup {"invite"}
    /\ Goto(b, "email")
    /\ UNCHANGED <<clock, single, openEnded, links, mailed, continued, times,
                   resent, verified>>

\* An administrator deletes the invitation, or clean_expired_models does.
DeleteInvite ==
    /\ invite
    /\ invite' = FALSE
    /\ UNCHANGED <<clock, single, openEnded, uses, flow, links, mailed,
                   continued, times, resent, verified, overlapped>>

------------------------------------------------------------------------------
(* The email stage. *)

\* get_token and send_email: a new FlowToken with the plan, and a mail with its
\* key.
SendEmail ==
    \E k \in Links \ mailed :
        /\ \A j \in Links : j < k => j \in mailed
        /\ links' = links \cup {k}
        /\ mailed' = mailed \cup {k}

\* get: the first mail of a plan is sent without being counted.
FirstEmail(b) ==
    /\ flow[b].at = "email"
    /\ SendEmail
    /\ Goto(b, "sent")
    /\ UNCHANGED <<clock, single, openEnded, invite, uses, continued, times,
                   resent, verified, overlapped>>

\* The user asks for the mail again: _is_rate_limited reads the cached list ...
AskAgain(b) ==
    /\ flow[b].at = "sent"
    /\ flow' = [flow EXCEPT ![b] = [Reached("asked") EXCEPT !.times = times]]
    /\ UNCHANGED <<clock, single, openEnded, invite, uses, links, mailed,
                   continued, times, resent, verified, overlapped>>

\* Faulty: the limit is compared after the new attempt, off by one.
ResendOneMore(b) ==
    /\ flow[b].at = "asked"
    /\ IF Recent(flow[b].times) > MaxAttempts
       THEN UNCHANGED <<links, mailed, times, resent, overlapped>>
       ELSE /\ SendEmail
            /\ times' = [InWindow(flow[b].times) EXCEPT ![clock] = @ + 1]
            /\ resent' = [InWindow(resent) EXCEPT ![clock] = @ + 1]
            /\ overlapped' = IF times = flow[b].times THEN overlapped
                             ELSE overlapped \cup {"limit"}
    /\ Goto(b, "sent")
    /\ UNCHANGED <<clock, single, openEnded, invite, uses, continued, verified>>

\* ... and writes it back with this attempt, unless the limit is reached.
Resend(b) ==
    /\ flow[b].at = "asked"
    /\ IF Recent(flow[b].times) >= MaxAttempts
       THEN UNCHANGED <<links, mailed, times, resent, overlapped>>
       ELSE /\ SendEmail
            /\ times' = [InWindow(flow[b].times) EXCEPT ![clock] = @ + 1]
            /\ resent' = [InWindow(resent) EXCEPT ![clock] = @ + 1]
            /\ overlapped' = IF times = flow[b].times THEN overlapped
                             ELSE overlapped \cup {"limit"}
    /\ Goto(b, "sent")
    /\ UNCHANGED <<clock, single, openEnded, invite, uses, continued, verified>>

\* _check_flow_token: opening a link replaces the browser's plan by the one of
\* the token, at the page that asks to continue; an unknown key leaves the plan
\* as it is.  An expired token counts as gone.
OpenLink(b, k) ==
    /\ flow[b].at # "asked"
    /\ k \in links
    /\ flow' = [flow EXCEPT ![b] = [Reached("confirm") EXCEPT !.link = k]]
    /\ UNCHANGED <<clock, single, openEnded, invite, uses, links, mailed,
                   continued, times, resent, verified, overlapped>>

\* Reloading that page refreshes the token: "Link was already used".
ReloadPage(b) ==
    /\ flow[b].at = "confirm"
    /\ flow[b].link \notin links
    /\ Goto(b, "denied")
    /\ UNCHANGED <<clock, single, openEnded, invite, uses, links, mailed,
                   continued, times, resent, verified, overlapped>>

\* Faulty: the link is left for the next to open.
ConfirmKeepsLink(b) ==
    /\ flow[b].at = "confirm"
    /\ continued' = continued \cup {flow[b].link}
    /\ verified' = TRUE
    /\ Goto(b, "done")
    /\ UNCHANGED <<clock, single, openEnded, invite, uses, links, mailed, times,
                   resent, overlapped>>

\* Continuing deletes the token, whether or not it is still there; the email
\* stage that follows finds the restored plan, activates the user and passes.
Confirm(b) ==
    /\ flow[b].at = "confirm"
    /\ links' = links \ {flow[b].link}
    /\ continued' = continued \cup {flow[b].link}
    /\ verified' = TRUE
    /\ Goto(b, "done")
    /\ UNCHANGED <<clock, single, openEnded, invite, uses, mailed, times,
                   resent, overlapped>>

\* The token expires, is found expired and deleted (filter_not_expired).
ExpireLink ==
    /\ \E k \in links : links' = links \ {k}
    /\ UNCHANGED <<clock, single, openEnded, invite, uses, flow, mailed,
                   continued, times, resent, verified, overlapped>>

------------------------------------------------------------------------------
(* Browsers and time. *)

\* The browser opens the flow anew: the plan in its session is dropped.
Restart(b) ==
    /\ flow[b].at \in {"denied", "sent", "done"}
    /\ Goto(b, "invitation")
    /\ UNCHANGED <<clock, single, openEnded, invite, uses, links, mailed,
                   continued, times, resent, verified, overlapped>>

\* Time passes; the cache drops the list a window after it was last written.
Pass ==
    /\ clock < MaxClock
    /\ clock' = clock + 1
    /\ times' = IF \A t \in Ticks : times[t] > 0 => t <= clock' - Window
                THEN NoTimes ELSE times
    /\ UNCHANGED <<single, openEnded, invite, uses, flow, links, mailed,
                   continued, resent, verified, overlapped>>

EnrolInit ==
    /\ clock = 0
    /\ single \in BOOLEAN
    /\ openEnded \in BOOLEAN
    /\ invite = TRUE
    /\ uses = 0
    /\ flow = [b \in Guests |-> Reached("invitation")]
    /\ links = {}
    /\ mailed = {}
    /\ continued = {}
    /\ times = NoTimes
    /\ resent = NoTimes
    /\ verified = FALSE
    /\ overlapped = {}

EnrolNext ==
    \/ \E b \in Guests :
         \/ GetInvite(b)
         \/ UseInvite(b)
         \/ FirstEmail(b)
         \/ AskAgain(b)
         \/ Resend(b)
         \/ \E k \in Links : OpenLink(b, k)
         \/ ReloadPage(b)
         \/ Confirm(b)
         \/ Restart(b)
    \/ DeleteInvite
    \/ ExpireLink
    \/ Pass

EnrolSpec == EnrolInit /\ [][EnrolNext]_enrolVars

------------------------------------------------------------------------------
(* Properties. *)

\* Types; a FlowToken that is there was mailed, and a plan that was restored
\* holds the link it came from (get_token; PLAN_CONTEXT_IS_RESTORED).
EnrolTypeOK ==
    /\ clock \in Ticks
    /\ uses \in Nat
    /\ links \subseteq mailed
    /\ mailed \subseteq Links
    /\ \A b \in Guests :
         /\ flow[b].at \in {"invitation", "invited", "email", "sent", "asked",
                            "confirm", "done", "denied"}
         /\ (flow[b].at = "confirm") = (flow[b].link \in mailed)
    /\ verified = (continued # {})
    /\ overlapped \subseteq {"invite", "limit"}

\* A single-use invitation is used once ("When enabled, the invitation will be
\* deleted after usage", Invitation.single_use), however often flows restart:
\* unless a second request had read it before the first deleted it.
InviteOnce ==
    single /\ "invite" \notin overlapped => uses <= 1

\* No window sees more repeated mails than recovery_max_attempts
\* (_is_rate_limited): unless a request wrote the list without another's mail.
RateKept ==
    "limit" \notin overlapped => Recent(resent) <= MaxAttempts

\* Once a browser continued from a link, the link opens nowhere else ("Link was
\* already used, please request a new link"): a page from before may still
\* continue, no new one appears (EmailTokenRevocationConsentStageView).
SpentLink ==
    [][\A b \in Guests :
         flow'[b].at = "confirm" /\ flow[b].at # "confirm"
           => flow'[b].link \notin continued]_enrolVars
=============================================================================
