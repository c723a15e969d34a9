--------------------------- MODULE Authenticators ---------------------------
(***************************************************************************)
(* The code-based authenticators of one user: their rows, the setup stages *)
(* that create them, and the validation stage that tries an entered code   *)
(* on every device (stages/authenticator, authenticator_totp,              *)
(* authenticator_static, authenticator_email, authenticator_sms and        *)
(* authenticator_validate).                                                *)
(*                                                                         *)
(* The verification itself holds the rows' locks.  What follows it does    *)
(* not: the validation stage sets last_used on the copy it got back and    *)
(* saves the whole copy after the transaction, so the fields another       *)
(* request wrote in between (last_t, the failure count, a code just sent)  *)
(* are put back.  `raced' names the devices on which a save wrote over a   *)
(* row that had changed, or re-inserted one that was gone.                 *)
(*                                                                         *)
(* A code is <<d, x>>: x is the time step of a TOTP code, the number of a  *)
(* static token, or of a code sent by mail or SMS.  Codes of two devices   *)
(* are distinct: chance collisions of digits are left out.                 *)
(***************************************************************************)
EXTENDS Integers, FiniteSets

CONSTANTS
    AuthBrowsers,  \* browsers of the user, each with a flow of its own
    Devices,       \* device keys, numbered in the order match_token tries them
    Classes,       \* the functions from Devices to {"side", "static", "totp"}
    StaticTokens,  \* numbers of a static device's tokens
    Step,          \* ticks in one TOTP time step
    Validity,      \* ticks for which a sent code is valid
    MaxTime,       \* bound on the clock
    MaxEntries,    \* bound on the codes entered
    MaxSent        \* bound on the codes sent by mail or SMS

VARIABLES
    now,       \* the clock, in ticks
    class,     \* Devices -> the class of the device
    skew,      \* steps by which the user's generator is ahead of the server
    row,       \* Devices -> the device's row, or NoRow
    tokens,    \* Devices -> the StaticToken rows of the device
    spent,     \* keys that some row had: never given out again
    request,   \* AuthBrowsers -> the request under way, with its copy of a row
    setup,     \* AuthBrowsers -> the unsaved device a setup stage holds
    mail,      \* the code last sent, its device and when it expires
    accepted,  \* the codes accepted so far
    again,     \* devices on which a code was accepted a second time
    raced,     \* devices on which a stale copy was saved
    entries,   \* number of codes entered
    mistyped   \* TRUE once a code that no device accepts was entered

authVars == <<now, class, skew, row, tokens, spent, request, setup, mail,
              accepted, again, raced, entries, mistyped>>

ASSUME AuthAssumption ==
    /\ Devices \subseteq Nat \ {0}
    /\ Classes \subseteq [Devices -> {"side", "static", "totp"}]
    /\ Step \in Nat \ {0} /\ Validity \in Nat

NoRow == [there |-> FALSE, confirmed |-> FALSE, lastT |-> 0, drift |-> 0,
          token |-> 0, until |-> 0, fails |-> 0, failedAt |-> 0]
NewRow == [NoRow EXCEPT !.there = TRUE]
Confirmed(r) == [r EXCEPT !.confirmed = TRUE]
Asked(at, d, copy) == [at |-> at, dev |-> d, copy |-> copy]
NoRequest == Asked("idle", 0, NoRow)
NoSetup == [dev |-> 0, copy |-> NoRow]
Wrong == <<0, 0>>

\* The server's time step.  Steps count from 1970, so that the ones the model
\* starts at are far above the default of last_t, here 0.
Epoch == 3
Current == Epoch + now \div Step

DeviceRows == [there : BOOLEAN, confirmed : BOOLEAN,
         lastT : 0 .. Epoch + MaxTime + 1, drift : -2 .. 1,
         token : 0 .. MaxSent, until : 0 .. MaxTime + Validity,
         fails : 0 .. MaxTime + 1, failedAt : 0 .. MaxTime]

------------------------------------------------------------------------------
(* Verifying one code on one row: ThrottlingMixin and the verify_token's. *)

\* verify_is_allowed: the delays are 1, 2, 4, 8 ... ticks.
VerifyIsAllowed(r) ==
    r.fails > 0 => now - r.failedAt >= 2 ^ (r.fails - 1)

ThrottleIncrement(r) == [r EXCEPT !.fails = @ + 1, !.failedAt = now]
ThrottleReset(r) == [r EXCEPT !.fails = 0, !.failedAt = 0]

\* Faulty: the step of the last accepted code still matches.
StepMatchesAgain(r, t) ==
    /\ t - (Current + r.drift) \in -1 .. 1
    /\ t >= r.lastT

\* TOTP.verify: the steps within the tolerance of 1, and later than last_t.
StepMatches(r, t) ==
    /\ t - (Current + r.drift) \in -1 .. 1
    /\ t >= r.lastT + 1

Accepts(d, r, held, code) ==
    /\ code[1] = d
    /\ CASE class[d] = "totp"   -> VerifyIsAllowed(r)
                                     /\ StepMatches(r, code[2])
         [] class[d] = "static" -> VerifyIsAllowed(r) /\ code[2] \in held
         [] class[d] = "side"   -> r.token = code[2] /\ now < r.until

\* The row verify_token saves for a code it accepts.
AfterAccept(d, r, code) ==
    CASE class[d] = "totp"   -> [ThrottleReset(r) EXCEPT
                                    !.lastT = code[2],
                                    !.drift = code[2] - Current]
      [] class[d] = "static" -> ThrottleReset(r)
      [] class[d] = "side"   -> [r EXCEPT !.token = 0, !.until = now]

\* ... and for one it refuses; a side-channel device has no throttling.
AfterRefuse(d, r) ==
    IF class[d] # "side" /\ VerifyIsAllowed(r) THEN ThrottleIncrement(r) ELSE r

\* StaticDevice.verify_token deletes the token it accepts.
Consume(d, code) ==
    tokens' = IF class[d] = "static" THEN [tokens EXCEPT ![d] = @ \ {code[2]}]
              ELSE tokens

Record(code) ==
    /\ accepted' = accepted \cup {code}
    /\ again' = IF code \in accepted THEN again \cup {code[1]} ELSE again

\* save() of a copy writes every field, and inserts the row when it is gone.
SaveCopy(d, copy, read) ==
    /\ row' = [row EXCEPT ![d] = copy]
    /\ raced' = IF row[d] # read THEN raced \cup {d} ELSE raced

\* generate_token: the row with the code that is sent next.
WithToken(r) == [r EXCEPT !.token = mail.code + 1, !.until = now + Validity]

\* A new code goes out by mail or SMS.
Mail(d) ==
    /\ mail.code < MaxSent
    /\ mail' = [dev |-> d, code |-> mail.code + 1, until |-> now + Validity]

------------------------------------------------------------------------------
(* The validation stage. *)

\* What the user may enter: a code their generator shows or showed one step
\* ago, a static token they noted, the code last sent to them, or a wrong one.
Enterable ==
    {Wrong}
      \cup {<<d, Current + skew - late>> :
              d \in {e \in Devices : class[e] = "totp"}, late \in {0, 1}}
      \cup {<<d, k>> : d \in {e \in Devices : class[e] = "static"},
                       k \in StaticTokens}
      \cup {<<d, mail.code>> : d \in {e \in Devices : class[e] = "side"}}

Enter == entries < MaxEntries /\ entries' = entries + 1

Tried == {d \in Devices : row[d].confirmed}
Accepting(code) == {d \in Tried : Accepts(d, row[d], tokens[d], code)}

\* match_token: every device in turn until one accepts, in one transaction.
Matched(b, code, d) ==
    /\ row' = [e \in Devices |->
                 IF e \in Tried /\ e < d THEN AfterRefuse(e, row[e])
                 ELSE IF e = d THEN AfterAccept(d, row[d], code) ELSE row[e]]
    /\ Consume(d, code)
    /\ Record(code)
    /\ request' = [request EXCEPT ![b] = Asked("save", d, AfterAccept(d, row[d], code))]
    /\ UNCHANGED mistyped

NotMatched(code) ==
    /\ row' = [e \in Devices |->
                 IF e \in Tried THEN AfterRefuse(e, row[e]) ELSE row[e]]
    /\ mistyped' = TRUE
    /\ UNCHANGED <<tokens, accepted, again, request>>

\* validate_code, for a user that has a code-based device.
ValidateCode(b) ==
    /\ request[b].at = "idle"
    /\ Tried # {}
    /\ \E code \in Enterable :
         \/ Accepting(code) = {} /\ NotMatched(code)
         \/ \E d \in Accepting(code) : Matched(b, code, d)
    /\ Enter
    /\ UNCHANGED <<now, class, skew, spent, setup, mail, raced>>

\* validate: last_used is set on the copy and the copy is saved.
SaveLastUsed(b) ==
    LET q == request[b] IN
    /\ q.at = "save"
    /\ SaveCopy(q.dev, q.copy, q.copy)
    /\ request' = [request EXCEPT ![b] = NoRequest]
    /\ UNCHANGED <<now, class, skew, tokens, spent, setup, mail, accepted,
                   again, entries, mistyped>>

\* validate_selected_challenge reads the device it was asked to send to ...
SelectChallenge(b) ==
    /\ request[b].at = "idle"
    /\ mail.code < MaxSent
    /\ \E d \in Tried :
         /\ class[d] = "side"
         /\ request' = [request EXCEPT ![b] = Asked("send", d, row[d])]
    /\ UNCHANGED <<now, class, skew, row, tokens, spent, setup, mail, accepted,
                   again, raced, entries, mistyped>>

\* ... and generate_token saves it with a new code, which is then sent.
GenerateToken(b) ==
    LET q == request[b] IN
    /\ q.at = "send"
    /\ Mail(q.dev)
    /\ SaveCopy(q.dev, WithToken(q.copy), q.copy)
    /\ request' = [request EXCEPT ![b] = NoRequest]
    /\ UNCHANGED <<now, class, skew, tokens, spent, setup, accepted, again,
                   entries, mistyped>>

------------------------------------------------------------------------------
(* The setup stages. *)

\* get: the new device stays in the session.  A side-channel device gets its
\* first code, which is sent without saving the device; a static one its
\* tokens, which are shown.
BeginSetup(b) ==
    /\ setup[b] = NoSetup
    /\ \E d \in Devices \ (spent \cup {setup[c].dev : c \in AuthBrowsers}) :
         /\ IF class[d] = "side" THEN Mail(d) ELSE UNCHANGED mail
         /\ setup' = [setup EXCEPT ![b] =
              [dev |-> d,
               copy |-> IF class[d] = "side" THEN WithToken(NewRow) ELSE NewRow]]
    /\ UNCHANGED <<now, class, skew, row, tokens, spent, request, accepted,
                   again, raced, entries, mistyped>>

\* The response of a static setup saves the device and the tokens shown.
FinishStatic(b) ==
    LET s == setup[b] IN
    /\ s.dev # 0
    /\ class[s.dev] = "static"
    /\ tokens' = [tokens EXCEPT ![s.dev] = StaticTokens]
    /\ row' = [row EXCEPT ![s.dev] = Confirmed(s.copy)]
    /\ spent' = spent \cup {s.dev}
    /\ setup' = [setup EXCEPT ![b] = NoSetup]
    /\ UNCHANGED <<now, class, skew, request, mail, accepted, again, raced,
                   entries, mistyped>>

\* The response of the others verifies the entered code on the copy in the
\* session.  A refused TOTP code saves that copy too (throttle_increment), as
\* a row that stays unconfirmed.
VerifySetup(b) ==
    LET s == setup[b] IN
    /\ s.dev # 0
    /\ class[s.dev] # "static"
    /\ \E code \in Enterable :
         /\ code[1] \in {0, s.dev}
         /\ IF Accepts(s.dev, s.copy, {}, code)
            THEN /\ SaveCopy(s.dev, Confirmed(AfterAccept(s.dev, s.copy, code)),
                             IF s.dev \in spent THEN s.copy ELSE NoRow)
                 /\ setup' = [setup EXCEPT ![b] = NoSetup]
                 /\ spent' = spent \cup {s.dev}
                 /\ Record(code)
            ELSE LET refused == AfterRefuse(s.dev, s.copy) IN
                 /\ setup' = [setup EXCEPT ![b] = [dev |-> s.dev, copy |-> refused]]
                 /\ IF refused # s.copy
                    THEN /\ SaveCopy(s.dev, refused,
                                     IF s.dev \in spent THEN s.copy ELSE NoRow)
                         /\ spent' = spent \cup {s.dev}
                    ELSE UNCHANGED <<row, raced, spent>>
                 /\ UNCHANGED <<accepted, again>>
    /\ Enter
    /\ UNCHANGED <<now, class, skew, tokens, request, mail, mistyped>>

------------------------------------------------------------------------------
(* The rest of the world. *)

\* The user or an administrator deletes a device; its tokens go with it.
DeleteDevice ==
    /\ \E d \in Devices :
         /\ row[d].there
         /\ row' = [row EXCEPT ![d] = NoRow]
         /\ tokens' = [tokens EXCEPT ![d] = {}]
    /\ UNCHANGED <<now, class, skew, spent, request, setup, mail, accepted,
                   again, raced, entries, mistyped>>

Tick ==
    /\ now < MaxTime
    /\ now' = now + 1
    /\ UNCHANGED <<class, skew, row, tokens, spent, request, setup, mail,
                   accepted, again, raced, entries, mistyped>>

AuthInit ==
    /\ now = 0
    /\ class \in Classes
    /\ skew \in -1 .. 1
    /\ skew # 0 => \E d \in Devices : class[d] = "totp"
    /\ \E owned \in {D \in SUBSET Devices : Cardinality(Devices \ D) <= 1} :
         /\ row = [d \in Devices |->
                     IF d \in owned THEN Confirmed(NewRow)
                     ELSE NoRow]
         /\ tokens = [d \in Devices |->
                        IF d \in owned /\ class[d] = "static"
                        THEN StaticTokens ELSE {}]
         /\ spent = owned
    /\ request = [b \in AuthBrowsers |-> NoRequest]
    /\ setup = [b \in AuthBrowsers |-> NoSetup]
    /\ mail = [dev |-> 0, code |-> 0, until |-> 0]
    /\ accepted = {}
    /\ again = {}
    /\ raced = {}
    /\ entries = 0
    /\ mistyped = FALSE

AuthNext ==
    \/ \E b \in AuthBrowsers :
         \/ ValidateCode(b)
         \/ SaveLastUsed(b)
         \/ SelectChallenge(b)
         \/ GenerateToken(b)
         \/ BeginSetup(b)
         \/ FinishStatic(b)
         \/ VerifySetup(b)
    \/ DeleteDevice
    \/ Tick

AuthSpec == AuthInit /\ [][AuthNext]_authVars

------------------------------------------------------------------------------
(* Properties. *)

\* Types.  Only a device that exists has tokens, only its own class's fields
\* are used, and a failure is never in the future (StaticToken's cascade;
\* throttle_increment and throttle_reset).
AuthTypeOK ==
    /\ now \in 0 .. MaxTime
    /\ skew \in -1 .. 1
    /\ row \in [Devices -> DeviceRows]
    /\ \A d \in Devices :
         /\ tokens[d] \subseteq StaticTokens
         /\ tokens[d] # {} => row[d].there /\ class[d] = "static"
         /\ class[d] # "side" => row[d].token = 0
         /\ class[d] # "totp" => row[d].lastT = 0
         /\ row[d].failedAt <= now
         /\ row[d].fails = 0 => row[d].failedAt = 0
         /\ row[d].there => d \in spent
    /\ \A b \in AuthBrowsers :
         /\ request[b].at \in {"idle", "save", "send"}
         /\ request[b].copy \in DeviceRows
         /\ setup[b].copy \in DeviceRows
    /\ mail.code \in 0 .. MaxSent
    /\ raced \subseteq Devices

\* A code is accepted once ("As a rule, the token should no longer be valid if
\* this returns True", Device.verify_token), across the validation and the
\* setup stages, whichever requests overlap: unless a request saved its copy
\* over a row that another had changed meanwhile.
OnceEach ==
    again \subseteq raced

\* A code that was sent is accepted while it is valid and not used or replaced
\* (generate_token, select_challenge): unless a stale copy was saved.
SentWorks ==
    LET d == mail.dev IN
    /\ d \in Tried \ raced
    /\ now < mail.until
    /\ <<d, mail.code>> \notin accepted
    => d \in Accepting(<<d, mail.code>>)

\* The drift kept on a TOTP device follows the user's clock: the code their
\* generator shows now matches, unless it was used, however late earlier codes
\* were entered (TOTP.verify and the drift TOTPDevice.verify_token saves).
ClockFollowed ==
    \A d \in Tried :
        /\ class[d] = "totp"
        /\ <<d, Current + skew>> \notin accepted
        => StepMatches(row[d], Current + skew)

\* A static token, the backup for a lost generator, is not refused to a user
\* whose codes were all accepted: the failure count is the "Number of
\* successive failed attempts" (ThrottlingMixin).
BackupReady ==
    \A d \in Tried \ raced :
        class[d] = "static" /\ ~mistyped => VerifyIsAllowed(row[d])
=============================================================================
