----------------------------- MODULE AuthSession -----------------------------
(***************************************************************************)
(* The sign-in of a voter: POST /authenticate, the login form and its      *)
(* POST, the sessions and attempt counters in Redis, and the collection    *)
(* server's resolution of a session token (src/auth, src/pkg/jwtauth,      *)
(* src/collection/handler.go).                                             *)
(*                                                                         *)
(* Every call is an Attempt.  The session identifier (a fresh UUID) is     *)
(* named by the attempt that drew it, and so is the token that carries it. *)
(* A step is what happens between two points where calls can interleave:   *)
(* one command, pipeline or script at Redis, or one local computation of a *)
(* handler.  A call can stop for good after any step (the server or the    *)
(* client went away): no fairness is assumed.  An answer that is on its    *)
(* way, lost or overtaken is a token that is used late, never or after a   *)
(* newer one.  Keys expire: `now` is the clock, the same for Redis and the *)
(* servers, and a key whose time has come is gone.  Redis keeps its data.  *)
(***************************************************************************)
EXTENDS Naturals, FiniteSets

CONSTANTS
    Voter,          \* well-formed EGNs
    Eligible,       \* those the provider calls eligible
    Malformed,      \* an input that is no EGN
    Attempt,        \* calls of /authenticate and POST /login
    Submission,     \* ballot submissions at the collection server
    NoAttempt,
    URI,            \* redirect targets the clients send
    AllowedURIs,    \* AUTH_ALLOWED_REDIRECT_URIS, parsed
    MaxAttempts,    \* rateLimitMax
    Window,         \* rateLimitWindow
    SessionTTL,
    EgnTTL,         \* egnKeyTTL
    MaxClock,       \* bound on the clock
    MaxFaults       \* bound on the failures of Redis, signing and the network

ASSUME SessionAssumption ==
    /\ SessionTTL \in Nat \ {0}
    /\ EgnTTL \in Nat
    /\ EgnTTL >= SessionTTL
    /\ NoAttempt \notin Attempt
    /\ Malformed \notin Voter
    /\ Eligible \subseteq Voter

ASSUME RateAssumption ==
    /\ MaxAttempts \in Nat
    /\ Window \in Nat \ {0}
    /\ MaxClock \in Nat
    /\ MaxFaults \in Nat

VARIABLES
    now,
    session,    \* session[a]: the key session:<id drawn by a>
    mapping,    \* mapping[v]: the key egn:<v>
    rate,       \* rate[v]: the key egn_rate:<v>
    pc,         \* where each attempt is
    egn,        \* egn[a]: the EGN of the call once it is to be counted
    token,      \* token[a]: expiry of the JWT answered to a, 0 before
    sub,        \* the submissions
    \* history, read by the properties only
    verdict,    \* verdict[a]: what Allow did to a, and when
    latest,     \* latest[v]: the last session stored for v, and until when
    faults      \* failures so far

store == <<session, mapping>>
history == <<verdict, latest>>
vars == <<now, session, mapping, rate, pc, egn, token, sub, history, faults>>

Forever == MaxClock + EgnTTL + Window + 1

NoSession == [egn |-> Malformed, exp |-> 0]
NoMapping == [id |-> NoAttempt, exp |-> 0]
NoCount == [count |-> 0, exp |-> 0]

Init ==
    /\ now = 1
    /\ session = [a \in Attempt |-> NoSession]
    /\ mapping = [v \in Voter |-> NoMapping]
    /\ rate = [v \in Voter |-> NoCount]
    /\ pc = [a \in Attempt |-> "new"]
    /\ egn = [a \in Attempt |-> Malformed]
    /\ token = [a \in Attempt |-> 0]
    /\ sub = [s \in Submission |->
                [pc |-> "new", token |-> NoAttempt, tries |-> 0,
                 voter |-> Malformed]]
    /\ verdict = [a \in Attempt |-> [is |-> "none", at |-> 0]]
    /\ latest = [v \in Voter |-> NoMapping]
    /\ faults = 0

\* One more failure.
Fault ==
    /\ faults < MaxFaults
    /\ faults' = faults + 1

\* The mock provider: no identity for a malformed EGN.
IsIdentity(input) == input \in Voter
IsEligible(v) == v \in Eligible

\* A redirect target matches an allowed pattern: equal scheme and host, equal
\* port unless the pattern's is "*", and no user information.
ValidRedirect(uri) ==
    /\ ~uri.userinfo
    /\ \E p \in AllowedURIs :
         /\ p.scheme = uri.scheme
         /\ p.host = uri.host
         /\ p.port \in {"*", uri.port}

(***************************************************************************)
(* The endpoints up to their first call to Redis                           *)
(***************************************************************************)

\* The call ends without a session: an error, or the form again.
Refuse(a) == pc' = [pc EXCEPT ![a] = "refused"]

\* What is left of a call is counted for the voter.
Count(a, input) ==
    /\ pc' = [pc EXCEPT ![a] = "counting"]
    /\ egn' = [egn EXCEPT ![a] = input]

\* POST /login: the form's csrf_token is the cookie's (GET /login and every
\* rendering of the form set both), the redirect target, the format of the EGN.
PostLogin(a, csrf, uri, input) ==
    /\ pc[a] = "new"
    /\ IF csrf /\ ValidRedirect(uri) /\ IsIdentity(input)
       THEN Count(a, input)
       ELSE Refuse(a) /\ UNCHANGED egn
    /\ UNCHANGED <<now, store, rate, token, sub, history, faults>>

\* POST /authenticate: the provider and the eligibility come before the
\* counter, so these refusals are not counted.
Authenticate(a, input) ==
    /\ pc[a] = "new"
    /\ IF IsIdentity(input) /\ IsEligible(input)
       THEN Count(a, input)
       ELSE Refuse(a) /\ UNCHANGED egn
    /\ UNCHANGED <<now, store, rate, token, sub, history, faults>>

(***************************************************************************)
(* The attempt counter                                                     *)
(***************************************************************************)

\* INCR keeps the expiry of a key and creates one without.
Incr(r) ==
    IF r = NoCount THEN [count |-> 1, exp |-> Forever]
    ELSE [r EXCEPT !.count = @ + 1]

Expire(r, t) == [r EXCEPT !.exp = t]

\* Variant: windows start at fixed times.
CountAttempt_FixedWindows(r) == Expire(Incr(r), (now \div Window + 1) * Window)

\* Variant: the window is never set.
CountAttempt_NoExpire(r) == Incr(r)

\* The pipeline of Allow: every attempt counts and renews the window.
CountAttempt(r) == Expire(Incr(r), now + Window)

Judge(a, is) == verdict' = [verdict EXCEPT ![a] = [is |-> is, at |-> now]]

\* Allow answers.  /login asks the provider only now: an ineligible voter's
\* attempts are counted there.
Allow(a) ==
    LET v == egn[a]
        counted == CountAttempt(rate[v])
        allowed == counted.count <= MaxAttempts
    IN  /\ pc[a] = "counting"
        /\ rate' = [rate EXCEPT ![v] = counted]
        /\ Judge(a, IF allowed THEN "allowed" ELSE "refused")
        /\ IF allowed /\ IsEligible(v)
           THEN pc' = [pc EXCEPT ![a] = "creating"]
           ELSE Refuse(a)
        /\ UNCHANGED <<now, store, egn, token, sub, latest, faults>>

\* The pipeline fails: nothing was done, the increment alone, or everything
\* and the answer was lost.
AllowFails(a) ==
    /\ pc[a] = "counting"
    /\ \/ /\ UNCHANGED rate
          /\ UNCHANGED verdict
       \/ /\ rate' = [rate EXCEPT ![egn[a]] = Incr(@)]
          /\ Judge(a, "half")
       \/ /\ rate' = [rate EXCEPT ![egn[a]] = CountAttempt(@)]
          /\ Judge(a, "failed")
    /\ Refuse(a)
    /\ Fault
    /\ UNCHANGED <<now, store, egn, token, sub, latest>>

(***************************************************************************)
(* The session                                                             *)
(***************************************************************************)

\* Variant: the two TTL arguments of the script are swapped.
ReplaceSession_SwappedTTLs(v, a) ==
    /\ session' = [b \in Attempt |->
                     IF b = a THEN [egn |-> v, exp |-> now + EgnTTL]
                     ELSE IF b = mapping[v].id THEN NoSession
                     ELSE session[b]]
    /\ mapping' = [mapping EXCEPT ![v] = [id |-> a, exp |-> now + SessionTTL]]

\* Variant: the deletion is forgotten.
ReplaceSession_NoDel(v, a) ==
    /\ session' = [session EXCEPT ![a] = [egn |-> v, exp |-> now + SessionTTL]]
    /\ mapping' = [mapping EXCEPT ![v] = [id |-> a, exp |-> now + EgnTTL]]

\* Variant: every session is deleted but the new one.
ReplaceSession_DelAll(v, a) ==
    /\ session' = [b \in Attempt |->
                     IF b = a THEN [egn |-> v, exp |-> now + SessionTTL] ELSE NoSession]
    /\ mapping' = [mapping EXCEPT ![v] = [id |-> a, exp |-> now + EgnTTL]]

\* replaceSessionScript: the session the mapping names is deleted, the new
\* session and the new mapping are stored.
ReplaceSession(v, a) ==
    /\ session' = [b \in Attempt |->
                     IF b = a THEN [egn |-> v, exp |-> now + SessionTTL]
                     ELSE IF b = mapping[v].id THEN NoSession
                     ELSE session[b]]
    /\ mapping' = [mapping EXCEPT ![v] = [id |-> a, exp |-> now + EgnTTL]]

StoreSession(a) ==
    /\ ReplaceSession(egn[a], a)
    /\ latest' = [latest EXCEPT ![egn[a]] = [id |-> a, exp |-> now + SessionTTL]]

\* Create succeeds.
Create(a) ==
    /\ pc[a] = "creating"
    /\ StoreSession(a)
    /\ pc' = [pc EXCEPT ![a] = "signing"]
    /\ UNCHANGED <<now, rate, egn, token, sub, verdict, faults>>

\* Create fails: the script did not run, or it ran and its answer was lost.
CreateFails(a) ==
    /\ pc[a] = "creating"
    /\ \/ StoreSession(a)
       \/ UNCHANGED <<store, latest>>
    /\ Refuse(a)
    /\ Fault
    /\ UNCHANGED <<now, rate, egn, token, sub, verdict>>

\* The token is signed, set as a cookie and answered.
Answer(a) ==
    /\ pc[a] = "signing"
    /\ token' = [token EXCEPT ![a] = now + SessionTTL]
    /\ pc' = [pc EXCEPT ![a] = "answered"]
    /\ UNCHANGED <<now, store, rate, egn, sub, history, faults>>

\* Signing fails: the session stays stored.
SignFails(a) ==
    /\ pc[a] = "signing"
    /\ Refuse(a)
    /\ Fault
    /\ UNCHANGED <<now, store, rate, egn, token, sub, history>>

(***************************************************************************)
(* The collection server                                                   *)
(***************************************************************************)

\* jwtauth.Verify; also all that GET /session/status looks at.
TokenValid(a) == now < token[a]

\* A submission that carries the token answered to attempt a.
Submit(s, a) ==
    /\ sub[s].pc = "new"
    /\ pc[a] = "answered"
    /\ sub' = [sub EXCEPT ![s].pc = IF TokenValid(a) THEN "resolving" ELSE "refused",
                          ![s].token = a]
    /\ UNCHANGED <<now, store, rate, pc, egn, token, history, faults>>

\* What the auth service answers for a session identifier.
Resolved(a) == session[a].egn

\* GET /internal/v1/session/{id} is answered: the voter, or 404.
ResolveSession(s) ==
    LET a == sub[s].token
    IN  /\ sub[s].pc = "resolving"
        /\ sub' = [sub EXCEPT
                     ![s].pc = IF Resolved(a) \in Voter THEN "resolved" ELSE "refused",
                     ![s].voter = Resolved(a)]
        /\ UNCHANGED <<now, store, rate, pc, egn, token, history, faults>>

\* No answer: one retry.
ResolveUnreachable(s) ==
    /\ sub[s].pc = "resolving"
    /\ Fault
    /\ sub' = [sub EXCEPT ![s].pc = IF sub[s].tries = 0 THEN "resolving" ELSE "refused",
                          ![s].tries = @ + 1]
    /\ UNCHANGED <<now, store, rate, pc, egn, token, history>>

\* The auth service answers an error (Redis failed): no retry.
ResolveFails(s) ==
    /\ sub[s].pc = "resolving"
    /\ Fault
    /\ sub' = [sub EXCEPT ![s].pc = "refused"]
    /\ UNCHANGED <<now, store, rate, pc, egn, token, history>>

(***************************************************************************)
(* Time                                                                    *)
(***************************************************************************)
Tick ==
    /\ now < MaxClock
    /\ now' = now + 1
    /\ session' = [a \in Attempt |->
                     IF session[a].exp > now + 1 THEN session[a] ELSE NoSession]
    /\ mapping' = [v \in Voter |->
                     IF mapping[v].exp > now + 1 THEN mapping[v] ELSE NoMapping]
    /\ rate' = [v \in Voter |->
                  IF rate[v].exp > now + 1 THEN rate[v] ELSE NoCount]
    /\ UNCHANGED <<pc, egn, token, sub, history, faults>>

Call(a) ==
    \/ \E csrf \in BOOLEAN, uri \in URI, input \in Voter \cup {Malformed} :
         PostLogin(a, csrf, uri, input)
    \/ \E input \in Voter \cup {Malformed} : Authenticate(a, input)
    \/ Allow(a) \/ AllowFails(a)
    \/ Create(a) \/ CreateFails(a)
    \/ Answer(a) \/ SignFails(a)

Resolution(s) ==
    \/ \E a \in Attempt : Submit(s, a)
    \/ ResolveSession(s) \/ ResolveUnreachable(s) \/ ResolveFails(s)

Next ==
    \/ \E a \in Attempt : Call(a)
    \/ \E s \in Submission : Resolution(s)
    \/ Tick

Spec == Init /\ [][Next]_vars

(***************************************************************************)
(* Properties                                                              *)
(***************************************************************************)

\* Every variable has its type.
StoreTyped ==
    /\ session \in [Attempt -> [egn : Voter \cup {Malformed}, exp : Nat]]
    /\ mapping \in [Voter -> [id : Attempt \cup {NoAttempt}, exp : Nat]]
    /\ latest \in [Voter -> [id : Attempt \cup {NoAttempt}, exp : Nat]]

CounterTyped ==
    /\ now \in Nat
    /\ rate \in [Voter -> [count : Nat, exp : Nat]]
    /\ verdict \in [Attempt -> [is : {"none", "allowed", "refused", "half", "failed"},
                                at : Nat]]
    /\ faults \in Nat

CallsTyped ==
    /\ pc \in [Attempt -> {"new", "counting", "creating", "signing",
                           "answered", "refused"}]
    /\ egn \in [Attempt -> Voter \cup {Malformed}]
    /\ token \in [Attempt -> Nat]

SubmissionsTyped ==
    sub \in [Submission -> [pc : {"new", "resolving", "resolved", "refused"},
                            token : Attempt \cup {NoAttempt},
                            tries : Nat, voter : Voter \cup {Malformed}]]

TypeOK == StoreTyped /\ CounterTyped /\ CallsTyped /\ SubmissionsTyped

\* The sessions of v that resolve.
Live(v) == {a \in Attempt : session[a].egn = v}

\* Two sessions of one voter never coexist (session/store.go: "preventing two
\* valid sessions from coexisting"), whatever the order of the logins, the
\* failures of Create and the expiry of the two keys.
OneSession ==
    \A v \in Voter, a \in Attempt, b \in Attempt :
        a \in Live(v) /\ b \in Live(v) => a = b

\* The session stored last for a voter resolves until its time is over: no
\* login that fails or is refused, and no other voter's login, takes it away.
LatestSessionLives ==
    \A v \in Voter :
        latest[v].exp > now => latest[v].id \in Live(v)

\* A token gets a submission through only for the voter who was given it, and
\* only while no later session was stored for that voter: the answers of two
\* logins may overtake each other, and a resolution may be retried after one.
ResolvedIsLatest ==
    [][\A s \in Submission :
         sub[s].pc # "resolved" /\ sub'[s].pc = "resolved" =>
           LET a == sub[s].token
               v == sub'[s].voter
           IN  v = egn[a] /\ latest[v].id = a]_vars

Tries(v) == {a \in Attempt : egn[a] = v /\ verdict[a].is # "none"}

\* In no period of the length of the window are more than MaxAttempts attempts
\* of a voter let through, over both endpoints (session/ratelimit.go: "at most
\* 5 attempts per 10-minute window").
RateLimit ==
    \A v \in Voter, t \in 1 .. MaxClock :
        Cardinality({a \in Tries(v) :
                       verdict[a].is = "allowed" /\ verdict[a].at \in t .. t + Window - 1})
            <= MaxAttempts

\* A voter who has waited out the window is let in, unless the counter got
\* stuck without an expiry because every counted attempt lost its EXPIRE.
LetInAfterPause ==
    \A v \in Voter : \A a \in Tries(v) :
        verdict[a].is = "refused" =>
          \/ \E b \in Tries(v) \ {a} : verdict[b].at \in verdict[a].at - Window + 1 .. verdict[a].at
          \/ Cardinality({b \in Tries(v) : verdict[b].is = "half"}) >= MaxAttempts

=============================================================================
