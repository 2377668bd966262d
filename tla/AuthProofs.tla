----------------------------- MODULE AuthProofs -----------------------------
(***************************************************************************)
(* What holds of the sessions for every number of voters, logins and       *)
(* submissions, for every TTL of the mapping that is no shorter than the   *)
(* session's, whatever fails and whenever keys expire.                     *)
(*                                                                         *)
(* That two sessions never coexist is not inductive: the script deletes    *)
(* what the mapping names, so the mapping must name every session that     *)
(* lives, and outlive it (SessionIsMapped).  That the latest session lives *)
(* needs that the script deletes no other voter's session (OwnSession,     *)
(* OwnMapping) and that the identifier drawn is new (FreshId).             *)
(*                                                                         *)
(* The second part is about the attempt counter (KInv).                    *)
(***************************************************************************)
EXTENDS AuthSession, FiniteSetTheorems, TLAPS

\* A call that reached the counter carries a voter's EGN.
CalledByVoter ==
    \A a \in Attempt :
        pc[a] \in {"counting", "creating", "signing", "answered"} => egn[a] \in Voter

\* What is resolved is the identifier in a token.
ResolvesToken ==
    \A s \in Submission : sub[s].pc = "resolving" => sub[s].token \in Attempt

\* An identifier is nowhere in the store before Create.
FreshId ==
    \A a \in Attempt :
        pc[a] \in {"new", "counting", "creating"} =>
            /\ session[a] = NoSession
            /\ \A v \in Voter : mapping[v].id # a /\ latest[v].id # a

OwnSession ==
    \A a \in Attempt : session[a].egn \in Voter => session[a].egn = egn[a]

OwnMapping ==
    \A v \in Voter :
        mapping[v].id # NoAttempt =>
            egn[mapping[v].id] = v /\ latest[v].id = mapping[v].id

SessionIsMapped ==
    \A a \in Attempt : \A v \in Voter :
        session[a].egn = v => mapping[v].id = a /\ session[a].exp <= mapping[v].exp

LatestStored ==
    \A v \in Voter :
        latest[v].exp > now =>
            /\ latest[v].id \in Attempt
            /\ session[latest[v].id] = [egn |-> v, exp |-> latest[v].exp]

Calls == CalledByVoter /\ ResolvesToken
Store == FreshId /\ OwnSession /\ OwnMapping /\ SessionIsMapped /\ LatestStored

IInv == TypeOK /\ Calls /\ Store

-----------------------------------------------------------------------------
\* What the counter holds is typed, however often it is incremented.
LEMMA CountersTyped ==
    ASSUME NEW r \in [count : Nat, exp : Nat], now \in Nat
    PROVE  /\ Incr(r) \in [count : Nat, exp : Nat]
           /\ CountAttempt(r) \in [count : Nat, exp : Nat]
<1>1. Forever \in Nat
  BY SessionAssumption, RateAssumption DEF Forever
<1>2. Incr(r) \in [count : Nat, exp : Nat]
  BY <1>1 DEF Incr
<1>3. CountAttempt(r) = [Incr(r) EXCEPT !.exp = now + Window]
  BY DEF CountAttempt, Expire
<1>4. now + Window \in Nat
  BY RateAssumption
<1> QED  BY <1>2, <1>3, <1>4

\* The initial state satisfies the invariant.
LEMMA InitIInv == Init => IInv
<1> SUFFICES ASSUME Init PROVE IInv
  OBVIOUS
<1>1. TypeOK
  BY DEF Init, TypeOK, StoreTyped, CounterTyped, CallsTyped,
         SubmissionsTyped, NoSession, NoMapping, NoCount
<1>2. Calls
  BY DEF Init, Calls, CalledByVoter, ResolvesToken
<1>3. FreshId
  BY SessionAssumption DEF Init, FreshId, NoSession, NoMapping
<1>4. OwnSession /\ SessionIsMapped
  BY SessionAssumption DEF Init, OwnSession, SessionIsMapped, NoSession
<1>5. OwnMapping /\ LatestStored
  BY DEF Init, OwnMapping, LatestStored, NoMapping
<1> QED  BY <1>1, <1>2, <1>3, <1>4, <1>5 DEF IInv, Store

\* A call that does not touch the store: it moves on, and is given an EGN only
\* while its identifier is not stored.
LEMMA CallKeepsStore ==
    ASSUME IInv, NEW a \in Attempt,
           UNCHANGED <<now, store, latest>>,
           \E p \in {"counting", "creating", "signing", "answered", "refused"} :
               pc' = [pc EXCEPT ![a] = p] /\ (p = "creating" => pc[a] = "counting")
                     /\ (p = "counting" => pc[a] = "new"),
           \/ UNCHANGED egn
           \/ pc[a] = "new" /\ \E v \in Voter : egn' = [egn EXCEPT ![a] = v]
    PROVE  Store'
<1> USE DEF store
<1>1. FreshId'
  BY DEF IInv, Store, FreshId, TypeOK, StoreTyped, CounterTyped, CallsTyped
<1>2. OwnSession'
  BY SessionAssumption
  DEF IInv, Store, FreshId, OwnSession, TypeOK, StoreTyped, CounterTyped, CallsTyped, NoSession
<1>3. OwnMapping'
  BY DEF IInv, Store, FreshId, OwnMapping, TypeOK, StoreTyped, CounterTyped, CallsTyped
<1>4. SessionIsMapped'
  BY DEF IInv, Store, SessionIsMapped
<1>5. LatestStored'
  BY DEF IInv, Store, LatestStored
<1> QED  BY <1>1, <1>2, <1>3, <1>4, <1>5 DEF Store

\* The script, whatever becomes of its answer.
LEMMA ScriptKeepsStore ==
    ASSUME IInv, NEW a \in Attempt, pc[a] = "creating", StoreSession(a),
           UNCHANGED <<now, egn>>,
           \E p \in {"signing", "refused"} : pc' = [pc EXCEPT ![a] = p]
    PROVE  Store'
<1> DEFINE v == egn[a]
<1>v. v \in Voter
  BY DEF IInv, Calls, CalledByVoter
<1>t. TypeOK
  BY DEF IInv
<1>ttl. now + SessionTTL \in Nat /\ now + EgnTTL \in Nat /\ now + SessionTTL <= now + EgnTTL
  BY <1>t, SessionAssumption DEF TypeOK, StoreTyped, CounterTyped, CallsTyped
<1>s. /\ session'[a] = [egn |-> v, exp |-> now + SessionTTL]
      /\ \A b \in Attempt \ {a} :
            session'[b] = IF b = mapping[v].id THEN NoSession ELSE session[b]
  BY DEF StoreSession, ReplaceSession
<1>m. /\ mapping'[v] = [id |-> a, exp |-> now + EgnTTL]
      /\ \A w \in Voter \ {v} : mapping'[w] = mapping[w]
  BY <1>t, <1>v DEF StoreSession, ReplaceSession, TypeOK, StoreTyped, CounterTyped, CallsTyped
<1>l. /\ latest'[v] = [id |-> a, exp |-> now + SessionTTL]
      /\ \A w \in Voter \ {v} : latest'[w] = latest[w]
  BY <1>t, <1>v DEF StoreSession, TypeOK, StoreTyped, CounterTyped, CallsTyped
<1>p. pc'[a] \notin {"new", "counting", "creating"} /\ \A b \in Attempt \ {a} : pc'[b] = pc[b]
  BY <1>t DEF TypeOK, StoreTyped, CounterTyped, CallsTyped
<1>f. /\ session[a] = NoSession
      /\ \A w \in Voter : mapping[w].id # a /\ latest[w].id # a
  BY DEF IInv, Store, FreshId
<1> HIDE DEF v
<1>1. FreshId'
  <2> SUFFICES ASSUME NEW b \in Attempt, pc'[b] \in {"new", "counting", "creating"}
               PROVE  /\ session'[b] = NoSession
                      /\ \A w \in Voter : mapping'[w].id # b /\ latest'[w].id # b
    BY DEF FreshId
  <2>1. b # a /\ pc[b] \in {"new", "counting", "creating"}
    BY <1>p
  <2>2. /\ session[b] = NoSession
        /\ \A w \in Voter : mapping[w].id # b /\ latest[w].id # b
    BY <2>1 DEF IInv, Store, FreshId
  <2> QED  BY <2>1, <2>2, <1>s, <1>m, <1>l
<1>2. OwnSession'
  BY <1>s, SessionAssumption DEF IInv, Store, OwnSession, NoSession, v
<1>3. OwnMapping'
  BY <1>m, <1>l DEF IInv, Store, OwnMapping, v
<1>4. SessionIsMapped'
  <2> SUFFICES ASSUME NEW b \in Attempt, NEW w \in Voter, session'[b].egn = w
               PROVE  mapping'[w].id = b /\ session'[b].exp <= mapping'[w].exp
    BY DEF SessionIsMapped
  <2>1. CASE b = a
    BY <2>1, <1>s, <1>m, <1>ttl, <1>v
  <2>2. CASE b # a
    <3>1. session'[b] = session[b] /\ b # mapping[v].id
      BY <2>2, <1>s, SessionAssumption DEF NoSession
    <3>2. mapping[w].id = b /\ session[b].exp <= mapping[w].exp
      BY <3>1 DEF IInv, Store, SessionIsMapped
    <3>3. w # v
      BY <3>1, <3>2
    <3> QED  BY <3>1, <3>2, <3>3, <1>m
  <2> QED  BY <2>1, <2>2
<1>5. LatestStored'
  <2> SUFFICES ASSUME NEW w \in Voter, latest'[w].exp > now
               PROVE  /\ latest'[w].id \in Attempt
                      /\ session'[latest'[w].id] = [egn |-> w, exp |-> latest'[w].exp]
    BY DEF LatestStored
  <2>1. CASE w = v
    BY <2>1, <1>s, <1>l
  <2>2. CASE w # v
    <3>1. latest'[w] = latest[w]
      BY <2>2, <1>l
    <3>2. /\ latest[w].id \in Attempt
          /\ session[latest[w].id] = [egn |-> w, exp |-> latest[w].exp]
      BY <3>1 DEF IInv, Store, LatestStored
    <3>3. egn[latest[w].id] = w
      BY <3>2 DEF IInv, Store, OwnSession
    <3>4. latest[w].id # mapping[v].id
      <4>1. CASE mapping[v].id = NoAttempt
        BY <4>1, <3>2, SessionAssumption
      <4>2. CASE mapping[v].id # NoAttempt
        <5>1. egn[mapping[v].id] = v
          BY <4>2, <1>v DEF IInv, Store, OwnMapping
        <5> QED  BY <5>1, <3>3, <2>2
      <4> QED  BY <4>1, <4>2
    <3>5. latest[w].id # a
      BY <1>f
    <3> QED  BY <3>1, <3>2, <3>4, <3>5, <1>s
  <2> QED  BY <2>1, <2>2
<1> QED  BY <1>1, <1>2, <1>3, <1>4, <1>5 DEF Store

\* Expiry: a session is never left without the mapping that names it.
LEMMA TickKeepsStore ==
    ASSUME IInv, Tick
    PROVE  Store'
<1>t. TypeOK
  BY DEF IInv
<1>s. \A a \in Attempt :
        session'[a] = IF session[a].exp > now + 1 THEN session[a] ELSE NoSession
  BY DEF Tick
<1>m. \A v \in Voter :
        mapping'[v] = IF mapping[v].exp > now + 1 THEN mapping[v] ELSE NoMapping
  BY DEF Tick
<1>u. UNCHANGED <<pc, egn, latest>> /\ now' = now + 1
  BY DEF Tick, history
<1>1. FreshId'
  BY <1>s, <1>m, <1>u, SessionAssumption DEF IInv, Store, FreshId, NoSession, NoMapping
<1>2. OwnSession'
  BY <1>s, <1>u, SessionAssumption DEF IInv, Store, OwnSession, NoSession
<1>3. OwnMapping'
  BY <1>m, <1>u DEF IInv, Store, OwnMapping, NoMapping
<1>4. SessionIsMapped'
  <2> SUFFICES ASSUME NEW a \in Attempt, NEW v \in Voter, session'[a].egn = v
               PROVE  mapping'[v].id = a /\ session'[a].exp <= mapping'[v].exp
    BY DEF SessionIsMapped
  <2>1. session'[a] = session[a] /\ session[a].exp > now + 1
    BY <1>s, SessionAssumption DEF NoSession
  <2>2. mapping[v].id = a /\ session[a].exp <= mapping[v].exp
    BY <2>1 DEF IInv, Store, SessionIsMapped
  <2>3. session[a].exp \in Nat /\ mapping[v].exp \in Nat /\ now \in Nat
    BY <1>t DEF TypeOK, StoreTyped, CounterTyped, CallsTyped
  <2>4. mapping'[v] = mapping[v]
    BY <2>1, <2>2, <2>3, <1>m
  <2> QED  BY <2>1, <2>2, <2>4
<1>5. LatestStored'
  <2> SUFFICES ASSUME NEW v \in Voter, latest[v].exp > now + 1
               PROVE  /\ latest[v].id \in Attempt
                      /\ session'[latest[v].id] = [egn |-> v, exp |-> latest[v].exp]
    BY <1>u DEF LatestStored
  <2>1. latest[v].exp > now
    BY <1>t DEF TypeOK, StoreTyped, CounterTyped, CallsTyped
  <2>2. /\ latest[v].id \in Attempt
        /\ session[latest[v].id] = [egn |-> v, exp |-> latest[v].exp]
    BY <2>1 DEF IInv, Store, LatestStored
  <2> QED  BY <2>2, <1>s
<1> QED  BY <1>1, <1>2, <1>3, <1>4, <1>5 DEF Store

\* Whoever resolves carries a token that was answered.
LEMMA SubmissionKeepsStore ==
    ASSUME IInv, NEW s \in Submission, Resolution(s)
    PROVE  Store'
<1>1. UNCHANGED <<now, store, pc, egn, latest>>
  BY DEF Resolution, Submit, ResolveSession, ResolveUnreachable, ResolveFails, history
<1> QED
  BY <1>1 DEF IInv, Store, FreshId, OwnSession, OwnMapping, SessionIsMapped,
              LatestStored, store

\* No step of a call takes the system out of the invariant.
LEMMA CallKeepsIInv ==
    ASSUME IInv, NEW a \in Attempt, Call(a)
    PROVE  IInv'
<1> USE DEF IInv
<1>u. UNCHANGED sub
  BY DEF Call, PostLogin, Authenticate, Allow, AllowFails, Create, CreateFails,
         Answer, SignFails
<1>r. ResolvesToken'
  BY <1>u DEF Calls, ResolvesToken
<1>1. ASSUME NEW csrf, NEW uri, NEW input \in Voter \cup {Malformed},
             PostLogin(a, csrf, uri, input) \/ Authenticate(a, input)
      PROVE  IInv'
  <2>1. /\ pc[a] = "new"
        /\ \/ input \in Voter /\ Count(a, input)
           \/ Refuse(a) /\ UNCHANGED egn
        /\ UNCHANGED <<now, store, rate, token, sub, history, faults>>
    BY <1>1 DEF PostLogin, Authenticate, IsIdentity
  <2>2. TypeOK'
    <3>1. CallsTyped'
      BY <2>1 DEF TypeOK, CallsTyped, Count, Refuse
    <3>2. StoreTyped' /\ CounterTyped' /\ SubmissionsTyped'
      BY <2>1 DEF TypeOK, StoreTyped, CounterTyped, SubmissionsTyped, store, history
    <3> QED  BY <3>1, <3>2 DEF TypeOK, StoreTyped, CounterTyped, CallsTyped
  <2>3. CalledByVoter'
    BY <2>1 DEF Calls, CalledByVoter, Count, Refuse, TypeOK, StoreTyped, CounterTyped, CallsTyped
  <2>4. Store'
    BY <2>1, CallKeepsStore DEF Count, Refuse, history
  <2> QED  BY <1>r, <2>2, <2>3, <2>4 DEF Calls
<1>2. ASSUME Allow(a) \/ AllowFails(a)
      PROVE  IInv'
  <2>1. egn[a] \in Voter
    BY <1>2 DEF Calls, CalledByVoter, Allow, AllowFails
  <2>2. /\ pc[a] = "counting"
        /\ \E p \in {"creating", "refused"} : pc' = [pc EXCEPT ![a] = p]
        /\ UNCHANGED <<now, store, egn, token, sub, latest>>
        /\ faults' \in {faults, faults + 1}
    BY <1>2 DEF Allow, AllowFails, Refuse, Fault
  <2>3. /\ \/ UNCHANGED rate
           \/ rate' = [rate EXCEPT ![egn[a]] = CountAttempt(rate[egn[a]])]
           \/ rate' = [rate EXCEPT ![egn[a]] = Incr(rate[egn[a]])]
        /\ \/ UNCHANGED verdict
           \/ \E is \in {"allowed", "refused", "half", "failed"} :
                verdict' = [verdict EXCEPT ![a] = [is |-> is, at |-> now]]
    BY <1>2 DEF Allow, AllowFails, Judge
  <2>4. rate' \in [Voter -> [count : Nat, exp : Nat]]
    <3>1. rate[egn[a]] \in [count : Nat, exp : Nat] /\ now \in Nat
      BY <2>1 DEF TypeOK, StoreTyped, CounterTyped, CallsTyped
    <3> QED  BY <3>1, <2>3, CountersTyped DEF TypeOK, StoreTyped, CounterTyped, CallsTyped
  <2>5. TypeOK'
    <3>1. StoreTyped' /\ SubmissionsTyped'
      BY <2>2 DEF TypeOK, StoreTyped, SubmissionsTyped, store
    <3>2. CallsTyped'
      BY <2>2 DEF TypeOK, CallsTyped
    <3>3. faults' \in Nat /\ now' \in Nat
      BY <2>2 DEF TypeOK, CounterTyped
    <3>4. verdict' \in [Attempt -> [is : {"none", "allowed", "refused", "half", "failed"},
                                   at : Nat]]
      BY <2>3 DEF TypeOK, CounterTyped
    <3> QED  BY <2>4, <3>1, <3>2, <3>3, <3>4 DEF TypeOK, CounterTyped
  <2>6. CalledByVoter'
    BY <2>1, <2>2 DEF Calls, CalledByVoter, TypeOK, StoreTyped, CounterTyped, CallsTyped
  <2>7. Store'
    BY <2>2, CallKeepsStore
  <2> QED  BY <1>r, <2>5, <2>6, <2>7 DEF Calls
<1>3. ASSUME pc[a] = "creating", StoreSession(a),
             NEW p \in {"signing", "refused"}, pc' = [pc EXCEPT ![a] = p],
             faults' \in {faults, faults + 1},
             UNCHANGED <<now, rate, egn, token, sub, verdict>>
      PROVE  IInv'
  <2>1. egn[a] \in Voter
    BY <1>3 DEF Calls, CalledByVoter
  <2>2. /\ session' \in [Attempt -> [egn : Voter \cup {Malformed}, exp : Nat]]
        /\ mapping' \in [Voter -> [id : Attempt \cup {NoAttempt}, exp : Nat]]
        /\ latest' \in [Voter -> [id : Attempt \cup {NoAttempt}, exp : Nat]]
    BY <1>3, <2>1, SessionAssumption
    DEF TypeOK, StoreTyped, CounterTyped, CallsTyped, StoreSession, ReplaceSession, NoSession
  <2>3. TypeOK'
    <3>1. StoreTyped'
      BY <2>2 DEF StoreTyped
    <3>2. CallsTyped'
      BY <1>3 DEF TypeOK, CallsTyped
    <3>3. CounterTyped' /\ SubmissionsTyped'
      BY <1>3, <1>u DEF TypeOK, CounterTyped, SubmissionsTyped
    <3> QED  BY <3>1, <3>2, <3>3 DEF TypeOK, StoreTyped, CounterTyped, CallsTyped
  <2>4. CalledByVoter'
    BY <1>3, <2>1 DEF Calls, CalledByVoter, TypeOK, StoreTyped, CounterTyped, CallsTyped
  <2>5. Store'
    BY <1>3, ScriptKeepsStore
  <2> QED  BY <1>r, <2>3, <2>4, <2>5 DEF Calls
<1>4. CASE Create(a)
  BY <1>4, <1>3 DEF Create
<1>5. CASE CreateFails(a)
  <2>1. CASE StoreSession(a)
    BY <2>1, <1>5, <1>3 DEF CreateFails, Refuse, Fault
  <2>2. CASE UNCHANGED <<store, latest>>
    <3>1. TypeOK'
      BY <1>5, <2>2 DEF CreateFails, Refuse, Fault, TypeOK, StoreTyped, CounterTyped,
                        CallsTyped, SubmissionsTyped, store
    <3>2. CalledByVoter'
      BY <1>5
      DEF CreateFails, Refuse, Calls, CalledByVoter, TypeOK, StoreTyped, CounterTyped, CallsTyped
    <3>3. Store'
      BY <1>5, <2>2, CallKeepsStore DEF CreateFails, Refuse
    <3> QED  BY <1>r, <3>1, <3>2, <3>3 DEF Calls
  <2> QED  BY <1>5, <2>1, <2>2 DEF CreateFails
<1>6. CASE Answer(a) \/ SignFails(a)
  <2>1. /\ pc[a] = "signing"
        /\ \E p \in {"answered", "refused"} : pc' = [pc EXCEPT ![a] = p]
        /\ UNCHANGED <<now, store, rate, egn, sub, history>>
        /\ token' \in {token, [token EXCEPT ![a] = now + SessionTTL]}
        /\ faults' \in {faults, faults + 1}
    BY <1>6 DEF Answer, SignFails, Refuse, Fault
  <2>2. TypeOK'
    <3>1. StoreTyped' /\ CounterTyped' /\ SubmissionsTyped'
      BY <2>1 DEF TypeOK, StoreTyped, CounterTyped, SubmissionsTyped, store, history
    <3>2. now + SessionTTL \in Nat
      BY SessionAssumption DEF TypeOK, CounterTyped
    <3>3. CallsTyped'
      BY <2>1, <3>2 DEF TypeOK, CallsTyped
    <3> QED  BY <3>1, <3>3 DEF TypeOK, StoreTyped, CounterTyped, CallsTyped
  <2>3. CalledByVoter'
    BY <2>1 DEF Calls, CalledByVoter, TypeOK, StoreTyped, CounterTyped, CallsTyped
  <2>4. Store'
    BY <2>1, CallKeepsStore DEF history
  <2> QED  BY <1>r, <2>2, <2>3, <2>4 DEF Calls
<1> QED  BY <1>1, <1>2, <1>4, <1>5, <1>6 DEF Call

\* No step of a submission takes the system out of the invariant.
LEMMA ResolutionKeepsIInv ==
    ASSUME IInv, NEW s \in Submission, Resolution(s)
    PROVE  IInv'
<1> USE DEF IInv
<1>1. /\ UNCHANGED <<now, store, rate, pc, egn, token, history>>
      /\ faults' \in {faults, faults + 1}
  BY DEF Resolution, Submit, ResolveSession, ResolveUnreachable, ResolveFails, Fault
<1>2. SubmissionsTyped /\ SubmissionsTyped' /\ ResolvesToken'
  <2>t. SubmissionsTyped /\ ResolvesToken
    BY DEF TypeOK, StoreTyped, CounterTyped, CallsTyped, Calls
  <2>1. ASSUME NEW a \in Attempt, Submit(s, a)
        PROVE  SubmissionsTyped' /\ ResolvesToken'
    <3>1. PICK q \in {"resolving", "refused"} :
            sub' = [sub EXCEPT ![s] = [sub[s] EXCEPT !.pc = q, !.token = a]]
      BY <2>1, <2>t DEF Submit, SubmissionsTyped
    <3> QED  BY <3>1, <2>t DEF SubmissionsTyped, ResolvesToken
  <2>2. CASE ResolveSession(s)
    <3>1. Resolved(sub[s].token) \in Voter \cup {Malformed}
      BY <2>2, <2>t DEF ResolveSession, Resolved, ResolvesToken, TypeOK, StoreTyped
    <3>2. PICK q \in {"resolved", "refused"} :
            sub' = [sub EXCEPT ![s] = [sub[s] EXCEPT !.pc = q,
                                                     !.voter = Resolved(sub[s].token)]]
      BY <2>2, <2>t DEF ResolveSession, SubmissionsTyped
    <3> QED  BY <3>1, <3>2, <2>t DEF SubmissionsTyped, ResolvesToken
  <2>3. CASE ResolveUnreachable(s)
    <3>1. PICK q \in {"resolving", "refused"} :
            sub' = [sub EXCEPT ![s] = [sub[s] EXCEPT !.pc = q, !.tries = sub[s].tries + 1]]
      BY <2>3, <2>t DEF ResolveUnreachable, SubmissionsTyped
    <3>2. sub[s].pc = "resolving"
      BY <2>3 DEF ResolveUnreachable
    <3>3. sub[s].tries + 1 \in Nat
      BY <2>t DEF SubmissionsTyped
    <3>4. PICK n \in Nat :
            sub' = [sub EXCEPT ![s] = [sub[s] EXCEPT !.pc = q, !.tries = n]]
      BY <3>1, <3>3
    <3> QED  BY <3>2, <3>4, <2>t DEF SubmissionsTyped, ResolvesToken
  <2>4. CASE ResolveFails(s)
    <3>1. sub' = [sub EXCEPT ![s] = [sub[s] EXCEPT !.pc = "refused"]]
      BY <2>4 DEF ResolveFails
    <3> QED  BY <3>1, <2>t DEF SubmissionsTyped, ResolvesToken
  <2> QED  BY <2>t, <2>1, <2>2, <2>3, <2>4 DEF Resolution
<1>3. TypeOK'
  BY <1>1, <1>2 DEF TypeOK, StoreTyped, CounterTyped, CallsTyped, store, history
<1>5. CalledByVoter'
  BY <1>1 DEF Calls, CalledByVoter
<1> QED  BY <1>2, <1>3, <1>5, SubmissionKeepsStore DEF Calls

\* Nor does the clock.
LEMMA TickKeepsIInv ==
    ASSUME IInv, Tick
    PROVE  IInv'
<1>1. TypeOK'
  <2>1. now + 1 \in Nat
    BY DEF IInv, TypeOK, StoreTyped, CounterTyped, CallsTyped
  <2>2. StoreTyped'
    BY DEF IInv, Tick, TypeOK, StoreTyped, NoSession, NoMapping, history
  <2>3. CounterTyped'
    BY <2>1 DEF IInv, Tick, TypeOK, CounterTyped, NoCount, history
  <2>4. CallsTyped' /\ SubmissionsTyped'
    BY DEF IInv, Tick, TypeOK, CallsTyped, SubmissionsTyped
  <2> QED  BY <2>2, <2>3, <2>4 DEF TypeOK
<1>2. Calls'
  BY DEF IInv, Calls, CalledByVoter, ResolvesToken, Tick
<1> QED  BY <1>1, <1>2, TickKeepsStore DEF IInv

\* The invariant holds in every reachable state.
THEOREM AuthInvariant == Spec => []IInv
<1>1. IInv /\ [Next]_vars => IInv'
  <2> SUFFICES ASSUME IInv, [Next]_vars PROVE IInv'
    OBVIOUS
  <2>1. CASE \E a \in Attempt : Call(a)
    BY <2>1, CallKeepsIInv
  <2>2. CASE \E s \in Submission : Resolution(s)
    BY <2>2, ResolutionKeepsIInv
  <2>3. CASE Tick
    BY <2>3, TickKeepsIInv
  <2>4. CASE UNCHANGED vars
    <3>1. TypeOK'
      BY <2>4 DEF IInv, TypeOK, StoreTyped, CounterTyped, CallsTyped, SubmissionsTyped,
                  vars, store, history
    <3>2. Calls'
      BY <2>4 DEF IInv, Calls, CalledByVoter, ResolvesToken, vars
    <3>3. Store'
      BY <2>4 DEF IInv, Store, FreshId, OwnSession, OwnMapping, SessionIsMapped,
                  LatestStored, vars, store, history
    <3> QED  BY <3>1, <3>2, <3>3 DEF IInv
  <2> QED  BY <2>1, <2>2, <2>3, <2>4 DEF Next
<1> QED  BY <1>1, InitIInv, PTL DEF Spec

\* Two sessions of one voter never coexist, whatever the order of the logins,
\* the failures of Create and the expiry of the two keys: the mapping names
\* each session that lives.
THEOREM SessionsNeverCoexist == Spec => []OneSession
<1>1. IInv => OneSession
  BY DEF IInv, Store, SessionIsMapped, OneSession, Live
<1> QED  BY <1>1, AuthInvariant, PTL

\* The session stored last for a voter resolves until its time is over.
THEOREM LatestSessionStays == Spec => []LatestSessionLives
<1>1. IInv => LatestSessionLives
  <2> SUFFICES ASSUME IInv, NEW v \in Voter, latest[v].exp > now
               PROVE  latest[v].id \in Live(v)
    BY DEF LatestSessionLives
  <2>1. /\ latest[v].id \in Attempt
        /\ session[latest[v].id] = [egn |-> v, exp |-> latest[v].exp]
    BY DEF IInv, Store, LatestStored
  <2> QED  BY <2>1 DEF Live
<1> QED  BY <1>1, AuthInvariant, PTL

\* A submission is let through only for the voter whose login drew the session
\* and only if no session was stored for that voter since.
THEOREM OnlyLatestResolves == Spec => ResolvedIsLatest
<1>1. IInv /\ [Next]_vars =>
        [\A s \in Submission :
           sub[s].pc # "resolved" /\ sub'[s].pc = "resolved" =>
             LET a == sub[s].token
                 v == sub'[s].voter
             IN  v = egn[a] /\ latest[v].id = a]_vars
  <2> SUFFICES ASSUME IInv, Next, NEW s \in Submission,
                      sub[s].pc # "resolved", sub'[s].pc = "resolved"
               PROVE  /\ sub'[s].voter = egn[sub[s].token]
                      /\ latest[sub'[s].voter].id = sub[s].token
    OBVIOUS
  <2> DEFINE a == sub[s].token
  <2>1. ResolveSession(s)
    <3>1. PICK r \in Submission : Resolution(r)
      BY DEF Next, Call, PostLogin, Authenticate, Allow, AllowFails, Create,
             CreateFails, Answer, SignFails, Tick
    <3>2. r = s
      BY <3>1 DEF Resolution, Submit, ResolveSession, ResolveUnreachable, ResolveFails,
                  IInv, TypeOK, SubmissionsTyped
    <3>3. SubmissionsTyped
      BY DEF IInv, TypeOK, StoreTyped, CounterTyped, CallsTyped
    <3>4. \A b \in Attempt : ~Submit(s, b)
      BY <3>3 DEF Submit, SubmissionsTyped
    <3>5. ~ResolveUnreachable(s) /\ ~ResolveFails(s)
      BY <3>3 DEF ResolveUnreachable, ResolveFails, SubmissionsTyped
    <3> QED  BY <3>1, <3>2, <3>4, <3>5 DEF Resolution
  <2>2. /\ a \in Attempt
        /\ session[a].egn \in Voter
        /\ sub'[s].voter = session[a].egn
    BY <2>1 DEF ResolveSession, Resolved, IInv, Calls, ResolvesToken, TypeOK,
                SubmissionsTyped
  <2>3. session[a].egn = egn[a]
    BY <2>2 DEF IInv, Store, OwnSession
  <2>4. mapping[session[a].egn].id = a
    BY <2>2 DEF IInv, Store, SessionIsMapped
  <2>5. latest[session[a].egn].id = a
    BY <2>2, <2>4, SessionAssumption DEF IInv, Store, OwnMapping
  <2> QED  BY <2>2, <2>3, <2>5
<1> QED  BY <1>1, AuthInvariant, PTL DEF Spec, ResolvedIsLatest

-----------------------------------------------------------------------------
(***************************************************************************)
(* The attempt counter.  Nothing in the state says which attempts a key    *)
(* has counted, so the invariant bounds them: those allowed in a window    *)
(* that is not over are no more than the count (WindowsCounted), because   *)
(* each of them renewed the key beyond the end of the window (Renewed).    *)
(***************************************************************************)

\* The attempts that the counter has judged keep their voter.
Judged == {a \in Attempt : verdict[a].is # "none"}

JudgedOnce ==
    \A a \in Judged :
        pc[a] \notin {"new", "counting"} /\ egn[a] \in Voter /\ verdict[a].at <= now

Halves(v) == {b \in Tries(v) : verdict[b].is = "half"}

AllowedIn(v, t) ==
    {a \in Tries(v) : verdict[a].is = "allowed" /\ verdict[a].at \in t .. t + Window - 1}

KeysAlive == \A v \in Voter : rate[v] # NoCount => rate[v].exp > now

Renewed ==
    \A v \in Voter : \A a \in Tries(v) :
        verdict[a].is # "half" /\ verdict[a].at + Window > now =>
            rate[v].exp >= verdict[a].at + Window

WindowsCounted ==
    \A v \in Voter, t \in Nat :
        /\ Cardinality(AllowedIn(v, t)) <= MaxAttempts
        /\ t + Window > now => Cardinality(AllowedIn(v, t)) <= rate[v].count

\* A key has its expiry from an attempt, or has counted nothing but halves.
KeyHasSource ==
    \A v \in Voter : rate[v] # NoCount =>
        \/ \E b \in Tries(v) : rate[v].exp = verdict[b].at + Window
        \/ rate[v].count <= Cardinality(Halves(v))

KInv ==
    /\ now <= MaxClock + 1 /\ IsFiniteSet(Judged)
    /\ JudgedOnce /\ KeysAlive /\ Renewed /\ WindowsCounted /\ KeyHasSource /\ LetInAfterPause

\* One more attempt adds at most one to a count of attempts.
LEMMA OneMore ==
    ASSUME NEW S, IsFiniteSet(S), NEW x
    PROVE  /\ Cardinality(S \union {x}) <= Cardinality(S) + 1
           /\ Cardinality(S \union {x}) \in Nat
<1>1. IsFiniteSet(S \union {x}) /\ Cardinality(S) \in Nat
  BY FS_AddElement, FS_CardinalityType
<1>2. Cardinality(S \union {x}) \in Nat
  BY <1>1, FS_CardinalityType
<1>3. Cardinality(S \union {x}) = Cardinality(S) \/ Cardinality(S \union {x}) = Cardinality(S) + 1
  BY FS_AddElement
<1> QED  BY <1>1, <1>2, <1>3

\* Sets of judged attempts are finite.
LEMMA TriesFinite ==
    ASSUME IsFiniteSet(Judged), NEW S \in SUBSET Judged
    PROVE  IsFiniteSet(S) /\ Cardinality(S) \in Nat
  BY FS_Subset, FS_CardinalityType

\* A step that counts nothing.
LEMMA UncountedStep ==
    ASSUME IInv, KInv, UNCHANGED <<now, rate, verdict>>,
           \A a \in Judged : egn'[a] = egn[a] /\ pc'[a] \notin {"new", "counting"}
    PROVE  KInv'
<1>1. Judged' = Judged
  BY DEF Judged
<1>2. \A v \in Voter : Tries(v)' = Tries(v)
  BY DEF Tries, Judged
<1>3. \A v \in Voter : Halves(v)' = Halves(v) /\ \A t \in Nat : AllowedIn(v, t)' = AllowedIn(v, t)
  BY <1>2 DEF Halves, AllowedIn
<1>4. (IsFiniteSet(Judged) /\ JudgedOnce)'
  BY <1>1 DEF KInv, JudgedOnce
<1>5. (KeysAlive /\ Renewed)'
  BY <1>2 DEF KInv, KeysAlive, Renewed
<1>6. WindowsCounted'
  BY <1>3 DEF KInv, WindowsCounted
<1>7. KeyHasSource'
  BY <1>2, <1>3 DEF KInv, KeyHasSource
<1>8. LetInAfterPause'
  BY <1>2 DEF KInv, LetInAfterPause
<1> QED  BY <1>4, <1>5, <1>6, <1>7, <1>8 DEF KInv

\* Time passes: a key that goes has counted nothing in a window that goes on.
LEMMA TickStep ==
    ASSUME IInv, KInv, Tick
    PROVE  KInv'
<1>0. /\ now \in Nat /\ now' = now + 1 /\ now < MaxClock /\ MaxClock \in Nat
      /\ UNCHANGED <<pc, egn, verdict>>
      /\ rate \in [Voter -> [count : Nat, exp : Nat]] /\ Window \in Nat \ {0}
      /\ verdict \in [Attempt -> [is : {"none", "allowed", "refused", "half", "failed"},
                                  at : Nat]]
  BY RateAssumption DEF Tick, history, IInv, TypeOK, CounterTyped
<1>1. \A v \in Voter : rate'[v] = IF rate[v].exp > now + 1 THEN rate[v] ELSE NoCount
  BY DEF Tick
<1>2. Judged' = Judged /\ \A v \in Voter : Tries(v)' = Tries(v) /\ Halves(v)' = Halves(v)
                                           /\ \A t \in Nat : AllowedIn(v, t)' = AllowedIn(v, t)
  BY <1>0 DEF Judged, Tries, Halves, AllowedIn
<1>3. (now <= MaxClock + 1 /\ IsFiniteSet(Judged) /\ JudgedOnce /\ KeysAlive)'
  BY <1>0, <1>1, <1>2 DEF KInv, JudgedOnce, KeysAlive, Judged
<1>4. Renewed'
  <2> SUFFICES ASSUME NEW v \in Voter, NEW a \in Tries(v), verdict[a].is # "half",
                      verdict[a].at + Window > now + 1
               PROVE  rate'[v].exp >= verdict[a].at + Window
    BY <1>0, <1>2 DEF Renewed
  <2>1. verdict[a].at \in Nat
    BY <1>0 DEF Tries
  <2>2. rate[v].exp >= verdict[a].at + Window /\ rate[v].exp \in Nat
    BY <1>0, <2>1 DEF KInv, Renewed
  <2> QED  BY <1>0, <1>1, <2>1, <2>2
<1>5. WindowsCounted'
  <2> SUFFICES ASSUME NEW v \in Voter, NEW t \in Nat
               PROVE  /\ Cardinality(AllowedIn(v, t)) <= MaxAttempts
                      /\ t + Window > now + 1 => Cardinality(AllowedIn(v, t)) <= rate'[v].count
    BY <1>0, <1>2 DEF WindowsCounted
  <2>1. Cardinality(AllowedIn(v, t)) <= MaxAttempts
    BY DEF KInv, WindowsCounted
  <2>2. ASSUME t + Window > now + 1 PROVE Cardinality(AllowedIn(v, t)) <= rate'[v].count
    <3>1. Cardinality(AllowedIn(v, t)) <= rate[v].count
      BY <1>0, <2>2 DEF KInv, WindowsCounted
    <3>2. CASE rate[v].exp > now + 1
      BY <1>1, <3>1, <3>2
    <3>3. CASE ~(rate[v].exp > now + 1)
      <4>1. ASSUME NEW a \in AllowedIn(v, t) PROVE FALSE
        <5>1. /\ a \in Tries(v) /\ verdict[a].is # "half" /\ verdict[a].at \in Nat
              /\ verdict[a].at >= t
          BY <1>0, <4>1 DEF AllowedIn, Tries
        <5>2. rate[v].exp >= verdict[a].at + Window /\ rate[v].exp \in Nat
          BY <1>0, <2>2, <5>1 DEF KInv, Renewed
        <5> QED  BY <1>0, <2>2, <3>3, <5>1, <5>2
      <4>2. AllowedIn(v, t) = {}
        BY <4>1
      <4>3. rate'[v].count = 0
        BY <1>1, <3>3 DEF NoCount
      <4> QED  BY <4>2, <4>3, FS_EmptySet
    <3> QED  BY <3>2, <3>3
  <2> QED  BY <2>1, <2>2
<1>6. KeyHasSource'
  BY <1>0, <1>1, <1>2 DEF KInv, KeyHasSource
<1>7. LetInAfterPause'
  BY <1>0, <1>2 DEF KInv, LetInAfterPause
<1> QED  BY <1>3, <1>4, <1>5, <1>6, <1>7 DEF KInv

\* An attempt is counted, in whole or by half, and judged.
LEMMA JudgeStep ==
    ASSUME IInv, KInv, NEW a \in Attempt, pc[a] = "counting", NEW v \in Voter, egn[a] = v,
           NEW is \in {"allowed", "refused", "half", "failed"},
           NEW r, r = IF is = "half" THEN Incr(rate[v]) ELSE CountAttempt(rate[v]),
           rate' = [rate EXCEPT ![v] = r],
           verdict' = [verdict EXCEPT ![a] = [is |-> is, at |-> now]],
           UNCHANGED <<now, egn>>,
           NEW p \in {"creating", "refused"}, pc' = [pc EXCEPT ![a] = p],
           is = "allowed" => r.count <= MaxAttempts,
           is = "refused" => r.count > MaxAttempts
    PROVE  KInv'
<1>0. /\ now \in Nat /\ Window \in Nat \ {0} /\ MaxAttempts \in Nat
      /\ rate \in [Voter -> [count : Nat, exp : Nat]]
      /\ verdict \in [Attempt -> [is : {"none", "allowed", "refused", "half", "failed"},
                                  at : Nat]]
      /\ pc \in [Attempt -> {"new", "counting", "creating", "signing", "answered", "refused"}]
  BY RateAssumption DEF IInv, TypeOK, CounterTyped, CallsTyped
<1>1. /\ a \notin Judged /\ verdict'[a].is = is /\ verdict'[a].at = now
      /\ \A b \in Attempt : b # a => verdict'[b] = verdict[b] /\ pc'[b] = pc[b]
      /\ pc'[a] \notin {"new", "counting"}
      /\ rate'[v] = r /\ \A w \in Voter : w # v => rate'[w] = rate[w]
  BY <1>0 DEF KInv, JudgedOnce
<1>2. /\ r.count = rate[v].count + 1 /\ r \in [count : Nat, exp : Nat]
      /\ is # "half" => r.exp = now + Window
      /\ is = "half" => r.exp = IF rate[v] = NoCount THEN Forever ELSE rate[v].exp
      /\ r.exp > now /\ (r.exp >= rate[v].exp \/ r.exp = now + Window)
  <2>1. PICK old \in [count : Nat, exp : Nat] : old = rate[v]
    BY <1>0
  <2>2. Forever \in Nat /\ Forever > now
    BY <1>0, SessionAssumption, RateAssumption DEF Forever, KInv
  <2>3. /\ Incr(old).count = old.count + 1 /\ Incr(old) \in [count : Nat, exp : Nat]
        /\ Incr(old).exp = IF old = NoCount THEN Forever ELSE old.exp
    BY <2>2 DEF Incr, NoCount
  <2>4. CountAttempt(old) = [Incr(old) EXCEPT !.exp = now + Window]
    BY DEF CountAttempt, Expire
  <2>5. /\ CountAttempt(old).count = old.count + 1 /\ CountAttempt(old).exp = now + Window
        /\ CountAttempt(old) \in [count : Nat, exp : Nat]
    BY <1>0, <2>3, <2>4
  <2>6. old # NoCount => old.exp > now
    BY <2>1 DEF KInv, KeysAlive
  <2>7. CASE is = "half"
    <3>1. r = Incr(old)
      BY <2>1, <2>7
    <3>2. Incr(old).exp > now /\ Incr(old).exp >= old.exp
      BY <2>1, <2>2, <2>3, <2>6 DEF NoCount
    <3> QED  BY <2>1, <2>3, <2>7, <3>1, <3>2
  <2>8. CASE is # "half"
    <3>1. r = CountAttempt(old)
      BY <2>1, <2>8
    <3> QED  BY <1>0, <2>1, <2>5, <2>8, <3>1, RateAssumption
  <2> QED  BY <2>7, <2>8
<1>3. Judged' = Judged \union {a} /\ IsFiniteSet(Judged')
  <2>1. Judged' = Judged \union {a}
    BY <1>1 DEF Judged
  <2> QED  BY <2>1, FS_AddElement DEF KInv
<1>4. /\ Tries(v)' = Tries(v) \union {a} /\ a \notin Tries(v)
      /\ \A w \in Voter : w # v => Tries(w)' = Tries(w) /\ a \notin Tries(w)
      /\ \A w \in Voter : Tries(w) \subseteq Judged /\ Tries(w) \subseteq Tries(w)'
      /\ \A w \in Voter : \A b \in Tries(w) : b # a /\ verdict'[b] = verdict[b]
  BY <1>1 DEF Tries, Judged
<1>5. JudgedOnce'
  BY <1>0, <1>1, <1>3 DEF KInv, JudgedOnce, Judged
<1>6. KeysAlive'
  BY <1>0, <1>1, <1>2 DEF KInv, KeysAlive
<1>7. Renewed'
  <2> SUFFICES ASSUME NEW w \in Voter, NEW b \in Tries(w)', verdict'[b].is # "half",
                      verdict'[b].at + Window > now
               PROVE  rate'[w].exp >= verdict'[b].at + Window
    BY DEF Renewed
  <2>1. CASE b = a
    <3>1. w = v
      BY <1>4, <2>1
    <3> QED  BY <1>0, <1>1, <1>2, <2>1, <3>1
  <2>2. CASE b # a
    <3>1. b \in Tries(w) /\ verdict'[b] = verdict[b] /\ b \in Judged /\ verdict[b].at \in Nat
      BY <1>0, <1>4, <2>2 DEF Judged
    <3>2. rate[w].exp >= verdict[b].at + Window /\ rate[w].exp \in Nat
      BY <1>0, <3>1 DEF KInv, Renewed
    <3>3. verdict[b].at <= now
      BY <3>1 DEF KInv, JudgedOnce
    <3> QED  BY <1>0, <1>1, <1>2, <3>1, <3>2, <3>3
  <2> QED  BY <2>1, <2>2
<1>8. WindowsCounted'
  <2> SUFFICES ASSUME NEW w \in Voter, NEW t \in Nat
               PROVE  /\ Cardinality(AllowedIn(w, t)') <= MaxAttempts
                      /\ t + Window > now => Cardinality(AllowedIn(w, t)') <= rate'[w].count
    BY DEF WindowsCounted
  <2>1. /\ Cardinality(AllowedIn(w, t)) <= MaxAttempts
        /\ t + Window > now => Cardinality(AllowedIn(w, t)) <= rate[w].count
    BY DEF KInv, WindowsCounted
  <2>2. IsFiniteSet(AllowedIn(w, t)) /\ Cardinality(AllowedIn(w, t)) \in Nat
    <3>1. AllowedIn(w, t) \subseteq Judged /\ IsFiniteSet(Judged)
      BY <1>4 DEF AllowedIn, KInv
    <3> QED  BY <3>1, TriesFinite
  <2>3. rate[w].count \in Nat /\ (w # v => rate'[w] = rate[w]) /\ (w = v => rate'[w] = r)
    BY <1>0, <1>1
  <2>4. CASE w = v /\ is = "allowed" /\ now \in t .. t + Window - 1
    <3>1. AllowedIn(w, t)' = AllowedIn(w, t) \union {a}
      BY <1>1, <1>4, <2>4 DEF AllowedIn
    <3>2. /\ Cardinality(AllowedIn(w, t)') <= Cardinality(AllowedIn(w, t)) + 1
          /\ Cardinality(AllowedIn(w, t)') \in Nat
      <4> HIDE DEF AllowedIn
      <4> QED  BY <2>2, <3>1, OneMore
    <3>3. t + Window > now
      BY <1>0, <2>4
    <3> QED  BY <1>0, <1>2, <2>1, <2>2, <2>3, <2>4, <3>2, <3>3
  <2>5. CASE ~(w = v /\ is = "allowed" /\ now \in t .. t + Window - 1)
    <3>1. AllowedIn(w, t)' = AllowedIn(w, t)
      BY <1>1, <1>4, <2>5 DEF AllowedIn
    <3> QED  BY <1>2, <2>1, <2>2, <2>3, <3>1
  <2> QED  BY <2>4, <2>5
<1>9. KeyHasSource'
  <2> SUFFICES ASSUME NEW w \in Voter, rate'[w] # NoCount
               PROVE  \/ \E b \in Tries(w)' : rate'[w].exp = verdict'[b].at + Window
                      \/ rate'[w].count <= Cardinality(Halves(w)')
    BY DEF KeyHasSource
  <2>1. CASE w # v
    <3>1. Halves(w)' = Halves(w) /\ rate'[w] = rate[w]
      BY <1>1, <1>4, <2>1 DEF Halves
    <3> QED  BY <1>4, <2>1, <3>1 DEF KInv, KeyHasSource
  <2>2. CASE w = v /\ is # "half"
    BY <1>1, <1>2, <1>4, <2>2
  <2>3. CASE w = v /\ is = "half"
    <3>1. Halves(v)' = Halves(v) \union {a} /\ a \notin Halves(v)
      BY <1>1, <1>4, <2>3 DEF Halves
    <3>2. IsFiniteSet(Halves(v)) /\ Cardinality(Halves(v)) \in Nat
      <4>1. Halves(v) \subseteq Judged /\ IsFiniteSet(Judged)
        BY <1>4 DEF Halves, KInv
      <4> QED  BY <4>1, TriesFinite
    <3>3. Cardinality(Halves(v)') = Cardinality(Halves(v)) + 1
      <4>1. PICK H : H = Halves(v)
        OBVIOUS
      <4>2. Cardinality(H \union {a}) = Cardinality(H) + 1
        BY <3>1, <3>2, <4>1, FS_AddElement
      <4> HIDE DEF Halves
      <4> QED  BY <3>1, <4>1, <4>2
    <3>4. CASE rate[v] = NoCount
      <4>1. rate'[v].count = 1
        BY <1>1, <1>2, <3>4 DEF NoCount
      <4> QED  BY <2>3, <3>2, <3>3, <4>1
    <3>5. CASE rate[v] # NoCount
      <4>1. CASE rate[v].count <= Cardinality(Halves(v))
        BY <1>0, <1>1, <1>2, <2>3, <3>2, <3>3, <4>1
      <4>2. ASSUME NEW b \in Tries(v), rate[v].exp = verdict[b].at + Window
            PROVE  \E c \in Tries(w)' : rate'[w].exp = verdict'[c].at + Window
        BY <1>1, <1>2, <1>4, <2>3, <3>5, <4>2
      <4> QED  BY <3>5, <4>1, <4>2 DEF KInv, KeyHasSource
    <3> QED  BY <3>4, <3>5
  <2> QED  BY <2>1, <2>2, <2>3
<1>10. LetInAfterPause'
  <2> SUFFICES ASSUME NEW w \in Voter, NEW c \in Tries(w)', verdict'[c].is = "refused"
               PROVE  \/ \E b \in Tries(w)' \ {c} :
                            verdict'[b].at \in verdict'[c].at - Window + 1 .. verdict'[c].at
                      \/ Cardinality(Halves(w)') >= MaxAttempts
    BY DEF LetInAfterPause, Halves
  <2>1. /\ IsFiniteSet(Halves(w)) /\ Cardinality(Halves(w)) \in Nat
        /\ Cardinality(Halves(w)') \in Nat /\ Cardinality(Halves(w)) <= Cardinality(Halves(w)')
    <3>1. /\ Halves(w) \subseteq Halves(w)' /\ Halves(w)' \subseteq Judged'
          /\ Halves(w) \subseteq Judged
      BY <1>3, <1>4 DEF Halves, Tries, Judged
    <3>2. IsFiniteSet(Halves(w)')
      BY <1>3, <3>1, FS_Subset
    <3> QED  BY <3>1, <3>2, FS_Subset, FS_CardinalityType
  <2>2. CASE c # a
    <3>1. c \in Tries(w) /\ verdict'[c] = verdict[c]
      BY <1>4, <2>2
    <3>2. \/ \E b \in Tries(w) \ {c} :
               verdict[b].at \in verdict[c].at - Window + 1 .. verdict[c].at
          \/ Cardinality(Halves(w)) >= MaxAttempts
      BY <3>1 DEF KInv, LetInAfterPause, Halves
    <3> QED  BY <1>0, <1>4, <2>1, <3>1, <3>2
  <2>3. CASE c = a
    <3>1. w = v /\ is = "refused" /\ rate[v].count >= MaxAttempts
      BY <1>0, <1>1, <1>2, <1>4, <2>3
    <3>2. CASE rate[v] = NoCount
      BY <1>0, <2>1, <3>1, <3>2 DEF NoCount
    <3>3. CASE rate[v] # NoCount /\ rate[v].count <= Cardinality(Halves(v))
      BY <1>0, <2>1, <3>1, <3>3
    <3>4. ASSUME rate[v] # NoCount, NEW b \in Tries(v), rate[v].exp = verdict[b].at + Window
          PROVE  \E d \in Tries(w)' \ {c} :
                    verdict'[d].at \in verdict'[c].at - Window + 1 .. verdict'[c].at
      <4>1. b \in Judged /\ verdict[b].at \in Nat /\ b # a /\ verdict'[b] = verdict[b]
        BY <1>0, <1>4, <3>4 DEF Judged
      <4>2. rate[v].exp > now
        BY <3>4 DEF KInv, KeysAlive
      <4>3. verdict[b].at <= now /\ verdict[b].at >= now - Window + 1
        BY <1>0, <3>4, <4>1, <4>2 DEF KInv, JudgedOnce
      <4> QED  BY <1>0, <1>1, <1>4, <2>3, <3>1, <4>1, <4>3
    <3> QED  BY <3>2, <3>3, <3>4 DEF KInv, KeyHasSource
  <2> QED  BY <2>2, <2>3
<1> QED  BY <1>3, <1>5, <1>6, <1>7, <1>8, <1>9, <1>10 DEF KInv

LEMMA CounterInvariant == Spec => []KInv
<1>1. Init => KInv
  <2> SUFFICES ASSUME Init PROVE KInv
    OBVIOUS
  <2>1. Judged = {} /\ \A v \in Voter : rate[v] = NoCount /\ Tries(v) = {}
    BY DEF Init, Judged, Tries
  <2>2. \A v \in Voter, t \in Nat : AllowedIn(v, t) = {}
    BY <2>1 DEF AllowedIn
  <2>3. now <= MaxClock + 1 /\ IsFiniteSet(Judged)
    BY <2>1, RateAssumption, FS_EmptySet DEF Init
  <2>4. JudgedOnce /\ KeysAlive /\ Renewed /\ KeyHasSource /\ LetInAfterPause
    BY <2>1 DEF JudgedOnce, KeysAlive, Renewed, KeyHasSource, LetInAfterPause
  <2>5. WindowsCounted
    BY <2>1, <2>2, FS_EmptySet, RateAssumption DEF WindowsCounted, NoCount
  <2> QED  BY <2>3, <2>4, <2>5 DEF KInv
<1>2. IInv /\ KInv /\ [Next]_vars => KInv'
  <2> SUFFICES ASSUME IInv, KInv, [Next]_vars PROVE KInv'
    OBVIOUS
  <2>0. /\ pc \in [Attempt -> {"new", "counting", "creating", "signing", "answered", "refused"}]
        /\ egn \in [Attempt -> Voter \cup {Malformed}]
        /\ \A b \in Judged : b \in Attempt /\ pc[b] \notin {"new", "counting"}
    BY DEF IInv, TypeOK, CallsTyped, KInv, JudgedOnce, Judged
  <2>1. ASSUME NEW a \in Attempt, Allow(a) PROVE KInv'
    <3> DEFINE counted == CountAttempt(rate[egn[a]])
               is == IF counted.count <= MaxAttempts THEN "allowed" ELSE "refused"
    <3>1. /\ pc[a] = "counting" /\ egn[a] \in Voter
          /\ rate' = [rate EXCEPT ![egn[a]] = counted]
          /\ verdict' = [verdict EXCEPT ![a] = [is |-> is, at |-> now]]
          /\ UNCHANGED <<now, egn>>
          /\ \E p \in {"creating", "refused"} : pc' = [pc EXCEPT ![a] = p]
      BY <2>1 DEF Allow, Judge, Refuse, IInv, Calls, CalledByVoter
    <3>2. rate[egn[a]] \in [count : Nat, exp : Nat] /\ now \in Nat /\ MaxAttempts \in Nat
      BY <3>1, RateAssumption DEF IInv, TypeOK, CounterTyped
    <3>3. counted \in [count : Nat, exp : Nat]
      BY <3>2, CountersTyped
    <3>4. /\ is \in {"allowed", "refused"}
          /\ is = "allowed" => counted.count <= MaxAttempts
          /\ is = "refused" => counted.count > MaxAttempts
      BY <3>2, <3>3
    <3>5. PICK v \in Voter : egn[a] = v
      BY <3>1
    <3>6. PICK r : r = counted /\ r = CountAttempt(rate[v])
      BY <3>5
    <3>7. PICK w \in {"allowed", "refused"} : w = is
      BY <3>4
    <3>8. PICK p \in {"creating", "refused"} : pc' = [pc EXCEPT ![a] = p]
      BY <3>1
    <3> HIDE DEF counted, is
    <3> QED  BY <3>1, <3>4, <3>5, <3>6, <3>7, <3>8, JudgeStep
  <2>2. ASSUME NEW a \in Attempt, AllowFails(a) PROVE KInv'
    <3>1. /\ pc[a] = "counting" /\ egn[a] \in Voter /\ UNCHANGED <<now, egn>>
          /\ pc' = [pc EXCEPT ![a] = "refused"]
      BY <2>2 DEF AllowFails, Refuse, IInv, Calls, CalledByVoter
    <3>2. PICK v \in Voter : egn[a] = v
      BY <3>1
    <3>3. CASE UNCHANGED <<rate, verdict>>
      <4>1. \A b \in Judged : egn'[b] = egn[b] /\ pc'[b] \notin {"new", "counting"}
        BY <2>0, <3>1
      <4> QED  BY <3>1, <3>3, <4>1, UncountedStep
    <3>4. CASE /\ rate' = [rate EXCEPT ![v] = Incr(rate[v])]
               /\ verdict' = [verdict EXCEPT ![a] = [is |-> "half", at |-> now]]
      <4>1. PICK r : r = Incr(rate[v])
        OBVIOUS
      <4>2. PICK w \in {"half"} : TRUE
        OBVIOUS
      <4> QED  BY <3>1, <3>2, <3>4, <4>1, <4>2, JudgeStep
    <3>5. CASE /\ rate' = [rate EXCEPT ![v] = CountAttempt(rate[v])]
               /\ verdict' = [verdict EXCEPT ![a] = [is |-> "failed", at |-> now]]
      <4>1. PICK r : r = CountAttempt(rate[v])
        OBVIOUS
      <4>2. PICK w \in {"failed"} : TRUE
        OBVIOUS
      <4> QED  BY <3>1, <3>2, <3>5, <4>1, <4>2, JudgeStep
    <3> QED  BY <2>2, <3>2, <3>3, <3>4, <3>5 DEF AllowFails, Judge
  <2>3. ASSUME NEW a \in Attempt, Call(a), ~Allow(a), ~AllowFails(a) PROVE KInv'
    <3>1. /\ UNCHANGED <<now, rate, verdict>>
          /\ egn' = egn \/ (pc[a] = "new" /\ \E input : egn' = [egn EXCEPT ![a] = input])
          /\ \/ pc[a] = "new" /\ \E q : pc' = [pc EXCEPT ![a] = q]
             \/ \E q \in {"signing", "answered", "refused"} : pc' = [pc EXCEPT ![a] = q]
      BY <2>3 DEF Call, PostLogin, Authenticate, Create, CreateFails, Answer, SignFails,
         Count, Refuse, history, store
    <3>2. \A b \in Judged : egn'[b] = egn[b] /\ pc'[b] \notin {"new", "counting"}
      BY <2>0, <3>1
    <3> QED  BY <3>1, <3>2, UncountedStep
  <2>4. ASSUME NEW s \in Submission, Resolution(s) PROVE KInv'
    <3>1. UNCHANGED <<now, rate, verdict, pc, egn>>
      BY <2>4 DEF Resolution, Submit, ResolveSession, ResolveUnreachable, ResolveFails, history
    <3> QED  BY <2>0, <3>1, UncountedStep
  <2>5. CASE Tick
    BY <2>5, TickStep
  <2>6. CASE UNCHANGED vars
    BY <2>0, <2>6, UncountedStep DEF vars, history
  <2> QED  BY <2>1, <2>2, <2>3, <2>4, <2>5, <2>6 DEF Next
<1> QED  BY <1>1, <1>2, AuthInvariant, PTL DEF Spec

\* In no period of the length of the window are more attempts of a voter let
\* through than allowed, over both endpoints, whatever Redis fails to do.
THEOREM RateStaysLimited == Spec => []RateLimit
<1>1. KInv => RateLimit
  <2> SUFFICES ASSUME KInv, NEW v \in Voter, NEW t \in 1 .. MaxClock
               PROVE  Cardinality(AllowedIn(v, t)) <= MaxAttempts
    BY DEF RateLimit, AllowedIn
  <2>1. t \in Nat
    BY RateAssumption
  <2> QED  BY <2>1 DEF KInv, WindowsCounted
<1> QED  BY <1>1, CounterInvariant, PTL

\* A voter who has waited out the window is let in, unless as many attempts as
\* are allowed all lost their EXPIRE.
THEOREM PauseLetsIn == Spec => []LetInAfterPause
<1>1. KInv => LetInAfterPause
  BY DEF KInv
<1> QED  BY <1>1, CounterInvariant, PTL
=============================================================================
