---------------------------- MODULE Verification ----------------------------
(***************************************************************************)
(* The Verification Service (verification/): sessions kept in memory, key  *)
(* shares that trustees submit for a session, the secret that is           *)
(* reconstructed from them, the return code that is delivered, and the     *)
(* clean-up goroutine that removes expired sessions.                       *)
(*                                                                         *)
(* The session store has a lock, but Get returns a pointer and the         *)
(* handlers read through it without the lock.  Here a step is a critical   *)
(* section of the store or a read of shared memory outside of one.         *)
(*                                                                         *)
(* Simplifications.                                                        *)
(*  - A scalar is an object that several pointers may share; its value is  *)
(*    "election" (the secret the honest shares interpolate to), "zero", or *)
(*    "wrong" (interpolated from some zeroed shares).  Codes are named by  *)
(*    the secret they were derived from, at the time.                      *)
(*  - Reading and writing one scalar is one step: a torn read is "wrong"   *)
(*    as well.                                                             *)
(*  - Stopping the service loses the sessions and is left out.  So is      *)
(*    Store.Close, which nothing calls.                                    *)
(***************************************************************************)
EXTENDS Integers, FiniteSets

CONSTANTS
    Session,       \* the ids generateID returns
    Submission,    \* requests to HandleSubmitShare
    Verify,        \* requests to HandleVerify
    Trustee,
    OutOfRange,    \* trustees whose index is above 2^32 - 1
    Threshold,
    DevSecret,     \* the scalar that is made at start in dev mode
    None           \* nil

Request == Submission \union Verify
Scalar == Submission \union {DevSecret}

ASSUME ThresholdAssumption == Threshold \in Nat \ {0} /\ OutOfRange \subseteq Trustee
ASSUME DistinctAssumption ==
    /\ Submission \intersect Verify = {}
    /\ None \notin Scalar \union Session /\ None \notin {"election", "zero", "wrong"}

VARIABLES
    devMode,   \* cfg.DevMode
    session,   \* the Session objects, also after they left the store
    scalar,    \* the value of a scalar: submission q makes scalar q
    pc,        \* where a request is
    arg,       \* the session a request names
    late,      \* late[q]: the session had its codes, or for a verification had
               \* given one, before q came (history)
    loaded,    \* loaded[v]: the pointer sess.MasterSecret that v has read
    code       \* code[v]: the return code that v computed

handler == <<pc, arg, late, loaded, code>>
vars == <<devMode, session, scalar, handler>>

NewSession ==
    [life |-> "none", expired |-> FALSE, verified |-> FALSE, met |-> FALSE,
     shares |-> {}, intact |-> {}, codes |-> None, master |-> None]

Init ==
    /\ devMode \in BOOLEAN
    /\ session = [s \in Session |-> NewSession]
    /\ scalar = [c \in Scalar |-> IF c = DevSecret /\ devMode THEN "election" ELSE None]
    /\ pc = [q \in Request |-> "new"]
    /\ arg = [q \in Request |-> None]
    /\ late = [q \in Request |-> FALSE]
    /\ loaded = [v \in Verify |-> None]
    /\ code = [v \in Verify |-> None]

Stored(s) == session[s].life = "stored"

\* Store.Get finds s.
Found(s) == Stored(s) /\ ~session[s].expired

Goto(q, place) == pc' = [pc EXCEPT ![q] = place]

\* The codes of s become those of scalar c (Store.SetCodes).
WithCodes(sess, c) == [sess EXCEPT !.codes = scalar[c], !.master = c]

-----------------------------------------------------------------------------
(* HandleCreateSession, the clock and the clean-up.                        *)

\* In dev mode the codes follow at once; nobody else knows the id before.
CreateSession(s) ==
    /\ session[s].life = "none"
    /\ LET made == [NewSession EXCEPT !.life = "stored"]
       IN  session' = [session EXCEPT ![s] =
                          IF devMode THEN WithCodes(made, DevSecret) ELSE made]
    /\ UNCHANGED <<devMode, scalar, handler>>

Expire(s) ==
    /\ Found(s)
    /\ session' = [session EXCEPT ![s].expired = TRUE]
    /\ UNCHANGED <<devMode, scalar, handler>>

Cleared(s) ==
    [session[s] EXCEPT !.life = "removed", !.master = None, !.intact = {}]

\* All expired sessions go, in one critical section.  The codes stay in the
\* object, which a handler may still point to.
RemoveExpired ==
    LET old == {s \in Session : Stored(s) /\ session[s].expired}
    IN  /\ old # {}
        /\ session' = [s \in Session |-> IF s \in old THEN Cleared(s) ELSE session[s]]
        /\ scalar' = [c \in Scalar |->
                         IF \E s \in old : session[s].master = c THEN "zero" ELSE scalar[c]]
        /\ UNCHANGED <<devMode, handler>>

-----------------------------------------------------------------------------
(* HandleSubmitShare.                                                      *)

\* A malformed request, or a session that is not in the store.
ShareRefused(q, s) ==
    /\ pc[q] = "new"
    /\ arg' = [arg EXCEPT ![q] = s]
    /\ Goto(q, "refused")
    /\ UNCHANGED <<devMode, session, scalar, late, loaded, code>>

\* Once the threshold is met, or if the trustee is known, nothing is added.
WithShare(sess, t) ==
    IF sess.met \/ t \in sess.shares THEN sess
    ELSE [sess EXCEPT !.shares = @ \union {t}, !.intact = @ \union {t},
                      !.met = Cardinality(sess.shares) + 1 >= Threshold]

\* AddShare does not look at the expiry.
AddShare(q, s, t) ==
    /\ pc[q] = "new"
    /\ Stored(s)
    /\ session' = [session EXCEPT ![s] = WithShare(@, t)]
    /\ arg' = [arg EXCEPT ![q] = s]
    /\ late' = [late EXCEPT ![q] = session[s].codes # None]
    /\ Goto(q, IF session'[s].met THEN "met" ELSE "done")
    /\ UNCHANGED <<devMode, scalar, loaded, code>>

ShareGet(q) ==
    /\ pc[q] = "met"
    /\ Goto(q, IF Found(arg[q]) THEN "got" ELSE "disappeared")
    /\ UNCHANGED <<devMode, session, scalar, arg, late, loaded, code>>

\* Variant: the codes are always generated.
ShareCheck_Always(q) ==
    /\ pc[q] = "got"
    /\ Goto(q, "interpolate")
    /\ UNCHANGED <<devMode, session, scalar, arg, late, loaded, code>>

\* Codes are generated unless there are some; read without the lock.
ShareCheck(q) ==
    /\ pc[q] = "got"
    /\ Goto(q, IF session[arg[q]].codes = None THEN "interpolate" ELSE "done")
    /\ UNCHANGED <<devMode, session, scalar, arg, late, loaded, code>>

Interpolated(sess) ==
    CASE sess.intact = sess.shares -> "election"
      [] sess.intact = {} -> "zero"
      [] OTHER -> "wrong"

\* The shares are read through the session's pointers, without the lock.
Interpolate(q) ==
    /\ pc[q] = "interpolate"
    /\ session[arg[q]].shares \intersect OutOfRange = {}
    /\ scalar' = [scalar EXCEPT ![q] = Interpolated(session[arg[q]])]
    /\ Goto(q, "set")
    /\ UNCHANGED <<devMode, session, arg, late, loaded, code>>

\* LagrangeInterpolate refuses an index; the share stays in the session.
InterpolateFails(q) ==
    /\ pc[q] = "interpolate"
    /\ session[arg[q]].shares \intersect OutOfRange # {}
    /\ Goto(q, "failed")
    /\ UNCHANGED <<devMode, session, scalar, arg, late, loaded, code>>

\* Variant: the codes are generated and not stored.
SetCodes_Not(q) ==
    /\ pc[q] = "set"
    /\ Goto(q, "zero")
    /\ UNCHANGED <<devMode, session, scalar, arg, late, loaded, code>>

SetCodes(q) ==
    /\ pc[q] = "set"
    /\ session' = [session EXCEPT ![arg[q]] = IF Stored(arg[q]) THEN WithCodes(@, q) ELSE @]
    /\ Goto(q, "zero")
    /\ UNCHANGED <<devMode, scalar, arg, late, loaded, code>>

\* The shares are zeroed one by one, in any order.
ZeroShare(q, t) ==
    /\ pc[q] = "zero"
    /\ t \in session[arg[q]].intact
    /\ session' = [session EXCEPT ![arg[q]].intact = @ \ {t}]
    /\ UNCHANGED <<devMode, scalar, handler>>

\* Variant: one share is forgotten.
ZeroDone_AllButOne(q) ==
    /\ pc[q] = "zero"
    /\ Cardinality(session[arg[q]].intact) <= 1
    /\ Goto(q, "done")
    /\ UNCHANGED <<devMode, session, scalar, arg, late, loaded, code>>

ZeroDone(q) ==
    /\ pc[q] = "zero"
    /\ session[arg[q]].intact = {}
    /\ Goto(q, "done")
    /\ UNCHANGED <<devMode, session, scalar, arg, late, loaded, code>>

-----------------------------------------------------------------------------
(* HandleVerify.                                                           *)

\* Return code number v has been given for session s.
Delivered(s) == \E v \in Verify : arg[v] = s /\ pc[v] = "delivered"

VerifyGet(v, s) ==
    /\ pc[v] = "new"
    /\ arg' = [arg EXCEPT ![v] = s]
    /\ late' = [late EXCEPT ![v] = Delivered(s)]
    /\ Goto(v, IF Found(s) THEN "got" ELSE "refused")
    /\ UNCHANGED <<devMode, session, scalar, loaded, code>>

\* Verified, Codes and MasterSecret, read without the lock, one after the other;
\* here at once.
VerifyCheck(v) ==
    /\ pc[v] = "got"
    /\ LET sess == session[arg[v]]
       IN  Goto(v, IF sess.verified \/ sess.codes = None \/ sess.master = None
                   THEN "refused" ELSE "load")
    /\ UNCHANGED <<devMode, session, scalar, arg, late, loaded, code>>

\* sess.MasterSecret is read again; nil makes DeriveReturnCode panic, which
\* ends this request only.
VerifyLoad(v) ==
    /\ pc[v] = "load"
    /\ loaded' = [loaded EXCEPT ![v] = session[arg[v]].master]
    /\ Goto(v, IF session[arg[v]].master = None THEN "panicked" ELSE "derive")
    /\ UNCHANGED <<devMode, session, scalar, arg, late, code>>

DeriveReturnCode(v) ==
    /\ pc[v] = "derive"
    /\ code' = [code EXCEPT ![v] = scalar[loaded[v]]]
    /\ Goto(v, "mark")
    /\ UNCHANGED <<devMode, session, scalar, arg, late, loaded>>

\* The code is sent whether or not the session was still there to be marked.
MarkVerified(v) ==
    /\ pc[v] = "mark"
    /\ session' = [session EXCEPT ![arg[v]].verified = @ \/ Stored(arg[v])]
    /\ Goto(v, "delivered")
    /\ UNCHANGED <<devMode, scalar, arg, late, loaded, code>>

-----------------------------------------------------------------------------
HandleSubmitShare(q) ==
    \/ ShareGet(q) \/ ShareCheck(q) \/ Interpolate(q) \/ InterpolateFails(q) \/ SetCodes(q)
    \/ \E t \in Trustee : ZeroShare(q, t)
    \/ ZeroDone(q)
HandleVerify(v) ==
    VerifyCheck(v) \/ VerifyLoad(v) \/ DeriveReturnCode(v) \/ MarkVerified(v)

Next ==
    \/ \E s \in Session :
          \/ CreateSession(s) \/ Expire(s)
          \/ \E q \in Submission : ShareRefused(q, s) \/ \E t \in Trustee : AddShare(q, s, t)
          \/ \E v \in Verify : VerifyGet(v, s)
    \/ RemoveExpired
    \/ \E q \in Submission : HandleSubmitShare(q)
    \/ \E v \in Verify : HandleVerify(v)

\* Goroutines run; requests need not come and time need not pass.
Fairness == \A q \in Submission : WF_vars(HandleSubmitShare(q))

Spec == Init /\ [][Next]_vars
FairSpec == Spec /\ Fairness

-----------------------------------------------------------------------------
(* Properties.                                                             *)

Secret == {"election", "zero", "wrong"}

\* The types, and that a session keeps no share beyond the threshold
\* (AddShare).
TypeOK ==
    /\ devMode \in BOOLEAN
    /\ session \in [Session ->
          [life : {"none", "stored", "removed"}, expired : BOOLEAN, verified : BOOLEAN,
           met : BOOLEAN, shares : SUBSET Trustee, intact : SUBSET Trustee,
           codes : Secret \union {None}, master : Scalar \union {None}]]
    /\ \A s \in Session :
          /\ session[s].intact \subseteq session[s].shares
          /\ Cardinality(session[s].shares) <= Threshold
    /\ scalar \in [Scalar -> Secret \union {None}]
    /\ pc \in [Request -> {"new", "refused", "met", "got", "disappeared", "interpolate", "set",
                           "zero", "failed", "load", "derive", "mark", "panicked", "delivered",
                           "done"}]
    /\ arg \in [Request -> Session \union {None}]
    /\ late \in [Request -> BOOLEAN]
    /\ loaded \in [Verify -> Scalar \union {None}]
    /\ code \in [Verify -> Secret \union {None}]

\* Submissions that have reconstructed a secret for s.
Reconstructed(s) == {q \in Submission : arg[q] = s /\ scalar[q] # None}

\* Codes that are not those of the election come only from submissions that
\* overlap: two that both came before the session had codes.  A repeated or
\* superfluous share that comes later changes nothing (HandleSubmitShare).
WrongOnlyByOverlap ==
    ~devMode => \A s \in Session :
        session[s].codes \in {"zero", "wrong"} =>
            \E q, r \in Reconstructed(s) : q # r /\ ~late[q] /\ ~late[r]

\* Whatever submissions overlap, once a session has its codes and nobody is
\* busy zeroing, and after its removal, no share of it is left in memory.
SharesZeroedAfterUse ==
    ~devMode => \A s \in Session :
        /\ \/ session[s].life = "removed"
           \/ /\ session[s].codes # None
              /\ \A q \in Submission : arg[q] = s => pc[q] # "zero"
        => session[s].intact = {}

\* A session with enough shares gets its codes, whichever submission completed
\* them, unless it expires first or a share has an index that is refused.
QuorumGivesCodes ==
    \A s \in Session :
        session[s].met ~>
            \/ session[s].codes # None \/ session[s].expired
            \/ session[s].shares \intersect OutOfRange # {}

(* What comments say, and the code does not do.                            *)

\* "Only generate codes if we haven't already" (handler.go:104): the codes of a
\* session do not change.
CodesKept ==
    [][\A s \in Session : session[s].codes # None => session'[s].codes = session[s].codes]_vars

\* "whether return code has been delivered" (session.go:21) is to allow one
\* delivery.
OneCodePerSession ==
    \A v, w \in Verify :
        pc[v] = "delivered" /\ pc[w] = "delivered" /\ arg[v] = arg[w] => v = w

\* "kept for return code derivation, zeroed at expiry" (session.go:23): a
\* session's own secret, and nothing beyond it; in dev mode it is the secret of
\* all sessions.
DevSecretKept == devMode => scalar[DevSecret] = "election"
=============================================================================
