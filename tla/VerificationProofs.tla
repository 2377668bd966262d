------------------------- MODULE VerificationProofs -------------------------
(***************************************************************************)
(* Proofs about the Verification Service: no share survives the use or the *)
(* removal of its session, and codes that are not the election's come only *)
(* from two submissions that both came before the session had codes.       *)
(***************************************************************************)
EXTENDS Verification, FiniteSetTheorems, TLAPS

SessionType ==
    [life : {"none", "stored", "removed"}, expired : BOOLEAN, verified : BOOLEAN,
     met : BOOLEAN, shares : SUBSET Trustee, intact : SUBSET Trustee,
     codes : Secret \union {None}, master : Scalar \union {None}]

-----------------------------------------------------------------------------
(* Sessions and requests.                                                  *)

\* A request that has come names a session.
ArgKnown == \A q \in Request : pc[q] # "new" => arg[q] \in Session

\* An id that was not drawn yet has no session.
Fresh == \A s \in Session : session[s].life = "none" => session[s] = NewSession

\* The threshold is met by the share that makes the number of them.
MetByThreshold ==
    \A s \in Session :
        /\ IsFiniteSet(session[s].shares)
        /\ session[s].met => session[s].shares # {}
        /\ ~session[s].met => Cardinality(session[s].shares) < Threshold

\* Past AddShare, a submission's session has met its threshold.
BusyIsMet ==
    \A q \in Submission :
        pc[q] \in {"met", "got", "interpolate", "set", "zero"} => session[arg[q]].met

\* A code is derived from a scalar.
DerivesFromScalar == \A v \in Verify : pc[v] = "derive" => loaded[v] # None

IInv ==
    /\ TypeOK /\ ArgKnown /\ Fresh /\ MetByThreshold
    /\ BusyIsMet /\ DerivesFromScalar

-----------------------------------------------------------------------------
(* The shares.                                                             *)

\* Codes need the threshold; a session is removed without its shares.
CodesAfterThreshold == ~devMode => \A s \in Session : session[s].codes # None => session[s].met
RemovedIsZeroed == \A s \in Session : session[s].life = "removed" => session[s].intact = {}

ZInv == CodesAfterThreshold /\ RemovedIsZeroed /\ SharesZeroedAfterUse

-----------------------------------------------------------------------------
(* The codes.                                                              *)

\* A submission that came late found codes, and so does whoever looks after it.
LateSeesCodes ==
    \A q \in Submission : late[q] => pc[q] # "new" /\ session[arg[q]].codes # None

\* A secret is reconstructed between the check for codes and the end, by a
\* submission that was not late.
ReconstructsInTime ==
    \A q \in Submission :
        /\ pc[q] \in {"interpolate", "set", "zero"} => ~late[q]
        /\ pc[q] \in {"set", "zero"} => scalar[q] # None
        /\ scalar[q] # None => ~late[q] /\ pc[q] \in {"set", "zero", "done"}

\* The secret of a session is that of a submission that has set its codes.
MasterWasSet ==
    \A s \in Session : session[s].master # None =>
        LET q == session[s].master
        IN  q \in Submission /\ pc[q] \in {"zero", "done"} /\ scalar[q] # None

\* Shares of a stored session are zeroed by a submission that has set the codes.
ZeroedBySubmission ==
    \A s \in Session : Stored(s) /\ session[s].intact # session[s].shares =>
        \E r \in Reconstructed(s) : pc[r] \in {"zero", "done"}

\* A submission that is about to set wrong codes read shares that another had zeroed.
WrongReadsZeroed ==
    \A q \in Submission :
        pc[q] = "set" /\ Stored(arg[q]) /\ scalar[q] \in {"zero", "wrong"} =>
            \E r \in Reconstructed(arg[q]) : r # q

CInv ==
    ~devMode =>
        /\ LateSeesCodes /\ ReconstructsInTime /\ MasterWasSet
        /\ ZeroedBySubmission /\ WrongReadsZeroed /\ WrongOnlyByOverlap

-----------------------------------------------------------------------------
(* What the steps make of a session.                                       *)

\* The types of the sessions.
LEMMA SessionsTyped == TypeOK => session \in [Session -> SessionType]
  BY DEF TypeOK, SessionType

\* One session changes.
LEMMA OneSession ==
    ASSUME NEW f \in [Session -> SessionType], NEW s \in Session, NEW o \in SessionType,
           NEW g, g = [f EXCEPT ![s] = o]
    PROVE  /\ g \in [Session -> SessionType] /\ g[s] = o
           /\ \A r \in Session : r # s => g[r] = f[r]
  OBVIOUS

\* The fields of a session that was made.
LEMMA Made ==
    ASSUME TypeOK, NEW s \in Session, CreateSession(s)
    PROVE  \E o \in SessionType :
              /\ session' = [session EXCEPT ![s] = o]
              /\ o.life = "stored" /\ ~o.verified /\ ~o.met /\ o.shares = {} /\ o.intact = {}
              /\ ~devMode => o.codes = None /\ o.master = None
<1> DEFINE made == [NewSession EXCEPT !.life = "stored"]
           o == IF devMode THEN WithCodes(made, DevSecret) ELSE made
<1>1. /\ NewSession \in SessionType /\ ~NewSession.verified /\ ~NewSession.met
      /\ NewSession.shares = {} /\ NewSession.intact = {} /\ NewSession.codes = None
      /\ NewSession.master = None
  BY DEF NewSession, SessionType
<1>2. made \in SessionType /\ made.life = "stored" /\ ~made.verified /\ ~made.met
      /\ made.shares = {} /\ made.intact = {} /\ made.codes = None /\ made.master = None
  <2>1. PICK new \in SessionType : new = NewSession
    BY <1>1
  <2>2. made = [new EXCEPT !.life = "stored"]
    BY <2>1
  <2> HIDE DEF made
  <2>3. QED
    BY <1>1, <2>1, <2>2 DEF SessionType
<1>3. scalar[DevSecret] \in Secret \union {None} /\ DevSecret \in Scalar
  BY DEF TypeOK, Scalar
<1> HIDE DEF made
<1>4. WithCodes(made, DevSecret) \in SessionType
  BY <1>2, <1>3 DEF WithCodes, SessionType
<1>5. /\ WithCodes(made, DevSecret).life = "stored" /\ ~WithCodes(made, DevSecret).verified
      /\ ~WithCodes(made, DevSecret).met /\ WithCodes(made, DevSecret).shares = {}
      /\ WithCodes(made, DevSecret).intact = {}
  BY <1>2 DEF WithCodes, SessionType
<1>6. session' = [session EXCEPT ![s] = o]
  BY DEF CreateSession, made
<1>7. CASE devMode
  <2>1. o = WithCodes(made, DevSecret)
    BY <1>7
  <2>2. QED
    BY <1>4, <1>5, <1>6, <1>7, <2>1
<1>8. CASE ~devMode
  <2>1. o = made
    BY <1>8
  <2>2. QED
    BY <1>2, <1>6, <1>8, <2>1
<1>9. QED
  BY <1>7, <1>8

\* A session expires.
LEMMA Expired ==
    ASSUME TypeOK, NEW s \in Session, Expire(s)
    PROVE  LET o == [session[s] EXCEPT !.expired = TRUE]
           IN  /\ o \in SessionType /\ session' = [session EXCEPT ![s] = o]
               /\ o.life = session[s].life /\ o.life # "none"
               /\ o.met = session[s].met /\ o.shares = session[s].shares
               /\ o.intact = session[s].intact /\ o.codes = session[s].codes
               /\ o.master = session[s].master
<1>1. PICK old \in SessionType : old = session[s]
  BY SessionsTyped
<1>2. session' = [session EXCEPT ![s] = [old EXCEPT !.expired = TRUE]] /\ old.life = "stored"
  BY <1>1 DEF Expire, Found, Stored
<1>3. QED
  BY <1>1, <1>2 DEF SessionType

\* A share is added, or not.
LEMMA Shared ==
    ASSUME TypeOK, MetByThreshold, NEW s \in Session, NEW t \in Trustee
    PROVE  LET o == WithShare(session[s], t)
           IN  /\ o \in SessionType /\ o.life = session[s].life
               /\ o.codes = session[s].codes /\ o.master = session[s].master
               /\ IsFiniteSet(o.shares) /\ Cardinality(o.shares) <= Threshold
               /\ o.met => o.shares # {}
               /\ ~o.met => Cardinality(o.shares) < Threshold
               /\ o.intact \subseteq o.shares
               /\ session[s].met => o = session[s]
               /\ session[s].intact = session[s].shares => o.intact = o.shares
               /\ o.intact # o.shares => session[s].intact # session[s].shares
<1>1. PICK old \in SessionType : old = session[s]
  BY SessionsTyped
<1>2. /\ IsFiniteSet(old.shares) /\ Cardinality(old.shares) <= Threshold
      /\ old.met => old.shares # {}
      /\ ~old.met => Cardinality(old.shares) < Threshold
      /\ old.intact \subseteq old.shares
  BY <1>1 DEF TypeOK, MetByThreshold
<1>3. CASE old.met \/ t \in old.shares
  <2>1. WithShare(old, t) = old
    BY <1>3 DEF WithShare
  <2>2. QED
    BY <1>1, <1>2, <2>1
<1>4. CASE ~(old.met \/ t \in old.shares)
  <2> DEFINE more == old.shares \union {t}
             met == Cardinality(old.shares) + 1 >= Threshold
             o == [old EXCEPT !.shares = more, !.intact = old.intact \union {t}, !.met = met]
  <2>1. WithShare(old, t) = o
    BY <1>4 DEF WithShare
  <2>2. IsFiniteSet(more) /\ Cardinality(more) = Cardinality(old.shares) + 1
    BY <1>2, <1>4, FS_AddElement
  <2>3. Cardinality(old.shares) \in Nat /\ met \in BOOLEAN
    BY <1>2, FS_CardinalityType
  <2>4. /\ o \in SessionType /\ o.life = old.life /\ o.codes = old.codes
        /\ o.master = old.master /\ o.shares = more /\ o.intact = old.intact \union {t}
        /\ o.met = met
    BY <2>3 DEF SessionType
  <2> HIDE DEF o
  <2>5. /\ Cardinality(more) <= Threshold /\ (~met => Cardinality(more) < Threshold)
        /\ more # {} /\ old.intact \union {t} \subseteq more
    BY <1>2, <1>4, <2>2, <2>3, ThresholdAssumption
  <2>6. old.intact \union {t} # more => old.intact # old.shares
    OBVIOUS
  <2> HIDE DEF more, met
  <2>7. QED
    BY <1>1, <1>4, <2>1, <2>2, <2>4, <2>5, <2>6 DEF more
<1>5. QED
  BY <1>3, <1>4

\* The codes of a session are set.
LEMMA Coded ==
    ASSUME TypeOK, NEW s \in Session, NEW q \in Submission
    PROVE  LET o == WithCodes(session[s], q)
           IN  /\ o \in SessionType /\ o.life = session[s].life
               /\ o.met = session[s].met /\ o.shares = session[s].shares
               /\ o.intact = session[s].intact /\ o.codes = scalar[q] /\ o.master = q
<1>1. PICK old \in SessionType : old = session[s]
  BY SessionsTyped
<1>2. scalar[q] \in Secret \union {None} /\ q \in Scalar
  BY DEF TypeOK, Scalar
<1>3. QED
  BY <1>1, <1>2 DEF WithCodes, SessionType

\* A share is zeroed.
LEMMA Zeroed ==
    ASSUME TypeOK, NEW q \in Submission, NEW t \in Trustee, ZeroShare(q, t), arg[q] \in Session
    PROVE  LET old == session[arg[q]]
               o == [old EXCEPT !.intact = old.intact \ {t}]
           IN  /\ o \in SessionType /\ session' = [session EXCEPT ![arg[q]] = o]
               /\ o.life = old.life /\ o.met = old.met /\ o.shares = old.shares
               /\ o.intact = old.intact \ {t} /\ o.codes = old.codes /\ o.master = old.master
<1>1. PICK old \in SessionType : old = session[arg[q]]
  BY SessionsTyped
<1>2. session' = [session EXCEPT ![arg[q]] = [old EXCEPT !.intact = old.intact \ {t}]]
  BY <1>1 DEF ZeroShare
<1>3. QED
  BY <1>1, <1>2 DEF SessionType

\* A session is marked, if it is in the store.
LEMMA Marked ==
    ASSUME TypeOK, NEW v \in Verify, MarkVerified(v), arg[v] \in Session
    PROVE  \E o \in SessionType :
              /\ session' = [session EXCEPT ![arg[v]] = o]
              /\ o.life = session[arg[v]].life /\ o.met = session[arg[v]].met
              /\ o.shares = session[arg[v]].shares /\ o.intact = session[arg[v]].intact
              /\ o.codes = session[arg[v]].codes /\ o.master = session[arg[v]].master
              /\ session[arg[v]].life # "stored" => o = session[arg[v]]
<1>1. PICK old \in SessionType : old = session[arg[v]]
  BY SessionsTyped
<1> DEFINE mark == old.verified \/ Stored(arg[v])
           o == [old EXCEPT !.verified = mark]
<1>2. session' = [session EXCEPT ![arg[v]] = o]
  BY <1>1 DEF MarkVerified
<1>3. mark \in BOOLEAN
  OBVIOUS
<1>4. old.life # "stored" => mark = old.verified
  BY <1>1 DEF Stored, SessionType
<1> HIDE DEF mark
<1>5. /\ o \in SessionType /\ o.life = old.life /\ o.met = old.met /\ o.shares = old.shares
      /\ o.intact = old.intact /\ o.codes = old.codes /\ o.master = old.master
      /\ mark = old.verified => o = old
  BY <1>3 DEF SessionType
<1>6. QED
  BY <1>1, <1>2, <1>4, <1>5

\* Sessions are removed.
LEMMA Removed ==
    ASSUME TypeOK, NEW s \in Session
    PROVE  /\ Cleared(s) \in SessionType /\ Cleared(s).life = "removed"
           /\ Cleared(s).met = session[s].met /\ Cleared(s).shares = session[s].shares
           /\ Cleared(s).intact = {} /\ Cleared(s).codes = session[s].codes
           /\ Cleared(s).master = None
<1>1. PICK old \in SessionType : old = session[s]
  BY SessionsTyped
<1>2. QED
  BY <1>1 DEF Cleared, SessionType

-----------------------------------------------------------------------------
(* The inductive invariant of sessions and requests.                       *)

LEMMA InitInvariant == Init => IInv
<1> SUFFICES ASSUME Init PROVE IInv
  OBVIOUS
<1>1. /\ NewSession \in SessionType /\ NewSession.shares = {} /\ NewSession.intact = {}
      /\ ~NewSession.met
  BY DEF NewSession, SessionType
<1>2. IsFiniteSet({}) /\ Cardinality({}) = 0 /\ 0 < Threshold /\ 0 <= Threshold
  BY FS_EmptySet, ThresholdAssumption
<1>3. \A s \in Session : session[s] = NewSession
  BY DEF Init
<1>4. session \in [Session -> SessionType]
  BY <1>1 DEF Init
<1>5. scalar \in [Scalar -> Secret \union {None}]
  BY DEF Init, Secret
<1>6. TypeOK
  <2>1. /\ devMode \in BOOLEAN /\ arg \in [Request -> Session \union {None}]
        /\ loaded \in [Verify -> Scalar \union {None}]
        /\ code \in [Verify -> Secret \union {None}]
    BY DEF Init
  <2>2. late \in [Request -> BOOLEAN]
    BY DEF Init
  <2>3. pc \in [Request -> {"new", "refused", "met", "got", "disappeared", "interpolate", "set",
                            "zero", "failed", "load", "derive", "mark", "panicked", "delivered",
                            "done"}]
    BY DEF Init
  <2>4. QED
    BY <1>1, <1>2, <1>3, <1>4, <1>5, <2>1, <2>2, <2>3 DEF TypeOK, SessionType
<1>7. MetByThreshold /\ Fresh
  BY <1>1, <1>2, <1>3 DEF MetByThreshold, Fresh
<1>8. ArgKnown /\ BusyIsMet /\ DerivesFromScalar
  BY DEF Init, ArgKnown, BusyIsMet, DerivesFromScalar, Request
<1>9. QED
  BY <1>6, <1>7, <1>8 DEF IInv

\* A session whose threshold does not change back leaves its requests as they are.
LEMMA SessionKeeps ==
    ASSUME IInv, NEW s \in Session, NEW o \in SessionType, session' = [session EXCEPT ![s] = o],
           o.intact \subseteq o.shares,
           IsFiniteSet(o.shares), Cardinality(o.shares) <= Threshold,
           o.met => o.shares # {}, ~o.met => Cardinality(o.shares) < Threshold,
           o.life = "none" => o = NewSession,
           session[s].met => o.met
    PROVE  /\ session' \in [Session -> SessionType] /\ session'[s] = o
           /\ \A r \in Session : r # s => session'[r] = session[r]
           /\ \A r \in Session : session[r].met => session'[r].met
           /\ \A r \in Session : session'[r].intact \subseteq session'[r].shares
                                 /\ Cardinality(session'[r].shares) <= Threshold
           /\ Fresh' /\ MetByThreshold'
<1>1. session \in [Session -> SessionType]
  BY SessionsTyped DEF IInv
<1>2. /\ session' \in [Session -> SessionType] /\ session'[s] = o
      /\ \A r \in Session : r # s => session'[r] = session[r]
  BY <1>1
<1>3. /\ \A r \in Session : session[r].met => session'[r].met
      /\ \A r \in Session : session'[r].intact \subseteq session'[r].shares
                            /\ Cardinality(session'[r].shares) <= Threshold
  BY <1>2 DEF IInv, TypeOK
<1>4. Fresh' /\ MetByThreshold'
  BY <1>2 DEF IInv, Fresh, MetByThreshold
<1>5. QED
  BY <1>2, <1>3, <1>4

\* Sessions, clock and clean-up.
LEMMA StoreKeeps ==
    ASSUME IInv, RemoveExpired \/ \E s \in Session : CreateSession(s) \/ Expire(s)
    PROVE  IInv'
<1>0. TypeOK /\ MetByThreshold
  BY DEF IInv
<1>1. ASSUME NEW s \in Session, CreateSession(s) PROVE IInv'
  <2>1. PICK o \in SessionType :
              /\ session' = [session EXCEPT ![s] = o]
              /\ o.life = "stored" /\ ~o.met /\ o.shares = {} /\ o.intact = {}
    BY <1>0, <1>1, Made
  <2>2. UNCHANGED <<devMode, scalar, handler>> /\ ~session[s].met
    BY <1>1 DEF CreateSession, IInv, Fresh, NewSession
  <2>3. IsFiniteSet({}) /\ Cardinality({}) < Threshold /\ Cardinality({}) <= Threshold
    BY FS_EmptySet, ThresholdAssumption
  <2>4. /\ session' \in [Session -> SessionType]
        /\ \A r \in Session : session[r].met => session'[r].met
        /\ \A r \in Session : session'[r].intact \subseteq session'[r].shares
                              /\ Cardinality(session'[r].shares) <= Threshold
        /\ Fresh' /\ MetByThreshold'
    BY <2>1, <2>2, <2>3, SessionKeeps
  <2>5. TypeOK'
    BY <1>0, <2>2, <2>4 DEF TypeOK, SessionType, handler
  <2>6. QED
    BY <2>2, <2>4, <2>5 DEF IInv, ArgKnown, BusyIsMet, DerivesFromScalar, handler, Request
<1>2. ASSUME NEW s \in Session, Expire(s) PROVE IInv'
  <2>1. PICK o \in SessionType :
              /\ session' = [session EXCEPT ![s] = o] /\ o.life # "none"
              /\ o.met = session[s].met /\ o.shares = session[s].shares
              /\ o.intact = session[s].intact
    BY <1>0, <1>2, Expired
  <2>2. UNCHANGED <<devMode, scalar, handler>>
    BY <1>2 DEF Expire
  <2>3. /\ session[s].intact \subseteq session[s].shares
        /\ Cardinality(session[s].shares) <= Threshold
    BY <1>0 DEF TypeOK
  <2>4. /\ session' \in [Session -> SessionType]
        /\ \A r \in Session : session[r].met => session'[r].met
        /\ \A r \in Session : session'[r].intact \subseteq session'[r].shares
                              /\ Cardinality(session'[r].shares) <= Threshold
        /\ Fresh' /\ MetByThreshold'
    BY <1>0, <2>1, <2>3, SessionKeeps DEF MetByThreshold
  <2>5. TypeOK'
    BY <1>0, <2>2, <2>4 DEF TypeOK, SessionType, handler
  <2>6. QED
    BY <2>2, <2>4, <2>5 DEF IInv, ArgKnown, BusyIsMet, DerivesFromScalar, handler, Request
<1>3. ASSUME RemoveExpired PROVE IInv'
  <2>1. /\ UNCHANGED <<devMode, handler>>
        /\ session' \in [Session -> SessionType]
        /\ \A s \in Session : session'[s] \in {session[s], Cleared(s)}
    BY <1>0, <1>3, Removed, SessionsTyped DEF RemoveExpired
  <2>2. scalar' \in [Scalar -> Secret \union {None}]
    BY <1>0, <1>3 DEF RemoveExpired, TypeOK, Secret
  <2>3. \A s \in Session :
          /\ session'[s].met = session[s].met /\ session'[s].shares = session[s].shares
          /\ session'[s].intact \subseteq session[s].intact
          /\ session'[s].life = "none" => session'[s] = session[s]
    BY <1>0, <2>1, Removed
  <2>4. TypeOK'
    BY <1>0, <2>1, <2>2, <2>3 DEF TypeOK, SessionType, handler
  <2>5. Fresh' /\ MetByThreshold'
    BY <2>3 DEF IInv, Fresh, MetByThreshold
  <2>6. QED
    BY <2>1, <2>3, <2>4, <2>5 DEF IInv, ArgKnown, BusyIsMet, DerivesFromScalar, handler, Request
<1>4. QED
  BY <1>1, <1>2, <1>3

\* Requests whose step leaves sessions and scalars alone.
LEMMA WalkKeeps ==
    ASSUME IInv, UNCHANGED <<devMode, session, scalar>>,
           \/ \E q \in Submission :
                 \/ \E s \in Session : ShareRefused(q, s)
                 \/ ShareGet(q) \/ ShareCheck(q) \/ InterpolateFails(q) \/ ZeroDone(q)
           \/ \E v \in Verify :
                 \/ \E s \in Session : VerifyGet(v, s)
                 \/ VerifyCheck(v) \/ VerifyLoad(v) \/ DeriveReturnCode(v)
    PROVE  IInv'
<1>0. TypeOK
  BY DEF IInv
<1>1. \A v \in Verify : v \notin Submission /\ v \in Request
  BY DistinctAssumption DEF Request
<1>2. \A q \in Submission : q \in Request /\ q \notin Verify
  BY DistinctAssumption DEF Request
<1>3. Fresh' /\ MetByThreshold'
  BY DEF IInv, Fresh, MetByThreshold
<1>4. ASSUME NEW q \in Submission,
             \/ \E s \in Session : ShareRefused(q, s)
             \/ ShareGet(q) \/ ShareCheck(q) \/ InterpolateFails(q) \/ ZeroDone(q)
      PROVE  IInv'
  <2>1. /\ TypeOK' /\ UNCHANGED <<late, loaded, code>>
        /\ arg'[q] \in Session /\ \A r \in Request : r # q => arg'[r] = arg[r]
        /\ \A r \in Request : r # q => pc'[r] = pc[r]
        /\ pc'[q] \in {"met", "got", "interpolate", "set", "zero"} =>
              arg'[q] = arg[q] /\ pc[q] \in {"met", "got", "interpolate", "set", "zero"}
    <3>1. CASE \E s \in Session : ShareRefused(q, s)
      <4>1. PICK s \in Session : ShareRefused(q, s)
        BY <3>1
      <4>2. /\ arg' = [arg EXCEPT ![q] = s] /\ pc' = [pc EXCEPT ![q] = "refused"]
            /\ UNCHANGED <<late, loaded, code>>
        BY <4>1 DEF ShareRefused, Goto
      <4>3. TypeOK'
        BY <1>0, <1>2, <4>2 DEF TypeOK
      <4>4. QED
        BY <1>0, <1>2, <4>2, <4>3 DEF TypeOK
    <3>2. CASE ShareGet(q) \/ ShareCheck(q) \/ InterpolateFails(q) \/ ZeroDone(q)
      <4>1. pc[q] # "new" /\ arg' = arg
        BY <3>2 DEF ShareGet, ShareCheck, InterpolateFails, ZeroDone
      <4>2. arg[q] \in Session
        BY <1>2, <4>1 DEF IInv, ArgKnown
      <4>3. QED
        BY <1>0, <1>2, <3>2, <4>1, <4>2
           DEF ShareGet, ShareCheck, InterpolateFails, ZeroDone, Goto, TypeOK
    <3>3. QED
      BY <1>4, <3>1, <3>2
  <2>2. ArgKnown' /\ BusyIsMet' /\ DerivesFromScalar'
    BY <1>1, <1>2, <2>1 DEF IInv, ArgKnown, BusyIsMet, DerivesFromScalar
  <2>3. QED
    BY <1>3, <2>1, <2>2 DEF IInv
<1>5. ASSUME NEW v \in Verify,
             \/ \E s \in Session : VerifyGet(v, s)
             \/ VerifyCheck(v) \/ VerifyLoad(v) \/ DeriveReturnCode(v)
      PROVE  IInv'
  <2>1. /\ arg'[v] \in Session /\ \A r \in Request : r # v => arg'[r] = arg[r]
        /\ \A r \in Request : r # v => pc'[r] = pc[r]
        /\ \A r \in Verify : r # v => loaded'[r] = loaded[r]
        /\ pc'[v] = "derive" => loaded'[v] # None
    <3>1. CASE \E s \in Session : VerifyGet(v, s)
      <4>1. PICK s \in Session : VerifyGet(v, s)
        BY <3>1
      <4>2. /\ arg' = [arg EXCEPT ![v] = s] /\ loaded' = loaded
            /\ pc' = [pc EXCEPT ![v] = IF Found(s) THEN "got" ELSE "refused"]
        BY <4>1 DEF VerifyGet, Goto
      <4>3. QED
        BY <1>0, <1>1, <4>2 DEF TypeOK
    <3>2. CASE VerifyCheck(v) \/ VerifyLoad(v) \/ DeriveReturnCode(v)
      <4>1. pc[v] # "new" /\ arg' = arg
        BY <3>2 DEF VerifyCheck, VerifyLoad, DeriveReturnCode
      <4>2. arg[v] \in Session
        BY <1>1, <4>1 DEF IInv, ArgKnown
      <4>3. QED
        BY <1>0, <1>1, <3>2, <4>1, <4>2
           DEF VerifyCheck, VerifyLoad, DeriveReturnCode, Goto, TypeOK
    <3>3. QED
      BY <1>5, <3>1, <3>2
  <2>2. TypeOK'
    <3>1. CASE \E s \in Session : VerifyGet(v, s)
      <4>1. \A s \in Session : Delivered(s) \in BOOLEAN
        BY DEF Delivered
      <4>2. QED
        BY <1>0, <1>1, <3>1, <4>1 DEF VerifyGet, Goto, TypeOK
    <3>2. CASE VerifyCheck(v)
      BY <1>0, <1>1, <3>2 DEF VerifyCheck, Goto, TypeOK
    <3>3. CASE VerifyLoad(v)
      <4>1. arg[v] \in Session
        BY <1>1, <3>3 DEF VerifyLoad, IInv, ArgKnown
      <4>2. QED
        BY <1>0, <1>1, <3>3, <4>1 DEF VerifyLoad, Goto, TypeOK
    <3>4. CASE DeriveReturnCode(v)
      <4>1. loaded[v] \in Scalar
        BY <3>4 DEF DeriveReturnCode, IInv, TypeOK, DerivesFromScalar
      <4>2. QED
        BY <1>0, <1>1, <3>4, <4>1 DEF DeriveReturnCode, Goto, TypeOK
    <3>5. QED
      BY <1>5, <3>1, <3>2, <3>3, <3>4
  <2>3. ArgKnown' /\ BusyIsMet' /\ DerivesFromScalar'
    BY <1>1, <1>2, <2>1 DEF IInv, ArgKnown, BusyIsMet, DerivesFromScalar
  <2>4. QED
    BY <1>3, <2>2, <2>3 DEF IInv
<1>6. QED
  BY <1>4, <1>5

\* What shares interpolate to, once there are some.
LEMMA InterpolatedValue ==
    ASSUME NEW sess \in SessionType, sess.shares # {}
    PROVE  /\ Interpolated(sess) \in {"election", "zero", "wrong"}
           /\ Interpolated(sess) # "election" => sess.intact # sess.shares
<1>1. CASE sess.intact = sess.shares
  <2>1. sess.intact # {}
    BY <1>1
  <2>2. Interpolated(sess) = "election"
    BY <1>1, <2>1 DEF Interpolated
  <2>3. QED
    BY <2>2
<1>2. CASE sess.intact # sess.shares /\ sess.intact = {}
  BY <1>2 DEF Interpolated
<1>3. CASE sess.intact # sess.shares /\ sess.intact # {}
  BY <1>3 DEF Interpolated
<1>4. QED
  BY <1>1, <1>2, <1>3

\* A submission's steps on its session and its secret.
LEMMA SubmissionKeeps ==
    ASSUME IInv, NEW q \in Submission,
           \/ \E s \in Session : \E t \in Trustee : AddShare(q, s, t)
           \/ Interpolate(q) \/ SetCodes(q) \/ \E t \in Trustee : ZeroShare(q, t)
    PROVE  IInv'
<1>0. TypeOK /\ MetByThreshold
  BY DEF IInv
<1>1. q \in Request /\ q \in Scalar /\ q \notin Verify
  BY DistinctAssumption DEF Request, Scalar
<1>2. ASSUME NEW s \in Session, NEW t \in Trustee, AddShare(q, s, t) PROVE IInv'
  <2>1. /\ session' = [session EXCEPT ![s] = WithShare(session[s], t)]
        /\ arg' = [arg EXCEPT ![q] = s]
        /\ late' = [late EXCEPT ![q] = session[s].codes # None]
        /\ pc' = [pc EXCEPT ![q] = IF session'[s].met THEN "met" ELSE "done"]
        /\ UNCHANGED <<devMode, scalar, loaded, code>> /\ session[s].life = "stored"
    BY <1>2 DEF AddShare, Goto, Stored
  <2>2. PICK o \in SessionType :
        /\ session' = [session EXCEPT ![s] = o] /\ o.life = "stored" /\ IsFiniteSet(o.shares)
        /\ Cardinality(o.shares) <= Threshold /\ (o.met => o.shares # {})
        /\ ~o.met => Cardinality(o.shares) < Threshold
        /\ o.intact \subseteq o.shares /\ (session[s].met => o.met)
    <3> DEFINE new == WithShare(session[s], t)
    <3>1. session' = [session EXCEPT ![s] = new] /\ session[s].life = "stored"
      BY <2>1
    <3>2. /\ new \in SessionType /\ new.life = session[s].life /\ IsFiniteSet(new.shares)
          /\ Cardinality(new.shares) <= Threshold /\ (new.met => new.shares # {})
          /\ ~new.met => Cardinality(new.shares) < Threshold
          /\ new.intact \subseteq new.shares /\ (session[s].met => new = session[s])
      BY <1>0, Shared
    <3> HIDE DEF new
    <3>3. session[s].met => new.met
      BY <3>2
    <3>4. QED
      BY <3>1, <3>2, <3>3
  <2>3. /\ session' \in [Session -> SessionType] /\ session'[s] = o
        /\ \A r \in Session : session[r].met => session'[r].met
        /\ \A r \in Session : session'[r].intact \subseteq session'[r].shares
                              /\ Cardinality(session'[r].shares) <= Threshold
        /\ Fresh' /\ MetByThreshold'
    BY <2>2, SessionKeeps
  <2>4. late' \in [Request -> BOOLEAN]
    BY <1>0, <2>1 DEF TypeOK
  <2>5. /\ arg'[q] = s /\ \A r \in Request : r # q => arg'[r] = arg[r]
        /\ pc'[q] \in {"met", "done"} /\ (pc'[q] = "met" => session'[s].met)
        /\ \A r \in Request : r # q => pc'[r] = pc[r]
        /\ arg' \in [Request -> Session \union {None}]
    BY <1>0, <1>1, <2>1 DEF TypeOK
  <2>6. TypeOK'
    BY <1>0, <2>1, <2>3, <2>4, <2>5 DEF TypeOK, SessionType
  <2>7. ArgKnown'
    BY <2>5 DEF IInv, ArgKnown
  <2>8. BusyIsMet'
    <3>1. ASSUME NEW r \in Submission, r # q,
                 pc[r] \in {"met", "got", "interpolate", "set", "zero"}
          PROVE  arg[r] \in Session /\ session[arg[r]].met /\ r \in Request
      BY <3>1 DEF IInv, ArgKnown, BusyIsMet, Request
    <3>2. QED
      BY <2>3, <2>5, <3>1 DEF BusyIsMet, Request
  <2>9. DerivesFromScalar'
    BY <1>1, <2>1, <2>5 DEF IInv, DerivesFromScalar, Request
  <2>10. QED
    BY <2>3, <2>6, <2>7, <2>8, <2>9 DEF IInv
<1>3. ASSUME Interpolate(q) PROVE IInv'
  <2>1. /\ pc[q] = "interpolate" /\ pc' = [pc EXCEPT ![q] = "set"]
        /\ scalar' = [scalar EXCEPT ![q] = Interpolated(session[arg[q]])]
        /\ UNCHANGED <<devMode, session, arg, late, loaded, code>>
    BY <1>3 DEF Interpolate, Goto
  <2>2. arg[q] \in Session /\ session[arg[q]].met /\ session[arg[q]] \in SessionType
    BY <1>0, <1>1, <2>1, SessionsTyped DEF IInv, ArgKnown, BusyIsMet
  <2>3. Interpolated(session[arg[q]]) \in Secret
    BY <1>0, <2>2, InterpolatedValue DEF MetByThreshold, Secret
  <2>4. scalar' \in [Scalar -> Secret \union {None}]
    BY <1>0, <2>1, <2>3 DEF TypeOK
  <2>5. TypeOK'
    BY <1>0, <2>1, <2>4 DEF TypeOK
  <2>6. \A r \in Request : pc'[r] = IF r = q THEN "set" ELSE pc[r]
    BY <1>0, <2>1 DEF TypeOK
  <2>7. QED
    BY <1>1, <2>1, <2>2, <2>5, <2>6
       DEF IInv, ArgKnown, BusyIsMet, DerivesFromScalar, Fresh, MetByThreshold, Request
<1>4. ASSUME SetCodes(q) PROVE IInv'
  <2>1. /\ pc[q] = "set" /\ pc' = [pc EXCEPT ![q] = "zero"]
        /\ UNCHANGED <<devMode, scalar, arg, late, loaded, code>>
    BY <1>4 DEF SetCodes, Goto
  <2>2. arg[q] \in Session /\ session[arg[q]].met
    BY <1>1, <2>1 DEF IInv, ArgKnown, BusyIsMet
  <2>3. PICK o \in SessionType :
              /\ session' = [session EXCEPT ![arg[q]] = o]
              /\ o.life = session[arg[q]].life /\ o.met = session[arg[q]].met
              /\ o.shares = session[arg[q]].shares /\ o.intact = session[arg[q]].intact
              /\ o.life = "none" => o = session[arg[q]]
    <3> DEFINE s == arg[q]
    <3>1. CASE Stored(s)
      <4>1. session' = [session EXCEPT ![s] = WithCodes(session[s], q)]
        BY <1>4, <3>1 DEF SetCodes
      <4>2. QED
        BY <1>0, <2>2, <3>1, <4>1, Coded DEF Stored
    <3>2. CASE ~Stored(s)
      <4>1. session' = [session EXCEPT ![s] = session[s]]
        BY <1>4, <3>2 DEF SetCodes
      <4>2. QED
        BY <1>0, <2>2, <4>1, SessionsTyped
    <3>3. QED
      BY <3>1, <3>2
  <2>4. /\ session[arg[q]].intact \subseteq session[arg[q]].shares
        /\ Cardinality(session[arg[q]].shares) <= Threshold
        /\ IsFiniteSet(session[arg[q]].shares)
        /\ session[arg[q]].met => session[arg[q]].shares # {}
        /\ session[arg[q]].life = "none" => session[arg[q]] = NewSession
    BY <2>2 DEF IInv, TypeOK, MetByThreshold, Fresh
  <2>5. /\ session' \in [Session -> SessionType]
        /\ \A r \in Session : session[r].met => session'[r].met
        /\ \A r \in Session : session'[r].intact \subseteq session'[r].shares
                              /\ Cardinality(session'[r].shares) <= Threshold
        /\ Fresh' /\ MetByThreshold'
    BY <2>2, <2>3, <2>4, SessionKeeps
  <2>6. TypeOK'
    BY <1>0, <2>1, <2>5 DEF TypeOK, SessionType
  <2>7. \A r \in Request : pc'[r] = IF r = q THEN "zero" ELSE pc[r]
    BY <1>0, <2>1 DEF TypeOK
  <2>8. QED
    BY <1>1, <2>1, <2>2, <2>5, <2>6, <2>7
       DEF IInv, ArgKnown, BusyIsMet, DerivesFromScalar, Request
<1>5. ASSUME NEW t \in Trustee, ZeroShare(q, t) PROVE IInv'
  <2>1. pc[q] = "zero" /\ UNCHANGED <<devMode, scalar, handler>>
    BY <1>5 DEF ZeroShare
  <2>2. arg[q] \in Session /\ session[arg[q]].met
    BY <1>1, <2>1 DEF IInv, ArgKnown, BusyIsMet
  <2>3. PICK o \in SessionType :
              /\ session' = [session EXCEPT ![arg[q]] = o]
              /\ o.life = session[arg[q]].life /\ o.met = session[arg[q]].met
              /\ o.shares = session[arg[q]].shares
              /\ o.intact \subseteq session[arg[q]].intact
    BY <1>0, <1>5, <2>2, Zeroed
  <2>4. /\ session[arg[q]].intact \subseteq session[arg[q]].shares
        /\ Cardinality(session[arg[q]].shares) <= Threshold
        /\ IsFiniteSet(session[arg[q]].shares)
        /\ session[arg[q]].met => session[arg[q]].shares # {}
        /\ session[arg[q]].life # "none"
    BY <2>2 DEF IInv, TypeOK, MetByThreshold, Fresh, NewSession
  <2>5. /\ session' \in [Session -> SessionType]
        /\ \A r \in Session : session[r].met => session'[r].met
        /\ \A r \in Session : session'[r].intact \subseteq session'[r].shares
                              /\ Cardinality(session'[r].shares) <= Threshold
        /\ Fresh' /\ MetByThreshold'
    BY <2>2, <2>3, <2>4, SessionKeeps
  <2>6. TypeOK'
    BY <1>0, <2>1, <2>5 DEF TypeOK, SessionType, handler
  <2>7. QED
    BY <2>1, <2>2, <2>5, <2>6
       DEF IInv, ArgKnown, BusyIsMet, DerivesFromScalar, handler, Request
<1>6. QED
  BY <1>2, <1>3, <1>4, <1>5

\* The mark of a verification.
LEMMA MarkKeeps == ASSUME IInv, NEW v \in Verify, MarkVerified(v) PROVE IInv'
<1>0. TypeOK /\ v \in Request /\ v \notin Submission
  BY DistinctAssumption DEF IInv, Request
<1>1. /\ pc[v] = "mark" /\ pc' = [pc EXCEPT ![v] = "delivered"]
      /\ UNCHANGED <<devMode, scalar, arg, late, loaded, code>>
  BY DEF MarkVerified, Goto
<1>2. arg[v] \in Session
  BY <1>0, <1>1 DEF IInv, ArgKnown
<1>3. PICK o \in SessionType :
            /\ session' = [session EXCEPT ![arg[v]] = o]
            /\ o.life = session[arg[v]].life /\ o.met = session[arg[v]].met
            /\ o.shares = session[arg[v]].shares /\ o.intact = session[arg[v]].intact
            /\ session[arg[v]].life # "stored" => o = session[arg[v]]
  BY <1>0, <1>2, Marked
<1>4. /\ session[arg[v]].intact \subseteq session[arg[v]].shares
      /\ Cardinality(session[arg[v]].shares) <= Threshold
      /\ IsFiniteSet(session[arg[v]].shares)
      /\ session[arg[v]].met => session[arg[v]].shares # {}
      /\ ~session[arg[v]].met => Cardinality(session[arg[v]].shares) < Threshold
      /\ session[arg[v]].life = "none" => session[arg[v]] = NewSession
  BY <1>2 DEF IInv, TypeOK, MetByThreshold, Fresh
<1>5. /\ session' \in [Session -> SessionType]
      /\ \A r \in Session : session[r].met => session'[r].met
      /\ \A r \in Session : session'[r].intact \subseteq session'[r].shares
                            /\ Cardinality(session'[r].shares) <= Threshold
      /\ Fresh' /\ MetByThreshold'
  BY <1>2, <1>3, <1>4, SessionKeeps
<1>6. TypeOK'
  BY <1>0, <1>1, <1>5 DEF TypeOK, SessionType
<1>7. \A r \in Request : pc'[r] = IF r = v THEN "delivered" ELSE pc[r]
  BY <1>0, <1>1 DEF TypeOK
<1>8. QED
  BY <1>0, <1>1, <1>2, <1>5, <1>6, <1>7
     DEF IInv, ArgKnown, BusyIsMet, DerivesFromScalar, Request

\* The inductive invariant: types, how many shares a session keeps, and that a
\* submission past AddShare has a session with enough of them (AddShare).
THEOREM Invariant == Spec => []IInv
<1>1. IInv /\ [Next]_vars => IInv'
  <2> SUFFICES ASSUME IInv, [Next]_vars PROVE IInv'
    OBVIOUS
  <2>1. CASE RemoveExpired \/ \E s \in Session : CreateSession(s) \/ Expire(s)
    BY <2>1, StoreKeeps
  <2>2. ASSUME NEW q \in Submission,
               HandleSubmitShare(q) \/ \E s \in Session :
                  ShareRefused(q, s) \/ \E t \in Trustee : AddShare(q, s, t)
        PROVE  IInv'
    <3>1. CASE \/ \E s \in Session : ShareRefused(q, s)
               \/ ShareGet(q) \/ ShareCheck(q) \/ InterpolateFails(q) \/ ZeroDone(q)
      <4>1. UNCHANGED <<devMode, session, scalar>>
        BY <3>1 DEF ShareRefused, ShareGet, ShareCheck, InterpolateFails, ZeroDone
      <4>2. QED
        BY <3>1, <4>1, WalkKeeps
    <3>2. CASE \/ \E s \in Session : \E t \in Trustee : AddShare(q, s, t)
               \/ Interpolate(q) \/ SetCodes(q) \/ \E t \in Trustee : ZeroShare(q, t)
      BY <3>2, SubmissionKeeps
    <3>3. QED
      BY <2>2, <3>1, <3>2 DEF HandleSubmitShare
  <2>3. ASSUME NEW v \in Verify, HandleVerify(v) \/ \E s \in Session : VerifyGet(v, s)
        PROVE  IInv'
    <3>1. CASE \/ \E s \in Session : VerifyGet(v, s)
               \/ VerifyCheck(v) \/ VerifyLoad(v) \/ DeriveReturnCode(v)
      <4>1. UNCHANGED <<devMode, session, scalar>>
        BY <3>1 DEF VerifyGet, VerifyCheck, VerifyLoad, DeriveReturnCode
      <4>2. QED
        BY <3>1, <4>1, WalkKeeps
    <3>2. CASE MarkVerified(v)
      BY <3>2, MarkKeeps
    <3>3. QED
      BY <2>3, <3>1, <3>2 DEF HandleVerify
  <2>4. CASE UNCHANGED vars
    BY <2>4 DEF IInv, TypeOK, ArgKnown, Fresh, MetByThreshold, BusyIsMet, DerivesFromScalar,
       vars, handler
  <2>5. QED
    BY <2>1, <2>2, <2>3, <2>4 DEF Next
<1>2. QED
  BY <1>1, InitInvariant, PTL DEF Spec

-----------------------------------------------------------------------------
(* The shares are zeroed.                                                  *)

\* A step that sets no codes, adds no share and ends no zeroing.
LEMMA ZeroedKept ==
    ASSUME ZInv, devMode' = devMode,
           \A s \in Session : /\ session'[s].life = session[s].life
                              /\ session[s].met => session'[s].met
                              /\ session'[s].intact \subseteq session[s].intact
                              /\ session'[s].codes = session[s].codes,
           \A q \in Submission : pc[q] = "zero" => pc'[q] = "zero" /\ arg'[q] = arg[q]
    PROVE  ZInv'
<1>1. CodesAfterThreshold'
  BY DEF ZInv, CodesAfterThreshold
<1>2. RemovedIsZeroed'
  BY DEF ZInv, RemovedIsZeroed
<1>3. SharesZeroedAfterUse'
  BY DEF ZInv, SharesZeroedAfterUse
<1>4. QED
  BY <1>1, <1>2, <1>3 DEF ZInv

LEMMA StepsKeepZeroed == IInv /\ ZInv /\ [Next]_vars => ZInv'
<1> SUFFICES ASSUME IInv, ZInv, [Next]_vars PROVE ZInv'
  OBVIOUS
<1>0. TypeOK /\ MetByThreshold /\ session \in [Session -> SessionType]
  BY SessionsTyped DEF IInv
<1>1. \A q \in Submission : q \in Request /\ q \notin Verify
  BY DistinctAssumption DEF Request
<1>2. \A v \in Verify : v \in Request /\ v \notin Submission
  BY DistinctAssumption DEF Request
<1>3. ASSUME NEW s \in Session, CreateSession(s) PROVE ZInv'
  <2>1. PICK o \in SessionType :
              /\ session' = [session EXCEPT ![s] = o]
              /\ o.life = "stored" /\ o.intact = {}
              /\ ~devMode => o.codes = None
    BY <1>0, <1>3, Made
  <2>2. /\ UNCHANGED <<devMode, pc, arg>>
        /\ session'[s] = o /\ \A r \in Session : r # s => session'[r] = session[r]
    BY <1>0, <1>3, <2>1 DEF CreateSession, handler
  <2>3. QED
    BY <2>1, <2>2 DEF ZInv, CodesAfterThreshold, RemovedIsZeroed, SharesZeroedAfterUse
<1>4. ASSUME NEW s \in Session, Expire(s) PROVE ZInv'
  <2>1. PICK o \in SessionType :
              /\ session' = [session EXCEPT ![s] = o]
              /\ o.life = session[s].life /\ o.met = session[s].met
              /\ o.intact = session[s].intact /\ o.codes = session[s].codes
    BY <1>0, <1>4, Expired
  <2>2. UNCHANGED <<devMode, pc, arg>>
    BY <1>4 DEF Expire, handler
  <2>3. QED
    BY <1>0, <2>1, <2>2, ZeroedKept
<1>5. ASSUME RemoveExpired PROVE ZInv'
  <2>1. /\ UNCHANGED <<devMode, pc, arg>>
        /\ \A s \in Session : session'[s] \in {session[s], Cleared(s)}
    BY <1>0, <1>5 DEF RemoveExpired, handler
  <2>2. \A s \in Session :
          /\ session'[s].met = session[s].met /\ session'[s].codes = session[s].codes
          /\ session'[s] = session[s] \/ (session'[s].intact = {} /\ session'[s].life = "removed")
    BY <1>0, <2>1, Removed
  <2>3. QED
    BY <2>1, <2>2 DEF ZInv, CodesAfterThreshold, RemovedIsZeroed, SharesZeroedAfterUse
<1>6. ASSUME NEW q \in Submission,
             \/ \E s \in Session : ShareRefused(q, s)
             \/ ShareGet(q) \/ ShareCheck(q) \/ InterpolateFails(q) \/ Interpolate(q)
      PROVE  ZInv'
  <2>1. /\ UNCHANGED <<devMode, session>> /\ pc[q] # "zero"
        /\ \A r \in Request : r # q => pc'[r] = pc[r] /\ arg'[r] = arg[r]
    BY <1>0, <1>1, <1>6
       DEF ShareRefused, ShareGet, ShareCheck, InterpolateFails, Interpolate, Goto, TypeOK
  <2>2. QED
    BY <1>1, <2>1, ZeroedKept
<1>7. ASSUME NEW v \in Verify, HandleVerify(v) \/ \E s \in Session : VerifyGet(v, s)
      PROVE  ZInv'
  <2>1. \A r \in Request : r # v => pc'[r] = pc[r] /\ arg'[r] = arg[r]
    BY <1>0, <1>7 DEF HandleVerify, VerifyGet, VerifyCheck, VerifyLoad, DeriveReturnCode,
       MarkVerified, Goto, TypeOK
  <2>2. CASE MarkVerified(v)
    <3>1. arg[v] \in Session /\ devMode' = devMode
      BY <1>2, <2>2 DEF MarkVerified, IInv, ArgKnown
    <3>2. PICK o \in SessionType :
                /\ session' = [session EXCEPT ![arg[v]] = o]
                /\ o.life = session[arg[v]].life /\ o.met = session[arg[v]].met
                /\ o.intact = session[arg[v]].intact /\ o.codes = session[arg[v]].codes
      BY <1>0, <2>2, <3>1, Marked
    <3>3. QED
      BY <1>0, <1>1, <1>2, <2>1, <3>1, <3>2, ZeroedKept
  <2>3. CASE ~MarkVerified(v)
    <3>1. UNCHANGED <<devMode, session>>
      BY <1>7, <2>3 DEF HandleVerify, VerifyGet, VerifyCheck, VerifyLoad, DeriveReturnCode
    <3>2. QED
      BY <1>1, <1>2, <2>1, <3>1, ZeroedKept
  <2>4. QED
    BY <2>2, <2>3
<1>8. ASSUME NEW q \in Submission, NEW s \in Session, NEW t \in Trustee, AddShare(q, s, t)
      PROVE  ZInv'
  <2>1. PICK o \in SessionType :
              /\ session' = [session EXCEPT ![s] = o] /\ o.life = session[s].life
              /\ o.codes = session[s].codes /\ (session[s].met => o = session[s])
    BY <1>0, <1>8, Shared DEF AddShare
  <2>2. /\ devMode' = devMode /\ pc[q] = "new" /\ session[s].life = "stored"
        /\ pc'[q] # "zero"
        /\ \A r \in Request : r # q => pc'[r] = pc[r] /\ arg'[r] = arg[r]
    BY <1>0, <1>1, <1>8 DEF AddShare, Goto, Stored, TypeOK
  <2>3. session'[s] = o /\ \A r \in Session : r # s => session'[r] = session[r]
    BY <1>0, <2>1
  <2>4. CodesAfterThreshold' /\ RemovedIsZeroed'
    BY <2>1, <2>2, <2>3 DEF ZInv, CodesAfterThreshold, RemovedIsZeroed
  <2>5. SharesZeroedAfterUse'
    <3>1. \A r \in Submission : pc[r] = "zero" => pc'[r] = "zero" /\ arg'[r] = arg[r]
      BY <1>1, <2>2
    <3>2. ~devMode => o.codes = None \/ o = session[s]
      BY <2>1 DEF ZInv, CodesAfterThreshold
    <3>3. QED
      BY <2>1, <2>2, <2>3, <3>1, <3>2 DEF ZInv, SharesZeroedAfterUse
  <2>6. QED
    BY <2>4, <2>5 DEF ZInv
<1>9. ASSUME NEW q \in Submission, SetCodes(q) PROVE ZInv'
  <2>1. /\ devMode' = devMode /\ pc[q] = "set" /\ arg' = arg /\ pc'[q] = "zero"
        /\ \A r \in Request : r # q => pc'[r] = pc[r]
    BY <1>0, <1>1, <1>9 DEF SetCodes, Goto, TypeOK
  <2>2. arg[q] \in Session /\ session[arg[q]].met
    BY <1>1, <2>1 DEF IInv, ArgKnown, BusyIsMet
  <2>3. /\ session'[arg[q]].life = session[arg[q]].life /\ session'[arg[q]].met
        /\ session'[arg[q]].intact = session[arg[q]].intact
        /\ \A r \in Session : r # arg[q] => session'[r] = session[r]
    <3>1. CASE Stored(arg[q])
      <4>1. session' = [session EXCEPT ![arg[q]] = WithCodes(session[arg[q]], q)]
        BY <1>9, <3>1 DEF SetCodes
      <4>2. QED
        BY <1>0, <2>2, <4>1, Coded
    <3>2. CASE ~Stored(arg[q])
      <4>1. session' = [session EXCEPT ![arg[q]] = session[arg[q]]]
        BY <1>9, <3>2 DEF SetCodes
      <4>2. QED
        BY <1>0, <2>2, <4>1
    <3>3. QED
      BY <3>1, <3>2
  <2>4. CodesAfterThreshold' /\ RemovedIsZeroed'
    BY <2>1, <2>3 DEF ZInv, CodesAfterThreshold, RemovedIsZeroed
  <2>5. SharesZeroedAfterUse'
    <3>1. \A r \in Submission : pc[r] = "zero" => pc'[r] = "zero" /\ arg'[r] = arg[r]
      BY <1>1, <2>1
    <3>2. \A s \in Session : s # arg[q] => session'[s] = session[s]
      BY <2>3
    <3>3. session'[arg[q]].life = "removed" => session'[arg[q]].intact = {}
      BY <2>2, <2>3 DEF ZInv, RemovedIsZeroed
    <3>4. QED
      BY <2>1, <3>1, <3>2, <3>3 DEF ZInv, SharesZeroedAfterUse
  <2>6. QED
    BY <2>4, <2>5 DEF ZInv
<1>10. ASSUME NEW q \in Submission, NEW t \in Trustee, ZeroShare(q, t) PROVE ZInv'
  <2>1. pc[q] = "zero" /\ UNCHANGED <<devMode, pc, arg>>
    BY <1>10 DEF ZeroShare, handler
  <2>2. arg[q] \in Session
    BY <1>1, <2>1 DEF IInv, ArgKnown
  <2>3. PICK o \in SessionType :
              /\ session' = [session EXCEPT ![arg[q]] = o]
              /\ o.life = session[arg[q]].life /\ o.met = session[arg[q]].met
              /\ o.intact \subseteq session[arg[q]].intact /\ o.codes = session[arg[q]].codes
    BY <1>0, <1>10, <2>2, Zeroed
  <2>4. QED
    BY <1>0, <2>1, <2>2, <2>3, ZeroedKept
<1>11. ASSUME NEW q \in Submission, ZeroDone(q) PROVE ZInv'
  <2>1. /\ UNCHANGED <<devMode, session, arg>> /\ session[arg[q]].intact = {}
        /\ \A r \in Request : r # q => pc'[r] = pc[r]
    BY <1>0, <1>11 DEF ZeroDone, Goto, TypeOK
  <2>2. SharesZeroedAfterUse'
    <3>1. \A r \in Submission : pc[r] = "zero" /\ r # q => pc'[r] = "zero"
      BY <1>1, <2>1
    <3>2. QED
      BY <2>1, <3>1 DEF ZInv, SharesZeroedAfterUse
  <2>3. QED
    BY <2>1, <2>2 DEF ZInv, CodesAfterThreshold, RemovedIsZeroed
<1>12. CASE UNCHANGED vars
  BY <1>12 DEF vars, handler, ZInv, CodesAfterThreshold, RemovedIsZeroed, SharesZeroedAfterUse
<1>13. QED
  BY <1>3, <1>4, <1>5, <1>6, <1>7, <1>8, <1>9, <1>10, <1>11, <1>12
     DEF Next, HandleSubmitShare

\* Whatever submissions overlap, once a session has its codes and nobody is
\* busy zeroing, and after its removal, no share of it is left in memory.
THEOREM NoShareIsLeft == Spec => []SharesZeroedAfterUse
<1>1. Init => ZInv
  BY DEF Init, ZInv, CodesAfterThreshold, RemovedIsZeroed, SharesZeroedAfterUse, NewSession
<1>2. ZInv => SharesZeroedAfterUse
  BY DEF ZInv
<1>3. QED
  BY <1>1, <1>2, StepsKeepZeroed, Invariant, PTL DEF Spec

-----------------------------------------------------------------------------
(* The codes: a step that reconstructs no secret and sets no codes.        *)

\* What such a step does to the sessions.
CodesStay ==
    /\ devMode' = devMode
    /\ \A s \in Session :
          /\ session'[s].codes = session[s].codes
          /\ session'[s].master \in {session[s].master, None}
          /\ session'[s].life = "stored" /\ session'[s].intact # session'[s].shares =>
                \/ session[s].life = "stored" /\ session[s].intact # session[s].shares
                \/ \E r \in Reconstructed(s) : pc[r] \in {"zero", "done"}
    /\ \A q \in Submission :
          pc[q] = "set" /\ session'[arg[q]].life = "stored" => session[arg[q]].life = "stored"

\* ... and to a submission and its scalar.
Walks(q) ==
    /\ scalar'[q] = None <=> scalar[q] = None
    /\ pc[q] = "set" => pc'[q] = "set" /\ scalar'[q] = scalar[q]
    /\ pc[q] # "new" => arg'[q] = arg[q] /\ late'[q] = late[q] /\ pc'[q] # "new"
    /\ pc[q] = "new" /\ late'[q] => pc'[q] # "new" /\ session[arg'[q]].codes # None
    /\ pc[q] \in {"zero", "done"} => pc'[q] \in {"zero", "done"}
    /\ pc'[q] = "interpolate" =>
          \/ pc[q] = "interpolate"
          \/ pc[q] = "got" /\ session[arg[q]].codes = None
    /\ pc'[q] \in {"set", "zero"} => pc[q] = pc'[q]

LEMMA CodesKept_Walk ==
    ASSUME IInv, IInv', CInv, CodesStay, \A q \in Submission : Walks(q)
    PROVE  CInv'
<1> SUFFICES ASSUME ~devMode
             PROVE  (/\ LateSeesCodes /\ ReconstructsInTime /\ MasterWasSet
                     /\ ZeroedBySubmission /\ WrongReadsZeroed /\ WrongOnlyByOverlap)'
  BY DEF CInv, CodesStay
<1>0. LateSeesCodes /\ ReconstructsInTime /\ MasterWasSet
      /\ ZeroedBySubmission /\ WrongReadsZeroed /\ WrongOnlyByOverlap
  BY DEF CInv
<1>1. \A q \in Submission : /\ pc[q] # "new" => arg[q] \in Session
                            /\ pc'[q] # "new" => arg'[q] \in Session
  BY DEF IInv, ArgKnown, Request
<1>2. \A s \in Session : \A r \in Reconstructed(s) :
          r \in Submission /\ r \in Reconstructed(s)' /\ late'[r] = late[r] /\ ~late[r]
  BY <1>0 DEF Reconstructed, Walks, ReconstructsInTime
<1>3. LateSeesCodes'
  BY <1>0, <1>1 DEF LateSeesCodes, Walks, CodesStay
<1>4. ReconstructsInTime'
  <2> SUFFICES ASSUME NEW q \in Submission
               PROVE  /\ pc'[q] \in {"interpolate", "set", "zero"} => ~late'[q]
                      /\ pc'[q] \in {"set", "zero"} => scalar'[q] # None
                      /\ scalar'[q] # None => ~late'[q] /\ pc'[q] \in {"set", "zero", "done"}
    BY DEF ReconstructsInTime
  <2>1. pc[q] = "got" /\ session[arg[q]].codes = None => ~late[q]
    BY <1>0 DEF LateSeesCodes
  <2>2. QED
    BY <1>0, <2>1 DEF ReconstructsInTime, Walks
<1>5. MasterWasSet'
  BY <1>0 DEF MasterWasSet, CodesStay, Walks
<1>6. ZeroedBySubmission'
  BY <1>0, <1>2 DEF ZeroedBySubmission, CodesStay, Walks, Stored
<1>7. WrongReadsZeroed'
  <2> SUFFICES ASSUME NEW q \in Submission, pc'[q] = "set", Stored(arg[q])',
                      scalar'[q] \in {"zero", "wrong"}
               PROVE  \E r \in Reconstructed(arg[q])' : r # q
    BY DEF WrongReadsZeroed, Reconstructed, Stored
  <2>1. pc[q] = "set" /\ arg'[q] = arg[q] /\ scalar'[q] = scalar[q] /\ arg[q] \in Session
    BY <1>1 DEF Walks
  <2>2. PICK r \in Reconstructed(arg[q]) : r # q
    BY <1>0, <2>1 DEF WrongReadsZeroed, CodesStay, Stored
  <2>3. r \in Reconstructed(arg[q])'
    BY <1>2, <2>1 DEF Reconstructed
  <2>4. QED
    BY <2>2, <2>3
<1>8. WrongOnlyByOverlap'
  BY <1>0, <1>2 DEF WrongOnlyByOverlap, CodesStay
<1>9. QED
  BY <1>3, <1>4, <1>5, <1>6, <1>7, <1>8

\* A submission that a step leaves alone.
LEMMA LeftAlone ==
    ASSUME NEW q \in Submission, pc'[q] = pc[q], arg'[q] = arg[q], late'[q] = late[q],
           CInv, ~devMode, IInv,
           scalar'[q] = None <=> scalar[q] = None,
           pc[q] = "set" => scalar'[q] = scalar[q]
    PROVE  Walks(q)
  BY DEF Walks, CInv, LateSeesCodes

\* The store.
LEMMA StoreKeepsCodes ==
    ASSUME IInv, IInv', CInv,
           RemoveExpired \/ \E s \in Session : CreateSession(s) \/ Expire(s)
    PROVE  CInv'
<1> SUFFICES ASSUME ~devMode PROVE CInv'
  BY DEF CInv, RemoveExpired, CreateSession, Expire
<1>0. /\ TypeOK /\ session \in [Session -> SessionType]
      /\ \A q \in Submission : pc[q] = "set" => arg[q] \in Session /\ session[arg[q]].met
  BY SessionsTyped DEF IInv, ArgKnown, BusyIsMet, Request
<1>1. ASSUME NEW s \in Session, CreateSession(s) PROVE CInv'
  <2>1. PICK o \in SessionType :
              /\ session' = [session EXCEPT ![s] = o]
              /\ o.shares = {} /\ o.intact = {} /\ o.codes = None /\ o.master = None
    BY <1>0, <1>1, Made
  <2>2. /\ UNCHANGED <<devMode, scalar, pc, arg, late>>
        /\ session'[s] = o /\ \A r \in Session : r # s => session'[r] = session[r]
    BY <1>0, <1>1, <2>1 DEF CreateSession, handler
  <2>3. session[s].codes = None /\ session[s].met = FALSE
    BY <1>1 DEF CreateSession, IInv, Fresh, NewSession
  <2>4. CodesStay
    BY <1>0, <2>1, <2>2, <2>3 DEF CodesStay
  <2>5. \A q \in Submission : Walks(q)
    BY <2>2, LeftAlone
  <2>6. QED
    BY <2>4, <2>5, CodesKept_Walk
<1>2. ASSUME NEW s \in Session, Expire(s) PROVE CInv'
  <2>1. PICK o \in SessionType :
              /\ session' = [session EXCEPT ![s] = o] /\ o.life = session[s].life
              /\ o.intact = session[s].intact /\ o.shares = session[s].shares
              /\ o.codes = session[s].codes /\ o.master = session[s].master
    BY <1>0, <1>2, Expired
  <2>2. UNCHANGED <<devMode, scalar, pc, arg, late>>
    BY <1>2 DEF Expire, handler
  <2>3. session'[s] = o /\ \A r \in Session : r # s => session'[r] = session[r]
    BY <1>0, <2>1
  <2>4. CodesStay
    BY <1>0, <2>1, <2>2, <2>3 DEF CodesStay
  <2>5. \A q \in Submission : Walks(q)
    BY <2>2, LeftAlone
  <2>6. QED
    BY <2>4, <2>5, CodesKept_Walk
<1>3. ASSUME RemoveExpired PROVE CInv'
  <2>1. /\ UNCHANGED <<devMode, pc, arg, late>>
        /\ \A s \in Session : session'[s] \in {session[s], Cleared(s)}
    BY <1>0, <1>3 DEF RemoveExpired, handler
  <2>2. \A s \in Session :
          \/ session'[s] = session[s]
          \/ /\ session'[s].life = "removed" /\ session'[s].codes = session[s].codes
             /\ session'[s].master = None
    BY <1>0, <2>1, Removed
  <2>3. CodesStay
    BY <1>0, <2>1, <2>2 DEF CodesStay
  <2>4. ASSUME NEW q \in Submission PROVE Walks(q)
    <3>1. q \in Scalar /\ q # None /\ "zero" # None
      BY DistinctAssumption DEF Scalar
    <3>2. \/ scalar'[q] = scalar[q]
          \/ scalar'[q] = "zero" /\ \E s \in Session : session[s].master = q
      BY <1>3, <3>1 DEF RemoveExpired
    <3>3. (\E s \in Session : session[s].master = q) =>
              scalar[q] # None /\ pc[q] \in {"zero", "done"}
      BY <3>1 DEF CInv, MasterWasSet
    <3>4. QED
      BY <2>1, <3>1, <3>2, <3>3, LeftAlone
  <2>5. QED
    BY <2>3, <2>4, CodesKept_Walk
<1>4. QED
  BY <1>1, <1>2, <1>3

\* The submissions, but for the reconstruction.
LEMMA SubmissionKeepsCodes ==
    ASSUME IInv, IInv', CInv, NEW q \in Submission,
           \/ \E s \in Session : ShareRefused(q, s) \/ \E t \in Trustee : AddShare(q, s, t)
           \/ ShareGet(q) \/ ShareCheck(q) \/ InterpolateFails(q) \/ ZeroDone(q)
           \/ \E t \in Trustee : ZeroShare(q, t)
    PROVE  CInv'
<1>a. devMode' = devMode
  BY DEF ShareRefused, AddShare, ShareGet, ShareCheck, InterpolateFails, ZeroDone, ZeroShare
<1> SUFFICES ASSUME ~devMode PROVE CInv'
  BY <1>a DEF CInv
<1>0. /\ TypeOK /\ MetByThreshold /\ session \in [Session -> SessionType]
      /\ \A r \in Submission : r \in Request /\ r \notin Verify
      /\ pc[q] # "new" => arg[q] \in Session
  BY SessionsTyped, DistinctAssumption DEF IInv, ArgKnown, Request
<1>1. ASSUME ~\E t \in Trustee : ZeroShare(q, t),
             ~\E s \in Session : \E t \in Trustee : AddShare(q, s, t)
      PROVE  CInv'
  <2>1. /\ UNCHANGED <<devMode, session, scalar, late>>
        /\ \A r \in Request : r # q => pc'[r] = pc[r] /\ arg'[r] = arg[r]
    BY <1>0, <1>1 DEF ShareRefused, ShareGet, ShareCheck, InterpolateFails, ZeroDone, Goto, TypeOK
  <2>2. CodesStay
    BY <1>0, <2>1 DEF CodesStay
  <2>3. ASSUME NEW r \in Submission PROVE Walks(r)
    <3>1. CASE r # q
      BY <1>0, <2>1, <3>1, LeftAlone
    <3>2. CASE r = q
      <4>1. CASE \E s \in Session : ShareRefused(q, s)
        <5>1. pc[q] = "new" /\ pc'[q] = "refused"
          BY <1>0, <4>1 DEF ShareRefused, Goto, TypeOK
        <5>2. ~late[q]
          BY <5>1 DEF CInv, LateSeesCodes
        <5>3. QED
          BY <2>1, <3>2, <5>1, <5>2 DEF Walks
      <4>2. CASE ShareGet(q)
        <5>1. pc[q] = "met" /\ pc'[q] \in {"got", "disappeared"} /\ arg' = arg
          BY <1>0, <4>2 DEF ShareGet, Goto, TypeOK
        <5>2. QED
          BY <2>1, <3>2, <5>1 DEF Walks
      <4>3. CASE ShareCheck(q)
        <5>1. /\ pc[q] = "got" /\ pc'[q] \in {"interpolate", "done"} /\ arg' = arg
              /\ pc'[q] = "interpolate" => session[arg[q]].codes = None
          BY <1>0, <4>3 DEF ShareCheck, Goto, TypeOK
        <5>2. QED
          BY <2>1, <3>2, <5>1 DEF Walks
      <4>4. CASE InterpolateFails(q)
        <5>1. pc[q] = "interpolate" /\ pc'[q] = "failed" /\ arg' = arg
          BY <1>0, <4>4 DEF InterpolateFails, Goto, TypeOK
        <5>2. QED
          BY <2>1, <3>2, <5>1 DEF Walks
      <4>5. CASE ZeroDone(q)
        <5>1. pc[q] = "zero" /\ pc'[q] = "done" /\ arg' = arg
          BY <1>0, <4>5 DEF ZeroDone, Goto, TypeOK
        <5>2. QED
          BY <2>1, <3>2, <5>1 DEF Walks
      <4>6. QED
        BY <1>1, <4>1, <4>2, <4>3, <4>4, <4>5
    <3>3. QED
      BY <3>1, <3>2
  <2>4. QED
    BY <2>2, <2>3, CodesKept_Walk
<1>2. ASSUME NEW s \in Session, NEW t \in Trustee, AddShare(q, s, t) PROVE CInv'
  <2>1. PICK o \in SessionType :
              /\ session' = [session EXCEPT ![s] = o] /\ o.life = session[s].life
              /\ o.codes = session[s].codes /\ o.master = session[s].master
              /\ o.intact # o.shares => session[s].intact # session[s].shares
    <3> DEFINE new == WithShare(session[s], t)
    <3>1. session' = [session EXCEPT ![s] = new]
      BY <1>2 DEF AddShare
    <3>2. /\ new \in SessionType /\ new.life = session[s].life
          /\ new.codes = session[s].codes /\ new.master = session[s].master
          /\ new.intact # new.shares => session[s].intact # session[s].shares
      BY <1>0, Shared
    <3> HIDE DEF new
    <3>3. QED
      BY <3>1, <3>2
  <2>2. /\ UNCHANGED <<devMode, scalar>> /\ pc[q] = "new" /\ pc'[q] \in {"met", "done"}
        /\ arg'[q] = s /\ late'[q] = (session[s].codes # None)
        /\ \A r \in Request : r # q => pc'[r] = pc[r] /\ arg'[r] = arg[r] /\ late'[r] = late[r]
    BY <1>0, <1>2 DEF AddShare, Goto, TypeOK
  <2>3. session'[s] = o /\ \A r \in Session : r # s => session'[r] = session[r]
    BY <1>0, <2>1
  <2>4. CodesStay
    BY <1>0, <2>1, <2>2, <2>3 DEF CodesStay
  <2>5. ASSUME NEW r \in Submission PROVE Walks(r)
    <3>1. CASE r # q
      BY <1>0, <2>2, <3>1, LeftAlone
    <3>2. CASE r = q
      BY <2>2, <3>2 DEF Walks
    <3>3. QED
      BY <3>1, <3>2
  <2>6. QED
    BY <2>4, <2>5, CodesKept_Walk
<1>3. ASSUME NEW t \in Trustee, ZeroShare(q, t) PROVE CInv'
  <2>1. pc[q] = "zero" /\ UNCHANGED <<devMode, scalar, pc, arg, late>>
    BY <1>3 DEF ZeroShare, handler
  <2>2. PICK o \in SessionType :
              /\ session' = [session EXCEPT ![arg[q]] = o]
              /\ o.life = session[arg[q]].life /\ o.codes = session[arg[q]].codes
              /\ o.master = session[arg[q]].master
    BY <1>0, <1>3, <2>1, Zeroed
  <2>3. session'[arg[q]] = o /\ \A s \in Session : s # arg[q] => session'[s] = session[s]
    BY <1>0, <2>1, <2>2
  <2>4. q \in Reconstructed(arg[q])
    BY <2>1 DEF Reconstructed, CInv, ReconstructsInTime
  <2>5. CodesStay
    BY <1>0, <2>1, <2>2, <2>3, <2>4 DEF CodesStay
  <2>6. \A r \in Submission : Walks(r)
    BY <2>1, LeftAlone
  <2>7. QED
    BY <2>5, <2>6, CodesKept_Walk
<1>4. QED
  BY <1>1, <1>2, <1>3

\* The verifications.
LEMMA VerifyKeepsCodes ==
    ASSUME IInv, IInv', CInv, NEW v \in Verify,
           HandleVerify(v) \/ \E s \in Session : VerifyGet(v, s)
    PROVE  CInv'
<1> SUFFICES ASSUME ~devMode PROVE CInv'
  BY DEF CInv, HandleVerify, VerifyGet, VerifyCheck, VerifyLoad, DeriveReturnCode, MarkVerified
<1>0. /\ TypeOK /\ session \in [Session -> SessionType] /\ v \in Request
      /\ \A r \in Submission : r \in Request /\ r # v
      /\ \A r \in Submission : pc[r] # "new" => arg[r] \in Session
      /\ pc[v] # "new" => arg[v] \in Session
  BY SessionsTyped, DistinctAssumption DEF IInv, ArgKnown, Request
<1>1. /\ UNCHANGED <<devMode, scalar>>
      /\ \A r \in Request : r # v => pc'[r] = pc[r] /\ arg'[r] = arg[r] /\ late'[r] = late[r]
  BY <1>0 DEF HandleVerify, VerifyGet, VerifyCheck, VerifyLoad, DeriveReturnCode,
     MarkVerified, Goto, TypeOK
<1>2. \A r \in Submission : Walks(r)
  BY <1>0, <1>1, LeftAlone
<1>3. CodesStay
  <2>1. CASE MarkVerified(v)
    <3>1. arg[v] \in Session
      BY <1>0, <2>1 DEF MarkVerified
    <3>2. PICK o \in SessionType :
                /\ session' = [session EXCEPT ![arg[v]] = o]
                /\ o.life = session[arg[v]].life /\ o.shares = session[arg[v]].shares
                /\ o.intact = session[arg[v]].intact
                /\ o.codes = session[arg[v]].codes /\ o.master = session[arg[v]].master
      BY <1>0, <2>1, <3>1, Marked
    <3>3. session'[arg[v]] = o /\ \A s \in Session : s # arg[v] => session'[s] = session[s]
      BY <1>0, <3>1, <3>2
    <3>4. QED
      BY <1>0, <1>1, <3>2, <3>3 DEF CodesStay
  <2>2. CASE ~MarkVerified(v)
    <3>1. UNCHANGED session
      BY <2>2 DEF HandleVerify, VerifyGet, VerifyCheck, VerifyLoad, DeriveReturnCode
    <3>2. QED
      BY <1>0, <1>1, <3>1 DEF CodesStay
  <2>3. QED
    BY <2>1, <2>2
<1>4. QED
  BY <1>2, <1>3, CodesKept_Walk

\* A submission reconstructs a secret, and sets the codes.
LEMMA ReconstructionKeepsCodes ==
    ASSUME IInv, IInv', CInv, NEW q \in Submission, Interpolate(q) \/ SetCodes(q)
    PROVE  CInv'
<1> SUFFICES ASSUME ~devMode PROVE CInv'
  BY DEF CInv, Interpolate, SetCodes
<1>0. /\ TypeOK /\ session \in [Session -> SessionType]
      /\ \A r \in Submission : r \in Request /\ r \in Scalar
      /\ \A r \in Submission : pc[r] # "new" => arg[r] \in Session
      /\ \A c \in Secret : c # None
  BY SessionsTyped, DistinctAssumption DEF IInv, ArgKnown, Request, Scalar, Secret
<1>1. LateSeesCodes /\ ReconstructsInTime /\ MasterWasSet
      /\ ZeroedBySubmission /\ WrongReadsZeroed /\ WrongOnlyByOverlap
  BY DEF CInv
<1>2. \A s \in Session : \A r \in Reconstructed(s) : r \in Submission /\ scalar[r] # None
                                                     /\ arg[r] = s /\ ~late[r]
  BY <1>1 DEF Reconstructed, ReconstructsInTime
<1>3. ASSUME Interpolate(q) PROVE CInv'
  <2> DEFINE sess == session[arg[q]]
  <2>1. /\ UNCHANGED <<devMode, session, arg, late>> /\ pc[q] = "interpolate"
        /\ pc'[q] = "set" /\ scalar'[q] = Interpolated(sess) /\ arg[q] \in Session
        /\ \A r \in Submission : r # q => pc'[r] = pc[r] /\ scalar'[r] = scalar[r]
    BY <1>0, <1>3 DEF Interpolate, Goto, TypeOK
  <2>2. /\ Interpolated(sess) \in Secret /\ Interpolated(sess) # None
        /\ Interpolated(sess) \in {"zero", "wrong"} => sess.intact # sess.shares
    <3>0. sess.shares # {}
      BY <2>1 DEF IInv, BusyIsMet, MetByThreshold
    <3>1. CASE sess.intact = sess.shares
      <4>1. Interpolated(sess) = "election"
        BY <3>0, <3>1 DEF Interpolated
      <4>2. QED
        BY <1>0, <4>1 DEF Secret
    <3>2. CASE sess.intact # sess.shares
      <4>1. Interpolated(sess) = IF sess.intact = {} THEN "zero" ELSE "wrong"
        BY <3>2 DEF Interpolated
      <4>2. QED
        BY <1>0, <3>2, <4>1 DEF Secret
    <3>3. QED
      BY <3>1, <3>2
  <2>3. \A s \in Session : \A r \in Reconstructed(s) : r \in Reconstructed(s)'
    <3>1. \A r \in Submission : scalar[r] # None => scalar'[r] # None
      BY <2>1, <2>2
    <3>2. QED
      BY <1>2, <2>1, <3>1 DEF Reconstructed
  <2>4. ~late[q]
    BY <1>1, <2>1 DEF ReconstructsInTime
  <2>5. LateSeesCodes' /\ MasterWasSet'
    BY <1>1, <2>1 DEF LateSeesCodes, MasterWasSet
  <2>6. ReconstructsInTime'
    BY <1>1, <2>1, <2>2, <2>4 DEF ReconstructsInTime
  <2>7. ZeroedBySubmission'
    BY <1>1, <1>2, <2>1, <2>3 DEF ZeroedBySubmission, Stored
  <2>8. WrongReadsZeroed'
    <3> SUFFICES ASSUME NEW r \in Submission, pc'[r] = "set", Stored(arg[r]),
                        scalar'[r] \in {"zero", "wrong"}
                 PROVE  \E o \in Reconstructed(arg[r])' : o # r
      BY <2>1 DEF WrongReadsZeroed, Stored, Reconstructed
    <3>1. CASE r = q
      <4>1. PICK o \in Reconstructed(arg[q]) : pc[o] \in {"zero", "done"}
        BY <1>1, <2>1, <2>2, <3>1 DEF ZeroedBySubmission
      <4>2. QED
        BY <2>1, <2>3, <3>1, <4>1
    <3>2. CASE r # q
      <4>1. PICK o \in Reconstructed(arg[r]) : o # r
        BY <1>1, <2>1, <3>2 DEF WrongReadsZeroed
      <4>2. arg[r] \in Session /\ arg' = arg
        BY <1>0, <2>1, <3>2
      <4>3. o \in Reconstructed(arg[r])'
        BY <2>3, <4>1, <4>2 DEF Reconstructed
      <4>4. QED
        BY <4>1, <4>3
    <3>3. QED
      BY <3>1, <3>2
  <2>9. WrongOnlyByOverlap'
    BY <1>1, <1>2, <2>1, <2>3 DEF WrongOnlyByOverlap
  <2>10. QED
    BY <2>5, <2>6, <2>7, <2>8, <2>9 DEF CInv
<1>4. ASSUME SetCodes(q) PROVE CInv'
  <2>1. /\ UNCHANGED <<devMode, scalar, arg, late>> /\ pc[q] = "set" /\ pc'[q] = "zero"
        /\ arg[q] \in Session
        /\ \A r \in Submission : r # q => pc'[r] = pc[r]
    BY <1>0, <1>4 DEF SetCodes, Goto, TypeOK
  <2>2. /\ \A s \in Session : s # arg[q] => session'[s] = session[s]
        /\ session'[arg[q]].life = session[arg[q]].life
        /\ session'[arg[q]].shares = session[arg[q]].shares
        /\ session'[arg[q]].intact = session[arg[q]].intact
        /\ \/ session'[arg[q]] = session[arg[q]]
           \/ /\ Stored(arg[q])
              /\ session'[arg[q]].codes = scalar[q] /\ session'[arg[q]].master = q
    <3>1. CASE Stored(arg[q])
      <4>1. session' = [session EXCEPT ![arg[q]] = WithCodes(session[arg[q]], q)]
        BY <1>4, <3>1 DEF SetCodes
      <4>2. QED
        BY <1>0, <2>1, <3>1, <4>1, Coded
    <3>2. CASE ~Stored(arg[q])
      <4>1. session' = [session EXCEPT ![arg[q]] = session[arg[q]]]
        BY <1>4, <3>2 DEF SetCodes
      <4>2. QED
        BY <1>0, <2>1, <4>1
    <3>3. QED
      BY <3>1, <3>2
  <2>3. scalar[q] # None /\ ~late[q]
    BY <1>1, <2>1 DEF ReconstructsInTime
  <2>4. \A s \in Session : Reconstructed(s)' = Reconstructed(s)
    BY <2>1 DEF Reconstructed
  <2>5. LateSeesCodes'
    BY <1>0, <1>1, <2>1, <2>2, <2>3 DEF LateSeesCodes
  <2>6. ReconstructsInTime'
    BY <1>1, <2>1 DEF ReconstructsInTime
  <2>7. MasterWasSet'
    BY <1>1, <2>1, <2>2, <2>3 DEF MasterWasSet
  <2>8. ZeroedBySubmission'
    <3> SUFFICES ASSUME NEW s \in Session, session[s].life = "stored",
                        session[s].intact # session[s].shares
                 PROVE  \E r \in Reconstructed(s) : pc'[r] \in {"zero", "done"}
      BY <2>2, <2>4 DEF ZeroedBySubmission, Stored
    <3>1. PICK r \in Reconstructed(s) : pc[r] \in {"zero", "done"}
      BY <1>1 DEF ZeroedBySubmission, Stored
    <3>2. QED
      BY <1>2, <2>1, <3>1
  <2>9. WrongReadsZeroed'
    <3> SUFFICES ASSUME NEW r \in Submission, pc'[r] = "set", session'[arg[r]].life = "stored",
                        scalar[r] \in {"zero", "wrong"}
                 PROVE  \E o \in Reconstructed(arg[r])' : o # r
      BY <2>1 DEF WrongReadsZeroed, Stored, Reconstructed
    <3>1. pc[r] = "set" /\ arg[r] \in Session
      BY <1>0, <2>1
    <3>2. session[arg[r]].life = "stored"
      BY <2>2, <3>1
    <3>3. PICK o \in Reconstructed(arg[r]) : o # r
      BY <1>1, <3>1, <3>2 DEF WrongReadsZeroed, Stored
    <3>4. o \in Reconstructed(arg[r])'
      BY <2>1, <3>3 DEF Reconstructed
    <3>5. QED
      BY <3>3, <3>4
  <2>10. WrongOnlyByOverlap'
    <3> SUFFICES ASSUME NEW s \in Session, session'[s].codes \in {"zero", "wrong"}
                 PROVE  \E o, r \in Reconstructed(s) : o # r /\ ~late[o] /\ ~late[r]
      BY <2>1, <2>4 DEF WrongOnlyByOverlap
    <3>1. CASE session'[s] = session[s]
      BY <1>1, <3>1 DEF WrongOnlyByOverlap
    <3>2. CASE session'[s] # session[s]
      <4>1. s = arg[q] /\ Stored(arg[q]) /\ scalar[q] \in {"zero", "wrong"}
        BY <2>2, <3>2
      <4>2. PICK r \in Reconstructed(arg[q]) : r # q
        BY <1>1, <2>1, <4>1 DEF WrongReadsZeroed
      <4>3. q \in Reconstructed(s)
        BY <2>3, <4>1 DEF Reconstructed
      <4>4. QED
        BY <1>2, <2>3, <4>1, <4>2, <4>3
    <3>3. QED
      BY <3>1, <3>2
  <2>11. QED
    BY <2>5, <2>6, <2>7, <2>8, <2>9, <2>10 DEF CInv
<1>5. QED
  BY <1>3, <1>4

\* Codes that are not those of the election come only from submissions that
\* overlap: two that both came before the session had codes.
THEOREM WrongCodesNeedOverlap == Spec => []WrongOnlyByOverlap
<1>1. Init => CInv
  <2> SUFFICES ASSUME Init, ~devMode
               PROVE  /\ LateSeesCodes /\ ReconstructsInTime /\ MasterWasSet
                      /\ ZeroedBySubmission /\ WrongReadsZeroed /\ WrongOnlyByOverlap
    BY DEF CInv
  <2>1. /\ \A s \in Session : session[s] = NewSession
        /\ \A q \in Submission : q \in Request /\ q \in Scalar
    BY DEF Init, Request, Scalar
  <2>2. \A q \in Submission : pc[q] = "new" /\ ~late[q] /\ scalar[q] = None
    BY <2>1 DEF Init
  <2>3. \A s \in Session : /\ session[s].codes = None /\ session[s].master = None
                           /\ session[s].life = "none"
    BY <2>1 DEF NewSession
  <2>4. WrongOnlyByOverlap
    BY <2>3, DistinctAssumption DEF WrongOnlyByOverlap
  <2>5. QED
    BY <2>2, <2>3, <2>4 DEF LateSeesCodes, ReconstructsInTime, MasterWasSet, Stored,
       ZeroedBySubmission, WrongReadsZeroed
<1>2. IInv /\ IInv' /\ CInv /\ [Next]_vars => CInv'
  <2> SUFFICES ASSUME IInv, IInv', CInv, [Next]_vars PROVE CInv'
    OBVIOUS
  <2>1. CASE RemoveExpired \/ \E s \in Session : CreateSession(s) \/ Expire(s)
    BY <2>1, StoreKeepsCodes
  <2>2. ASSUME NEW q \in Submission,
               HandleSubmitShare(q) \/ \E s \in Session :
                  ShareRefused(q, s) \/ \E t \in Trustee : AddShare(q, s, t)
        PROVE  CInv'
    <3>1. CASE Interpolate(q) \/ SetCodes(q)
      BY <3>1, ReconstructionKeepsCodes
    <3>2. CASE ~(Interpolate(q) \/ SetCodes(q))
      BY <2>2, <3>2, SubmissionKeepsCodes DEF HandleSubmitShare
    <3>3. QED
      BY <3>1, <3>2
  <2>3. ASSUME NEW v \in Verify, HandleVerify(v) \/ \E s \in Session : VerifyGet(v, s)
        PROVE  CInv'
    BY <2>3, VerifyKeepsCodes
  <2>4. CASE UNCHANGED vars
    BY <2>4 DEF vars, handler, CInv, LateSeesCodes, ReconstructsInTime, MasterWasSet,
       ZeroedBySubmission, WrongReadsZeroed, WrongOnlyByOverlap, Reconstructed, Stored
  <2>5. QED
    BY <2>1, <2>2, <2>3, <2>4 DEF Next
<1>3. CInv => WrongOnlyByOverlap
  BY DEF CInv, WrongOnlyByOverlap
<1>4. QED
  BY <1>1, <1>2, <1>3, Invariant, PTL DEF Spec
=============================================================================
