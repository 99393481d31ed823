--------------------------- MODULE LimiterProofs ---------------------------
(***************************************************************************)
(* The limiter, for any number of calls and actors and any limits.         *)
(*                                                                         *)
(* close() returns only when it is drained: the counter of admitted calls  *)
(* is the number of calls that have begun and not ended, the ones that     *)
(* pause before a retry included (Counted), and the drained event is set   *)
(* only when it is zero (Drained).                                         *)
(*                                                                         *)
(* No permit is lost: every gate and the pool are Sound, which relates the *)
(* semaphore's counter, queue and grants to the calls that wait for it and *)
(* hold its permits.  A gate that was dropped and made anew is the same    *)
(* case as any other because one without users has all its permits.        *)
(***************************************************************************)
EXTENDS ResourceLimiter, FiniteSetTheorems, SequenceTheorems, TLAPS

Stages == {"new", "gate", "slot", "running", "pause", "left"}
Inside == {"gate", "slot", "running", "pause"}

InCall == {c \in Calls : stage[c] \in Inside}

Counted == admitted = Cardinality(InCall)

\* No call is admitted once close has begun.
Drained == /\ idle = TRUE => InCall = {}
           /\ limiter = "closed" => idle = TRUE

LimiterInv == /\ stage \in [Calls -> Stages]
              /\ idle \in BOOLEAN
              /\ Counted /\ Drained

LEMMA CardOf ==
  ASSUME NEW S \in SUBSET Calls
  PROVE  /\ IsFiniteSet(S) /\ Cardinality(S) \in Nat
         /\ \A c : Cardinality(S \cup {c}) =
                    IF c \in S THEN Cardinality(S) ELSE Cardinality(S) + 1
         /\ \A c : Cardinality(S \ {c}) =
                    IF c \in S THEN Cardinality(S) - 1 ELSE Cardinality(S)
         /\ Cardinality(S) = 0 <=> S = {}
  BY LimiterAssumption, FS_Subset, FS_CardinalityType, FS_AddElement,
     FS_RemoveElement, FS_EmptySet

LEMMA LimiterInitInv == LimiterInit => LimiterInv
<1> SUFFICES ASSUME LimiterInit PROVE LimiterInv OBVIOUS
<1>1. stage = [c \in Calls |-> "new"] /\ admitted = 0 /\ idle = TRUE
      /\ limiter = "open"
  BY DEF LimiterInit
<1>2. stage \in [Calls -> Stages] /\ InCall = {}
  BY <1>1 DEF Stages, InCall, Inside
<1>3. Cardinality(InCall) = 0 BY <1>2, FS_EmptySet
<1> QED BY <1>1, <1>2, <1>3 DEF LimiterInv, Counted, Drained

\* A call goes on: it is inside before and after.
LEMMA StayStep ==
  ASSUME LimiterInv, NEW c \in Calls, stage[c] \in Inside,
         NEW s \in Inside, stage' = [stage EXCEPT ![c] = s],
         UNCHANGED <<admitted, idle, limiter>>
  PROVE  LimiterInv'
<1>1. stage' \in [Calls -> Stages] BY DEF LimiterInv, Stages, Inside
<1>2. InCall' = InCall BY DEF LimiterInv, InCall
<1> QED BY <1>1, <1>2 DEF LimiterInv, Counted, Drained

\* Where the first permit, or the second, takes a call.
LEMMA GlobalStage ==
  ASSUME NEW c \in Calls, TakeGlobal(c)
  PROVE  \E s \in Inside : stage' = [stage EXCEPT ![c] = s]
  BY DEF TakeGlobal, Inside

LEMMA DispatchStage ==
  ASSUME NEW c \in Calls, Dispatch(c)
  PROVE  \E s \in Inside : stage' = [stage EXCEPT ![c] = s]
<1>1. CASE TakeGlobal(c) BY <1>1, GlobalStage
<1>2. CASE stage' = [stage EXCEPT ![c] = "gate"] BY <1>2 DEF Inside
<1> QED BY <1>1, <1>2 DEF Dispatch

LEMMA AdmitStep ==
  ASSUME LimiterInv, NEW c \in Calls, AdmitCall(c)
  PROVE  LimiterInv'
<1>1. PICK s \in Inside : stage' = [stage EXCEPT ![c] = s]
  BY DispatchStage DEF AdmitCall
<1>2. stage[c] = "new" /\ admitted' = admitted + 1 /\ idle' = FALSE
      /\ limiter' = "open"
  BY DEF AdmitCall
<1>3. stage' \in [Calls -> Stages] BY <1>1 DEF LimiterInv, Stages, Inside
<1>4. InCall' = InCall \cup {c} /\ c \notin InCall
  BY <1>1, <1>2 DEF LimiterInv, InCall, Inside
<1>5. Cardinality(InCall') = Cardinality(InCall) + 1
  <2>1. InCall \in SUBSET Calls BY DEF InCall
  <2> QED BY <1>4, <2>1, CardOf
<1>6. Counted' BY <1>2, <1>5 DEF LimiterInv, Counted
<1> QED BY <1>2, <1>3, <1>6 DEF LimiterInv, Drained

\* A call ends: the event is set if it was the last.
LEMMA EndStep ==
  ASSUME LimiterInv, NEW c \in Calls, stage[c] \in Inside, EndCall(c), UNCHANGED limiter
  PROVE  LimiterInv'
<1>1. stage' = [stage EXCEPT ![c] = "left"] /\ admitted' = admitted - 1
      /\ idle' = (idle \/ LastCall)
  BY DEF EndCall
<1>2. stage' \in [Calls -> Stages] BY <1>1 DEF LimiterInv, Stages
<1>3. InCall' = InCall \ {c} /\ c \in InCall
  BY <1>1 DEF LimiterInv, InCall, Inside
<1>4. InCall \in SUBSET Calls BY DEF InCall
<1>5. Cardinality(InCall') = Cardinality(InCall) - 1 BY <1>3, <1>4, CardOf
<1>6. Counted' BY <1>1, <1>5 DEF LimiterInv, Counted
<1>7. LastCall => InCall' = {}
  <2>1. LastCall => Cardinality(InCall') = 0
    BY <1>4, <1>5, CardOf DEF LastCall, LimiterInv, Counted
  <2>2. InCall' \in SUBSET Calls BY <1>3, <1>4
  <2> QED BY <2>1, <2>2, CardOf
<1>8. idle = TRUE => InCall = {} BY DEF LimiterInv, Drained
<1>9. idle' \in BOOLEAN /\ (idle = TRUE => idle' = TRUE)
      /\ (idle' = TRUE => idle = TRUE \/ LastCall)
  BY <1>1 DEF LimiterInv
<1>10. Drained'
  BY <1>3, <1>7, <1>8, <1>9 DEF LimiterInv, Drained
<1> QED BY <1>2, <1>6, <1>9, <1>10 DEF LimiterInv

LEMMA LimiterCallStep ==
  ASSUME LimiterInv, NEW c \in Calls,
         \/ PassGate(c) \/ TakeSlot(c) \/ Retry(c)
         \/ Succeed(c) \/ Fail(c) \/ GiveUp(c)
  PROVE  LimiterInv'
<1>1. CASE PassGate(c)
  <2>1. stage[c] \in Inside /\ UNCHANGED <<admitted, idle, limiter>>
    BY <1>1 DEF PassGate, Inside
  <2>2. \E s \in Inside : stage' = [stage EXCEPT ![c] = s]
    BY <1>1, GlobalStage DEF PassGate
  <2> QED BY <2>1, <2>2, StayStep
<1>2. CASE TakeSlot(c)
  <2>1. stage[c] \in Inside /\ UNCHANGED <<admitted, idle, limiter>>
        /\ "running" \in Inside /\ stage' = [stage EXCEPT ![c] = "running"]
    BY <1>2 DEF TakeSlot, Inside
  <2> QED BY <2>1, StayStep
<1>3. CASE Retry(c)
  <2>1. stage[c] \in Inside /\ UNCHANGED <<admitted, idle, limiter>>
    BY <1>3 DEF Retry, Inside
  <2>2. \E s \in Inside : stage' = [stage EXCEPT ![c] = s]
    BY <1>3, DispatchStage DEF Retry
  <2> QED BY <2>1, <2>2, StayStep
<1>4. CASE Succeed(c)
  BY <1>4, EndStep DEF Succeed, Inside
<1>5. CASE Fail(c)
  <2>1. stage[c] \in Inside /\ UNCHANGED limiter BY <1>5 DEF Fail, Inside
  <2>2. CASE EndCall(c) BY <2>1, <2>2, EndStep
  <2>3. CASE stage' = [stage EXCEPT ![c] = "pause"] /\ UNCHANGED <<admitted, idle>>
    <3>1. "pause" \in Inside BY DEF Inside
    <3> QED BY <2>1, <2>3, <3>1, StayStep
  <2> QED BY <1>5, <2>2, <2>3 DEF Fail
<1>6. CASE GiveUp(c)
  BY <1>6, EndStep DEF GiveUp, Inside
<1> QED BY <1>1, <1>2, <1>3, <1>4, <1>5, <1>6

LEMMA RefuseStep ==
  ASSUME LimiterInv, NEW c \in Calls, RefuseCall(c)
  PROVE  LimiterInv'
<1>1. stage[c] = "new" /\ stage' = [stage EXCEPT ![c] = "left"]
      /\ UNCHANGED <<admitted, idle, limiter>>
  BY DEF RefuseCall
<1>2. stage' \in [Calls -> Stages] /\ InCall' = InCall
  BY <1>1 DEF LimiterInv, Stages, InCall, Inside
<1> QED BY <1>1, <1>2 DEF LimiterInv, Counted, Drained

LEMMA CloseStep ==
  ASSUME LimiterInv, CooldownExpires \/ CloseLimiter \/ LimiterCloses
  PROVE  LimiterInv'
<1>1. UNCHANGED <<stage, admitted>>
  BY DEF CooldownExpires, CloseLimiter, LimiterCloses, calls
<1>2. InCall' = InCall BY <1>1 DEF InCall
<1>3. CASE CooldownExpires
  BY <1>1, <1>2, <1>3 DEF CooldownExpires, LimiterInv, Counted, Drained
<1>4. CASE CloseLimiter
  <2>1. limiter' = "closing" /\ idle' = (idle \/ admitted = 0)
    BY <1>4 DEF CloseLimiter
  <2>2. admitted = 0 => InCall = {}
    <3>1. InCall \in SUBSET Calls BY DEF InCall
    <3> QED BY <3>1, CardOf DEF LimiterInv, Counted
  <2>3. idle' \in BOOLEAN /\ (idle' = TRUE => idle = TRUE \/ admitted = 0)
    BY <2>1 DEF LimiterInv
  <2> QED BY <1>1, <1>2, <2>1, <2>2, <2>3 DEF LimiterInv, Counted, Drained
<1>5. CASE LimiterCloses
  BY <1>1, <1>2, <1>5 DEF LimiterCloses, LimiterInv, Counted, Drained
<1> QED BY <1>3, <1>4, <1>5

\* LimiterInv is inductive (services/limits.py: the admission counter and the event).
THEOREM LimiterInvariance == LimiterSpec => []LimiterInv
<1>1. LimiterInv /\ [LimiterNext]_limiterVars => LimiterInv'
  <2> SUFFICES ASSUME LimiterInv, [LimiterNext]_limiterVars PROVE LimiterInv'
    OBVIOUS
  <2>1. CASE UNCHANGED limiterVars
    BY <2>1 DEF limiterVars, calls, LimiterInv, Counted, Drained, InCall
  <2> QED
    BY <2>1, AdmitStep, LimiterCallStep, RefuseStep, CloseStep DEF LimiterNext
<1> QED BY LimiterInitInv, <1>1, PTL DEF LimiterSpec

\* When close() has returned no call waits, runs or pauses before a retry.
THEOREM ClosedMeansDrainedHolds == LimiterSpec => []ClosedMeansDrained
<1>1. LimiterInv => ClosedMeansDrained
  BY DEF LimiterInv, Drained, InCall, Stages, Inside, ClosedMeansDrained
<1> QED BY LimiterInvariance, <1>1, PTL

-----------------------------------------------------------------------------
(* A semaphore with n permits, for which the calls in W wait and of which  *)
(* those in H hold a permit.                                               *)

Held(s, n, W, H) ==
  /\ s = [free |-> s.free, waiting |-> s.waiting, granted |-> s.granted]
  /\ s.free \in Nat /\ s.waiting \in Seq(Calls)
  /\ W \in SUBSET Calls /\ H \in SUBSET Calls /\ s.granted \in SUBSET W
  /\ \A i, j \in 1 .. Len(s.waiting) : s.waiting[i] = s.waiting[j] => i = j
  /\ \A i \in 1 .. Len(s.waiting) : s.waiting[i] \in W \ s.granted
  /\ \A c \in W \ s.granted : \E i \in 1 .. Len(s.waiting) : s.waiting[i] = c
  /\ s.free + Cardinality(s.granted) + Cardinality(H) = n

Sound(s, n, W, H) == Held(s, n, W, H) /\ HandsOn(s)

\* Handing on what is free keeps the books, and leaves no permit lying free
\* beside a queue.
LEMMA HandedOnIsSound ==
  ASSUME NEW s, NEW n \in Nat, NEW W, NEW H, Held(s, n, W, H)
  PROVE  Sound(HandedOn(s), n, W, H)
<1> DEFINE w == s.waiting
           k == Len(w)
           m == IF s.free < k THEN s.free ELSE k
           M == {w[i] : i \in 1 .. m}
           r == SubSeq(w, m + 1, k)
           t == [free |-> s.free - m, waiting |-> r, granted |-> s.granted \cup M]
<1>1. w \in Seq(Calls) /\ k \in Nat /\ s.free \in Nat
  BY DEF Held
<1>2. m \in Nat /\ m <= k /\ m <= s.free /\ (m = s.free \/ m = k)
  BY <1>1
<1>3. HandedOn(s) = t
  BY DEF HandedOn
<1>4. /\ \A i, j \in 1 .. k : w[i] = w[j] => i = j
      /\ \A i \in 1 .. k : w[i] \in W \ s.granted
      /\ \A e \in W \ s.granted : \E i \in 1 .. k : w[i] = e
      /\ W \in SUBSET Calls /\ H \in SUBSET Calls /\ s.granted \in SUBSET W
      /\ s.free + Cardinality(s.granted) + Cardinality(H) = n
  BY DEF Held
<1> HIDE DEF m
<1>5. r \in Seq(Calls) /\ Len(r) = k - m /\ \A i \in 1 .. k - m : r[i] = w[m + i]
  BY <1>1, <1>2
<1>6. /\ t = [free |-> t.free, waiting |-> t.waiting, granted |-> t.granted]
      /\ t.free = s.free - m /\ t.waiting = r /\ t.granted = s.granted \cup M
  OBVIOUS
<1> HIDE DEF t, r, w, k
<1>7. M \in SUBSET (W \ s.granted)
  BY <1>1, <1>2, <1>4
<1>8. Cardinality(M) = m /\ IsFiniteSet(M)
  <2> DEFINE f == [i \in 1 .. m |-> w[i]]
  <2>1. f \in [1 .. m -> M] /\ \A e \in M : \E i \in 1 .. m : f[i] = e
    OBVIOUS
  <2>2. \A i, j \in 1 .. m : f[i] = f[j] => i = j
    BY <1>1, <1>2, <1>4
  <2>3. ExistsBijection(1 .. m, M)
    <3> DEFINE D == 1 .. m
    <3>0. f \in [D -> M] /\ (\A i, j \in D : f[i] = f[j] => i = j)
          /\ \A e \in M : \E i \in D : f[i] = e
      BY <2>1, <2>2
    <3> HIDE DEF f, M, D
    <3>1. f \in Injection(D, M)
      BY <3>0 DEF Injection, IsInjective
    <3>2. f \in Surjection(D, M)
      BY <3>0 DEF Surjection
    <3>3. ExistsBijection(D, M)
      BY <3>1, <3>2 DEF ExistsBijection, Bijection
    <3> QED
      BY <3>3 DEF D
  <2>4. IsFiniteSet(1 .. m) /\ Cardinality(1 .. m) = m
    BY <1>2, FS_Interval
  <2> HIDE DEF M
  <2> QED
    BY <2>3, <2>4, FS_Bijection
<1>9. Cardinality(s.granted \cup M) = Cardinality(s.granted) + m
      /\ Cardinality(s.granted) \in Nat /\ Cardinality(H) \in Nat
  <2>1. s.granted \in SUBSET Calls /\ s.granted \cap M = {} /\ H \in SUBSET Calls
    BY <1>4, <1>7
  <2>2. IsFiniteSet(s.granted) /\ Cardinality(s.granted) \in Nat /\ Cardinality(H) \in Nat
    BY <2>1, CardOf
  <2> HIDE DEF M
  <2> QED
    BY <1>2, <1>8, <2>1, <2>2, FS_Union, FS_EmptySet
<1>10. t.free \in Nat /\ t.free + Cardinality(t.granted) + Cardinality(H) = n
  <2> HIDE DEF M
  <2> QED
    BY <1>1, <1>2, <1>4, <1>6, <1>9
<1> DEFINE l == k - m
<1>11. l \in Nat /\ Len(r) = l /\ \A i \in 1 .. l : m + i \in 1 .. k /\ ~(m + i <= m)
  BY <1>1, <1>2, <1>5
<1>12. \A i, j \in 1 .. l : r[i] = r[j] => i = j
  <2> SUFFICES ASSUME NEW i \in 1 .. l, NEW j \in 1 .. l, r[i] = r[j] PROVE i = j
    OBVIOUS
  <2>1. w[m + i] = w[m + j]
    BY <1>5
  <2>2. m + i = m + j
    BY <1>4, <1>11, <2>1
  <2> QED
    BY <1>2, <2>2
<1>13. \A i \in 1 .. l : r[i] \in W \ (s.granted \cup M)
  <2> SUFFICES ASSUME NEW i \in 1 .. l PROVE r[i] \in W \ (s.granted \cup M)
    OBVIOUS
  <2>1. r[i] = w[m + i] /\ m + i \in 1 .. k
    BY <1>5, <1>11
  <2>2. \A j \in 1 .. m : j \in 1 .. k /\ j # m + i
    BY <1>1, <1>2, <1>11
  <2> QED
    BY <1>4, <2>1, <2>2
<1>14. \A e \in W \ (s.granted \cup M) : \E i \in 1 .. l : r[i] = e
  <2> SUFFICES ASSUME NEW e \in W \ (s.granted \cup M)
               PROVE  \E i \in 1 .. l : r[i] = e
    OBVIOUS
  <2>1. PICK j \in 1 .. k : w[j] = e
    BY <1>4
  <2>2. j \notin 1 .. m
    BY <2>1
  <2>3. j - m \in 1 .. l /\ m + (j - m) = j
    BY <1>1, <1>2, <2>2
  <2> QED
    BY <1>5, <2>1, <2>3
<1>15. HandsOn(t)
  <2>1. CASE m = s.free
    BY <1>1, <1>6, <2>1 DEF HandsOn
  <2>2. CASE m = k
    <3>1. Len(r) = 0
      BY <1>1, <1>5, <2>2
    <3>2. r = <<>>
      BY <1>5, <3>1, EmptySeq
    <3> QED
      BY <1>6, <3>2 DEF HandsOn
  <2> QED
    BY <1>2, <2>1, <2>2
<1> HIDE DEF l, M
<1>16. Held(t, n, W, H)
  <2>1. W \in SUBSET Calls /\ H \in SUBSET Calls /\ t.granted \in SUBSET W
    BY <1>4, <1>6, <1>7
  <2>2. /\ \A i, j \in 1 .. Len(t.waiting) : t.waiting[i] = t.waiting[j] => i = j
        /\ \A i \in 1 .. Len(t.waiting) : t.waiting[i] \in W \ t.granted
        /\ \A e \in W \ t.granted : \E i \in 1 .. Len(t.waiting) : t.waiting[i] = e
    BY <1>6, <1>11, <1>12, <1>13, <1>14
  <2> QED
    BY <1>5, <1>6, <1>10, <2>1, <2>2 DEF Held
<1> QED
  BY <1>3, <1>15, <1>16 DEF Sound

LEMMA SoundNew ==
  ASSUME NEW n \in Nat PROVE Sound(Semaphore(n), n, {}, {})
<1>1. Cardinality({}) = 0
  BY FS_EmptySet
<1> QED
  BY <1>1 DEF Sound, Held, HandsOn, Semaphore

LEMMA SoundAcquired ==
  ASSUME NEW s, NEW n \in Nat, NEW W, NEW H, Sound(s, n, W, H), ~Locked(s),
         NEW c \in Calls, c \notin H
  PROVE  Sound(Acquired(s), n, W, H \cup {c})
<1>1. Cardinality(H \cup {c}) = Cardinality(H) + 1 /\ Cardinality(H) \in Nat
      /\ Cardinality(s.granted) \in Nat
  BY CardOf DEF Sound, Held
<1>2. s.free \in Nat /\ s.free # 0
  BY DEF Sound, Held, Locked
<1> DEFINE t == [free |-> s.free - 1, waiting |-> s.waiting, granted |-> s.granted]
<1>3. Acquired(s) = t
  BY DEF Sound, Held, Acquired
<1>4. s.free - 1 \in Nat
      /\ (s.free - 1) + Cardinality(s.granted) + Cardinality(H \cup {c}) = n
  BY <1>1, <1>2 DEF Sound, Held
<1>5. HandsOn(t)
  BY DEF Locked, HandsOn
<1> QED
  BY <1>3, <1>4, <1>5 DEF Sound, Held

LEMMA SoundQueued ==
  ASSUME NEW s, NEW n \in Nat, NEW W, NEW H, Sound(s, n, W, H), Locked(s),
         NEW c \in Calls, c \notin W
  PROVE  Sound(Queued(s, c), n, W \cup {c}, H)
<1> DEFINE q == Append(s.waiting, c)
           k == Len(s.waiting)
<1>1. Queued(s, c) = [free |-> s.free, waiting |-> q, granted |-> s.granted]
  BY DEF Sound, Held, Queued
<1>2. /\ q \in Seq(Calls) /\ k \in Nat /\ Len(q) = k + 1 /\ q[k + 1] = c
      /\ \A i \in 1 .. k : q[i] = s.waiting[i]
  BY DEF Sound, Held
<1>3. \A i \in 1 .. k + 1 : i \in 1 .. k \/ i = k + 1
  BY <1>2
<1> HIDE DEF q, k
<1>4. \A i \in 1 .. k : q[i] \in W \ s.granted /\ q[i] # c
  BY <1>2 DEF Sound, Held, k
<1>5. \A i, j \in 1 .. k + 1 : q[i] = q[j] => i = j
  <2>1. \A i, j \in 1 .. k : q[i] = q[j] => i = j
    BY <1>2 DEF Sound, Held, k
  <2> QED
    BY <1>2, <1>3, <1>4, <2>1
<1>6. \A i \in 1 .. k + 1 : q[i] \in (W \cup {c}) \ s.granted
  BY <1>2, <1>3, <1>4 DEF Sound, Held
<1>7. \A d \in (W \cup {c}) \ s.granted : \E i \in 1 .. k + 1 : q[i] = d
  <2>1. k + 1 \in 1 .. k + 1 /\ \A i \in 1 .. k : i \in 1 .. k + 1
    BY <1>2
  <2>2. \A d \in W \ s.granted : \E i \in 1 .. k : q[i] = d
    BY <1>2 DEF Sound, Held, k
  <2> QED
    BY <1>2, <2>1, <2>2
<1> DEFINE t == [free |-> s.free, waiting |-> q, granted |-> s.granted]
<1>8. HandsOn(t)
  BY DEF Sound, HandsOn, Locked
<1>9. Held(t, n, W \cup {c}, H)
  BY <1>2, <1>5, <1>6, <1>7 DEF Sound, Held
<1> QED
  BY <1>1, <1>8, <1>9 DEF Sound

LEMMA SoundResumed ==
  ASSUME NEW s, NEW n \in Nat, NEW W, NEW H, Sound(s, n, W, H),
         NEW c \in s.granted, c \notin H
  PROVE  Sound(Resumed(s, c), n, W \ {c}, H \cup {c})
<1>1. c \in Calls /\ s.granted \in SUBSET Calls
  BY DEF Sound, Held
<1>2. /\ Cardinality(H \cup {c}) = Cardinality(H) + 1 /\ Cardinality(H) \in Nat
      /\ Cardinality(s.granted \ {c}) = Cardinality(s.granted) - 1
      /\ Cardinality(s.granted) \in Nat
  BY <1>1, CardOf DEF Sound, Held
<1> DEFINE t == [free |-> s.free, waiting |-> s.waiting, granted |-> s.granted \ {c}]
<1>3. Resumed(s, c) = HandedOn(t)
  <2>1. s = [free |-> s.free, waiting |-> s.waiting, granted |-> s.granted]
    BY DEF Sound, Held
  <2>2. [s EXCEPT !.granted = @ \ {c}] = t
    BY <2>1
  <2> QED
    BY <2>2 DEF Resumed
<1>4. s.free + Cardinality(s.granted \ {c}) + Cardinality(H \cup {c}) = n
  BY <1>2 DEF Sound, Held
<1>5. (W \ {c}) \ (s.granted \ {c}) = W \ s.granted
  OBVIOUS
<1>6. t = [free |-> t.free, waiting |-> t.waiting, granted |-> t.granted]
      /\ t.free = s.free /\ t.waiting = s.waiting /\ t.granted = s.granted \ {c}
  OBVIOUS
<1> HIDE DEF t
<1>7. Held(t, n, W \ {c}, H \cup {c})
  BY <1>1, <1>4, <1>5, <1>6 DEF Sound, Held
<1> QED
  BY <1>3, <1>7, HandedOnIsSound

LEMMA SoundReleased ==
  ASSUME NEW s, NEW n \in Nat, NEW W, NEW H, Sound(s, n, W, H), NEW c \in H
  PROVE  Sound(Released(s), n, W, H \ {c})
<1> DEFINE w == s.waiting
<1>1. /\ Cardinality(H \ {c}) = Cardinality(H) - 1 /\ Cardinality(H) \in Nat
      /\ Cardinality(s.granted) \in Nat /\ s.free \in Nat
      /\ s.free + Cardinality(s.granted) + Cardinality(H) = n
  BY CardOf DEF Sound, Held
<1>2. CASE w = <<>>
  <2>1. Released(s) = [free |-> s.free + 1, waiting |-> w, granted |-> s.granted]
    BY <1>2 DEF Sound, Held, Released
  <2>2. s.free + 1 \in Nat
        /\ (s.free + 1) + Cardinality(s.granted) + Cardinality(H \ {c}) = n
    BY <1>1
  <2> QED
    BY <1>2, <2>1, <2>2 DEF Sound, Held, HandsOn
<1>3. CASE w # <<>>
  <2> DEFINE d == Head(w)
             r == Tail(w)
             k == Len(w)
  <2>1. /\ w \in Seq(Calls) /\ k \in Nat /\ k # 0 /\ d = w[1] /\ 1 \in 1 .. k
        /\ r \in Seq(Calls) /\ Len(r) = k - 1 /\ \A i \in 1 .. k - 1 : r[i] = w[i + 1]
    BY <1>3 DEF Sound, Held
  <2>2. Released(s) = [free |-> s.free, waiting |-> r, granted |-> s.granted \cup {d}]
    BY <1>3 DEF Sound, Held, Released
  <2>3. /\ \A i, j \in 1 .. k : w[i] = w[j] => i = j
        /\ \A i \in 1 .. k : w[i] \in W \ s.granted
        /\ \A e \in W \ s.granted : \E i \in 1 .. k : w[i] = e
    BY DEF Sound, Held
  <2> HIDE DEF w, d, r, k
  <2>4. d \in W \ s.granted
    BY <2>1, <2>3
  <2>5. \A i \in 1 .. k - 1 : i + 1 \in 1 .. k /\ i + 1 # 1
    BY <2>1
  <2>6. \A i, j \in 1 .. k - 1 : r[i] = r[j] => i = j
    <3> SUFFICES ASSUME NEW i \in 1 .. k - 1, NEW j \in 1 .. k - 1, r[i] = r[j] PROVE i = j
      OBVIOUS
    <3>1. w[i + 1] = w[j + 1]
      BY <2>1
    <3>2. i + 1 = j + 1
      BY <2>3, <2>5, <3>1
    <3> QED
      BY <3>2
  <2>7. \A i \in 1 .. k - 1 : r[i] \in W \ (s.granted \cup {d})
    <3> SUFFICES ASSUME NEW i \in 1 .. k - 1 PROVE r[i] \in W \ (s.granted \cup {d})
      OBVIOUS
    <3>1. r[i] = w[i + 1] /\ i + 1 \in 1 .. k /\ i + 1 # 1
      BY <2>1, <2>5
    <3> QED
      BY <2>1, <2>3, <3>1
  <2>8. \A e \in W \ (s.granted \cup {d}) : \E i \in 1 .. k - 1 : r[i] = e
    <3> SUFFICES ASSUME NEW e \in W \ (s.granted \cup {d})
                 PROVE  \E i \in 1 .. k - 1 : r[i] = e
      OBVIOUS
    <3>1. PICK j \in 1 .. k : w[j] = e
      BY <2>3
    <3>2. j # 1
      BY <2>1, <3>1
    <3>3. j - 1 \in 1 .. k - 1 /\ (j - 1) + 1 = j
      BY <2>1, <3>2
    <3> QED
      BY <2>1, <3>1, <3>3
  <2>9. Cardinality(s.granted \cup {d}) = Cardinality(s.granted) + 1
    <3>1. s.granted \in SUBSET Calls
      BY DEF Sound, Held
    <3> QED
      BY <2>4, <3>1, CardOf
  <2>10. s.free + Cardinality(s.granted \cup {d}) + Cardinality(H \ {c}) = n
    BY <1>1, <2>9
  <2>11. W \in SUBSET Calls /\ H \ {c} \in SUBSET Calls /\ s.granted \cup {d} \in SUBSET W
    BY <2>4 DEF Sound, Held
  <2> DEFINE t == [free |-> s.free, waiting |-> r, granted |-> s.granted \cup {d}]
  <2>12. t = [free |-> t.free, waiting |-> t.waiting, granted |-> t.granted]
         /\ t.free = s.free /\ t.waiting = r /\ t.granted = s.granted \cup {d}
    OBVIOUS
  <2>13. Released(s) = t
    BY <2>2
  <2> DEFINE m == k - 1
  <2>14. Len(t.waiting) = m
    BY <2>1, <2>12
  <2> HIDE DEF t, m
  <2>15. Sound(t, n, W, H \ {c})
    <3>1. /\ \A i, j \in 1 .. m : t.waiting[i] = t.waiting[j] => i = j
          /\ \A i \in 1 .. m : t.waiting[i] \in W \ t.granted
          /\ \A e \in W \ t.granted : \E i \in 1 .. m : t.waiting[i] = e
      BY <2>6, <2>7, <2>8, <2>12 DEF m
    <3>2. t.free \in Nat /\ t.waiting \in Seq(Calls)
          /\ t.free + Cardinality(t.granted) + Cardinality(H \ {c}) = n
      BY <1>1, <2>1, <2>10, <2>12
    <3>3. HandsOn(t)
      BY <2>12 DEF HandsOn
    <3> QED
      BY <2>11, <2>12, <2>14, <3>1, <3>2, <3>3 DEF Sound, Held
  <2> QED
    BY <2>13, <2>15
<1> QED
  BY <1>2, <1>3

LEMMA SoundAbandoned ==
  ASSUME NEW s, NEW n \in Nat, NEW W, NEW H, Sound(s, n, W, H), NEW c \in W, c \notin H
  PROVE  Sound(Abandoned(s, c), n, W \ {c}, H)
<1>1. CASE c \in s.granted
  <2> DEFINE t == [free |-> s.free + 1, waiting |-> s.waiting, granted |-> s.granted \ {c}]
  <2>1. Abandoned(s, c) = HandedOn(t)
    BY <1>1 DEF Abandoned
  <2>2. /\ s.free \in Nat /\ s.granted \in SUBSET Calls /\ H \in SUBSET Calls
        /\ s.free + Cardinality(s.granted) + Cardinality(H) = n
    BY DEF Sound, Held
  <2>3. Cardinality(s.granted \ {c}) = Cardinality(s.granted) - 1
        /\ Cardinality(s.granted) \in Nat /\ Cardinality(H) \in Nat
    BY <1>1, <2>2, CardOf
  <2>4. s.free + 1 \in Nat
        /\ (s.free + 1) + Cardinality(s.granted \ {c}) + Cardinality(H) = n
    BY <2>2, <2>3
  <2>5. (W \ {c}) \ (s.granted \ {c}) = W \ s.granted
    BY <1>1
  <2>6. t = [free |-> t.free, waiting |-> t.waiting, granted |-> t.granted]
        /\ t.free = s.free + 1 /\ t.waiting = s.waiting /\ t.granted = s.granted \ {c}
    OBVIOUS
  <2> HIDE DEF t
  <2>7. Held(t, n, W \ {c}, H)
    BY <2>4, <2>5, <2>6 DEF Sound, Held
  <2> QED
    BY <2>1, <2>7, HandedOnIsSound
<1>2. CASE c \notin s.granted
  <2> DEFINE w == s.waiting
             k == Len(w)
             p == CHOOSE i \in DOMAIN w : w[i] = c
             r == SubSeq(w, 1, p - 1) \o SubSeq(w, p + 1, Len(w))
  <2>1. w \in Seq(Calls) /\ k \in Nat /\ DOMAIN w = 1 .. k
    BY DEF Sound, Held
  <2>2. /\ \A i, j \in 1 .. k : w[i] = w[j] => i = j
        /\ \A i \in 1 .. k : w[i] \in W \ s.granted
        /\ \A e \in W \ s.granted : \E i \in 1 .. k : w[i] = e
    BY DEF Sound, Held
  <2>3. p \in 1 .. k /\ w[p] = c
    BY <1>2, <2>1, <2>2
  <2> DEFINE t == [free |-> s.free, waiting |-> r, granted |-> s.granted]
  <2>4. Abandoned(s, c) = HandedOn(t)
    <3>1. s = [free |-> s.free, waiting |-> s.waiting, granted |-> s.granted]
      BY DEF Sound, Held
    <3>2. r = Others(s, c)
      BY DEF Others
    <3> HIDE DEF r
    <3>3. [s EXCEPT !.waiting = r] = t
      BY <3>1
    <3> QED
      BY <1>2, <3>2, <3>3 DEF Abandoned
  <2> HIDE DEF p
  <2>5. /\ r \in Seq(Calls) /\ Len(r) = k - 1
        /\ \A i \in 1 .. k - 1 : r[i] = w[IF i < p THEN i ELSE i + 1]
    <3> DEFINE u == SubSeq(w, 1, p - 1)
               v == SubSeq(w, p + 1, Len(w))
    <3>1. u \in Seq(Calls) /\ Len(u) = p - 1 /\ \A i \in 1 .. p - 1 : u[i] = w[i]
      BY <2>1, <2>3
    <3>2. v \in Seq(Calls) /\ Len(v) = k - p /\ \A i \in 1 .. k - p : v[i] = w[p + i]
      BY <2>1, <2>3
    <3> HIDE DEF u, v
    <3>3. u \o v \in Seq(Calls) /\ Len(u \o v) = Len(u) + Len(v)
          /\ \A i \in 1 .. Len(u) + Len(v) :
               (u \o v)[i] = IF i <= Len(u) THEN u[i] ELSE v[i - Len(u)]
      BY <3>1, <3>2, ConcatProperties
    <3>4. \A i \in 1 .. Len(u) + Len(v) :
            (u \o v)[i] = IF i <= Len(u) THEN u[i] ELSE v[i - Len(u)]
      BY <3>3
    <3>5. \A i \in 1 .. k - 1 : (u \o v)[i] = w[IF i < p THEN i ELSE i + 1]
      <4> SUFFICES ASSUME NEW i \in 1 .. k - 1
                   PROVE  (u \o v)[i] = w[IF i < p THEN i ELSE i + 1]
        OBVIOUS
      <4>1. i \in 1 .. Len(u) + Len(v)
        BY <2>1, <2>3, <3>1, <3>2
      <4>2. CASE i < p
        <5>1. i \in 1 .. p - 1
          BY <2>1, <2>3, <4>2
        <5> QED
          BY <3>1, <3>4, <4>1, <4>2, <5>1
      <4>3. CASE ~(i < p)
        <5>1. i - (p - 1) \in 1 .. k - p /\ p + (i - (p - 1)) = i + 1 /\ ~(i <= p - 1)
          BY <2>1, <2>3, <4>3
        <5>2. (u \o v)[i] = v[i - (p - 1)]
          BY <3>1, <3>4, <4>1, <5>1
        <5>3. v[i - (p - 1)] = w[p + (i - (p - 1))]
          BY <3>2, <5>1
        <5> QED
          BY <4>3, <5>1, <5>2, <5>3
      <4> QED
        BY <4>2, <4>3
    <3>6. u \o v \in Seq(Calls) /\ Len(u \o v) = k - 1
      <4>1. (p - 1) + (k - p) = k - 1
        BY <2>1, <2>3
      <4> QED
        BY <3>1, <3>2, <3>3, <4>1
    <3>7. r = u \o v
      BY DEF u, v
    <3> QED
      BY <3>5, <3>6, <3>7
  <2> HIDE DEF w, k, r
  <2> DEFINE at(i) == IF i < p THEN i ELSE i + 1
  <2>6. \A i \in 1 .. k - 1 : at(i) \in 1 .. k /\ at(i) # p /\ r[i] = w[at(i)]
    BY <2>1, <2>3, <2>5
  <2>7. \A i, j \in 1 .. k - 1 : r[i] = r[j] => i = j
    <3> SUFFICES ASSUME NEW i \in 1 .. k - 1, NEW j \in 1 .. k - 1, r[i] = r[j] PROVE i = j
      OBVIOUS
    <3>1. at(i) = at(j)
      BY <2>2, <2>6
    <3> QED
      BY <2>1, <2>3, <3>1
  <2>8. \A i \in 1 .. k - 1 : r[i] \in (W \ {c}) \ s.granted
    <3> HIDE DEF at
    <3> QED
      BY <2>2, <2>3, <2>6
  <2>9. \A e \in (W \ {c}) \ s.granted : \E i \in 1 .. k - 1 : r[i] = e
    <3> SUFFICES ASSUME NEW e \in (W \ {c}) \ s.granted
                 PROVE  \E i \in 1 .. k - 1 : r[i] = e
      OBVIOUS
    <3>1. PICK j \in 1 .. k : w[j] = e
      BY <2>2
    <3>2. j # p
      BY <2>3, <3>1
    <3>3. \E i \in 1 .. k - 1 : at(i) = j
      <4>1. CASE j < p
        BY <2>1, <2>3, <4>1
      <4>2. CASE ~(j < p)
        <5>1. j - 1 \in 1 .. k - 1 /\ ~(j - 1 < p) /\ (j - 1) + 1 = j
          BY <2>1, <2>3, <3>2, <4>2
        <5> QED
          BY <5>1
      <4> QED
        BY <4>1, <4>2
    <3> HIDE DEF at
    <3> QED
      BY <2>6, <3>1, <3>3
  <2>10. Len(r) = k - 1 /\ r \in Seq(Calls) /\ s.granted \in SUBSET (W \ {c})
    BY <1>2, <2>5 DEF Sound, Held
  <2>11. Held(t, n, W \ {c}, H)
    BY <2>7, <2>8, <2>9, <2>10 DEF Sound, Held
  <2> QED
    BY <2>4, <2>11, HandedOnIsSound
<1> QED
  BY <1>1, <1>2

-----------------------------------------------------------------------------
(* The gates and the pool, and the calls at each.                          *)

Taking == {"gate", "slot", "running"}

UsersOf(g) == {c \in Calls : gate[c] = g}
WaitersOf(g) == {c \in Calls : gate[c] = g /\ stage[c] = "gate"}
Waiting == {c \in Calls : stage[c] = "slot"}
Running == {c \in Calls : stage[c] = "running"}

LimiterShape ==
  /\ stage \in [Calls -> Stages]
  /\ actor \in [Calls -> Actors]
  /\ gate \in [Calls -> Gates]
  /\ gates \in [Actors -> Gates]
  /\ gateRefs = [g \in Calls |-> gateRefs[g]]
  /\ gateSem = [g \in Calls |-> gateSem[g]]

\* A call refers to the gate its actor is registered with, or to none.
Belongs ==
  \A c \in Calls : IF stage[c] \in Taking
                     THEN gate[c] = gates[actor[c]] /\ gate[c] # NoGate
                     ELSE gate[c] = NoGate

Named == \A a \in Actors : gates[a] # NoGate => actor[gates[a]] = a

Referred == \A g \in Calls : gateRefs[g] = Cardinality(UsersOf(g))

Gated == \A g \in Calls :
           Sound(gateSem[g], PerActorLimit, WaitersOf(g), HoldersOf(g))

Pooled == Sound(pool, GlobalLimit, Waiting, Running)

Permits == LimiterShape /\ Belongs /\ Named /\ Referred /\ Gated /\ Pooled

LEMMA InitPermits == LimiterInit => Permits
<1> SUFFICES ASSUME LimiterInit PROVE Permits
  OBVIOUS
<1>1. /\ \A c \in Calls : stage[c] = "new" /\ gate[c] = NoGate
      /\ \A a \in Actors : gates[a] = NoGate
      /\ \A c \in Calls : gateRefs[c] = 0 /\ gateSem[c] = Semaphore(PerActorLimit)
      /\ pool = Semaphore(GlobalLimit)
  BY DEF LimiterInit
<1>2. LimiterShape
  BY DEF LimiterInit, LimiterShape, Stages, Gates
<1>3. Belongs /\ Named
  BY <1>1 DEF Belongs, Named, Taking
<1>4. /\ \A g \in Calls : UsersOf(g) = {} /\ WaitersOf(g) = {} /\ HoldersOf(g) = {}
      /\ Waiting = {} /\ Running = {}
  BY <1>1, LimiterAssumption DEF UsersOf, WaitersOf, HoldersOf, Waiting, Running
<1>5. Referred
  BY <1>1, <1>4, FS_EmptySet DEF Referred
<1>6. Gated /\ Pooled
  BY <1>1, <1>4, SoundNew, LimiterAssumption DEF Gated, Pooled
<1> QED
  BY <1>2, <1>3, <1>5, <1>6 DEF Permits

\* What moving c to another stage, and to another gate, does to the sets.
LEMMA Moved ==
  ASSUME LimiterShape, NEW c \in Calls, NEW s, NEW g,
         stage' = [stage EXCEPT ![c] = s], gate' = [gate EXCEPT ![c] = g]
  PROVE  /\ \A h \in Calls :
              /\ UsersOf(h)' = IF h = g THEN UsersOf(h) \cup {c} ELSE UsersOf(h) \ {c}
              /\ WaitersOf(h)' = IF h = g /\ s = "gate" THEN WaitersOf(h) \cup {c}
                                                        ELSE WaitersOf(h) \ {c}
              /\ HoldersOf(h)' = IF h = g /\ s \in {"slot", "running"}
                                   THEN HoldersOf(h) \cup {c} ELSE HoldersOf(h) \ {c}
         /\ Waiting' = IF s = "slot" THEN Waiting \cup {c} ELSE Waiting \ {c}
         /\ Running' = IF s = "running" THEN Running \cup {c} ELSE Running \ {c}
<1>1. \A d \in Calls : /\ stage'[d] = IF d = c THEN s ELSE stage[d]
                       /\ gate'[d] = IF d = c THEN g ELSE gate[d]
  BY DEF LimiterShape
<1>2. ASSUME NEW h \in Calls
      PROVE  UsersOf(h)' = IF h = g THEN UsersOf(h) \cup {c} ELSE UsersOf(h) \ {c}
  BY <1>1 DEF UsersOf
<1>3. ASSUME NEW h \in Calls
      PROVE  WaitersOf(h)' = IF h = g /\ s = "gate" THEN WaitersOf(h) \cup {c}
                                                    ELSE WaitersOf(h) \ {c}
  BY <1>1 DEF WaitersOf
<1>4. ASSUME NEW h \in Calls
      PROVE  HoldersOf(h)' = IF h = g /\ s \in {"slot", "running"}
                               THEN HoldersOf(h) \cup {c} ELSE HoldersOf(h) \ {c}
  BY <1>1 DEF HoldersOf
<1>5. Waiting' = IF s = "slot" THEN Waiting \cup {c} ELSE Waiting \ {c}
  BY <1>1 DEF Waiting
<1>6. Running' = IF s = "running" THEN Running \cup {c} ELSE Running \ {c}
  BY <1>1 DEF Running
<1> QED
  BY <1>2, <1>3, <1>4, <1>5, <1>6

\* The sets a call is in.
LEMMA Where ==
  ASSUME Permits, NEW c \in Calls, NEW h \in Calls
  PROVE  /\ c \in UsersOf(h) <=> gate[c] = h
         /\ c \in WaitersOf(h) <=> gate[c] = h /\ stage[c] = "gate"
         /\ c \in HoldersOf(h) <=> gate[c] = h /\ stage[c] \in {"slot", "running"}
         /\ c \in Waiting <=> stage[c] = "slot"
         /\ c \in Running <=> stage[c] = "running"
  BY DEF UsersOf, WaitersOf, HoldersOf, Waiting, Running

-----------------------------------------------------------------------------
(* The pool.                                                               *)

\* With c neither waiting nor running: it takes a permit or waits for one.
LEMMA TakePool ==
  ASSUME Permits, NEW c \in Calls, stage[c] \notin {"slot", "running"}, TakeGlobal(c)
  PROVE  \E s \in {"slot", "running"} : stage' = [stage EXCEPT ![c] = s] /\ Pooled'
<1>1. c \notin Waiting /\ c \notin Running
  BY DEF Waiting, Running
<1>2. Sound(pool, GlobalLimit, Waiting, Running) /\ GlobalLimit \in Nat
  BY LimiterAssumption DEF Permits, Pooled
<1>3. \A d \in Calls : \A s : stage' = [stage EXCEPT ![c] = s] =>
        stage'[d] = IF d = c THEN s ELSE stage[d]
  BY DEF Permits, LimiterShape
<1>4. CASE ~Locked(pool) /\ pool' = Acquired(pool)
           /\ stage' = [stage EXCEPT ![c] = "running"]
  <2>1. Sound(pool', GlobalLimit, Waiting, Running \cup {c})
    BY <1>1, <1>2, <1>4, SoundAcquired
  <2>2. Waiting' = Waiting /\ Running' = Running \cup {c}
    BY <1>1, <1>3, <1>4 DEF Waiting, Running
  <2> QED
    BY <1>4, <2>1, <2>2 DEF Pooled
<1>5. CASE /\ Locked(pool) /\ pool' = Queued(pool, c)
           /\ stage' = [stage EXCEPT ![c] = "slot"]
  <2>1. Sound(pool', GlobalLimit, Waiting \cup {c}, Running)
    BY <1>1, <1>2, <1>5, SoundQueued
  <2>2. Waiting' = Waiting \cup {c} /\ Running' = Running
    BY <1>1, <1>3, <1>5 DEF Waiting, Running
  <2> QED
    BY <1>5, <2>1, <2>2 DEF Pooled
<1> QED
  BY <1>4, <1>5 DEF TakeGlobal

\* A step of a call that neither waits for the pool nor holds its permit,
\* to a stage that does not either.
LEMMA PastPool ==
  ASSUME Permits, NEW c \in Calls, stage[c] \notin {"slot", "running"},
         NEW s, s \notin {"slot", "running"}, stage' = [stage EXCEPT ![c] = s],
         pool' = pool
  PROVE  Pooled'
<1>1. \A d \in Calls : stage'[d] = IF d = c THEN s ELSE stage[d]
  BY DEF Permits, LimiterShape
<1>2. Waiting' = Waiting /\ Running' = Running
  BY <1>1 DEF Waiting, Running
<1> QED
  BY <1>2 DEF Permits, Pooled

\* The end of an attempt, as the pool sees it.
LEMMA LeavePool ==
  ASSUME Permits, NEW c \in Calls, NEW s, s \notin {"slot", "running"},
         stage' = [stage EXCEPT ![c] = s],
         \/ stage[c] = "running" /\ pool' = Released(pool)
         \/ stage[c] = "slot" /\ pool' = Abandoned(pool, c)
         \/ stage[c] \notin {"slot", "running"} /\ pool' = pool
  PROVE  Pooled'
<1>1. Sound(pool, GlobalLimit, Waiting, Running) /\ GlobalLimit \in Nat
  BY LimiterAssumption DEF Permits, Pooled
<1>2. \A d \in Calls : stage'[d] = IF d = c THEN s ELSE stage[d]
  BY DEF Permits, LimiterShape
<1>3. Waiting' = Waiting \ {c} /\ Running' = Running \ {c}
  BY <1>2 DEF Waiting, Running
<1>4. CASE stage[c] = "running" /\ pool' = Released(pool)
  <2>1. c \in Running /\ Waiting \ {c} = Waiting
    BY <1>4 DEF Waiting, Running
  <2>2. Sound(pool', GlobalLimit, Waiting, Running \ {c})
    BY <1>1, <1>4, <2>1, SoundReleased
  <2> QED
    BY <1>3, <2>1, <2>2 DEF Pooled
<1>5. CASE stage[c] = "slot" /\ pool' = Abandoned(pool, c)
  <2>1. c \in Waiting /\ c \notin Running /\ Running \ {c} = Running
    BY <1>5 DEF Waiting, Running
  <2>2. Sound(pool', GlobalLimit, Waiting \ {c}, Running)
    BY <1>1, <1>5, <2>1, SoundAbandoned
  <2> QED
    BY <1>3, <2>1, <2>2 DEF Pooled
<1>6. CASE stage[c] \notin {"slot", "running"} /\ pool' = pool
  BY <1>6, PastPool
<1> QED
  BY <1>4, <1>5, <1>6

-----------------------------------------------------------------------------
(* The gates.                                                              *)

\* A call that refers to no gate begins an attempt.
LEMMA DispatchPermits ==
  ASSUME Permits, NEW c \in Calls, stage[c] \notin Taking, Dispatch(c), UNCHANGED actor
  PROVE  Permits'
<1>0. actor[c] \in Actors /\ gate[c] = NoGate /\ NoGate \notin Calls
  BY LimiterAssumption DEF Permits, LimiterShape, Belongs
<1>1. PICK a \in Actors : a = actor[c]
  BY <1>0
<1>2. PICK g \in Calls : g = GateFor(c) /\ actor[g] = a
  BY <1>0, <1>1 DEF GateFor, Permits, Named, LimiterShape, Gates
<1>3. gates' = [gates EXCEPT ![a] = g] /\ gateRefs' = [gateRefs EXCEPT ![g] = @ + 1]
      /\ gate' = [gate EXCEPT ![c] = g]
  BY <1>1, <1>2 DEF Dispatch
<1>4. gates[a] = NoGate => UsersOf(c) = {} /\ WaitersOf(c) = {} /\ HoldersOf(c) = {}
  <2>1. gates[a] = NoGate => \A d \in Calls : gate[d] # c
    <3> SUFFICES ASSUME NEW d \in Calls, gate[d] = c PROVE gates[a] # NoGate
      OBVIOUS
    <3>1. gates[actor[d]] = c /\ actor[d] \in Actors
      BY <1>0 DEF Permits, Belongs, LimiterShape
    <3>2. actor[d] = a
      BY <1>0, <1>1, <3>1 DEF Permits, Named
    <3> QED
      BY <1>0, <1>1, <3>1, <3>2
  <2> QED
    BY <2>1 DEF UsersOf, WaitersOf, HoldersOf
<1>5. Sound(SemFor(c), PerActorLimit, WaitersOf(g), HoldersOf(g))
  <2>1. PerActorLimit \in Nat
    BY LimiterAssumption
  <2>2. CASE gates[a] = NoGate
    BY <1>1, <1>2, <1>4, <2>1, <2>2, SoundNew DEF SemFor, GateFor
  <2>3. CASE gates[a] # NoGate
    BY <1>1, <1>2, <2>3 DEF SemFor, GateFor, Permits, Gated
  <2> QED
    BY <2>2, <2>3
<1>6. c \notin UsersOf(g) /\ \A h \in Calls : c \notin UsersOf(h) /\ c \notin WaitersOf(h)
                                              /\ c \notin HoldersOf(h)
  BY <1>0, <1>2 DEF UsersOf, WaitersOf, HoldersOf
<1>7. \E s \in Taking : \E t :
        /\ stage' = [stage EXCEPT ![c] = s] /\ Pooled'
        /\ gateSem' = [gateSem EXCEPT ![g] = t]
        /\ Sound(t, PerActorLimit,
                 IF s = "gate" THEN WaitersOf(g) \cup {c} ELSE WaitersOf(g),
                 IF s # "gate" THEN HoldersOf(g) \cup {c} ELSE HoldersOf(g))
  <2>1. CASE /\ ~Locked(SemFor(c))
             /\ gateSem' = [gateSem EXCEPT ![g] = Acquired(SemFor(c))]
             /\ TakeGlobal(c)
    <3>1. PICK s \in {"slot", "running"} : stage' = [stage EXCEPT ![c] = s] /\ Pooled'
      BY <2>1, TakePool DEF Taking
    <3>2. Sound(Acquired(SemFor(c)), PerActorLimit, WaitersOf(g), HoldersOf(g) \cup {c})
      BY <1>2, <1>5, <1>6, <2>1, SoundAcquired, LimiterAssumption
    <3>3. s \in Taking /\ s # "gate"
      BY DEF Taking
    <3> QED
      BY <2>1, <3>1, <3>2, <3>3
  <2>2. CASE /\ Locked(SemFor(c))
             /\ gateSem' = [gateSem EXCEPT ![g] = Queued(SemFor(c), c)]
             /\ stage' = [stage EXCEPT ![c] = "gate"]
             /\ pool' = pool
    <3>1. Pooled'
      BY <2>2, PastPool DEF Taking
    <3>2. Sound(Queued(SemFor(c), c), PerActorLimit, WaitersOf(g) \cup {c}, HoldersOf(g))
      BY <1>2, <1>5, <1>6, <2>2, SoundQueued, LimiterAssumption
    <3>3. "gate" \in Taking
      BY DEF Taking
    <3> QED
      BY <2>2, <3>1, <3>2, <3>3
  <2> QED
    BY <1>2, <2>1, <2>2 DEF Dispatch
<1>8. PICK s \in Taking : \E t :
        /\ stage' = [stage EXCEPT ![c] = s] /\ Pooled'
        /\ gateSem' = [gateSem EXCEPT ![g] = t]
        /\ Sound(t, PerActorLimit,
                 IF s = "gate" THEN WaitersOf(g) \cup {c} ELSE WaitersOf(g),
                 IF s # "gate" THEN HoldersOf(g) \cup {c} ELSE HoldersOf(g))
  BY <1>7
<1>9. PICK t :
        /\ stage' = [stage EXCEPT ![c] = s] /\ Pooled'
        /\ gateSem' = [gateSem EXCEPT ![g] = t]
        /\ Sound(t, PerActorLimit,
                 IF s = "gate" THEN WaitersOf(g) \cup {c} ELSE WaitersOf(g),
                 IF s # "gate" THEN HoldersOf(g) \cup {c} ELSE HoldersOf(g))
  BY <1>8
<1>10. LimiterShape
  BY DEF Permits
<1>11. /\ \A h \in Calls :
            /\ UsersOf(h)' = IF h = g THEN UsersOf(h) \cup {c} ELSE UsersOf(h) \ {c}
            /\ WaitersOf(h)' = IF h = g /\ s = "gate" THEN WaitersOf(h) \cup {c}
                                                      ELSE WaitersOf(h) \ {c}
            /\ HoldersOf(h)' = IF h = g /\ s \in {"slot", "running"}
                                 THEN HoldersOf(h) \cup {c} ELSE HoldersOf(h) \ {c}
  BY <1>3, <1>9, <1>10, Moved
<1>12. \A h \in Calls : /\ UsersOf(h) \ {c} = UsersOf(h) /\ WaitersOf(h) \ {c} = WaitersOf(h)
                         /\ HoldersOf(h) \ {c} = HoldersOf(h)
  BY <1>6
<1>13. \A h \in Calls : h # g => /\ UsersOf(h)' = UsersOf(h) /\ WaitersOf(h)' = WaitersOf(h)
                                /\ HoldersOf(h)' = HoldersOf(h)
  BY <1>11, <1>12
<1>14. /\ UsersOf(g)' = UsersOf(g) \cup {c}
       /\ WaitersOf(g)' = IF s = "gate" THEN WaitersOf(g) \cup {c} ELSE WaitersOf(g)
       /\ HoldersOf(g)' = IF s # "gate" THEN HoldersOf(g) \cup {c} ELSE HoldersOf(g)
  <2>1. s # "gate" => s \in {"slot", "running"}
    BY <1>8 DEF Taking
  <2>2. s = "gate" => s \notin {"slot", "running"}
    OBVIOUS
  <2> QED
    BY <1>2, <1>11, <1>12, <2>1, <2>2
<1>15. Gated'
  <2>1. \A h \in Calls : gateSem'[h] = IF h = g THEN t ELSE gateSem[h]
    BY <1>9, <1>10 DEF LimiterShape
  <2>2. Sound(gateSem'[g], PerActorLimit, WaitersOf(g)', HoldersOf(g)')
    BY <1>2, <1>9, <1>14, <2>1
  <2>3. \A h \in Calls : h # g =>
          Sound(gateSem'[h], PerActorLimit, WaitersOf(h)', HoldersOf(h)')
    BY <1>13, <2>1 DEF Permits, Gated
  <2> QED
    BY <2>2, <2>3 DEF Gated
<1>16. Referred'
  <2>1. \A h \in Calls : gateRefs'[h] = IF h = g THEN gateRefs[g] + 1 ELSE gateRefs[h]
    BY <1>3, <1>10 DEF LimiterShape
  <2>2. Cardinality(UsersOf(g)') = Cardinality(UsersOf(g)) + 1
    <3>1. UsersOf(g) \in SUBSET Calls
      BY DEF UsersOf
    <3> QED
      BY <1>6, <1>14, <3>1, CardOf
  <2>3. ASSUME NEW h \in Calls PROVE gateRefs'[h] = Cardinality(UsersOf(h)')
    <3>1. CASE h = g
      BY <1>2, <2>1, <2>2, <3>1 DEF Permits, Referred
    <3>2. CASE h # g
      BY <1>13, <2>1, <3>2 DEF Permits, Referred
    <3> QED
      BY <3>1, <3>2
  <2> QED
    BY <2>3 DEF Referred
<1>17. LimiterShape'
  <2>1. stage' \in [Calls -> Stages] /\ gates' \in [Actors -> Gates]
    BY <1>0, <1>2, <1>3, <1>9, <1>10 DEF LimiterShape, Stages, Taking, Gates
  <2>2. gate' \in [Calls -> Gates]
    BY <1>2, <1>3, <1>10 DEF LimiterShape, Gates
  <2> QED
    BY <1>3, <1>9, <1>10, <2>1, <2>2 DEF LimiterShape
<1>18. \A b \in Actors : gates'[b] = IF b = a THEN g ELSE gates[b]
  BY <1>3, <1>10 DEF LimiterShape
<1>19. Named'
  BY <1>0, <1>2, <1>18 DEF Permits, Named
<1>20. \A d \in Calls : gates[actor[d]] # NoGate => gates'[actor[d]] = gates[actor[d]]
  BY <1>1, <1>2, <1>10, <1>18 DEF LimiterShape, GateFor
<1>21. Belongs'
  <2>1. \A d \in Calls : /\ stage'[d] = IF d = c THEN s ELSE stage[d]
                         /\ gate'[d] = IF d = c THEN g ELSE gate[d]
    BY <1>3, <1>9, <1>10 DEF LimiterShape
  <2>2. gates'[actor[c]] = g /\ g # NoGate
    BY <1>0, <1>1, <1>2, <1>18
  <2>3. \A d \in Calls \ {c} : IF stage[d] \in Taking
                                 THEN gate[d] = gates'[actor[d]] /\ gate[d] # NoGate
                                 ELSE gate[d] = NoGate
    BY <1>20 DEF Permits, Belongs
  <2> QED
    BY <1>9, <2>1, <2>2, <2>3 DEF Belongs
<1> QED
  BY <1>9, <1>15, <1>16, <1>17, <1>19, <1>21 DEF Permits

\* The gate of a call resumes it: it goes on to the pool.
LEMMA PassPermits ==
  ASSUME Permits, NEW c \in Calls, PassGate(c)
  PROVE  Permits'
<1>1. stage[c] = "gate" /\ gate[c] \in Calls /\ c \in gateSem[gate[c]].granted
  BY DEF PassGate, Permits, LimiterShape, Belongs, Gates, Taking
<1>2. PICK g \in Calls : g = gate[c]
  BY <1>1
<1>3. PICK s : /\ s \in {"slot", "running"} /\ s # "gate"
               /\ stage' = [stage EXCEPT ![c] = s] /\ Pooled'
  BY <1>1, TakePool DEF PassGate
<1>4. /\ gateSem' = [gateSem EXCEPT ![g] = Resumed(gateSem[g], c)]
      /\ UNCHANGED <<actor, gate, gates, gateRefs>>
  BY <1>2 DEF PassGate
<1>5. LimiterShape
  BY DEF Permits
<1>6. gate' = [gate EXCEPT ![c] = g]
  BY <1>2, <1>4, <1>5 DEF LimiterShape
<1>7. \A h \in Calls :
        /\ UsersOf(h)' = IF h = g THEN UsersOf(h) \cup {c} ELSE UsersOf(h) \ {c}
        /\ WaitersOf(h)' = IF h = g /\ s = "gate" THEN WaitersOf(h) \cup {c}
                                                  ELSE WaitersOf(h) \ {c}
        /\ HoldersOf(h)' = IF h = g /\ s \in {"slot", "running"}
                             THEN HoldersOf(h) \cup {c} ELSE HoldersOf(h) \ {c}
  <2>1. stage' = [stage EXCEPT ![c] = s]
    BY <1>3
  <2> QED
    BY <1>5, <1>6, <2>1, Moved
<1>8. /\ c \in UsersOf(g) /\ c \notin HoldersOf(g)
      /\ \A h \in Calls : h # g => c \notin UsersOf(h) /\ c \notin WaitersOf(h)
                                   /\ c \notin HoldersOf(h)
  BY <1>1, <1>2 DEF UsersOf, WaitersOf, HoldersOf
<1>9. UsersOf(g) \cup {c} = UsersOf(g)
      /\ \A h \in Calls : h # g => /\ UsersOf(h) \ {c} = UsersOf(h)
                                   /\ WaitersOf(h) \ {c} = WaitersOf(h)
                                   /\ HoldersOf(h) \ {c} = HoldersOf(h)
  BY <1>8
<1>10. /\ \A h \in Calls : UsersOf(h)' = UsersOf(h)
       /\ \A h \in Calls : h # g => WaitersOf(h)' = WaitersOf(h)
                                    /\ HoldersOf(h)' = HoldersOf(h)
       /\ WaitersOf(g)' = WaitersOf(g) \ {c} /\ HoldersOf(g)' = HoldersOf(g) \cup {c}
  <2>1. s \in {"slot", "running"} /\ s # "gate"
    BY <1>3
  <2> QED
    BY <1>2, <1>7, <1>9, <2>1
<1>11. Gated'
  <2>1. \A h \in Calls : gateSem'[h] = IF h = g THEN Resumed(gateSem[g], c) ELSE gateSem[h]
    BY <1>4, <1>5 DEF LimiterShape
  <2>2. Sound(Resumed(gateSem[g], c), PerActorLimit, WaitersOf(g) \ {c}, HoldersOf(g) \cup {c})
    <3>1. Sound(gateSem[g], PerActorLimit, WaitersOf(g), HoldersOf(g)) /\ PerActorLimit \in Nat
      BY <1>2, LimiterAssumption DEF Permits, Gated
    <3> QED
      BY <1>1, <1>2, <1>8, <3>1, SoundResumed
  <2>3. ASSUME NEW h \in Calls
        PROVE  Sound(gateSem'[h], PerActorLimit, WaitersOf(h)', HoldersOf(h)')
    <3>1. CASE h = g
      BY <1>10, <2>1, <2>2, <3>1
    <3>2. CASE h # g
      BY <1>10, <2>1, <3>2 DEF Permits, Gated
    <3> QED
      BY <3>1, <3>2
  <2> QED
    BY <2>3 DEF Gated
<1>12. Referred'
  BY <1>4, <1>10 DEF Permits, Referred
<1>13. Named'
  BY <1>4 DEF Permits, Named
<1>14. \A d \in Calls : stage'[d] = IF d = c THEN s ELSE stage[d]
  BY <1>3, <1>5 DEF LimiterShape
<1>15. Belongs'
  BY <1>1, <1>3, <1>4, <1>14 DEF Permits, Belongs, Taking
<1>16. LimiterShape'
  BY <1>3, <1>4, <1>5 DEF LimiterShape, Stages
<1> QED
  BY <1>3, <1>11, <1>12, <1>13, <1>15, <1>16 DEF Permits

\* The pool resumes a call.
LEMMA SlotPermits ==
  ASSUME Permits, NEW c \in Calls, TakeSlot(c)
  PROVE  Permits'
<1>1. /\ stage[c] = "slot" /\ c \in pool.granted /\ pool' = Resumed(pool, c)
      /\ stage' = [stage EXCEPT ![c] = "running"]
      /\ UNCHANGED <<actor, gate, gates, gateRefs, gateSem>>
  BY DEF TakeSlot, gating
<1>2. LimiterShape
  BY DEF Permits
<1>3. \A d \in Calls : stage'[d] = IF d = c THEN "running" ELSE stage[d]
  BY <1>1, <1>2 DEF LimiterShape
<1>4. Pooled'
  <2>1. c \notin Running /\ Waiting' = Waiting \ {c} /\ Running' = Running \cup {c}
    BY <1>1, <1>3 DEF Waiting, Running
  <2>2. Sound(pool, GlobalLimit, Waiting, Running) /\ GlobalLimit \in Nat
    BY LimiterAssumption DEF Permits, Pooled
  <2>3. Sound(Resumed(pool, c), GlobalLimit, Waiting \ {c}, Running \cup {c})
    BY <1>1, <2>1, <2>2, SoundResumed
  <2> QED
    BY <1>1, <2>1, <2>3 DEF Pooled
<1>5. \A h \in Calls : /\ UsersOf(h)' = UsersOf(h) /\ WaitersOf(h)' = WaitersOf(h)
                       /\ HoldersOf(h)' = HoldersOf(h)
  <2> SUFFICES ASSUME NEW h \in Calls
               PROVE  /\ UsersOf(h)' = UsersOf(h) /\ WaitersOf(h)' = WaitersOf(h)
                      /\ HoldersOf(h)' = HoldersOf(h)
    OBVIOUS
  <2>1. UsersOf(h)' = UsersOf(h)
    BY <1>1 DEF UsersOf
  <2>2. WaitersOf(h)' = WaitersOf(h)
    BY <1>1, <1>3 DEF WaitersOf
  <2>3. HoldersOf(h)' = HoldersOf(h)
    BY <1>1, <1>3 DEF HoldersOf
  <2> QED
    BY <2>1, <2>2, <2>3
<1>6. Gated' /\ Referred'
  BY <1>1, <1>5 DEF Permits, Gated, Referred
<1>7. Named'
  BY <1>1 DEF Permits, Named
<1>8. Belongs'
  BY <1>1, <1>3 DEF Permits, Belongs, Taking
<1>9. LimiterShape'
  BY <1>1, <1>2 DEF LimiterShape, Stages
<1> QED
  BY <1>4, <1>6, <1>7, <1>8, <1>9 DEF Permits

\* An attempt ends: the call leaves its gate, and the pool.
LEMMA LeavePermits ==
  ASSUME Permits, NEW c \in Calls, stage[c] \in Taking,
         NEW s \in {"left", "pause"}, stage' = [stage EXCEPT ![c] = s],
         NEW t, LeaveGate(c, t), UNCHANGED actor, Pooled',
         \/ stage[c] = "gate" /\ t = Abandoned(gateSem[gate[c]], c)
         \/ stage[c] # "gate" /\ t = Released(gateSem[gate[c]])
  PROVE  Permits'
<1>1. /\ gate[c] \in Calls /\ gate[c] = gates[actor[c]] /\ NoGate \notin Calls
      /\ actor[c] \in Actors
  BY LimiterAssumption DEF Permits, LimiterShape, Belongs, Gates
<1>2. PICK g \in Calls, a \in Actors : g = gate[c] /\ a = actor[c]
  BY <1>1
<1>3. gates[a] = g /\ \A b \in Actors : gates[b] = g => b = a
  BY <1>1, <1>2 DEF Permits, Named
<1>4. /\ gateSem' = [gateSem EXCEPT ![g] = t]
      /\ gateRefs' = [gateRefs EXCEPT ![g] = @ - 1]
      /\ gate' = [gate EXCEPT ![c] = NoGate]
      /\ gates' = IF LastUser(g) THEN [gates EXCEPT ![a] = NoGate] ELSE gates
  BY <1>2, <1>3 DEF LeaveGate
<1>5. LimiterShape
  BY DEF Permits
<1>6. \A h \in Calls :
        /\ UsersOf(h)' = IF h = NoGate THEN UsersOf(h) \cup {c} ELSE UsersOf(h) \ {c}
        /\ WaitersOf(h)' = IF h = NoGate /\ s = "gate" THEN WaitersOf(h) \cup {c}
                                                       ELSE WaitersOf(h) \ {c}
        /\ HoldersOf(h)' = IF h = NoGate /\ s \in {"slot", "running"}
                             THEN HoldersOf(h) \cup {c} ELSE HoldersOf(h) \ {c}
  BY <1>4, <1>5, Moved
<1>7. \A h \in Calls : /\ UsersOf(h)' = UsersOf(h) \ {c}
                       /\ WaitersOf(h)' = WaitersOf(h) \ {c}
                       /\ HoldersOf(h)' = HoldersOf(h) \ {c}
  BY <1>1, <1>6
<1>8. \A h \in Calls : h # g => /\ UsersOf(h) \ {c} = UsersOf(h)
                                /\ WaitersOf(h) \ {c} = WaitersOf(h)
                                /\ HoldersOf(h) \ {c} = HoldersOf(h)
  <2>1. \A h \in Calls : h # g => c \notin UsersOf(h) /\ c \notin WaitersOf(h)
                                  /\ c \notin HoldersOf(h)
    BY <1>2 DEF UsersOf, WaitersOf, HoldersOf
  <2> QED
    BY <2>1
<1>9. c \in UsersOf(g) /\ UsersOf(g) \in SUBSET Calls
  BY <1>2 DEF UsersOf
<1>10. /\ stage[c] = "gate" => c \in WaitersOf(g) /\ c \notin HoldersOf(g)
       /\ stage[c] # "gate" => c \in HoldersOf(g) /\ c \notin WaitersOf(g)
  BY <1>2 DEF WaitersOf, HoldersOf, Taking
<1>11. Sound(t, PerActorLimit, WaitersOf(g) \ {c}, HoldersOf(g) \ {c})
  <2>1. Sound(gateSem[g], PerActorLimit, WaitersOf(g), HoldersOf(g)) /\ PerActorLimit \in Nat
    BY LimiterAssumption DEF Permits, Gated
  <2>2. CASE stage[c] = "gate"
    <3>1. Sound(t, PerActorLimit, WaitersOf(g) \ {c}, HoldersOf(g))
      BY <1>2, <1>10, <2>1, <2>2, SoundAbandoned
    <3>2. HoldersOf(g) \ {c} = HoldersOf(g)
      BY <1>10, <2>2
    <3> QED
      BY <3>1, <3>2
  <2>3. CASE stage[c] # "gate"
    <3>1. Sound(t, PerActorLimit, WaitersOf(g), HoldersOf(g) \ {c})
      BY <1>2, <1>10, <2>1, <2>3, SoundReleased
    <3>2. WaitersOf(g) \ {c} = WaitersOf(g)
      BY <1>10, <2>3
    <3> QED
      BY <3>1, <3>2
  <2> QED
    BY <2>2, <2>3
<1>12. Gated'
  <2>1. \A h \in Calls : gateSem'[h] = IF h = g THEN t ELSE gateSem[h]
    BY <1>4, <1>5 DEF LimiterShape
  <2>2. ASSUME NEW h \in Calls
        PROVE  Sound(gateSem'[h], PerActorLimit, WaitersOf(h)', HoldersOf(h)')
    <3>1. CASE h = g
      BY <1>7, <1>11, <2>1, <3>1
    <3>2. CASE h # g
      BY <1>7, <1>8, <2>1, <3>2 DEF Permits, Gated
    <3> QED
      BY <3>1, <3>2
  <2> QED
    BY <2>2 DEF Gated
<1>13. /\ gateRefs[g] = Cardinality(UsersOf(g)) /\ Cardinality(UsersOf(g)) \in Nat
       /\ Cardinality(UsersOf(g) \ {c}) = Cardinality(UsersOf(g)) - 1
       /\ Cardinality(UsersOf(g) \ {c}) = 0 <=> UsersOf(g) \ {c} = {}
  <2>1. UsersOf(g) \ {c} \in SUBSET Calls
    BY <1>9
  <2> QED
    BY <1>9, <2>1, CardOf DEF Permits, Referred
<1>14. Referred'
  <2>1. \A h \in Calls : gateRefs'[h] = IF h = g THEN gateRefs[g] - 1 ELSE gateRefs[h]
    BY <1>4, <1>5 DEF LimiterShape
  <2>2. ASSUME NEW h \in Calls PROVE gateRefs'[h] = Cardinality(UsersOf(h)')
    <3>1. CASE h = g
      BY <1>7, <1>13, <2>1, <3>1
    <3>2. CASE h # g
      BY <1>7, <1>8, <2>1, <3>2 DEF Permits, Referred
    <3> QED
      BY <3>1, <3>2
  <2> QED
    BY <2>2 DEF Referred
\* The gate is dropped only when c was its last user.
<1>15. LastUser(g) => \A d \in Calls : gate[d] = g => d = c
  <2>1. LastUser(g) => UsersOf(g) \ {c} = {}
    BY <1>13 DEF LastUser
  <2> QED
    BY <2>1 DEF UsersOf
<1>16. \A b \in Actors : gates'[b] = gates[b] \/ (LastUser(g) /\ b = a /\ gates'[b] = NoGate)
  BY <1>4, <1>5 DEF LimiterShape
<1>17. Named'
  <2>1. \A b \in Actors : gates[b] # NoGate => actor[gates[b]] = b
    BY DEF Permits, Named
  <2> QED
    BY <1>16, <2>1 DEF Named
<1>18. Belongs'
  <2> SUFFICES ASSUME NEW d \in Calls
               PROVE  IF stage'[d] \in Taking
                        THEN gate'[d] = gates'[actor[d]] /\ gate'[d] # NoGate
                        ELSE gate'[d] = NoGate
    BY DEF Belongs
  <2>1. /\ stage'[d] = IF d = c THEN s ELSE stage[d]
        /\ gate'[d] = IF d = c THEN NoGate ELSE gate[d]
    BY <1>4, <1>5 DEF LimiterShape
  <2>2. s \notin Taking
    BY DEF Taking
  <2>3. CASE d = c
    BY <2>1, <2>2, <2>3
  <2>4. CASE d # c
    <3>1. IF stage[d] \in Taking THEN gate[d] = gates[actor[d]] /\ gate[d] # NoGate
                                 ELSE gate[d] = NoGate
      BY DEF Permits, Belongs
    <3>2. stage[d] \in Taking => gates'[actor[d]] = gates[actor[d]]
      <4>1. actor[d] \in Actors
        BY <1>5 DEF LimiterShape
      <4>2. stage[d] \in Taking /\ LastUser(g) => actor[d] # a
        BY <1>3, <1>15, <2>4, <3>1
      <4> QED
        BY <1>16, <4>1, <4>2
    <3> QED
      BY <2>1, <2>4, <3>1, <3>2
  <2> QED
    BY <2>3, <2>4
<1>19. LimiterShape'
  <2>1. stage' \in [Calls -> Stages]
    BY <1>5 DEF LimiterShape, Stages
  <2>2. gate' \in [Calls -> Gates]
    BY <1>4, <1>5 DEF LimiterShape, Gates
  <2>3. gates' \in [Actors -> Gates]
    <3>1. CASE LastUser(g)
      BY <1>4, <1>5, <3>1 DEF LimiterShape, Gates
    <3>2. CASE ~LastUser(g)
      BY <1>4, <1>5, <3>2 DEF LimiterShape
    <3> QED
      BY <3>1, <3>2
  <2> QED
    BY <1>4, <1>5, <2>1, <2>2, <2>3 DEF LimiterShape
<1> QED
  BY <1>12, <1>14, <1>17, <1>18, <1>19 DEF Permits

\* A call that refers to no gate leaves, and everything else stands.
LEMMA IdlePermits ==
  ASSUME Permits, NEW c \in Calls, stage[c] \notin Taking,
         stage' = [stage EXCEPT ![c] = "left"],
         UNCHANGED <<actor, gate, gates, gateRefs, gateSem, pool>>
  PROVE  Permits'
<1>1. LimiterShape
  BY DEF Permits
<1>2. \A d \in Calls : stage'[d] = IF d = c THEN "left" ELSE stage[d]
  BY <1>1 DEF LimiterShape
<1>3. Pooled'
  BY PastPool DEF Taking
<1>4. \A h \in Calls : /\ UsersOf(h)' = UsersOf(h) /\ WaitersOf(h)' = WaitersOf(h)
                       /\ HoldersOf(h)' = HoldersOf(h)
  <2> SUFFICES ASSUME NEW h \in Calls
               PROVE  /\ UsersOf(h)' = UsersOf(h) /\ WaitersOf(h)' = WaitersOf(h)
                      /\ HoldersOf(h)' = HoldersOf(h)
    OBVIOUS
  <2>1. UsersOf(h)' = UsersOf(h)
    BY DEF UsersOf
  <2>2. WaitersOf(h)' = WaitersOf(h)
    BY <1>2 DEF WaitersOf, Taking
  <2>3. HoldersOf(h)' = HoldersOf(h)
    BY <1>2 DEF HoldersOf, Taking
  <2> QED
    BY <2>1, <2>2, <2>3
<1>5. Gated' /\ Referred'
  BY <1>4 DEF Permits, Gated, Referred
<1>6. Named'
  BY DEF Permits, Named
<1>7. Belongs'
  BY <1>2 DEF Permits, Belongs, Taking
<1>8. LimiterShape'
  BY <1>1 DEF LimiterShape, Stages
<1> QED
  BY <1>3, <1>5, <1>6, <1>7, <1>8 DEF Permits

LEMMA PermitsStep ==
  ASSUME Permits, [LimiterNext]_limiterVars
  PROVE  Permits'
<1>1. ASSUME NEW c \in Calls, RefuseCall(c) PROVE Permits'
  BY <1>1, IdlePermits DEF RefuseCall, gating, Taking
<1>2. ASSUME NEW c \in Calls, AdmitCall(c) PROVE Permits'
  BY <1>2, DispatchPermits DEF AdmitCall, Taking
<1>3. ASSUME NEW c \in Calls, Retry(c) PROVE Permits'
  BY <1>3, DispatchPermits DEF Retry, Taking
<1>4. ASSUME NEW c \in Calls, Succeed(c) PROVE Permits'
  <2>1. stage[c] = "running" /\ stage' = [stage EXCEPT ![c] = "left"]
        /\ pool' = Released(pool) /\ UNCHANGED actor
    BY <1>4 DEF Succeed, EndCall, LeaveGlobal
  <2>2. Pooled'
    BY <2>1, LeavePool
  <2> QED
    BY <1>4, <2>1, <2>2, LeavePermits DEF Succeed, Taking
<1>5. ASSUME NEW c \in Calls, Fail(c) PROVE Permits'
  <2>1. stage[c] = "running" /\ pool' = Released(pool) /\ UNCHANGED actor
    BY <1>5 DEF Fail, LeaveGlobal
  <2>2. PICK s \in {"left", "pause"} : stage' = [stage EXCEPT ![c] = s]
    BY <1>5 DEF Fail, EndCall
  <2>3. Pooled'
    BY <2>1, <2>2, LeavePool
  <2> QED
    BY <1>5, <2>1, <2>2, <2>3, LeavePermits DEF Fail, Taking
<1>6. ASSUME NEW c \in Calls, GiveUp(c) PROVE Permits'
  <2>1. stage' = [stage EXCEPT ![c] = "left"] /\ UNCHANGED actor
    BY <1>6 DEF GiveUp, EndCall
  <2>2. CASE stage[c] = "gate"
    <3>1. LeaveGate(c, Abandoned(gateSem[gate[c]], c)) /\ pool' = pool
      BY <1>6, <2>2 DEF GiveUp
    <3>2. Pooled'
      BY <2>1, <2>2, <3>1, LeavePool
    <3> QED
      BY <2>1, <2>2, <3>1, <3>2, LeavePermits DEF Taking
  <2>3. CASE stage[c] \in {"slot", "running"}
    <3>1. /\ LeaveGate(c, Released(gateSem[gate[c]]))
          /\ \/ stage[c] = "running" /\ pool' = Released(pool)
             \/ stage[c] = "slot" /\ pool' = Abandoned(pool, c)
      BY <1>6, <2>3 DEF GiveUp, LeaveGlobal
    <3>2. Pooled'
      BY <2>1, <3>1, LeavePool
    <3> QED
      BY <2>1, <2>3, <3>1, <3>2, LeavePermits DEF Taking
  <2>4. CASE stage[c] = "pause"
    BY <1>6, <2>1, <2>4, IdlePermits DEF GiveUp, gating, Taking
  <2> QED
    BY <1>6, <2>2, <2>3, <2>4 DEF GiveUp
<1>7. CASE UNCHANGED <<stage, actor, gate, gates, gateRefs, gateSem, pool>>
  <2>1. \A h \in Calls : /\ UsersOf(h)' = UsersOf(h) /\ WaitersOf(h)' = WaitersOf(h)
                         /\ HoldersOf(h)' = HoldersOf(h)
    BY <1>7 DEF UsersOf, WaitersOf, HoldersOf
  <2>2. Gated' /\ Referred'
    BY <1>7, <2>1 DEF Permits, Gated, Referred
  <2>3. Pooled'
    BY <1>7 DEF Permits, Pooled, Waiting, Running
  <2>4. LimiterShape' /\ Named' /\ Belongs'
    BY <1>7 DEF Permits, LimiterShape, Named, Belongs
  <2> QED
    BY <2>2, <2>3, <2>4 DEF Permits
<1>8. CASE UNCHANGED limiterVars
  BY <1>7, <1>8 DEF limiterVars, calls, gating
<1>9. CASE CooldownExpires \/ CloseLimiter \/ LimiterCloses
  BY <1>7, <1>9 DEF CooldownExpires, CloseLimiter, LimiterCloses, calls, gating
<1> QED
  BY <1>1, <1>2, <1>3, <1>4, <1>5, <1>6, <1>8, <1>9, PassPermits, SlotPermits
     DEF LimiterNext

\* Permits is inductive: every gate and the pool are sound, a gate has as many
\* references as users and is registered while it has one (services/limits.py:
\* _acquire, _release and the gates' dictionary).
THEOREM LimiterPermits == LimiterSpec => []Permits
<1> QED BY InitPermits, PermitsStep, PTL DEF LimiterSpec

-----------------------------------------------------------------------------
(* The types: a counter is the size of a set of calls, or bounded by the   *)
(* stage of its call.                                                      *)

Limited ==
  /\ attempts \in [Calls -> 0 .. RetryBudget + 1]
  /\ \A c \in Calls : /\ stage[c] = "new" => attempts[c] = 0
                      /\ stage[c] = "pause" => attempts[c] <= RetryBudget
  /\ active = Cardinality(Running)
  /\ admitted <= GlobalLimit + QueueLimit
  /\ failures \in Nat /\ cooldown \in {"none", "future", "past"}
  /\ limiter \in {"open", "closing", "closed"}

LEMMA InitLimited == LimiterInit => Limited
<1> SUFFICES ASSUME LimiterInit PROVE Limited
  OBVIOUS
<1>1. Running = {} /\ active = 0 /\ admitted = 0
  BY DEF LimiterInit, Running
<1>2. active = Cardinality(Running)
  BY <1>1, FS_EmptySet
<1>3. attempts \in [Calls -> 0 .. RetryBudget + 1] /\ \A c \in Calls : attempts[c] = 0
  BY LimiterAssumption DEF LimiterInit
<1>4. admitted <= GlobalLimit + QueueLimit
  BY <1>1, LimiterAssumption
<1>5. failures \in Nat /\ cooldown \in {"none", "future", "past"}
      /\ limiter \in {"open", "closing", "closed"}
  BY DEF LimiterInit
<1> QED
  BY <1>2, <1>3, <1>4, <1>5, LimiterAssumption DEF Limited

\* A step of c to stage s, as the counter of active calls sees it.
LEMMA ActiveStep ==
  ASSUME Permits, Limited, NEW c \in Calls, NEW s, stage' = [stage EXCEPT ![c] = s],
         active' = active + (IF s = "running" THEN 1 ELSE 0)
                          - (IF stage[c] = "running" THEN 1 ELSE 0)
  PROVE  active' = Cardinality(Running')
<1>1. \A d \in Calls : stage'[d] = IF d = c THEN s ELSE stage[d]
  BY DEF Permits, LimiterShape
<1>2. Running \in SUBSET Calls /\ (c \in Running <=> stage[c] = "running")
  BY DEF Running
<1>3. Running' = IF s = "running" THEN Running \cup {c} ELSE Running \ {c}
  BY <1>1 DEF Running
<1>4. /\ Cardinality(Running) \in Nat /\ active = Cardinality(Running)
      /\ Cardinality(Running \cup {c}) =
           IF c \in Running THEN Cardinality(Running) ELSE Cardinality(Running) + 1
      /\ Cardinality(Running \ {c}) =
           IF c \in Running THEN Cardinality(Running) - 1 ELSE Cardinality(Running)
  BY <1>2, CardOf DEF Limited
<1>5. CASE s = "running"
  BY <1>2, <1>3, <1>4, <1>5
<1>6. CASE s # "running"
  BY <1>2, <1>3, <1>4, <1>6
<1> QED
  BY <1>5, <1>6

\* A step of c that begins no attempt.
LEMMA SteadyAttempts ==
  ASSUME Permits, Limited, NEW c \in Calls, NEW s, stage' = [stage EXCEPT ![c] = s],
         s # "new", s = "pause" => attempts[c] <= RetryBudget, attempts' = attempts
  PROVE  /\ attempts' \in [Calls -> 0 .. RetryBudget + 1]
         /\ \A d \in Calls : /\ stage'[d] = "new" => attempts'[d] = 0
                             /\ stage'[d] = "pause" => attempts'[d] <= RetryBudget
<1>1. \A d \in Calls : stage'[d] = IF d = c THEN s ELSE stage[d]
  BY DEF Permits, LimiterShape
<1> QED
  BY <1>1 DEF Limited

LEMMA GlobalActive ==
  ASSUME NEW c \in Calls, stage[c] # "running", TakeGlobal(c), active \in Nat
  PROVE  \E s \in Taking : /\ stage' = [stage EXCEPT ![c] = s]
                           /\ active' = active + (IF s = "running" THEN 1 ELSE 0)
                                               - (IF stage[c] = "running" THEN 1 ELSE 0)
<1>1. CASE active' = active + 1 /\ stage' = [stage EXCEPT ![c] = "running"]
  <2>1. active + 1 = active + 1 - 0
    OBVIOUS
  <2> QED
    BY <1>1, <2>1 DEF Taking
<1>2. CASE active' = active /\ stage' = [stage EXCEPT ![c] = "slot"]
  <2>1. active = active + 0 - 0
    OBVIOUS
  <2> QED
    BY <1>2, <2>1 DEF Taking
<1> QED
  BY <1>1, <1>2 DEF TakeGlobal

LEMMA DispatchLimited ==
  ASSUME Permits, Limited, NEW c \in Calls, stage[c] \in {"new", "pause"}, Dispatch(c)
  PROVE  /\ active' = Cardinality(Running')
         /\ attempts' \in [Calls -> 0 .. RetryBudget + 1]
         /\ \A d \in Calls : /\ stage'[d] = "new" => attempts'[d] = 0
                             /\ stage'[d] = "pause" => attempts'[d] <= RetryBudget
<1>1. active \in Nat
  <2>1. Running \in SUBSET Calls
    BY DEF Running
  <2> QED
    BY <2>1, CardOf DEF Limited
<1>2. PICK s \in Taking : /\ stage' = [stage EXCEPT ![c] = s]
                          /\ active' = active + (IF s = "running" THEN 1 ELSE 0)
                                              - (IF stage[c] = "running" THEN 1 ELSE 0)
  <2>1. stage[c] # "running"
    OBVIOUS
  <2>2. CASE TakeGlobal(c)
    BY <1>1, <2>1, <2>2, GlobalActive
  <2>3. CASE active' = active /\ stage' = [stage EXCEPT ![c] = "gate"]
    <3>1. active = active + 0 - 0
      BY <1>1
    <3> QED
      BY <2>1, <2>3, <3>1 DEF Taking
  <2> QED
    BY <2>2, <2>3 DEF Dispatch
<1>3. active' = Cardinality(Running')
  BY <1>2, ActiveStep
<1>4. \A d \in Calls : stage'[d] = IF d = c THEN s ELSE stage[d]
  BY <1>2 DEF Permits, LimiterShape
<1>5. attempts[c] \in 0 .. RetryBudget
  BY LimiterAssumption DEF Limited
<1>6. attempts' = [attempts EXCEPT ![c] = @ + 1]
  BY DEF Dispatch
<1>7. attempts' \in [Calls -> 0 .. RetryBudget + 1]
  <2>1. attempts[c] + 1 \in 0 .. RetryBudget + 1
    BY <1>5, LimiterAssumption
  <2> QED
    BY <1>6, <2>1 DEF Limited
<1>8. \A d \in Calls : attempts'[d] = IF d = c THEN attempts[c] + 1 ELSE attempts[d]
  BY <1>6 DEF Limited
<1>9. s # "new" /\ s # "pause"
  BY <1>2 DEF Taking
<1> QED
  BY <1>3, <1>4, <1>7, <1>8, <1>9 DEF Limited

\* The end of an attempt.
LEMMA LeaveLimited ==
  ASSUME Permits, Limited, NEW c \in Calls, NEW s \in {"left", "pause"},
         stage' = [stage EXCEPT ![c] = s], s = "pause" => attempts[c] <= RetryBudget,
         attempts' = attempts,
         active' = IF stage[c] = "running" THEN active - 1 ELSE active
  PROVE  /\ active' = Cardinality(Running')
         /\ attempts' \in [Calls -> 0 .. RetryBudget + 1]
         /\ \A d \in Calls : /\ stage'[d] = "new" => attempts'[d] = 0
                             /\ stage'[d] = "pause" => attempts'[d] <= RetryBudget
<1>1. active \in Nat
  <2>1. Running \in SUBSET Calls
    BY DEF Running
  <2> QED
    BY <2>1, CardOf DEF Limited
<1>2. active' = active + (IF s = "running" THEN 1 ELSE 0)
                       - (IF stage[c] = "running" THEN 1 ELSE 0)
  <2>1. s # "running" /\ s # "new"
    OBVIOUS
  <2>2. active - 1 = active + 0 - 1 /\ active = active + 0 - 0
    BY <1>1
  <2> QED
    BY <2>1, <2>2
<1>3. s # "new"
  OBVIOUS
<1> QED
  BY <1>2, <1>3, ActiveStep, SteadyAttempts

LEMMA LimitedStep ==
  ASSUME LimiterInv, Permits, Limited, [LimiterNext]_limiterVars
  PROVE  Limited'
<1> DEFINE Tries == /\ active = Cardinality(Running)
                    /\ attempts \in [Calls -> 0 .. RetryBudget + 1]
                    /\ \A d \in Calls : /\ stage[d] = "new" => attempts[d] = 0
                                        /\ stage[d] = "pause" => attempts[d] <= RetryBudget
           Rest == /\ admitted <= GlobalLimit + QueueLimit
                   /\ failures \in Nat /\ cooldown \in {"none", "future", "past"}
                   /\ limiter \in {"open", "closing", "closed"}
<1>1. Limited <=> Tries /\ Rest
  BY DEF Limited
<1>2. Limited' <=> Tries' /\ Rest'
  BY DEF Limited
<1>3. admitted \in Nat /\ active \in Nat
  <2>1. InCall \in SUBSET Calls /\ Running \in SUBSET Calls
    BY DEF InCall, Running
  <2> QED
    BY <2>1, CardOf DEF LimiterInv, Counted, Limited
<1>4. GlobalLimit + QueueLimit \in Nat /\ FailureThreshold \in Nat
  BY LimiterAssumption
<1>5. Rest
  BY <1>1
<1> HIDE DEF Tries
<1>6. ASSUME NEW c \in Calls, RefuseCall(c) PROVE Tries' /\ Rest'
  <2>1. Rest'
    BY <1>5, <1>6 DEF RefuseCall, breaker, SettledFailures
  <2>2. /\ stage' = [stage EXCEPT ![c] = "left"] /\ attempts' = attempts
        /\ active' = IF stage[c] = "running" THEN active - 1 ELSE active
    BY <1>6 DEF RefuseCall
  <2> QED
    BY <2>1, <2>2, LeaveLimited DEF Tries
<1>7. ASSUME NEW c \in Calls, AdmitCall(c) PROVE Tries' /\ Rest'
  <2>1. Rest'
    <3>1. admitted + 1 <= GlobalLimit + QueueLimit
      BY <1>3, <1>4, <1>7 DEF AdmitCall, IsFull
    <3> QED
      BY <1>5, <1>7, <3>1 DEF AdmitCall, SettledFailures
  <2>2. stage[c] \in {"new", "pause"} /\ Dispatch(c)
    BY <1>7 DEF AdmitCall
  <2> QED
    BY <2>1, <2>2, DispatchLimited DEF Tries
<1>8. ASSUME NEW c \in Calls, Retry(c) PROVE Tries' /\ Rest'
  <2>1. Rest'
    BY <1>5, <1>8 DEF Retry, breaker
  <2>2. stage[c] \in {"new", "pause"} /\ Dispatch(c)
    BY <1>8 DEF Retry
  <2> QED
    BY <2>1, <2>2, DispatchLimited DEF Tries
<1>9. ASSUME NEW c \in Calls, PassGate(c) PROVE Tries' /\ Rest'
  <2>1. Rest'
    BY <1>5, <1>9 DEF PassGate, breaker
  <2>2. stage[c] # "running" /\ TakeGlobal(c) /\ attempts' = attempts
    BY <1>9 DEF PassGate
  <2>3. PICK s \in Taking : /\ stage' = [stage EXCEPT ![c] = s]
                            /\ active' = active + (IF s = "running" THEN 1 ELSE 0)
                                                - (IF stage[c] = "running" THEN 1 ELSE 0)
    BY <1>3, <2>2, GlobalActive
  <2>4. s # "new" /\ s # "pause"
    BY <2>3 DEF Taking
  <2> QED
    BY <2>1, <2>2, <2>3, <2>4, ActiveStep, SteadyAttempts DEF Tries
<1>10. ASSUME NEW c \in Calls, TakeSlot(c) PROVE Tries' /\ Rest'
  <2>1. Rest'
    BY <1>5, <1>10 DEF TakeSlot, breaker
  <2> DEFINE s == "running"
  <2>2. /\ stage' = [stage EXCEPT ![c] = s] /\ attempts' = attempts
        /\ stage[c] = "slot" /\ active' = active + 1
    BY <1>10 DEF TakeSlot
  <2>3. active' = active + (IF s = "running" THEN 1 ELSE 0)
                         - (IF stage[c] = "running" THEN 1 ELSE 0)
    BY <1>3, <2>2
  <2>4. s # "new" /\ s # "pause"
    OBVIOUS
  <2> HIDE DEF s
  <2> QED
    BY <2>1, <2>2, <2>3, <2>4, ActiveStep, SteadyAttempts DEF Tries
<1>11. ASSUME NEW c \in Calls, Succeed(c) PROVE Tries' /\ Rest'
  <2>1. Rest'
    BY <1>3, <1>4, <1>5, <1>11 DEF Succeed, EndCall
  <2>2. /\ stage' = [stage EXCEPT ![c] = "left"] /\ attempts' = attempts
        /\ active' = IF stage[c] = "running" THEN active - 1 ELSE active
    BY <1>11 DEF Succeed, EndCall, LeaveGlobal
  <2> QED
    BY <2>1, <2>2, LeaveLimited DEF Tries
<1>12. ASSUME NEW c \in Calls, Fail(c) PROVE Tries' /\ Rest'
  <2>1. Rest'
    BY <1>3, <1>4, <1>5, <1>12 DEF Fail, EndCall, breaker
  <2>2. attempts' = attempts
        /\ active' = IF stage[c] = "running" THEN active - 1 ELSE active
    BY <1>12 DEF Fail, LeaveGlobal
  <2>3. \E s \in {"left", "pause"} :
          stage' = [stage EXCEPT ![c] = s] /\ (s = "pause" => attempts[c] <= RetryBudget)
    BY <1>12 DEF Fail, EndCall
  <2> QED
    BY <2>1, <2>2, <2>3, LeaveLimited DEF Tries
<1>13. ASSUME NEW c \in Calls, GiveUp(c) PROVE Tries' /\ Rest'
  <2>1. Rest'
    BY <1>3, <1>4, <1>5, <1>13 DEF GiveUp, EndCall, breaker
  <2>2. /\ stage' = [stage EXCEPT ![c] = "left"] /\ attempts' = attempts
        /\ active' = IF stage[c] = "running" THEN active - 1 ELSE active
    BY <1>13 DEF GiveUp, EndCall, LeaveGlobal
  <2> QED
    BY <2>1, <2>2, LeaveLimited DEF Tries
<1>14. CASE CooldownExpires \/ CloseLimiter \/ LimiterCloses \/ UNCHANGED limiterVars
  <2>1. UNCHANGED <<stage, attempts, active>>
    BY <1>14 DEF CooldownExpires, CloseLimiter, LimiterCloses, limiterVars, calls
  <2>2. Tries'
    BY <1>1, <2>1 DEF Tries, Running
  <2>3. Rest'
    BY <1>5, <1>14 DEF CooldownExpires, CloseLimiter, LimiterCloses, limiterVars, breaker
  <2> QED
    BY <1>2, <2>2, <2>3
<1> QED
  BY <1>2, <1>6, <1>7, <1>8, <1>9, <1>10, <1>11, <1>12, <1>13, <1>14 DEF LimiterNext

\* The types of the limiter's state, the bounds of its counters included: no
\* more calls are admitted than running and queued ones may be, no more are
\* active than the limit, and none is dispatched more often than its budget.
THEOREM LimiterTypeCorrect == LimiterSpec => []LimiterTypeOK
<1>1. LimiterInv /\ Permits /\ Limited => LimiterTypeOK
  <2> SUFFICES ASSUME LimiterInv, Permits, Limited PROVE LimiterTypeOK
    OBVIOUS
  <2>1. /\ stage \in [Calls -> {"new", "gate", "slot", "running", "pause", "left"}]
        /\ actor \in [Calls -> Actors] /\ gate \in [Calls -> Gates]
        /\ gates \in [Actors -> Gates] /\ idle \in BOOLEAN
    BY DEF LimiterInv, Permits, LimiterShape, Stages
  <2>2. ASSUME NEW s, NEW n \in Nat, NEW W, NEW H, Sound(s, n, W, H)
        PROVE  s \in SemaphoresOf(n) /\ Cardinality(H) \in 0 .. n
    <3>1. s.free \in Nat /\ s.granted \in SUBSET Calls /\ H \in SUBSET Calls
          /\ s.waiting \in Seq(Calls)
          /\ s.free + Cardinality(s.granted) + Cardinality(H) = n
      BY <2>2 DEF Sound, Held
    <3>2. Cardinality(s.granted) \in Nat /\ Cardinality(H) \in Nat
      BY <3>1, CardOf
    <3>3. s.free \in 0 .. n /\ Cardinality(H) \in 0 .. n
      BY <3>1, <3>2
    <3>4. s = [free |-> s.free, waiting |-> s.waiting, granted |-> s.granted]
      BY <2>2 DEF Sound, Held
    <3> QED
      BY <3>1, <3>3, <3>4 DEF SemaphoresOf
  <2>3. pool \in SemaphoresOf(GlobalLimit) /\ active \in 0 .. GlobalLimit
    BY <2>2, LimiterAssumption DEF Permits, Pooled, Limited
  <2>4. gateSem \in [Calls -> SemaphoresOf(PerActorLimit)]
    <3>1. gateSem = [g \in Calls |-> gateSem[g]]
      BY DEF Permits, LimiterShape
    <3>2. \A g \in Calls : gateSem[g] \in SemaphoresOf(PerActorLimit)
      BY <2>2, LimiterAssumption DEF Permits, Gated
    <3> QED
      BY <3>1, <3>2
  <2>5. gateRefs \in [Calls -> Nat]
    <3>1. gateRefs = [g \in Calls |-> gateRefs[g]]
      BY DEF Permits, LimiterShape
    <3>2. \A g \in Calls : UsersOf(g) \in SUBSET Calls
      BY DEF UsersOf
    <3>3. \A g \in Calls : gateRefs[g] \in Nat
      BY <3>2, CardOf DEF Permits, Referred
    <3> QED
      BY <3>1, <3>3
  <2>6. admitted \in 0 .. GlobalLimit + QueueLimit
    <3>1. InCall \in SUBSET Calls
      BY DEF InCall
    <3>2. admitted \in Nat
      BY <3>1, CardOf DEF LimiterInv, Counted
    <3> QED
      BY <3>2, LimiterAssumption DEF Limited
  <2> QED
    BY <2>1, <2>3, <2>4, <2>5, <2>6 DEF Limited, LimiterTypeOK
<1> QED
  BY LimiterInitInv, InitPermits, InitLimited, LimiterInvariance, LimiterPermits,
     LimitedStep, <1>1, PTL DEF LimiterSpec

\* No permit is lost or doubled, whatever retries, deadlines and cancellations
\* do between its grant and its return.
THEOREM PermitsAreConservedHolds == LimiterSpec => []PermitsAreConserved
<1>1. Permits => PermitsAreConserved
  <2> SUFFICES ASSUME Permits PROVE PermitsAreConserved
    OBVIOUS
  <2>1. pool.free + Cardinality(pool.granted)
          + Cardinality({c \in Calls : stage[c] = "running"}) = GlobalLimit
    BY DEF Permits, Pooled, Sound, Held, Running
  <2>2. ASSUME NEW a \in Actors, gates[a] # NoGate
        PROVE  /\ HandsOn(gateSem[gates[a]])
               /\ gateSem[gates[a]].free + Cardinality(gateSem[gates[a]].granted)
                    + Cardinality(HoldersOf(gates[a])) = PerActorLimit
    <3>1. gates[a] \in Calls
      BY <2>2 DEF Permits, LimiterShape, Gates
    <3>2. Sound(gateSem[gates[a]], PerActorLimit, WaitersOf(gates[a]), HoldersOf(gates[a]))
      BY <3>1 DEF Permits, Gated
    <3> QED
      BY <3>2 DEF Sound, Held
  <2> QED
    BY <2>1, <2>2 DEF PermitsAreConserved, Permits, Pooled, Sound
<1> QED BY LimiterPermits, <1>1, PTL

\* A call that can go on by itself: its operation runs, it pauses before a
\* retry, or it was granted the permit it waits for.
GoesOn(c) == \/ stage[c] \in {"running", "pause"}
             \/ stage[c] = "gate" /\ c \in gateSem[gate[c]].granted
             \/ stage[c] = "slot" /\ c \in pool.granted

NeverStuck == (\E c \in Calls : stage[c] \in Inside) => \E c \in Calls : GoesOn(c)

\* A semaphore whose permits are all back has no call waiting for it.
LEMMA NobodyWaits ==
  ASSUME NEW s, NEW n \in Nat \ {0}, NEW W, Sound(s, n, W, {}), s.granted = {}
  PROVE  W = {}
<1>1. s.free = n
  BY FS_EmptySet DEF Sound, Held
<1>2. s.waiting = <<>>
  BY <1>1 DEF Sound, HandsOn
<1>3. Len(s.waiting) = 0
  BY <1>2
<1> QED
  BY <1>3 DEF Sound, Held

\* Admitted calls never all wait for each other: while there is one, some call
\* runs, pauses, or was granted the permit it waits for (services/limits.py:
\* nobody needs the deadline of wait_for to get out).
THEOREM LimiterNeverStuck == LimiterSpec => []NeverStuck
<1>1. LimiterInv /\ Permits => NeverStuck
  <2> SUFFICES ASSUME LimiterInv, Permits, NEW c \in Calls, stage[c] \in Inside,
                      \A d \in Calls : ~GoesOn(d)
               PROVE  FALSE
    BY DEF NeverStuck
  <2>1. Running = {}
    BY DEF Running, GoesOn
  <2>2. Waiting = {}
    <3>1. Sound(pool, GlobalLimit, Waiting, {})
      BY <2>1 DEF Permits, Pooled
    <3>2. pool.granted = {}
      <4>1. pool.granted \in SUBSET Waiting
        BY <3>1 DEF Sound, Held
      <4> QED
        BY <4>1 DEF Waiting, GoesOn
    <3> QED
      BY <3>1, <3>2, NobodyWaits, LimiterAssumption
  <2>3. stage[c] = "gate"
    BY <2>1, <2>2 DEF Inside, Waiting, Running, GoesOn
  <2>4. PICK g \in Calls : g = gate[c]
    BY <2>3 DEF Permits, LimiterShape, Belongs, Taking, Gates
  <2>5. HoldersOf(g) = {}
    BY <2>1, <2>2 DEF HoldersOf, Running, Waiting
  <2>6. Sound(gateSem[g], PerActorLimit, WaitersOf(g), {})
    BY <2>5 DEF Permits, Gated
  <2>7. gateSem[g].granted = {}
    <3>1. gateSem[g].granted \in SUBSET WaitersOf(g)
      BY <2>6 DEF Sound, Held
    <3> QED
      BY <3>1 DEF WaitersOf, GoesOn
  <2>8. WaitersOf(g) = {}
    BY <2>6, <2>7, NobodyWaits, LimiterAssumption
  <2> QED
    BY <2>3, <2>4, <2>8 DEF WaitersOf
<1> QED BY LimiterInvariance, LimiterPermits, <1>1, PTL

\* An actor's calls hold or wait for at most its own limit of the pool's permits.
THEOREM ActorKeepsToItsShareHolds == LimiterSpec => []ActorKeepsToItsShare
<1>1. Permits => ActorKeepsToItsShare
  <2> SUFFICES ASSUME Permits, NEW a \in Actors
               PROVE  Cardinality({c \in Calls : actor[c] = a
                                       /\ stage[c] \in {"slot", "running"}}) <= PerActorLimit
    BY DEF ActorKeepsToItsShare
  <2> DEFINE S == {c \in Calls : actor[c] = a /\ stage[c] \in {"slot", "running"}}
  <2>1. CASE gates[a] = NoGate
    <3>1. S = {}
      BY <2>1 DEF Permits, Belongs, Taking
    <3> QED
      BY <3>1, FS_EmptySet, LimiterAssumption
  <2>2. CASE gates[a] # NoGate
    <3>1. PICK g \in Calls : g = gates[a]
      BY <2>2 DEF Permits, LimiterShape, Gates
    <3>2. S \in SUBSET HoldersOf(g) /\ HoldersOf(g) \in SUBSET Calls
      BY <3>1 DEF Permits, Belongs, HoldersOf, Taking
    <3>3. Cardinality(S) \in Nat /\ Cardinality(HoldersOf(g)) \in Nat
          /\ Cardinality(S) <= Cardinality(HoldersOf(g))
      BY <3>2, CardOf, FS_Subset
    <3>4. /\ gateSem[g].free \in Nat /\ Cardinality(gateSem[g].granted) \in Nat
          /\ gateSem[g].free + Cardinality(gateSem[g].granted)
               + Cardinality(HoldersOf(g)) = PerActorLimit
      <4>1. Sound(gateSem[g], PerActorLimit, WaitersOf(g), HoldersOf(g))
        BY DEF Permits, Gated
      <4>2. gateSem[g].granted \in SUBSET Calls
        BY <4>1 DEF Sound, Held
      <4> QED
        BY <4>1, <4>2, CardOf DEF Sound, Held
    <3> HIDE DEF S
    <3>5. Cardinality(S) <= PerActorLimit
      BY <3>3, <3>4, LimiterAssumption
    <3> QED
      BY <3>5 DEF S
  <2> QED
    BY <2>1, <2>2
<1> QED BY LimiterPermits, <1>1, PTL
=============================================================================
