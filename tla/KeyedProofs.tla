----------------------------- MODULE KeyedProofs -----------------------------
(***************************************************************************)
(* Invariance proofs for KeyedProcessor: for any number of callers, keys   *)
(* and slots.                                                              *)
(*                                                                         *)
(* The argument.  The futures of an entry that are not completed can be    *)
(* ranked (Ranked): the tail has the highest rank, one that waits for a    *)
(* future comes right after it, and one whose predecessor is done has the  *)
(* lowest.  So at most one of them has its turn, and when it completes the *)
(* next one does.  Two calls with one key share an entry, because an entry *)
(* is dropped only when its count of references, which is the number of    *)
(* its admitted calls, falls to zero (Counted).                            *)
(*                                                                         *)
(* The processor implements KeyedQueue because the chain of a key keeps    *)
(* all its calls and no others (Linked, Whole), and is completed from its  *)
(* beginning on (DoneBackward).                                            *)
(***************************************************************************)
EXTENDS KeyedProcessor, FiniteSetTheorems, TLAPS

-----------------------------------------------------------------------------
(* The inductive invariant.                                                *)

InCall == {c \in Callers : Admitted(c)}
Running == {c \in Callers : step[c] = "running"}
Members(e) == {c \in Callers : Admitted(c) /\ entry[c] = e}

Shape ==
  /\ step \in [Callers -> {"new", "turn", "slot", "running", "left"}]
  /\ key \in [Callers -> Keys \cup {None}]
  /\ predecessor \in [Callers -> Futures]
  /\ entry \in [Callers -> Futures]
  /\ done \subseteq Callers /\ deferred \subseteq Callers
  /\ entries \in [Keys -> Futures]
  /\ tail \in [Callers -> Futures]
  /\ references \in [Callers -> Nat]
  /\ closed \in BOOLEAN /\ drained \in BOOLEAN
  /\ closer \in {"open", "draining", "returned"}

PlacedOK(c) ==
  /\ step[c] = "new" => entry[c] = None
  /\ Admitted(c) => /\ key[c] \in Keys
                    /\ entry[c] # None
                    /\ entries[key[c]] = entry[c]
                    /\ c \notin done /\ c \notin deferred
  /\ step[c] \in {"slot", "running"} => IsDone(predecessor[c])
  /\ c \in deferred => entry[c] # None /\ c \notin done
  /\ c \in done => entry[c] # None
  /\ step[c] = "left" /\ entry[c] # None => c \in done \/ c \in deferred
  /\ entry[c] # None => entry[entry[c]] = entry[c]

Placed == \A c \in Callers : PlacedOK(c)

Counted ==
  /\ \A e \in Callers : references[e] = Cardinality(Members(e))
  /\ admitted = Cardinality(InCall)
  /\ admitted <= Capacity
  /\ active = Cardinality(Running)

Slotted ==
  /\ waiting \cap granted = {}
  /\ waiting \cup granted = {c \in Callers : step[c] = "slot"}
  /\ free \in Nat
  /\ free + Cardinality(granted) + Cardinality(Running) = MaxConcurrency
  /\ free > 0 /\ waiting # {} => granted # {}

Draining ==
  /\ drained => admitted = 0
  /\ closer # "open" <=> closed
  /\ closer = "returned" => admitted = 0

Pending(c) == entry[c] # None /\ c \notin done

Ranked(r) ==
  /\ \A c, d \in Callers :
       Pending(c) /\ Pending(d) /\ entry[c] = entry[d] =>
         /\ r[c] = r[d] => c = d
         /\ IsDone(predecessor[c]) => r[c] <= r[d]
  /\ \A c \in Callers : Pending(c) =>
       LET t == tail[entry[c]] IN
         /\ t \in Callers /\ Pending(t) /\ entry[t] = entry[c]
         /\ r[c] <= r[t]
  /\ \A c \in Callers : Pending(c) /\ ~IsDone(predecessor[c]) =>
       LET p == predecessor[c] IN
         /\ p \in Callers /\ Pending(p) /\ entry[p] = entry[c]
         /\ r[c] = r[p] + 1

\* The entries of the registry were created by admitted callers.
Created ==
  \A k \in Keys : LET e == entries[k] IN
    e # None => /\ entry[e] = e
                /\ ~IsDone(tail[e]) => Pending(tail[e]) /\ entry[tail[e]] = e

Chained == Created /\ \E r \in [Callers -> Nat] : Ranked(r)

Inv == Shape /\ Placed /\ Counted /\ Slotted /\ Draining /\ Chained

-----------------------------------------------------------------------------
(* Counting.                                                               *)

LEMMA CardOf ==
  ASSUME NEW S \in SUBSET Callers
  PROVE  /\ IsFiniteSet(S) /\ Cardinality(S) \in Nat
         /\ \A c : Cardinality(S \cup {c}) =
                    IF c \in S THEN Cardinality(S) ELSE Cardinality(S) + 1
         /\ \A c : Cardinality(S \ {c}) =
                    IF c \in S THEN Cardinality(S) - 1 ELSE Cardinality(S)
         /\ Cardinality(S) = 0 <=> S = {}
  BY ProcessorAssumption, FS_Subset, FS_CardinalityType, FS_AddElement,
     FS_RemoveElement, FS_EmptySet

\* What Offer does to the slots.
LEMMA OfferKeeps ==
  ASSUME NEW n \in Nat, NEW w \in SUBSET Callers, NEW h \in SUBSET Callers,
         w \cap h = {}, Offer(n, w, h)
  PROVE  /\ waiting' \cap granted' = {}
         /\ waiting' \cup granted' = w \cup h
         /\ free' \in Nat
         /\ free' + Cardinality(granted') = n + Cardinality(h)
         /\ free' > 0 => waiting' = {}
<1>1. PICK g \in SUBSET w :
        /\ Cardinality(g) = IF n < Cardinality(w) THEN n ELSE Cardinality(w)
        /\ free' = n - Cardinality(g)
        /\ waiting' = w \ g
        /\ granted' = h \cup g
  BY DEF Offer
<1>2. /\ IsFiniteSet(g) /\ IsFiniteSet(h)
      /\ Cardinality(g) \in Nat /\ Cardinality(h) \in Nat /\ Cardinality(w) \in Nat
  BY CardOf
<1>3. Cardinality(h \cup g) = Cardinality(h) + Cardinality(g)
  <2>1. h \cap g = {}
    OBVIOUS
  <2> QED
    BY <1>2, <2>1, FS_Union, FS_EmptySet
<1>4. free' > 0 => g = w
  <2>1. Cardinality(w \ g) = Cardinality(w) - Cardinality(g)
    <3> DEFINE x == w \ g
    <3>1. x \in SUBSET Callers /\ x \cap g = {} /\ x \cup g = w
      OBVIOUS
    <3> HIDE DEF x
    <3>2. IsFiniteSet(x) /\ Cardinality(x) \in Nat
      BY <3>1, CardOf
    <3>3. Cardinality(x \cup g) = Cardinality(x) + Cardinality(g) - Cardinality(x \cap g)
      BY <1>2, <3>2, FS_Union
    <3>4. Cardinality(x) = Cardinality(w) - Cardinality(g)
      BY <1>2, <3>1, <3>2, <3>3, FS_EmptySet
    <3> QED
      BY <3>4 DEF x
  <2>2. free' > 0 => Cardinality(w \ g) = 0
    BY <1>1, <1>2, <2>1
  <2>3. Cardinality(w \ g) = 0 => w \ g = {}
    BY CardOf
  <2> QED
    BY <2>2, <2>3
<1> QED
  BY <1>1, <1>2, <1>3, <1>4

-----------------------------------------------------------------------------
(* The ranking.                                                            *)

LEMMA ChainComplete ==
  ASSUME Shape, Chained, NEW c \in Callers, Pending(c), IsDone(predecessor[c]),
         done' = done \cup {c}, UNCHANGED <<entry, predecessor, tail>>,
         \A k \in Keys : entries'[k] \in {entries[k], None}
  PROVE  Chained'
<1>1. PICK r \in [Callers -> Nat] : Ranked(r)
  BY DEF Chained
<1>2. Ranked(r)'
  <2>1. ASSUME NEW d \in Callers, NEW x \in Callers, Pending(d)', Pending(x)',
               entry[d] = entry[x]
        PROVE  /\ r[d] = r[x] => d = x
               /\ IsDone(predecessor[d])' => r[d] <= r[x]
    <3>1. Pending(d) /\ Pending(x) /\ d # c /\ x # c
      BY <2>1 DEF Pending
    <3>2. r[d] = r[x] => d = x
      BY <1>1, <2>1, <3>1 DEF Ranked
    <3>3. ASSUME IsDone(predecessor[d])' PROVE r[d] <= r[x]
      <4>1. CASE IsDone(predecessor[d])
        BY <1>1, <2>1, <3>1, <4>1 DEF Ranked
      <4>2. CASE ~IsDone(predecessor[d])
        <5>1. predecessor[d] = c
          BY <3>3, <4>2 DEF IsDone
        <5>2. r[d] = r[c] + 1 /\ entry[c] = entry[d]
          BY <1>1, <3>1, <4>2, <5>1 DEF Ranked
        <5>3. r[c] <= r[x] /\ r[c] # r[x]
          BY <1>1, <2>1, <3>1, <5>2 DEF Ranked
        <5> QED
          BY <1>1, <5>2, <5>3
      <4> QED
        BY <4>1, <4>2
    <3> QED
      BY <3>2, <3>3
  <2>2. ASSUME NEW d \in Callers, Pending(d)'
        PROVE  LET t == tail[entry[d]] IN
                 /\ t \in Callers /\ Pending(t)' /\ entry[t] = entry[d]
                 /\ r[d] <= r[t]
    <3> DEFINE t == tail[entry[d]]
    <3>1. Pending(d) /\ d # c
      BY <2>2 DEF Pending
    <3>2. t \in Callers /\ Pending(t) /\ entry[t] = entry[d] /\ r[d] <= r[t]
      BY <1>1, <3>1 DEF Ranked
    <3>3. t # c
      <4>1. SUFFICES ASSUME t = c PROVE FALSE
        OBVIOUS
      <4>2. r[c] <= r[d]
        BY <1>1, <3>1, <3>2, <4>1 DEF Ranked
      <4>3. r[c] = r[d]
        BY <1>1, <3>2, <4>1, <4>2
      <4> QED
        BY <1>1, <3>1, <3>2, <4>1, <4>3 DEF Ranked
    <3> QED
      BY <3>2, <3>3 DEF Pending
  <2>3. ASSUME NEW d \in Callers, Pending(d)', ~IsDone(predecessor[d])'
        PROVE  LET p == predecessor[d] IN
                 /\ p \in Callers /\ Pending(p)' /\ entry[p] = entry[d]
                 /\ r[d] = r[p] + 1
    <3>1. Pending(d) /\ ~IsDone(predecessor[d]) /\ predecessor[d] # c
      BY <2>3 DEF Pending, IsDone
    <3> QED
      BY <1>1, <3>1 DEF Ranked, Pending
  <2> QED
    BY <2>1, <2>2, <2>3 DEF Ranked
<1>3. Created'
  BY DEF Chained, Created, IsDone, Pending, Shape, Futures
<1> QED
  BY <1>2, <1>3 DEF Chained

\* A step that completes nothing and at most drops entries.
LEMMA ChainKept ==
  ASSUME Chained, UNCHANGED <<entry, predecessor, tail, done>>,
         \A k \in Keys : entries'[k] \in {entries[k], None}
  PROVE  Chained'
<1>1. PICK r \in [Callers -> Nat] : Ranked(r)
  BY DEF Chained
<1>2. Ranked(r)'
  BY <1>1 DEF Ranked, Pending, IsDone
<1>3. Created'
  BY DEF Chained, Created, IsDone, Pending
<1> QED
  BY <1>2, <1>3 DEF Chained

LEMMA ChainAdmit ==
  ASSUME Shape, Placed, Chained, NEW c \in Callers, NEW k \in Keys, Admit(c, k)
  PROVE  Chained'
<1> DEFINE e == EntryFor(c, k)
           p == TailFor(k)
<1>1. /\ c \notin done /\ entry[c] = None
      /\ entry' = [entry EXCEPT ![c] = e]
      /\ predecessor' = [predecessor EXCEPT ![c] = p]
      /\ tail' = [tail EXCEPT ![e] = c]
      /\ entries' = [entries EXCEPT ![k] = e]
      /\ done' = done
  BY DEF Admit, Placed, PlacedOK, futures
<1>2. e \in Callers /\ e # None /\ (e = c \/ entry[e] = e)
  BY ProcessorAssumption DEF Shape, Futures, EntryFor, Chained, Created
<1>3. /\ entry'[c] = e /\ predecessor'[c] = p /\ tail'[e] = c
      /\ \A d \in Callers : d # c => entry'[d] = entry[d] /\ predecessor'[d] = predecessor[d]
      /\ \A d \in Callers : d # e => tail'[d] = tail[d]
  BY <1>1, <1>2 DEF Shape
<1>4. /\ Pending(c)' /\ ~Pending(c)
      /\ \A d \in Callers : d # c => (Pending(d)' <=> Pending(d))
      /\ \A f : IsDone(f)' <=> IsDone(f)
  BY <1>1, <1>2, <1>3 DEF Pending, IsDone
<1>5. e = c => /\ p = None
               /\ \A d \in Callers : entry[d] # c
  BY <1>1, <1>2, ProcessorAssumption
     DEF Chained, Created, EntryFor, TailFor, Shape, Futures, Placed, PlacedOK
<1>6. ~IsDone(p) => p \in Callers /\ Pending(p) /\ entry[p] = e /\ p = tail[e]
  BY <1>5 DEF Chained, Created, EntryFor, TailFor, Shape, Futures, IsDone
<1>7. \A d \in Callers : Pending(d) /\ entry[d] = e => p = tail[e]
  BY <1>5 DEF EntryFor, TailFor
<1>8. PICK r \in [Callers -> Nat] : Ranked(r)
  BY DEF Chained
<1>9. PICK q \in [Callers -> Nat] :
        /\ q[c] = IF IsDone(p) THEN 0 ELSE r[p] + 1
        /\ \A d \in Callers : d # c => q[d] = r[d]
  <2> DEFINE f == [d \in Callers |-> IF d = c THEN IF IsDone(p) THEN 0 ELSE r[p] + 1
                                              ELSE r[d]]
  <2>1. f \in [Callers -> Nat]
    BY <1>6, <1>8
  <2> QED
    BY <2>1
<1>11. \A d \in Callers : d # c /\ Pending(d) /\ entry[d] = e => ~IsDone(p) /\ r[d] < q[c]
  <2> SUFFICES ASSUME NEW d \in Callers, d # c, Pending(d), entry[d] = e
               PROVE  ~IsDone(p) /\ r[d] < q[c]
    OBVIOUS
  <2>1. p \in Callers /\ Pending(p) /\ r[d] <= r[p]
    BY <1>7, <1>8 DEF Ranked
  <2>2. ~IsDone(p)
    BY <2>1, ProcessorAssumption DEF Pending, IsDone
  <2> QED
    BY <1>8, <1>9, <2>1, <2>2
<1> HIDE DEF e, p
<1>12. Ranked(q)'
  <2>1. ASSUME NEW d \in Callers, NEW x \in Callers, Pending(d)', Pending(x)',
               entry'[d] = entry'[x]
        PROVE  /\ q[d] = q[x] => d = x
               /\ IsDone(predecessor[d])' => q[d] <= q[x]
    <3>1. CASE d # c /\ x # c
      BY <1>1, <1>3, <1>4, <1>8, <1>9, <2>1, <3>1 DEF Ranked, IsDone, Pending
    <3>2. CASE d = c /\ x # c
      BY <1>1, <1>3, <1>4, <1>8, <1>9, <1>11, <2>1, <3>2 DEF IsDone, Pending
    <3>3. CASE d # c /\ x = c
      BY <1>1, <1>3, <1>4, <1>8, <1>9, <1>11, <2>1, <3>3 DEF IsDone, Pending
    <3>4. CASE d = c /\ x = c
      BY <1>9, <3>4
    <3> QED
      BY <3>1, <3>2, <3>3, <3>4
  <2>2. ASSUME NEW d \in Callers, Pending(d)'
        PROVE  (LET t == tail[entry[d]] IN
                 /\ t \in Callers /\ Pending(t) /\ entry[t] = entry[d]
                 /\ q[d] <= q[t])'
    <3>1. CASE entry'[d] = e
      BY <1>1, <1>3, <1>4, <1>8, <1>9, <1>11, <2>2, <3>1 DEF IsDone, Pending
    <3>2. CASE entry'[d] # e
      <4>1. d # c /\ Pending(d) /\ entry'[d] = entry[d] /\ entry[d] \in Callers
        BY <1>1, <1>3, <1>4, <2>2, <3>2 DEF Shape, Pending, Futures, IsDone
      <4>2. tail'[entry[d]] = tail[entry[d]]
        BY <1>3, <3>2, <4>1
      <4>3. /\ tail[entry[d]] \in Callers /\ Pending(tail[entry[d]])
            /\ entry[tail[entry[d]]] = entry[d] /\ r[d] <= r[tail[entry[d]]]
        BY <1>8, <4>1 DEF Ranked
      <4> QED
        BY <1>1, <1>3, <1>4, <1>9, <4>1, <4>2, <4>3 DEF IsDone, Pending
    <3> QED
      BY <3>1, <3>2
  <2>3. ASSUME NEW d \in Callers, Pending(d)', ~IsDone(predecessor[d])'
        PROVE  (LET x == predecessor[d] IN
                 /\ x \in Callers /\ Pending(x) /\ entry[x] = entry[d]
                 /\ q[d] = q[x] + 1)'
    <3>1. CASE d = c
      <4>1. ~IsDone(p) /\ predecessor'[d] = p
        BY <1>1, <1>3, <1>4, <2>3, <3>1 DEF IsDone, Pending
      <4> QED
        BY <1>1, <1>3, <1>4, <1>6, <1>9, <3>1, <4>1 DEF IsDone, Pending
    <3>2. CASE d # c
      BY <1>1, <1>3, <1>4, <1>8, <1>9, <2>3, <3>2 DEF Ranked, IsDone, Pending
    <3> QED
      BY <3>1, <3>2
  <2> QED
    BY <2>1, <2>2, <2>3 DEF Ranked
<1>13. Created'
  <2> SUFFICES ASSUME NEW j \in Keys, entries'[j] # None
               PROVE  (LET f == entries[j] IN
                        /\ entry[f] = f
                        /\ ~IsDone(tail[f]) => Pending(tail[f]) /\ entry[tail[f]] = f)'
    BY DEF Created
  <2>1. CASE entries'[j] = e
    BY <1>2, <1>1, <1>3, <1>4, <2>1 DEF IsDone, Pending
  <2>2. CASE entries'[j] # e
    <3>1. entries'[j] = entries[j] /\ entries[j] \in Callers
      BY <1>1, <2>2 DEF Shape, Futures
    <3>2. /\ entry[entries[j]] = entries[j]
          /\ ~IsDone(tail[entries[j]]) => /\ Pending(tail[entries[j]])
                                          /\ entry[tail[entries[j]]] = entries[j]
      BY <3>1 DEF Chained, Created
    <3>3. entries[j] # c /\ tail'[entries[j]] = tail[entries[j]]
      BY <1>1, <1>3, <2>2, <3>1, <3>2
    <3>4. ~IsDone(tail[entries[j]]) => tail[entries[j]] \in Callers
      BY <3>1 DEF Shape, Futures, IsDone
    <3> QED
      BY <1>1, <1>3, <1>4, <3>1, <3>2, <3>3, <3>4 DEF Pending, IsDone
  <2> QED
    BY <2>1, <2>2
<1> QED
  BY <1>9, <1>12, <1>13 DEF Chained

-----------------------------------------------------------------------------
(* The end of a call, as far as End, CancelTurn and CancelSlot share it.   *)

Admissions ==
  /\ \A e \in Callers : references[e] = Cardinality(Members(e))
  /\ admitted = Cardinality(InCall)
  /\ admitted <= Capacity

LEMMA EndCommon ==
  ASSUME Inv, NEW c \in Callers, Admitted(c), CompleteTurn(c), Finish(c),
         UNCHANGED <<key, predecessor, entry, tail, closing>>
  PROVE  /\ Shape' /\ Placed' /\ Chained' /\ Draining' /\ Admissions'
         /\ step' = [step EXCEPT ![c] = "left"]
<1> DEFINE e == entry[c]
<1>1. /\ step' = [step EXCEPT ![c] = "left"]
      /\ references' = [references EXCEPT ![e] = @ - 1]
      /\ admitted' = admitted - 1
      /\ drained' = (drained \/ admitted = 1)
      /\ UNCHANGED <<key, predecessor, entry, tail, closed, closer>>
  BY DEF Finish, LastAdmitted, closing
<1>2. /\ e \in Callers /\ key[c] \in Keys /\ entries[key[c]] = e
      /\ c \notin done /\ c \notin deferred /\ e # None
      /\ step[c] \in {"slot", "running"} => IsDone(predecessor[c])
  BY DEF Inv, Placed, PlacedOK, Shape, Futures
<1>3. Members(e) \in SUBSET Callers /\ InCall \in SUBSET Callers
      /\ c \in Members(e) /\ c \in InCall
  BY <1>2 DEF Members, InCall
<1>4. /\ \A d \in Callers : d # c => step'[d] = step[d]
      /\ step'[c] = "left"
      /\ \A d \in Callers : Admitted(d)' <=> Admitted(d) /\ d # c
  BY <1>1 DEF Inv, Shape, Admitted
<1>5. InCall' = InCall \ {c}
  BY <1>4 DEF InCall
<1>6. \A f \in Callers : Members(f)' = IF f = e THEN Members(f) \ {c} ELSE Members(f)
  BY <1>1, <1>4 DEF Members
<1>7. Admissions'
  <2>1. /\ admitted = Cardinality(InCall) /\ admitted <= Capacity
        /\ references \in [Callers -> Nat]
        /\ \A f \in Callers : references[f] = Cardinality(Members(f))
    BY DEF Inv, Counted, Shape
  <2>2. Cardinality(InCall \ {c}) = Cardinality(InCall) - 1 /\ Cardinality(InCall) \in Nat
    BY <1>3, CardOf
  <2>3. Cardinality(Members(e) \ {c}) = Cardinality(Members(e)) - 1
    BY <1>3, CardOf
  <2>4. Capacity' = Capacity /\ Capacity \in Nat
    BY ProcessorAssumption DEF Capacity
  <2>5. admitted' = Cardinality(InCall') /\ admitted' <= Capacity
    BY <1>1, <1>5, <2>1, <2>2, <2>4
  <2>6. ASSUME NEW f \in Callers PROVE references'[f] = Cardinality(Members(f)')
    BY <1>1, <1>2, <1>6, <2>1, <2>3
  <2> QED
    BY <2>4, <2>5, <2>6 DEF Admissions
<1>8. \A k \in Keys : entries'[k] = IF references[e] = 1 /\ k = key[c] THEN None ELSE entries[k]
  BY <1>2 DEF Finish, LastReference, Inv, Shape
<1>9. references[e] = 1 => Members(e) = {c}
  <2> SUFFICES ASSUME references[e] = 1 PROVE Members(e) = {c}
    OBVIOUS
  <2>1. Cardinality(Members(e)) = 1
    BY <1>2 DEF Inv, Counted
  <2>2. Cardinality(Members(e) \ {c}) = 0
    BY <1>3, <2>1, CardOf
  <2>3. Members(e) \ {c} = {}
    BY <1>3, <2>2, CardOf
  <2> QED
    BY <1>3, <2>3
<1>10. Shape'
  <2>1. references' \in [Callers -> Nat]
    <3>1. references[e] \in Nat /\ references[e] # 0
      BY <1>2, <1>3, CardOf DEF Inv, Counted, Shape
    <3> QED
      BY <1>1, <1>2, <3>1 DEF Inv, Shape
  <2>2. entries' \in [Keys -> Futures]
    BY <1>2 DEF Finish, Inv, Shape, Futures
  <2>3. done' \subseteq Callers /\ deferred' \subseteq Callers
    BY DEF CompleteTurn, Complete, Defer, Inv, Shape
  <2> QED
    BY <1>1, <2>1, <2>2, <2>3 DEF Inv, Shape
<1>11. \/ IsDone(predecessor[c]) /\ done' = done \cup {c} /\ deferred' = deferred
       \/ done' = done /\ deferred' = deferred \cup {c}
  BY <1>2 DEF CompleteTurn, Complete, Defer, Admitted
<1>12. Placed'
  <2> SUFFICES ASSUME NEW d \in Callers PROVE PlacedOK(d)'
    BY DEF Placed
  <2>1. PlacedOK(d)
    BY DEF Inv, Placed
  <2>2. CASE d = c
    BY <1>1, <1>2, <1>4, <1>11, <2>1, <2>2 DEF PlacedOK, Admitted, IsDone, Inv, Shape
  <2>3. CASE d # c
    <3>1. step'[d] = step[d] /\ (Admitted(d)' <=> Admitted(d))
      BY <1>4, <2>3
    <3>2. /\ d \in done' <=> d \in done
          /\ d \in deferred' <=> d \in deferred
          /\ IsDone(predecessor[d]) => IsDone(predecessor[d])'
      BY <1>1, <1>11, <2>3 DEF IsDone
    <3>3. Admitted(d) => entries'[key[d]] = entry[d]
      <4> SUFFICES ASSUME Admitted(d) PROVE entries'[key[d]] = entry[d]
        OBVIOUS
      <4>1. key[d] \in Keys /\ entries[key[d]] = entry[d] /\ entry[d] # None
        BY <2>1 DEF PlacedOK
      <4>2. CASE references[e] = 1 /\ key[d] = key[c]
        BY <1>2, <1>9, <2>3, <4>1, <4>2 DEF Members
      <4> QED
        BY <1>8, <4>1, <4>2
    <3> QED
      BY <1>1, <2>1, <3>1, <3>2, <3>3 DEF PlacedOK
  <2> QED
    BY <2>2, <2>3
<1>13. Chained'
  <2>1. \A k \in Keys : entries'[k] \in {entries[k], None}
    BY <1>8
  <2>2. Pending(c)
    BY <1>2 DEF Pending
  <2> QED
    BY <1>1, <1>11, <2>1, <2>2, ChainComplete, ChainKept DEF Inv
<1>14. Draining'
  <2>1. admitted \in Nat
    BY <1>3, CardOf DEF Inv, Counted
  <2>2. admitted # 0
    BY <1>3, CardOf DEF Inv, Counted
  <2>3. ~drained /\ closer # "returned" /\ (closer # "open" <=> closed)
    BY <2>2 DEF Inv, Draining
  <2>4. drained' => admitted = 1
    BY <1>1, <2>3
  <2>5. drained' => admitted' = 0
    BY <1>1, <2>4
  <2> QED
    BY <1>1, <2>3, <2>5 DEF Draining
<1> QED
  BY <1>1, <1>7, <1>10, <1>12, <1>13, <1>14

-----------------------------------------------------------------------------
(* The steps.                                                              *)

LEMMA InitInv == Init => Inv
<1> SUFFICES ASSUME Init PROVE Inv
  OBVIOUS
<1>1. Shape /\ Placed
  BY ProcessorAssumption DEF Init, Shape, Futures, Placed, PlacedOK, Admitted, IsDone
<1>2. InCall = {} /\ Running = {} /\ \A e \in Callers : Members(e) = {}
  BY DEF Init, InCall, Running, Members, Admitted
<1>3. Counted /\ Slotted /\ Draining
  BY <1>2, ProcessorAssumption, FS_EmptySet DEF Init, Counted, Slotted, Draining, Capacity
<1>4. Chained
  <2>1. [c \in Callers |-> 0] \in [Callers -> Nat]
    OBVIOUS
  <2>2. Ranked([c \in Callers |-> 0]) /\ Created
    BY DEF Init, Ranked, Created, Pending
  <2> QED
    BY <2>1, <2>2 DEF Chained
<1> QED
  BY <1>1, <1>3, <1>4 DEF Inv

\* The steps by which a call that stays in the registry comes to run.
LEMMA TakeInv ==
  ASSUME Inv, NEW c \in Callers, TakeTurn(c) \/ TakeSlot(c)
  PROVE  Inv'
<1>1. /\ step[c] \in {"turn", "slot"}
      /\ \E s \in {"slot", "running"} : step' = [step EXCEPT ![c] = s]
      /\ UNCHANGED <<key, predecessor, entry, done, deferred, entries, tail,
                    references, admitted, closed, drained, closer>>
      /\ IsDone(predecessor[c])
  BY DEF TakeTurn, TakeSlot, Run, Inv, Placed, PlacedOK, futures, registry, closing
<1>2. /\ \A d \in Callers : d # c => step'[d] = step[d]
      /\ step'[c] \in {"slot", "running"}
      /\ \A d \in Callers : Admitted(d)' <=> Admitted(d)
      /\ \A d \in Callers : IsDone(predecessor[d])' <=> IsDone(predecessor[d])
  BY <1>1 DEF Inv, Shape, Admitted, IsDone
<1>3. Shape'
  BY <1>1 DEF Inv, Shape
<1>4. Placed'
  BY <1>1, <1>2 DEF Inv, Placed, PlacedOK
<1>5. InCall' = InCall /\ \A e \in Callers : Members(e)' = Members(e)
  BY <1>1, <1>2 DEF InCall, Members
<1>6. Chained' /\ Draining'
  BY <1>1, ChainKept DEF Inv, Draining
<1>7. /\ Running \in SUBSET Callers /\ granted \in SUBSET Callers
      /\ waiting \in SUBSET Callers /\ c \notin Running
      /\ Cardinality(Running) \in Nat /\ Cardinality(granted) \in Nat
      /\ Cardinality(Running \cup {c}) = Cardinality(Running) + 1
  <2>1. /\ Running \in SUBSET Callers /\ granted \in SUBSET Callers
        /\ waiting \in SUBSET Callers /\ c \notin Running
    BY <1>1 DEF Running, Inv, Slotted
  <2> QED
    BY <2>1, CardOf
<1>8. Running' = (IF step'[c] = "running" THEN Running \cup {c} ELSE Running)
  BY <1>1, <1>2 DEF Running
<1>9. active = Cardinality(Running) /\ free \in Nat
      /\ free + Cardinality(granted) + Cardinality(Running) = MaxConcurrency
      /\ waiting \cap granted = {}
      /\ waiting \cup granted = {d \in Callers : step[d] = "slot"}
  BY DEF Inv, Counted, Slotted
<1>10. CASE TakeTurn(c) /\ ~Locked
  <2>1. /\ step'[c] = "running" /\ active' = active + 1 /\ free' = free - 1
        /\ UNCHANGED <<waiting, granted>> /\ free # 0 /\ waiting = {}
        /\ step[c] = "turn"
    BY <1>10 DEF TakeTurn, Locked, Run, Inv, Shape
  <2>2. {d \in Callers : step[d] = "slot"}' = {d \in Callers : step[d] = "slot"}
    BY <1>2, <2>1
  <2>3. active' = Cardinality(Running') /\ Slotted'
    BY <1>7, <1>8, <1>9, <2>1, <2>2 DEF Slotted
  <2> QED
    BY <1>1, <1>3, <1>4, <1>5, <1>6, <2>3 DEF Inv, Counted, Capacity
<1>11. CASE TakeTurn(c) /\ Locked
  <2>1. /\ step'[c] = "slot" /\ waiting' = waiting \cup {c}
        /\ UNCHANGED <<active, free, granted>> /\ step[c] = "turn"
        /\ free = 0 \/ granted # {}
    BY <1>11 DEF TakeTurn, Locked, Inv, Shape, Slotted
  <2>2. {d \in Callers : step[d] = "slot"}' = {d \in Callers : step[d] = "slot"} \cup {c}
    BY <1>2, <2>1
  <2>3. c \notin granted
    BY <1>9, <2>1
  <2>4. active' = Cardinality(Running') /\ Slotted'
    BY <1>7, <1>8, <1>9, <2>1, <2>2, <2>3 DEF Slotted
  <2> QED
    BY <1>1, <1>3, <1>4, <1>5, <1>6, <2>4 DEF Inv, Counted, Capacity
<1>12. CASE TakeSlot(c)
  <2>1. /\ step'[c] = "running" /\ active' = active + 1
        /\ Offer(free, waiting, granted \ {c}) /\ step[c] = "slot" /\ c \in granted
    BY <1>12 DEF TakeSlot, Run, Inv, Shape
  <2>2. Cardinality(granted \ {c}) = Cardinality(granted) - 1
    BY <1>7, <2>1, CardOf
  <2>3. /\ waiting' \cap granted' = {}
        /\ waiting' \cup granted' = waiting \cup (granted \ {c})
        /\ free' \in Nat
        /\ free' + Cardinality(granted') = free + Cardinality(granted \ {c})
        /\ free' > 0 => waiting' = {}
    <3> DEFINE h == granted \ {c}
    <3>1. /\ free \in Nat /\ h \in SUBSET Callers /\ waiting \cap h = {}
          /\ Offer(free, waiting, h)
      BY <1>7, <1>9, <2>1
    <3> HIDE DEF h
    <3>2. /\ waiting' \cap granted' = {}
          /\ waiting' \cup granted' = waiting \cup h
          /\ free' \in Nat
          /\ free' + Cardinality(granted') = free + Cardinality(h)
          /\ free' > 0 => waiting' = {}
      BY <1>7, <3>1, OfferKeeps
    <3> QED
      BY <3>2 DEF h
  <2>4. {d \in Callers : step[d] = "slot"}' = {d \in Callers : step[d] = "slot"} \ {c}
    BY <1>2, <2>1
  <2>5. waiting' \cup granted' = {d \in Callers : step[d] = "slot"}'
    BY <1>9, <2>1, <2>3, <2>4
  <2>6. Cardinality(granted') \in Nat
    <3>1. granted' \in SUBSET Callers
      BY <2>5
    <3> QED
      BY <3>1, CardOf
  <2>7. active' = Cardinality(Running') /\ Slotted'
    BY <1>7, <1>8, <1>9, <2>1, <2>2, <2>3, <2>5, <2>6 DEF Slotted
  <2> QED
    BY <1>1, <1>3, <1>4, <1>5, <1>6, <2>7 DEF Inv, Counted, Capacity
<1> QED
  BY <1>10, <1>11, <1>12

LEMMA AdmitInv ==
  ASSUME Inv, NEW c \in Callers, NEW k \in Keys, Admit(c, k)
  PROVE  Inv'
<1> DEFINE e == EntryFor(c, k)
<1>1. /\ step[c] = "new" /\ admitted < Capacity /\ ~closed
      /\ step' = [step EXCEPT ![c] = "turn"]
      /\ key' = [key EXCEPT ![c] = k]
      /\ entry' = [entry EXCEPT ![c] = e]
      /\ predecessor' = [predecessor EXCEPT ![c] = TailFor(k)]
      /\ entries' = [entries EXCEPT ![k] = e]
      /\ tail' = [tail EXCEPT ![e] = c]
      /\ references' = [references EXCEPT ![e] = @ + 1]
      /\ admitted' = admitted + 1 /\ drained' = FALSE
      /\ UNCHANGED <<done, deferred, active, free, waiting, granted, closed, closer>>
  BY DEF Admit, HasRoom, futures, slots, closing
<1>2. /\ e \in Callers /\ e # None /\ (e = c \/ entry[e] = e)
      /\ c \notin done /\ c \notin deferred /\ entry[c] = None
      /\ TailFor(k) \in Futures
  <2>1. entries[k] \in Futures /\ (entries[k] # None => entry[entries[k]] = entries[k])
    BY DEF Inv, Shape, Chained, Created
  <2>2. c \notin done /\ c \notin deferred /\ entry[c] = None
    BY <1>1 DEF Inv, Placed, PlacedOK
  <2>3. TailFor(k) \in Futures
    BY <2>1 DEF TailFor, Futures, Inv, Shape
  <2> QED
    BY <2>1, <2>2, <2>3, ProcessorAssumption DEF EntryFor, Futures
<1>3. /\ \A d \in Callers : d # c => step'[d] = step[d] /\ key'[d] = key[d]
                                     /\ entry'[d] = entry[d]
                                     /\ predecessor'[d] = predecessor[d]
      /\ step'[c] = "turn" /\ key'[c] = k /\ entry'[c] = e
      /\ entries'[k] = e /\ \A j \in Keys : j # k => entries'[j] = entries[j]
  BY <1>1 DEF Inv, Shape
<1>4. \A d \in Callers : Admitted(d)' <=> Admitted(d) \/ d = c
  BY <1>3 DEF Admitted
<1>5. ~Admitted(c)
  BY <1>1 DEF Admitted
<1> HIDE DEF e
<1>6. Shape'
  <2>1. step' \in [Callers -> {"new", "turn", "slot", "running", "left"}]
    BY <1>1 DEF Inv, Shape
  <2>2. key' \in [Callers -> Keys \cup {None}] /\ entries' \in [Keys -> Futures]
    BY <1>1, <1>2 DEF Inv, Shape, Futures
  <2>3. /\ predecessor' \in [Callers -> Futures] /\ entry' \in [Callers -> Futures]
        /\ tail' \in [Callers -> Futures]
    BY <1>1, <1>2 DEF Inv, Shape, Futures
  <2>4. references' \in [Callers -> Nat]
    BY <1>1, <1>2 DEF Inv, Shape
  <2> QED
    BY <1>1, <2>1, <2>2, <2>3, <2>4 DEF Inv, Shape
<1>7. Placed'
  <2> SUFFICES ASSUME NEW d \in Callers PROVE PlacedOK(d)'
    BY DEF Placed
  <2>1. CASE d = c
    BY <1>1, <1>2, <1>3, <2>1 DEF PlacedOK, IsDone
  <2>2. CASE d # c
    <3>1. PlacedOK(d)
      BY DEF Inv, Placed
    <3>2. Admitted(d) => entries'[key[d]] = entry[d]
      BY <1>3, <3>1 DEF PlacedOK, e, EntryFor
    <3>3. entry[d] # None => entry[d] # c /\ entry[d] \in Callers
      BY <1>2, <3>1, ProcessorAssumption DEF PlacedOK, Inv, Shape, Futures
    <3>4. IsDone(predecessor[d])' <=> IsDone(predecessor[d])
      BY <1>1, <1>3, <2>2 DEF IsDone
    <3> QED
      BY <1>1, <1>3, <1>4, <2>2, <3>1, <3>2, <3>3, <3>4 DEF PlacedOK
  <2> QED
    BY <2>1, <2>2
<1>8. Counted'
  <2>1. InCall' = InCall \cup {c} /\ c \notin InCall /\ InCall \in SUBSET Callers
    BY <1>4, <1>5 DEF InCall
  <2>2. Cardinality(InCall \cup {c}) = Cardinality(InCall) + 1
        /\ Cardinality(InCall) \in Nat
    BY <2>1, CardOf
  <2>3. \A f \in Callers :
          Members(f)' = IF f = e THEN Members(f) \cup {c} ELSE Members(f)
    BY <1>3, <1>4, <1>5 DEF Members
  <2>4. c \notin Members(e) /\ Members(e) \in SUBSET Callers
    BY <1>5 DEF Members
  <2>5. Cardinality(Members(e) \cup {c}) = Cardinality(Members(e)) + 1
    BY <2>4, CardOf
  <2>6. ASSUME NEW f \in Callers PROVE references'[f] = Cardinality(Members(f)')
    BY <1>1, <1>2, <2>3, <2>5 DEF Inv, Counted, Shape
  <2>7. Capacity' = Capacity /\ Capacity \in Nat
    BY ProcessorAssumption DEF Capacity
  <2>8. admitted' = Cardinality(InCall') /\ admitted' <= Capacity
    BY <1>1, <2>1, <2>2, <2>7 DEF Inv, Counted
  <2>9. Running' = Running
    BY <1>1, <1>3 DEF Running
  <2> QED
    BY <1>1, <2>6, <2>7, <2>8, <2>9 DEF Inv, Counted
<1>9. Slotted'
  <2>1. Running' = Running
        /\ {d \in Callers : step[d] = "slot"}' = {d \in Callers : step[d] = "slot"}
    BY <1>1, <1>3 DEF Running
  <2> QED
    BY <1>1, <2>1 DEF Inv, Slotted
<1>10. Draining'
  BY <1>1 DEF Inv, Draining
<1>11. Chained'
  BY ChainAdmit DEF Inv
<1> QED
  BY <1>6, <1>7, <1>8, <1>9, <1>10, <1>11 DEF Inv

LEMMA EndInv ==
  ASSUME Inv, NEW c \in Callers, End(c)
  PROVE  Inv'
<1>1. /\ step[c] = "running" /\ active' = active - 1 /\ Release
      /\ CompleteTurn(c) /\ Finish(c)
      /\ UNCHANGED <<key, predecessor, entry, tail, closing>>
  BY DEF End
<1>2. Admitted(c)
  BY <1>1 DEF Admitted
<1>3. /\ Shape' /\ Placed' /\ Chained' /\ Draining' /\ Admissions'
      /\ step' = [step EXCEPT ![c] = "left"]
  BY <1>1, <1>2, EndCommon
<1>4. /\ \A d \in Callers : d # c => step'[d] = step[d]
      /\ step'[c] = "left"
  BY <1>3 DEF Inv, Shape
<1>5. /\ Running' = Running \ {c} /\ c \in Running /\ Running \in SUBSET Callers
      /\ {d \in Callers : step[d] = "slot"}' = {d \in Callers : step[d] = "slot"}
  BY <1>1, <1>4 DEF Running
<1>6. /\ Cardinality(Running') = Cardinality(Running) - 1
      /\ Cardinality(Running) \in Nat /\ Cardinality(Running') \in Nat
  <2>1. Cardinality(Running') = Cardinality(Running) - 1
        /\ Cardinality(Running) \in Nat
    BY <1>5, CardOf
  <2>2. Running' \in SUBSET Callers
    BY <1>5
  <2> QED
    BY <2>1, <2>2, CardOf
<1>7. /\ active = Cardinality(Running) /\ free \in Nat
      /\ free + Cardinality(granted) + Cardinality(Running) = MaxConcurrency
      /\ waiting \cap granted = {}
      /\ waiting \cup granted = {d \in Callers : step[d] = "slot"}
  BY DEF Inv, Counted, Slotted
<1>8. granted \in SUBSET Callers
  BY <1>7
<1>9. Cardinality(granted) \in Nat
  BY <1>8, CardOf
<1>10. Slotted'
  <2>1. CASE waiting = {} /\ free' = free + 1 /\ UNCHANGED <<waiting, granted>>
    BY <1>5, <1>6, <1>7, <1>9, <2>1 DEF Slotted
  <2>2. ASSUME NEW d \in waiting, granted' = granted \cup {d},
               waiting' = waiting \ {d}, UNCHANGED free
        PROVE  Slotted'
    <3>1. d \notin granted
      BY <1>7
    <3>2. Cardinality(granted') = Cardinality(granted) + 1
      BY <1>8, <2>2, <3>1, CardOf
    <3>3. waiting' \cap granted' = {} /\ waiting' \cup granted' = waiting \cup granted
      BY <1>7, <2>2
    <3>4. free' + Cardinality(granted') + Cardinality(Running') = MaxConcurrency
      BY <1>6, <1>7, <1>9, <2>2, <3>2
    <3> QED
      BY <1>5, <1>7, <2>2, <3>3, <3>4 DEF Slotted
  <2> QED
    BY <1>1, <2>1, <2>2 DEF Release
<1>11. Counted'
  BY <1>1, <1>3, <1>6, <1>7 DEF Counted, Admissions
<1> QED
  BY <1>3, <1>10, <1>11 DEF Inv

LEMMA CancelTurnInv ==
  ASSUME Inv, NEW c \in Callers, CancelTurn(c)
  PROVE  Inv'
<1>1. /\ step[c] = "turn"
      /\ CompleteTurn(c) /\ Finish(c)
      /\ UNCHANGED <<key, predecessor, entry, tail, active, closing>>
      /\ UNCHANGED <<free, waiting, granted>>
  BY DEF CancelTurn, slots
<1>2. Admitted(c)
  BY <1>1 DEF Admitted
<1>3. /\ Shape' /\ Placed' /\ Chained' /\ Draining' /\ Admissions'
      /\ step' = [step EXCEPT ![c] = "left"]
  BY <1>1, <1>2, EndCommon
<1>4. /\ Running' = Running
      /\ {d \in Callers : step[d] = "slot"}' = {d \in Callers : step[d] = "slot"}
  BY <1>1, <1>3 DEF Running, Inv, Shape
<1>5. Slotted'
  BY <1>1, <1>4 DEF Inv, Slotted
<1>6. Counted'
  BY <1>1, <1>3, <1>4 DEF Inv, Counted, Admissions
<1> QED
  BY <1>3, <1>5, <1>6 DEF Inv

LEMMA CancelSlotInv ==
  ASSUME Inv, NEW c \in Callers, CancelSlot(c)
  PROVE  Inv'
<1> DEFINE n == IF c \in granted THEN free + 1 ELSE free
<1>1. /\ step[c] = "slot"
      /\ Offer(n, waiting \ {c}, granted \ {c})
      /\ CompleteTurn(c) /\ Finish(c)
      /\ UNCHANGED <<key, predecessor, entry, tail, active, closing>>
  BY DEF CancelSlot
<1>2. Admitted(c)
  BY <1>1 DEF Admitted
<1>3. /\ Shape' /\ Placed' /\ Chained' /\ Draining' /\ Admissions'
      /\ step' = [step EXCEPT ![c] = "left"]
  BY <1>1, <1>2, EndCommon
<1>4. /\ Running' = Running
      /\ {d \in Callers : step[d] = "slot"}'
           = {d \in Callers : step[d] = "slot"} \ {c}
  BY <1>1, <1>3 DEF Running, Inv, Shape
<1>5. /\ free \in Nat
      /\ free + Cardinality(granted) + Cardinality(Running) = MaxConcurrency
      /\ waiting \cap granted = {}
      /\ waiting \cup granted = {d \in Callers : step[d] = "slot"}
  BY DEF Inv, Slotted
<1>6. granted \in SUBSET Callers /\ waiting \in SUBSET Callers
      /\ Running \in SUBSET Callers
  BY <1>5 DEF Running
<1>7. /\ Cardinality(granted) \in Nat /\ Cardinality(Running) \in Nat
      /\ Cardinality(granted \ {c}) \in Nat
      /\ n + Cardinality(granted \ {c}) = free + Cardinality(granted)
  <2>1. Cardinality(granted) \in Nat /\ Cardinality(Running) \in Nat
    BY <1>6, CardOf
  <2>2. (granted \ {c}) \in SUBSET Callers
    BY <1>6
  <2>3. Cardinality(granted \ {c}) \in Nat
    BY <2>2, CardOf
  <2>4. Cardinality(granted \ {c}) =
          IF c \in granted THEN Cardinality(granted) - 1 ELSE Cardinality(granted)
    BY <1>6, CardOf
  <2> QED
    BY <1>5, <2>1, <2>3, <2>4
<1>8. /\ waiting' \cap granted' = {}
      /\ waiting' \cup granted' = (waiting \ {c}) \cup (granted \ {c})
      /\ free' \in Nat
      /\ free' + Cardinality(granted') = n + Cardinality(granted \ {c})
      /\ free' > 0 => waiting' = {}
  <2>1. /\ n \in Nat /\ (waiting \ {c}) \in SUBSET Callers
        /\ (granted \ {c}) \in SUBSET Callers
        /\ (waiting \ {c}) \cap (granted \ {c}) = {}
    BY <1>5, <1>6
  <2>2. Offer(n, waiting \ {c}, granted \ {c})
    BY <1>1
  <2> HIDE DEF n
  <2> QED
    BY <2>1, <2>2, OfferKeeps
<1>9. Slotted'
  <2>1. waiting' \cup granted' = {d \in Callers : step[d] = "slot"}'
    BY <1>4, <1>5, <1>8
  <2>2. granted' \in SUBSET Callers
    BY <2>1
  <2>3. Cardinality(granted') \in Nat
    BY <2>2, CardOf
  <2>4. free' + Cardinality(granted') + Cardinality(Running') = MaxConcurrency
    BY <1>4, <1>5, <1>7, <1>8, <2>3
  <2> QED
    BY <1>8, <2>1, <2>4 DEF Slotted
<1>10. Counted'
  BY <1>1, <1>3, <1>4 DEF Inv, Counted, Admissions
<1> QED
  BY <1>3, <1>9, <1>10 DEF Inv

LEMMA CompleteDeferredInv ==
  ASSUME Inv, NEW c \in Callers, CompleteDeferred(c)
  PROVE  Inv'
<1>1. /\ c \in deferred /\ IsDone(predecessor[c])
      /\ done' = done \cup {c} /\ deferred' = deferred \ {c}
      /\ UNCHANGED <<step, key, predecessor, entry, entries, tail, references,
                    admitted, active, free, waiting, granted, drained, closed, closer>>
  BY DEF CompleteDeferred, caller, registry, slots, closing
<1>2. Pending(c) /\ ~Admitted(c)
  BY <1>1 DEF Inv, Placed, PlacedOK, Pending
<1>3. Chained'
  BY <1>1, <1>2, ChainComplete DEF Inv
<1>4. Shape'
  BY <1>1 DEF Inv, Shape
<1>5. Placed'
  BY <1>1, <1>2 DEF Inv, Placed, PlacedOK, Admitted, IsDone
<1>6. InCall' = InCall /\ Running' = Running /\ \A e \in Callers : Members(e)' = Members(e)
  BY <1>1 DEF InCall, Running, Members, Admitted
<1>7. Counted' /\ Slotted' /\ Draining'
  BY <1>1, <1>6 DEF Inv, Counted, Slotted, Draining, Capacity
<1> QED
  BY <1>3, <1>4, <1>5, <1>7 DEF Inv

LEMMA RefuseInv ==
  ASSUME Inv, NEW c \in Callers, Refuse(c)
  PROVE  Inv'
<1>1. /\ step[c] = "new" /\ step' = [step EXCEPT ![c] = "left"]
      /\ UNCHANGED <<key, predecessor, entry, done, deferred, entries, tail, references,
                    admitted, active, free, waiting, granted, drained, closed, closer>>
  BY DEF Refuse, futures, registry, slots, closing
<1>2. /\ \A d \in Callers : Admitted(d)' <=> Admitted(d)
      /\ Running' = Running
      /\ {d \in Callers : step[d] = "slot"}' = {d \in Callers : step[d] = "slot"}
  BY <1>1 DEF Admitted, Running, Inv, Shape
<1>3. InCall' = InCall /\ \A e \in Callers : Members(e)' = Members(e)
  BY <1>1, <1>2 DEF InCall, Members
<1>4. Shape'
  BY <1>1 DEF Inv, Shape
<1>5. Placed'
  BY <1>1, <1>2 DEF Inv, Shape, Placed, PlacedOK, IsDone
<1>6. Chained'
  BY <1>1, ChainKept DEF Inv
<1>7. Counted' /\ Slotted' /\ Draining'
  BY <1>1, <1>2, <1>3 DEF Inv, Counted, Slotted, Draining, Capacity
<1> QED
  BY <1>4, <1>5, <1>6, <1>7 DEF Inv

LEMMA CloseInv ==
  ASSUME Inv, Close \/ CloseReturns
  PROVE  Inv'
<1>1. UNCHANGED <<step, key, predecessor, entry, done, deferred, entries, tail,
                 references, admitted, active, free, waiting, granted>>
  BY DEF Close, CloseReturns, caller, futures, registry, slots
<1>2. /\ InCall' = InCall /\ Running' = Running
      /\ \A e \in Callers : Members(e)' = Members(e)
  BY <1>1 DEF InCall, Running, Members, Admitted
<1>3. Placed' /\ Counted' /\ Slotted'
  BY <1>1, <1>2 DEF Inv, Placed, PlacedOK, Admitted, IsDone, Counted, Slotted, Capacity
<1>4. Chained'
  BY <1>1, ChainKept DEF Inv
<1>5. Shape' /\ Draining'
  BY <1>1 DEF Inv, Shape, Draining, Close, CloseReturns
<1> QED
  BY <1>3, <1>4, <1>5 DEF Inv

-----------------------------------------------------------------------------
(* The theorems.                                                           *)

\* The inductive invariant holds in every reachable state of the processor
\* (keyed_processor.py: admission, turns, slots, cancellation and close).
THEOREM KeyedInvariance == Spec => []Inv
<1>1. Init => Inv
  BY InitInv
<1>2. Inv /\ [Next]_vars => Inv'
  <2> SUFFICES ASSUME Inv, [Next]_vars PROVE Inv'
    OBVIOUS
  <2>1. ASSUME NEW c \in Callers, TakeTurn(c) \/ TakeSlot(c) PROVE Inv'
    BY <2>1, TakeInv
  <2>2. ASSUME NEW c \in Callers, End(c) PROVE Inv'
    BY <2>2, EndInv
  <2>3. ASSUME NEW c \in Callers, CompleteDeferred(c) PROVE Inv'
    BY <2>3, CompleteDeferredInv
  <2>4. ASSUME NEW c \in Callers, Refuse(c) PROVE Inv'
    BY <2>4, RefuseInv
  <2>5. ASSUME NEW c \in Callers, CancelTurn(c) PROVE Inv'
    BY <2>5, CancelTurnInv
  <2>6. ASSUME NEW c \in Callers, CancelSlot(c) PROVE Inv'
    BY <2>6, CancelSlotInv
  <2>7. ASSUME NEW c \in Callers, NEW k \in Keys, Admit(c, k) PROVE Inv'
    BY <2>7, AdmitInv
  <2>8. CASE Close \/ CloseReturns
    BY <2>8, CloseInv
  <2>9. CASE UNCHANGED vars
    <3>1. UNCHANGED <<step, key, predecessor, entry, done, deferred, entries, tail,
                     references, admitted, active, free, waiting, granted,
                     drained, closed, closer>>
      BY <2>9 DEF vars, caller, futures, registry, slots, closing
    <3>2. /\ InCall' = InCall /\ Running' = Running
          /\ \A e \in Callers : Members(e)' = Members(e)
      BY <3>1 DEF InCall, Running, Members, Admitted
    <3>3. Chained'
      BY <3>1, ChainKept DEF Inv
    <3>4. Shape' /\ Placed'
      BY <3>1 DEF Inv, Shape, Placed, PlacedOK, Admitted, IsDone
    <3>5. Counted' /\ Slotted' /\ Draining'
      BY <3>1, <3>2 DEF Inv, Counted, Slotted, Draining, Capacity
    <3> QED
      BY <3>3, <3>4, <3>5 DEF Inv
  <2> QED
    BY <2>1, <2>2, <2>3, <2>4, <2>5, <2>6, <2>7, <2>8, <2>9 DEF Next, Go
<1> QED
  BY <1>1, <1>2, PTL DEF Spec

\* The counters keep their bounds: at most MaxConcurrency calls run and at
\* most MaxConcurrency + MaxQueue are admitted, however calls are cancelled.
THEOREM KeyedTypeOK == Spec => []TypeOK
<1>1. Inv => TypeOK
  <2> SUFFICES ASSUME Inv PROVE TypeOK
    OBVIOUS
  <2>1. granted \in SUBSET Callers /\ waiting \in SUBSET Callers
        /\ Running \in SUBSET Callers /\ InCall \in SUBSET Callers
    BY DEF Inv, Slotted, Running, InCall
  <2>2. /\ Cardinality(granted) \in Nat /\ Cardinality(Running) \in Nat
        /\ Cardinality(InCall) \in Nat
    BY <2>1, CardOf
  <2>3. /\ admitted \in 0 .. Capacity /\ active \in 0 .. MaxConcurrency
        /\ free \in 0 .. MaxConcurrency
    BY <2>2, ProcessorAssumption DEF Inv, Counted, Slotted, Capacity
  <2> QED
    BY <2>1, <2>3 DEF Inv, Shape, TypeOK
<1> QED
  BY <1>1, KeyedInvariance, PTL

\* Two calls with one key never run together (keyed_processor.py: the chain
\* of completion futures), for any number of callers, keys and slots.
THEOREM OneAtATime == Spec => []OneAtATimePerKey
<1>1. Inv => OneAtATimePerKey
  <2> SUFFICES ASSUME Inv, NEW c \in Callers, NEW d \in Callers,
                      step[c] = "running", step[d] = "running", key[c] = key[d]
               PROVE  c = d
    BY DEF OneAtATimePerKey
  <2>1. /\ entry[c] = entry[d] /\ Pending(c) /\ Pending(d)
        /\ IsDone(predecessor[c]) /\ IsDone(predecessor[d])
    BY DEF Inv, Placed, PlacedOK, Admitted, Pending
  <2>2. PICK r \in [Callers -> Nat] : Ranked(r)
    BY DEF Inv, Chained
  <2>3. r[c] <= r[d] /\ r[d] <= r[c]
    BY <2>1, <2>2 DEF Ranked
  <2>4. r[c] = r[d]
    BY <2>2, <2>3
  <2> QED
    BY <2>1, <2>2, <2>4 DEF Ranked
<1> QED
  BY <1>1, KeyedInvariance, PTL

\* Every execution slot is free, given or in use, whichever waiters are
\* cancelled (keyed_processor.py: the semaphore around the operation).
THEOREM SlotsConserved == Spec => []SlotsAreConserved
<1>1. Inv => SlotsAreConserved
  BY DEF Inv, Slotted, Running, SlotsAreConserved
<1> QED
  BY <1>1, KeyedInvariance, PTL

\* When close() has returned no call is under way (keyed_processor.py: the
\* event that the last admitted call sets).
THEOREM ClosedDrained == Spec => []ClosedMeansDrained
<1>1. Inv => ClosedMeansDrained
  <2> SUFFICES ASSUME Inv, closer = "returned", NEW c \in Callers, Admitted(c)
               PROVE  FALSE
    BY DEF ClosedMeansDrained
  <2>1. Cardinality(InCall) = 0
    BY DEF Inv, Draining, Counted
  <2>2. InCall \in SUBSET Callers /\ c \in InCall
    BY DEF InCall
  <2> QED
    BY <2>1, <2>2, CardOf
<1> QED
  BY <1>1, KeyedInvariance, PTL

-----------------------------------------------------------------------------
(* Admission order.  A future is completed only after its predecessor, so  *)
(* the completed ones are closed under predecessors; a call runs when its  *)
(* predecessor is among them, and with it the whole chain before the call. *)

DoneBackward == \A f \in done : IsDone(predecessor[f])

LEMMA CompletesBackward ==
  ASSUME Inv, DoneBackward, NEW c \in Callers, UNCHANGED predecessor,
         \/ CompleteTurn(c) /\ Admitted(c)
         \/ done' = done \cup {c} /\ IsDone(predecessor[c])
  PROVE  DoneBackward'
<1>1. done' = done \/ (done' = done \cup {c} /\ IsDone(predecessor[c]))
  BY DEF CompleteTurn, Complete, Defer, Admitted, Inv, Placed, PlacedOK
<1>2. \A f \in done' : IsDone(predecessor[f])
  BY <1>1 DEF DoneBackward
<1> QED
  BY <1>1, <1>2 DEF DoneBackward, IsDone

LEMMA BackwardStep ==
  ASSUME Inv, DoneBackward, [Next]_vars
  PROVE  DoneBackward'
<1>1. CASE UNCHANGED <<done, predecessor>>
  BY <1>1 DEF DoneBackward, IsDone
<1>2. ASSUME NEW c \in Callers, End(c) \/ CancelTurn(c) \/ CancelSlot(c)
      PROVE  DoneBackward'
  <2>1. CompleteTurn(c) /\ Admitted(c) /\ UNCHANGED predecessor
    BY <1>2 DEF End, CancelTurn, CancelSlot, Admitted
  <2> QED
    BY <2>1, CompletesBackward
<1>3. ASSUME NEW c \in Callers, CompleteDeferred(c) PROVE DoneBackward'
  <2>1. done' = done \cup {c} /\ IsDone(predecessor[c]) /\ UNCHANGED predecessor
    BY <1>3 DEF CompleteDeferred, caller
  <2> QED
    BY <2>1, CompletesBackward
<1>4. ASSUME NEW c \in Callers, NEW k \in Keys, Admit(c, k) PROVE DoneBackward'
  <2>1. done' = done /\ c \notin done
        /\ predecessor' = [predecessor EXCEPT ![c] = TailFor(k)]
    BY <1>4 DEF Admit, futures, Inv, Placed, PlacedOK
  <2>2. \A f \in done : predecessor'[f] = predecessor[f]
    BY <2>1 DEF Inv, Shape
  <2> QED
    BY <2>1, <2>2 DEF DoneBackward, IsDone
<1>5. ASSUME NEW c \in Callers, Refuse(c) \/ TakeTurn(c) \/ TakeSlot(c)
      PROVE  UNCHANGED <<done, predecessor>>
  BY <1>5 DEF Refuse, TakeTurn, TakeSlot, futures
<1>6. CASE Close \/ CloseReturns \/ UNCHANGED vars
  BY <1>1, <1>6 DEF Close, CloseReturns, vars, caller, futures
<1> QED
  BY <1>1, <1>2, <1>3, <1>4, <1>5, <1>6 DEF Next, Go

\* Admission order: when a call runs, every call of its chain admitted before
\* it has left.
NoOvertaking ==
  \A c \in Callers : step[c] = "running" => \A d \in Ahead(c) : step[d] = "left"

\* When a call runs, every call of its chain admitted before it has left,
\* however many of them gave up and in whatever order (keyed_processor.py: the
\* completion futures and the callbacks that complete them).
THEOREM NoOvertakingHolds == Spec => []NoOvertaking
<1>1. Inv /\ DoneBackward => NoOvertaking
  <2> SUFFICES ASSUME Inv, DoneBackward, NEW c \in Callers, step[c] = "running",
                      NEW d \in Ahead(c)
               PROVE  step[d] = "left"
    BY DEF NoOvertaking
  <2> DEFINE S == done \cup {None}
  <2>1. S \in SUBSET Futures
    BY DEF Inv, Shape, Futures
  <2>2. predecessor[c] \in S
    BY DEF Inv, Placed, PlacedOK, IsDone
  <2>3. Backward(S)
    BY DEF Backward, DoneBackward, IsDone
  <2>4. d \in Callers /\ d \in S
    BY <2>1, <2>2, <2>3 DEF Ahead
  <2>5. d \in done
    BY <2>4, ProcessorAssumption
  <2>6. step[d] \in {"new", "turn", "slot", "running", "left"}
    BY <2>4 DEF Inv, Shape
  <2> QED
    BY <2>4, <2>5, <2>6, ProcessorAssumption DEF Inv, Placed, PlacedOK, Admitted
<1>2. Init => DoneBackward
  BY DEF Init, DoneBackward
<1>3. Inv /\ DoneBackward /\ [Next]_vars => DoneBackward'
  BY BackwardStep
<1> QED
  BY <1>1, <1>2, <1>3, KeyedInvariance, PTL DEF Spec

-----------------------------------------------------------------------------
(* Nobody is stuck: of the unfinished futures of an entry the one of       *)
(* lowest rank waits for none.                                             *)

\* A call, or the future that a call left behind, that can go on by itself.
GoesOn(c) == \/ step[c] = "running"
             \/ step[c] = "slot" /\ c \in granted
             \/ step[c] = "turn" /\ IsDone(predecessor[c])
             \/ c \in deferred /\ IsDone(predecessor[c])

NeverStuck == (\E c \in Callers : Admitted(c)) => \E c \in Callers : GoesOn(c)

LEMMA Smallest ==
  ASSUME NEW S \in SUBSET Nat, S # {}
  PROVE  \E m \in S : \A n \in S : m <= n
<1>1. PICK m \in S : \A n \in S : <<n, m>> \notin OpToRel(<, Nat)
  BY NatLessThanWellFounded, WFMin
<1>2. \A n \in S : ~(n < m)
  BY <1>1 DEF OpToRel
<1> QED
  BY <1>2

\* A caller that waits for a slot waits for nobody but those that run or were
\* given one.
LEMMA SlotsMove ==
  ASSUME Inv, NEW c \in Callers, step[c] = "slot"
  PROVE  \E d \in Callers : GoesOn(d)
<1>1. c \in waiting \cup granted /\ granted \in SUBSET Callers
      /\ \A d \in granted : step[d] = "slot"
  BY DEF Inv, Slotted
<1>2. CASE granted # {}
  BY <1>1, <1>2 DEF GoesOn
<1>3. CASE granted = {}
  <2>1. free = 0
    BY <1>1, <1>3 DEF Inv, Slotted
  <2>2. Cardinality(Running) = MaxConcurrency
    <3>1. Running \in SUBSET Callers
      BY DEF Running
    <3>2. Cardinality(Running) \in Nat /\ Cardinality(granted) = 0
      BY <1>3, <3>1, CardOf, FS_EmptySet
    <3> QED
      BY <2>1, <3>2, ProcessorAssumption DEF Inv, Slotted
  <2>3. Running # {}
    BY <2>2, FS_EmptySet, ProcessorAssumption
  <2> QED
    BY <2>3 DEF Running, GoesOn
<1> QED
  BY <1>2, <1>3

\* Admitted calls never all wait for each other: while there is one, a call
\* runs, or was given the slot it waits for, or has its turn, or the callback
\* of a call that gave up is due (keyed_processor.py: calls wait for their key
\* before they ask for a slot, and nobody needs its deadline to get out).
THEOREM KeyedNeverStuck == Spec => []NeverStuck
<1>1. Inv => NeverStuck
  <2> SUFFICES ASSUME Inv, NEW c \in Callers, Admitted(c)
               PROVE  \E d \in Callers : GoesOn(d)
    BY DEF NeverStuck
  <2>1. Pending(c)
    BY DEF Inv, Placed, PlacedOK, Pending
  <2>2. PICK r \in [Callers -> Nat] : Ranked(r)
    BY DEF Inv, Chained
  <2> DEFINE S == {r[d] : d \in {x \in Callers : Pending(x) /\ entry[x] = entry[c]}}
  <2>3. S \in SUBSET Nat /\ r[c] \in S
    BY <2>1, <2>2
  <2>4. PICK m \in S : \A n \in S : m <= n
    BY <2>3, Smallest
  <2>5. PICK d \in Callers : /\ Pending(d) /\ entry[d] = entry[c]
                             /\ \A x \in Callers : Pending(x) /\ entry[x] = entry[c]
                                                     => r[d] <= r[x]
    BY <2>4
  <2>6. IsDone(predecessor[d])
    <3>1. SUFFICES ASSUME ~IsDone(predecessor[d]) PROVE FALSE
      OBVIOUS
    <3>2. PICK p \in Callers : p = predecessor[d] /\ Pending(p) /\ entry[p] = entry[d]
                               /\ r[d] = r[p] + 1
      BY <2>2, <2>5, <3>1 DEF Ranked
    <3> QED
      BY <2>2, <2>5, <3>2
  <2>7. step[d] \in {"turn", "slot", "running"} \/ d \in deferred
    BY <2>5 DEF Inv, Placed, PlacedOK, Pending, Shape
  <2> QED
    BY <2>6, <2>7, SlotsMove DEF GoesOn
<1> QED
  BY <1>1, KeyedInvariance, PTL

-----------------------------------------------------------------------------
(* The refinement.  A call's chain has one key (Linked), and the chain     *)
(* that ends with the tail of a key's entry holds every call of that key   *)
(* that is still there (Whole): so the calls ahead of one that is admitted *)
(* are those of its key.                                                   *)

\* The chain that ends with f, where P gives the predecessors.
ClosedBy(P, S) == \A f \in S \ {None} : P[f] \in S
ChainOf(P, f) == {d \in Callers : \A S \in SUBSET Futures :
                     f \in S /\ ClosedBy(P, S) => d \in S}

LEMMA AheadIsChain == \A c \in Callers : Ahead(c) = ChainOf(predecessor, predecessor[c])
  BY DEF Ahead, Backward, ChainOf, ClosedBy

\* Predecessors, entries and tails stay within one key.
Linked ==
  /\ \A x \in Callers : predecessor[x] # None =>
       LET p == predecessor[x] IN entry[p] # None /\ key[p] = key[x]
  /\ \A k \in Keys : entries[k] # None =>
       /\ key[entries[k]] = k
       /\ tail[entries[k]] # None /\ entry[tail[entries[k]]] # None
       /\ key[tail[entries[k]]] = k

\* The chain from the tail of an entry has every call of the entry in it.
Whole == \A d \in Callers : Admitted(d) => d \in ChainOf(predecessor, tail[entry[d]])

Ordered == DoneBackward /\ Linked /\ Whole

\* A step after which the chains are the same and no more calls are in them.
LEMMA OrderKept ==
  ASSUME Linked, Whole, UNCHANGED <<key, predecessor, entry, tail>>,
         \A k \in Keys : entries'[k] \in {entries[k], None},
         \A d \in Callers : Admitted(d)' => Admitted(d)
  PROVE  Linked' /\ Whole'
<1>1. Linked'
  BY DEF Linked
<1>2. Whole'
  BY DEF Whole
<1> QED
  BY <1>1, <1>2

Known == {x \in Callers : entry[x] # None} \cup {None}

\* Predecessors that agree on a set that is closed have the same chains in it.
LEMMA ChainWithin ==
  ASSUME NEW P, NEW Q, NEW K \in SUBSET Futures, NEW f \in K,
         \A y \in K \ {None} : P[y] \in K /\ Q[y] = P[y],
         NEW d \in ChainOf(P, f)
  PROVE  d \in ChainOf(Q, f)
<1>1. ASSUME NEW S \in SUBSET Futures, f \in S, ClosedBy(Q, S)
      PROVE  d \in S
  <2> DEFINE T == S \cap K
  <2>1. T \in SUBSET Futures /\ f \in T
    BY <1>1
  <2>2. ClosedBy(P, T)
    BY <1>1 DEF ClosedBy
  <2>3. d \in T
    <3> HIDE DEF T
    <3> QED
      BY <2>1, <2>2 DEF ChainOf
  <2> QED
    BY <2>3
<1> QED
  BY <1>1 DEF ChainOf

LEMMA ChainSame ==
  ASSUME NEW P, NEW Q, NEW K \in SUBSET Futures,
         \A y \in K \ {None} : P[y] \in K /\ Q[y] = P[y]
  PROVE  \A f \in K : ChainOf(Q, f) = ChainOf(P, f)
<1> SUFFICES ASSUME NEW f \in K PROVE ChainOf(Q, f) = ChainOf(P, f)
  OBVIOUS
<1>1. \A d \in ChainOf(P, f) : d \in ChainOf(Q, f)
  BY ChainWithin
<1>2. \A y \in K \ {None} : Q[y] \in K /\ P[y] = Q[y]
  OBVIOUS
<1>3. \A d \in ChainOf(Q, f) : d \in ChainOf(P, f)
  BY <1>2, ChainWithin
<1> QED
  BY <1>1, <1>3

\* The chain of a key's entry has the calls of that key.
LEMMA ChainHasKey ==
  ASSUME Linked, Shape, NEW k \in Keys, NEW d \in ChainOf(predecessor, TailFor(k))
  PROVE  key[d] = k
<1> DEFINE S == {x \in Callers : key[x] = k} \cup {None}
<1>1. S \in SUBSET Futures
  BY DEF Futures
<1>2. ClosedBy(predecessor, S)
  BY DEF ClosedBy, Linked, Shape, Futures
<1>3. TailFor(k) \in S
  BY DEF TailFor, Linked, Shape, Futures
<1>4. d \in S /\ d \in Callers
  BY <1>1, <1>2, <1>3 DEF ChainOf
<1> QED
  BY <1>4, ProcessorAssumption

LEMMA OrderAdmit ==
  ASSUME Inv, Linked, Whole, NEW c \in Callers, NEW k \in Keys, Admit(c, k)
  PROVE  /\ Linked' /\ Whole'
         /\ Ahead(c)' = ChainOf(predecessor, TailFor(k))
         /\ \A d \in Callers : d # c => Ahead(d)' = Ahead(d)
<1> DEFINE e == EntryFor(c, k)
           p == TailFor(k)
<1>1. /\ step[c] = "new" /\ entry[c] = None
      /\ step' = [step EXCEPT ![c] = "turn"]
      /\ key' = [key EXCEPT ![c] = k]
      /\ entry' = [entry EXCEPT ![c] = e]
      /\ predecessor' = [predecessor EXCEPT ![c] = p]
      /\ entries' = [entries EXCEPT ![k] = e]
      /\ tail' = [tail EXCEPT ![e] = c]
  BY DEF Admit, Inv, Placed, PlacedOK
<1>2. e \in Callers /\ e # None /\ (entries[k] = None => e = c /\ p = None)
      /\ (entries[k] # None => e = entries[k] /\ p = tail[e] /\ entry[e] # None)
  BY ProcessorAssumption
     DEF Inv, Shape, Futures, EntryFor, TailFor, Chained, Created
<1>3. /\ \A d \in Callers : d # c => /\ step'[d] = step[d] /\ key'[d] = key[d]
                                     /\ entry'[d] = entry[d]
                                     /\ predecessor'[d] = predecessor[d]
      /\ step'[c] = "turn" /\ key'[c] = k /\ entry'[c] = e /\ predecessor'[c] = p
      /\ tail'[e] = c /\ \A d \in Callers : d # e => tail'[d] = tail[d]
      /\ entries'[k] = e /\ \A j \in Keys : j # k => entries'[j] = entries[j]
  BY <1>1, <1>2 DEF Inv, Shape
<1>4. p \in Known /\ (p # None => key[p] = k /\ p # c /\ entry[p] # None)
  <2>1. p \in Futures
    BY <1>2 DEF Inv, Shape, Futures
  <2>2. p # None => entry[p] # None /\ key[p] = k
    BY <1>2 DEF Linked
  <2> QED
    BY <1>1, <2>1, <2>2 DEF Known, Futures
<1>5. \A d \in Callers : predecessor[d] \in Known
  BY DEF Inv, Shape, Linked, Known, Futures
<1>6. \A j \in Keys : entries[j] # None =>
        /\ entries[j] \in Callers /\ entries[j] # c
        /\ tail[entries[j]] \in Callers /\ tail[entries[j]] # c
        /\ tail[entries[j]] \in Known
        /\ (j # k => entries[j] # e)
  BY <1>1, <1>2 DEF Inv, Shape, Futures, Linked, Known, Chained, Created
<1> HIDE DEF e, p
<1>7. \A f \in Known : ChainOf(predecessor', f) = ChainOf(predecessor, f)
  <2>1. Known \in SUBSET Futures
    BY DEF Known, Futures
  <2>2. \A y \in Known \ {None} : predecessor[y] \in Known /\ predecessor'[y] = predecessor[y]
    BY <1>1, <1>3, <1>5 DEF Known
  <2> QED
    BY <2>1, <2>2, ChainSame
<1>8. Linked'
  <2>1. ASSUME NEW x \in Callers, predecessor'[x] # None
        PROVE  entry'[predecessor'[x]] # None /\ key'[predecessor'[x]] = key'[x]
    <3>1. CASE x = c
      BY <1>3, <1>4, <2>1, <3>1 DEF Known
    <3>2. CASE x # c
      <4>1. predecessor[x] \in Callers /\ entry[predecessor[x]] # None
            /\ key[predecessor[x]] = key[x] /\ predecessor'[x] = predecessor[x]
        BY <1>3, <1>5, <2>1, <3>2 DEF Linked, Known
      <4>2. predecessor[x] # c
        BY <1>1, <4>1
      <4> QED
        BY <1>3, <3>2, <4>1, <4>2
    <3> QED
      BY <3>1, <3>2
  <2>2. ASSUME NEW j \in Keys, entries'[j] # None
        PROVE  /\ key'[entries'[j]] = j
               /\ tail'[entries'[j]] # None /\ entry'[tail'[entries'[j]]] # None
               /\ key'[tail'[entries'[j]]] = j
    <3>1. CASE j = k
      <4>1. key'[e] = k
        BY <1>2, <1>3 DEF Linked
      <4> QED
        BY <1>2, <1>3, <3>1, <4>1, ProcessorAssumption
    <3>2. CASE j # k
      BY <1>3, <1>6, <2>2, <3>2 DEF Linked
    <3> QED
      BY <3>1, <3>2
  <2> QED
    BY <2>1, <2>2 DEF Linked
<1>9. \A d \in Callers : Ahead(d)' = ChainOf(predecessor', predecessor'[d])
  BY DEF Ahead, Backward, ChainOf, ClosedBy
<1>10. Ahead(c)' = ChainOf(predecessor, p)
  BY <1>3, <1>4, <1>7, <1>9
<1>11. \A d \in Callers : d # c => Ahead(d)' = Ahead(d)
  BY <1>3, <1>5, <1>7, <1>9, AheadIsChain
<1>12. Whole'
  <2>1. SUFFICES ASSUME NEW d \in Callers, Admitted(d)'
                 PROVE  d \in ChainOf(predecessor', tail'[entry'[d]])
    BY DEF Whole
  <2>2. CASE d = c
    BY <1>3, <2>2 DEF ChainOf
  <2>3. CASE d # c
    <3>1. Admitted(d) /\ entry'[d] = entry[d]
      BY <1>3, <2>1, <2>3 DEF Admitted
    <3>2. key[d] \in Keys /\ entries[key[d]] = entry[d] /\ entry[d] # None
      BY <3>1 DEF Inv, Placed, PlacedOK
    <3>3. d \in ChainOf(predecessor', tail[entry[d]])
      <4>1. d \in ChainOf(predecessor, tail[entry[d]])
        BY <3>1 DEF Whole
      <4>2. tail[entry[d]] \in Known
        BY <1>6, <3>2
      <4> QED
        BY <1>7, <4>1, <4>2
    <3>4. CASE key[d] = k
      <4>1. entry[d] = e /\ tail[entry[d]] = p
        BY <1>2, <3>2, <3>4
      <4>2. ASSUME NEW S \in SUBSET Futures, c \in S, ClosedBy(predecessor', S)
            PROVE  d \in S
        <5>1. p \in S
          BY <1>3, <4>2, ProcessorAssumption DEF ClosedBy
        <5> QED
          BY <3>3, <4>1, <4>2, <5>1 DEF ChainOf
      <4> QED
        BY <1>3, <3>1, <4>1, <4>2 DEF ChainOf
    <3>5. CASE key[d] # k
      <4>1. entry[d] \in Callers /\ entry[d] # e
        BY <1>6, <3>2, <3>5
      <4> QED
        BY <1>3, <3>1, <3>3, <4>1
    <3> QED
      BY <3>4, <3>5
  <2> QED
    BY <2>2, <2>3
<1> QED
  BY <1>8, <1>10, <1>11, <1>12 DEF p

LEMMA OrderInit == Init => Ordered
  BY DEF Init, Ordered, DoneBackward, Linked, Whole, Admitted

LEMMA OrderStep ==
  ASSUME Inv, Ordered, [Next]_vars
  PROVE  Ordered'
<1>1. DoneBackward'
  BY BackwardStep DEF Ordered
<1>2. ASSUME NEW c \in Callers, NEW k \in Keys, Admit(c, k) PROVE Linked' /\ Whole'
  BY <1>2, OrderAdmit DEF Ordered
<1>3. ASSUME NEW c \in Callers, End(c) \/ CancelTurn(c) \/ CancelSlot(c)
      PROVE  Linked' /\ Whole'
  <2>1. /\ Admitted(c) /\ CompleteTurn(c) /\ Finish(c)
        /\ UNCHANGED <<key, predecessor, entry, tail, closing>>
    BY <1>3 DEF End, CancelTurn, CancelSlot, Admitted
  <2>2. step' = [step EXCEPT ![c] = "left"]
    BY <2>1 DEF Finish
  <2>3. \A d \in Callers : Admitted(d)' => Admitted(d)
    BY <2>2 DEF Admitted, Inv, Shape
  <2>4. \A k \in Keys : entries'[k] \in {entries[k], None}
    BY <2>1 DEF Finish, Inv, Shape
  <2> QED
    BY <2>1, <2>3, <2>4, OrderKept DEF Ordered
<1>4. ASSUME NEW c \in Callers,
             Refuse(c) \/ TakeTurn(c) \/ TakeSlot(c) \/ CompleteDeferred(c)
      PROVE  Linked' /\ Whole'
  <2>1. UNCHANGED <<key, predecessor, entry, tail, entries>>
    BY <1>4 DEF Refuse, TakeTurn, TakeSlot, CompleteDeferred, caller, registry
  <2>2. \A d \in Callers : Admitted(d)' => Admitted(d)
    BY <1>4 DEF Refuse, TakeTurn, TakeSlot, CompleteDeferred, caller, Run, Admitted, Inv, Shape
  <2> QED
    BY <2>1, <2>2, OrderKept DEF Ordered
<1>5. ASSUME Close \/ CloseReturns \/ UNCHANGED vars
      PROVE  Linked' /\ Whole'
  <2>1. UNCHANGED <<step, key, predecessor, entry, tail, entries>>
    BY <1>5 DEF Close, CloseReturns, vars, caller, registry
  <2>2. \A d \in Callers : Admitted(d)' => Admitted(d)
    BY <2>1 DEF Admitted
  <2> QED
    BY <2>1, <2>2, OrderKept DEF Ordered
<1>6. Linked' /\ Whole'
  BY <1>2, <1>3, <1>4, <1>5 DEF Next, Go
<1> QED
  BY <1>1, <1>6 DEF Ordered

-----------------------------------------------------------------------------
(* Each step of the processor is one of the queue, or changes nothing of it. *)

Lanes == <<[c \in Callers |-> StageOf(c)], key, [c \in Callers |-> AheadOf(c)], closer>>

\* The queue counts as the processor does.
LEMMA QueueCounts == \A S : Queue!Cardinality(S) = Cardinality(S)
  BY DEF Queue!Cardinality, Cardinality

LEMMA InsideIsInCall == Shape => Queue!Inside = InCall
  BY DEF Shape, Queue!Inside, InCall, Admitted, StageOf

LEMMA RunningIsRunning ==
  Shape => {d \in Callers : [c \in Callers |-> StageOf(c)][d] = "running"} = Running
  BY DEF Shape, Running, StageOf

LEMMA StageMoves ==
  ASSUME Shape, NEW c \in Callers, NEW s, step' = [step EXCEPT ![c] = s]
  PROVE  [d \in Callers |-> StageOf(d)]'
           = [[d \in Callers |-> StageOf(d)]
                EXCEPT ![c] = IF s \in {"turn", "slot"} THEN "waiting" ELSE s]
<1>1. \A d \in Callers : step'[d] = IF d = c THEN s ELSE step[d]
  BY DEF Shape
<1> QED
  BY <1>1 DEF StageOf

LEMMA AheadKept ==
  ASSUME UNCHANGED predecessor PROVE \A d \in Callers : Ahead(d)' = Ahead(d)
  BY DEF Ahead, Backward

\* Those ahead of a call whose predecessor is done have left.
LEMMA NobodyAhead ==
  ASSUME Inv, DoneBackward, NEW c \in Callers, IsDone(predecessor[c])
  PROVE  AheadOf(c) = {}
<1> SUFFICES ASSUME NEW d \in Ahead(c), Admitted(d) PROVE FALSE
  BY DEF AheadOf
<1> DEFINE S == done \cup {None}
<1>1. S \in SUBSET Futures /\ predecessor[c] \in S /\ Backward(S)
  BY DEF Inv, Shape, Futures, IsDone, Backward, DoneBackward
<1>2. d \in Callers /\ d \in S
  BY <1>1 DEF Ahead
<1> QED
  BY <1>2, ProcessorAssumption DEF Inv, Placed, PlacedOK

\* A call with its turn starts when it has a slot, and waits on without one.
LEMMA StartMaps ==
  ASSUME Inv, Ordered, NEW c \in Callers, step[c] \in {"turn", "slot"},
         IsDone(predecessor[c]), Cardinality(Running) < MaxConcurrency,
         step' = [step EXCEPT ![c] = "running"],
         UNCHANGED <<key, predecessor, closer>>
  PROVE  Queue!Start(c)
<1>1. [d \in Callers |-> StageOf(d)]' = [[d \in Callers |-> StageOf(d)] EXCEPT ![c] = "running"]
  BY StageMoves DEF Inv
<1>2. \A d \in Callers : Admitted(d)' <=> Admitted(d)
  BY DEF Admitted, Inv, Shape
<1>3. \A d \in Callers : AheadOf(d)' = AheadOf(d)
  BY <1>2, AheadKept DEF AheadOf, Ahead
<1>4. [d \in Callers |-> AheadOf(d)]' = [d \in Callers |-> AheadOf(d)]
  BY <1>3
<1>5. [d \in Callers |-> StageOf(d)][c] = "waiting" /\ [d \in Callers |-> AheadOf(d)][c] = {}
  BY NobodyAhead DEF StageOf, Ordered
<1>6. {d \in Callers : [x \in Callers |-> StageOf(x)][d] = "running"} = Running
  BY RunningIsRunning DEF Inv
<1> QED
  BY <1>1, <1>4, <1>5, <1>6, QueueCounts DEF Queue!Start

LEMMA TakeMaps ==
  ASSUME Inv, Ordered, NEW c \in Callers, TakeTurn(c) \/ TakeSlot(c)
  PROVE  [Queue!QueueNext]_Lanes
<1>1. /\ step[c] \in {"turn", "slot"} /\ IsDone(predecessor[c])
      /\ UNCHANGED <<key, predecessor, closer>>
  BY DEF TakeTurn, TakeSlot, Inv, Placed, PlacedOK, closing
<1>2. /\ Cardinality(Running) \in Nat /\ Cardinality(granted) \in Nat /\ free \in Nat
      /\ free + Cardinality(granted) + Cardinality(Running) = MaxConcurrency
      /\ granted \in SUBSET Callers
  <2>1. Running \in SUBSET Callers /\ granted \in SUBSET Callers
    BY DEF Running, Inv, Slotted
  <2> QED
    BY <2>1, CardOf DEF Inv, Slotted
<1>3. CASE step' = [step EXCEPT ![c] = "running"] /\ (free # 0 \/ c \in granted)
  <2>1. c \in granted => Cardinality(granted) # 0
    BY <1>2, CardOf
  <2>2. Cardinality(Running) < MaxConcurrency
    BY <1>2, <1>3, <2>1, ProcessorAssumption
  <2>3. Queue!Start(c)
    BY <1>1, <1>3, <2>2, StartMaps
  <2> QED
    BY <2>3 DEF Queue!QueueNext
<1>4. CASE step' = [step EXCEPT ![c] = "slot"]
  <2>1. \A d \in Callers : StageOf(d)' = StageOf(d) /\ (Admitted(d)' <=> Admitted(d))
    BY <1>1, <1>4 DEF StageOf, Admitted, Inv, Shape
  <2>2. \A d \in Callers : AheadOf(d)' = AheadOf(d)
    BY <1>1, <2>1, AheadKept DEF AheadOf, Ahead
  <2> QED
    BY <1>1, <2>1, <2>2 DEF Lanes
<1> QED
  BY <1>3, <1>4 DEF TakeTurn, TakeSlot, Run, Locked

LEMMA LeaveMaps ==
  ASSUME Inv, NEW c \in Callers, End(c) \/ CancelTurn(c) \/ CancelSlot(c)
  PROVE  Queue!QueueNext
<1>1. /\ Admitted(c) /\ step' = [step EXCEPT ![c] = "left"]
      /\ UNCHANGED <<key, predecessor, closer>>
  BY DEF End, CancelTurn, CancelSlot, Finish, Admitted, closing
<1>2. [d \in Callers |-> StageOf(d)]' = [[d \in Callers |-> StageOf(d)] EXCEPT ![c] = "left"]
  BY <1>1, StageMoves DEF Inv
<1>3. \A d \in Callers : Admitted(d)' <=> Admitted(d) /\ d # c
  BY <1>1 DEF Admitted, Inv, Shape
<1>4. \A d \in Callers : AheadOf(d)' = IF d = c THEN {} ELSE AheadOf(d) \ {c}
  <2> SUFFICES ASSUME NEW d \in Callers
               PROVE  AheadOf(d)' = IF d = c THEN {} ELSE AheadOf(d) \ {c}
    OBVIOUS
  <2>1. Ahead(d)' = Ahead(d) /\ Ahead(d) \in SUBSET Callers
    BY <1>1, AheadKept DEF Ahead
  <2>2. AheadOf(d)' = IF Admitted(d)' THEN {x \in Ahead(d) : Admitted(x)'} ELSE {}
    BY <2>1 DEF AheadOf
  <2> QED
    BY <1>3, <2>1, <2>2 DEF AheadOf
<1>5. [d \in Callers |-> AheadOf(d)]'
        = [d \in Callers |-> IF d = c THEN {} ELSE [x \in Callers |-> AheadOf(x)][d] \ {c}]
  BY <1>4
<1>6. c \in Queue!Inside
  BY <1>1, InsideIsInCall DEF Inv, InCall
<1>7. Queue!Leave(c)
  BY <1>1, <1>2, <1>5, <1>6 DEF Queue!Leave
<1> QED
  BY <1>7 DEF Queue!QueueNext

\* The queue is full when the processor has no room.
LEMMA FullMeansFull == Inv => (Queue!IsFull <=> ~HasRoom)
<1> SUFFICES ASSUME Inv PROVE Queue!IsFull <=> ~HasRoom
  OBVIOUS
<1>1. Queue!Inside = InCall /\ InCall \in SUBSET Callers
  BY InsideIsInCall DEF Inv, InCall
<1>2. admitted = Cardinality(InCall) /\ Cardinality(InCall) \in Nat
  BY <1>1, CardOf DEF Inv, Counted
<1> QED
  BY <1>1, <1>2, ProcessorAssumption, QueueCounts DEF Queue!IsFull, HasRoom, Capacity

LEMMA RefuseMaps ==
  ASSUME Inv, NEW c \in Callers, Refuse(c)
  PROVE  Queue!QueueNext
<1>1. /\ step[c] = "new" /\ step' = [step EXCEPT ![c] = "left"]
      /\ UNCHANGED <<key, predecessor, closer>>
      /\ closed \/ ~HasRoom
  BY DEF Refuse, closing
<1>2. [d \in Callers |-> StageOf(d)]' = [[d \in Callers |-> StageOf(d)] EXCEPT ![c] = "left"]
  BY <1>1, StageMoves DEF Inv
<1>3. \A d \in Callers : Admitted(d)' <=> Admitted(d)
  BY <1>1 DEF Admitted, Inv, Shape
<1>4. \A d \in Callers : AheadOf(d)' = AheadOf(d)
  BY <1>1, <1>3, AheadKept DEF AheadOf, Ahead
<1>5. closer # "open" \/ Queue!IsFull
  BY <1>1, FullMeansFull DEF Inv, Draining
<1>6. [d \in Callers |-> StageOf(d)][c] = "new"
  BY <1>1 DEF StageOf
<1>7. [d \in Callers |-> AheadOf(d)]' = [d \in Callers |-> AheadOf(d)]
  BY <1>4
<1>8. Queue!TurnAway(c)
  BY <1>1, <1>2, <1>5, <1>6, <1>7 DEF Queue!TurnAway
<1> QED
  BY <1>8 DEF Queue!QueueNext

LEMMA AdmitMaps ==
  ASSUME Inv, Ordered, NEW c \in Callers, NEW k \in Keys, Admit(c, k)
  PROVE  Queue!QueueNext
<1>1. /\ step[c] = "new" /\ ~closed /\ HasRoom
      /\ step' = [step EXCEPT ![c] = "turn"]
      /\ key' = [key EXCEPT ![c] = k]
      /\ UNCHANGED closer
  BY DEF Admit, closing
<1>2. [d \in Callers |-> StageOf(d)]' = [[d \in Callers |-> StageOf(d)] EXCEPT ![c] = "waiting"]
  BY <1>1, StageMoves DEF Inv
<1>3. \A d \in Callers : Admitted(d)' <=> Admitted(d) \/ d = c
  BY <1>1 DEF Admitted, Inv, Shape
<1>4. /\ Ahead(c)' = ChainOf(predecessor, TailFor(k))
      /\ \A d \in Callers : d # c => Ahead(d)' = Ahead(d)
  BY OrderAdmit DEF Ordered
<1>5. \A d \in Callers : d \in ChainOf(predecessor, TailFor(k)) /\ Admitted(d)
                         <=> Admitted(d) /\ key[d] = k
  <2>1. ASSUME NEW d \in ChainOf(predecessor, TailFor(k)) PROVE key[d] = k
    BY <2>1, ChainHasKey DEF Inv, Ordered
  <2>2. ASSUME NEW d \in Callers, Admitted(d), key[d] = k
        PROVE  d \in ChainOf(predecessor, TailFor(k))
    <3>1. entries[k] = entry[d] /\ entry[d] # None
      BY <2>2 DEF Inv, Placed, PlacedOK
    <3> QED
      BY <2>2, <3>1 DEF Ordered, Whole, TailFor
  <2> QED
    BY <2>1, <2>2
<1>6. ~Admitted(c)
  BY <1>1 DEF Admitted
<1>7. \A d \in Callers : c \notin Ahead(d) \/ d = c
  <2> SUFFICES ASSUME NEW d \in Callers, c \in Ahead(d) PROVE FALSE
    OBVIOUS
  <2>1. Known \in SUBSET Futures /\ predecessor[d] \in Known /\ Backward(Known)
    BY DEF Known, Futures, Ordered, Linked, Inv, Shape, Backward
  <2>2. c \in Known
    BY <2>1 DEF Ahead
  <2> QED
    BY <1>1, <2>2, ProcessorAssumption DEF Known, Inv, Placed, PlacedOK
<1>8. \A d \in Callers : AheadOf(d)' = IF d = c THEN {x \in InCall : key[x] = k}
                                                  ELSE AheadOf(d)
  <2>1. AheadOf(c)' = {x \in InCall : key[x] = k}
    <3>1. AheadOf(c)' = {x \in Ahead(c)' : Admitted(x)'}
      BY <1>3 DEF AheadOf
    <3>2. c \notin Ahead(c)'
      <4>1. c \notin ChainOf(predecessor, TailFor(k))
        <5>1. Known \in SUBSET Futures /\ TailFor(k) \in Known
              /\ ClosedBy(predecessor, Known)
          BY DEF Known, Futures, Ordered, Linked, Inv, Shape, ClosedBy, TailFor
        <5>2. c \notin Known
          BY <1>1, ProcessorAssumption DEF Known, Inv, Placed, PlacedOK
        <5> QED
          BY <5>1, <5>2 DEF ChainOf
      <4> QED
        BY <1>4, <4>1
    <3>3. ChainOf(predecessor, TailFor(k)) \in SUBSET Callers
      BY DEF ChainOf
    <3> QED
      BY <1>3, <1>4, <1>5, <3>1, <3>2, <3>3 DEF InCall
  <2>2. ASSUME NEW d \in Callers, d # c PROVE AheadOf(d)' = AheadOf(d)
    <3>1. Ahead(d)' = Ahead(d) /\ Ahead(d) \in SUBSET Callers /\ c \notin Ahead(d)
      BY <1>4, <1>7, <2>2 DEF Ahead
    <3>2. AheadOf(d)' = IF Admitted(d)' THEN {x \in Ahead(d) : Admitted(x)'} ELSE {}
      BY <3>1 DEF AheadOf
    <3> QED
      BY <1>3, <2>2, <3>1, <3>2 DEF AheadOf
  <2> QED
    BY <2>1, <2>2
<1>9. [d \in Callers |-> AheadOf(d)]'
        = [[d \in Callers |-> AheadOf(d)] EXCEPT ![c] = {x \in Queue!Inside : key[x] = k}]
  BY <1>8, InsideIsInCall DEF Inv
<1>10. closer = "open" /\ ~Queue!IsFull
  BY <1>1, FullMeansFull DEF Inv, Draining
<1>11. [d \in Callers |-> StageOf(d)][c] = "new"
  BY <1>1 DEF StageOf
<1>12. Queue!Join(c, k)
  BY <1>1, <1>2, <1>9, <1>10, <1>11 DEF Queue!Join
<1> QED
  BY <1>12 DEF Queue!QueueNext

LEMMA RestMaps ==
  ASSUME Inv, \/ Close \/ CloseReturns \/ UNCHANGED vars
              \/ \E c \in Callers : CompleteDeferred(c)
  PROVE  [Queue!QueueNext]_Lanes
<1>1. UNCHANGED <<step, key, predecessor>>
  BY DEF Close, CloseReturns, CompleteDeferred, vars, caller
<1>2. \A d \in Callers : /\ StageOf(d)' = StageOf(d) /\ (Admitted(d)' <=> Admitted(d))
                         /\ Ahead(d)' = Ahead(d)
  BY <1>1, AheadKept DEF StageOf, Admitted
<1>3. \A d \in Callers : AheadOf(d)' = AheadOf(d)
  BY <1>1, <1>2 DEF AheadOf, Ahead, Backward, Admitted
<1>4. /\ [d \in Callers |-> StageOf(d)]' = [d \in Callers |-> StageOf(d)]
      /\ [d \in Callers |-> AheadOf(d)]' = [d \in Callers |-> AheadOf(d)]
  BY <1>2, <1>3
<1>5. CASE Close
  <2>1. Queue!StopAdmitting
    BY <1>1, <1>4, <1>5 DEF Close, Queue!StopAdmitting
  <2> QED
    BY <2>1 DEF Queue!QueueNext
<1>6. CASE CloseReturns
  <2>1. InCall \in SUBSET Callers /\ Cardinality(InCall) = 0
    BY <1>6 DEF CloseReturns, Inv, Draining, Counted, InCall
  <2>2. Queue!Inside = {}
    BY <2>1, CardOf, InsideIsInCall DEF Inv
  <2>3. Queue!ReportEmpty
    BY <1>1, <1>4, <1>6, <2>2 DEF CloseReturns, Queue!ReportEmpty
  <2> QED
    BY <2>3 DEF Queue!QueueNext
<1>7. CASE UNCHANGED closer
  BY <1>1, <1>4, <1>7 DEF Lanes
<1> QED
  BY <1>5, <1>6, <1>7 DEF CompleteDeferred, vars, closing

LEMMA QueueInitMaps == Init => Queue!QueueInit
  BY DEF Init, Queue!QueueInit, StageOf, AheadOf, Admitted

LEMMA QueueStepMaps ==
  ASSUME Inv, Ordered, [Next]_vars
  PROVE  [Queue!QueueNext]_Lanes
<1>1. ASSUME NEW c \in Callers, TakeTurn(c) \/ TakeSlot(c)
      PROVE  [Queue!QueueNext]_Lanes
  BY <1>1, TakeMaps
<1>2. ASSUME NEW c \in Callers, \/ Refuse(c) \/ End(c)
                               \/ CancelTurn(c) \/ CancelSlot(c)
      PROVE  [Queue!QueueNext]_Lanes
  BY <1>2, RefuseMaps, LeaveMaps
<1>3. ASSUME NEW c \in Callers, NEW k \in Keys, Admit(c, k)
      PROVE  [Queue!QueueNext]_Lanes
  BY <1>3, AdmitMaps
<1> QED
  BY <1>1, <1>2, <1>3, RestMaps DEF Next, Go

\* The processor implements KeyedQueue: whatever callers give up, whichever
\* callbacks complete their futures and however often the entry of a key is
\* dropped, a call of a key starts exactly when the calls of that key that
\* were there before it have left.
THEOREM KeyedRefinement == Spec => ImplementsKeyedQueue
<1>1. Inv /\ Ordered /\ [Next]_vars => Ordered' /\ [Queue!QueueNext]_Lanes
  BY OrderStep, QueueStepMaps
<1> QED
  BY <1>1, OrderInit, QueueInitMaps, KeyedInvariance, PTL
     DEF Spec, ImplementsKeyedQueue, Queue!QueueSpec, Queue!queueVars, Lanes
=============================================================================
