---------------------------- MODULE IntakeProofs ----------------------------
(***************************************************************************)
(* Intake, for any scopes, messages and batches: a message is collected    *)
(* once, a pending batch keeps one deadline, and the user has the last     *)
(* word over an analysis.                                                  *)
(***************************************************************************)
EXTENDS Intake, TLAPS

-----------------------------------------------------------------------------
(* The inductive invariant.                                                *)

\* Every key that was collected is remembered, or was forgotten.
AllRemembered ==
  \A b \in Batches : \A i \in DOMAIN batch[b] :
    batch[b][i] \in ToSet(memory) \cup forgotten

AllDeadlines == timers \cup soon \cup tasks

\* A pending batch is one that was begun and is collected in one scope; so is
\* the batch of a deadline, and one that is due at once is of a full batch.
Begun ==
  /\ \A s \in Scopes : pending[s] # NoBatch => pending[s].id <= begun
  /\ \A s, u \in Scopes :
       pending[s] # NoBatch /\ pending[u] # NoBatch /\ pending[s].id = pending[u].id => s = u
  /\ \A d \in AllDeadlines : d[1] <= begun
  /\ \A d \in soon : Len(batch[d[1]]) >= MaxBatch

\* A batch is analysed after it was sealed, and has a row after it was saved.
\* The first revision is the collected row and the second that of the analysis
\* or the user's: no later one can be taken for either.
Rows ==
  /\ \A s \in Scopes : pending[s] # NoBatch => analysis[pending[s].id] = "none"
  /\ \A b \in Batches : b > begun => analysis[b] = "none"
  /\ \A b \in Batches :
       /\ analysis[b] \in {"none", "save"} => workflow[b] = NoRow
       /\ workflow[b].revision = 0 => workflow[b] = NoRow
       /\ workflow[b].revision = 1 =>
            workflow[b].state = "COLLECTING" /\ workflow[b].content = "none"
       /\ workflow[b].revision = 2 =>
            \/ workflow[b].state = "ANALYZING" /\ workflow[b].content = "none"
            \/ workflow[b].state \in {"REVIEW", "CANCELLED"}

IntakeInv == /\ IntakeTypeOK /\ AllRemembered /\ NoMessageTwice
             /\ Begun /\ PendingHasDeadline /\ Rows

Rounds == [id : Batches, generation : Nat]
RowsOf == [state : DraftState \cup {"absent"}, revision : Nat,
           content : {"none", "analyser", "user"}]

LEMMA IntakeTypes ==
  ASSUME IntakeInv
  PROVE  /\ pending \in [Scopes -> Rounds \cup {NoBatch}]
         /\ \A s \in Scopes : pending[s] # NoBatch =>
              /\ pending[s] \in Rounds /\ pending[s].id \in Batches
              /\ pending[s].generation \in Nat
         /\ begun \in 0 .. MaxBatches /\ begun \in Nat /\ MaxBatches \in Nat
         /\ batch \in [Batches -> Seq(MessageKeys)]
         /\ memory \in Seq(MessageKeys) /\ Len(memory) <= MemoryLimit
         /\ timers \in SUBSET Deadlines /\ soon \in SUBSET Deadlines
         /\ tasks \in SUBSET Deadlines
         /\ analysis \in [Batches -> Analysis]
         /\ workflow \in [Batches -> RowsOf]
         /\ MaxBatch \in Nat \ {0} /\ MemoryLimit \in Nat /\ MemoryLimit >= 1
  BY IntakeAssumption DEF IntakeInv, IntakeTypeOK, Rounds, RowsOf

LEMMA NoRowTyped ==
  /\ NoRow \in RowsOf /\ NoRow.state = "absent" /\ NoRow.revision = 0
  /\ NoRow.content = "none"
  BY DEF NoRow, RowsOf

LEMMA IntakeInitInv == IntakeInit => IntakeInv
<1> SUFFICES ASSUME IntakeInit PROVE IntakeInv
  OBVIOUS
<1>1. \A b \in Batches : batch[b] = <<>> /\ analysis[b] = "none" /\ workflow[b] = NoRow
  BY DEF IntakeInit
<1>2. \A s \in Scopes : pending[s] = NoBatch
  BY DEF IntakeInit
<1>3. IntakeTypeOK
  <2>1. begun \in 0 .. MaxBatches /\ Len(memory) <= MemoryLimit
    BY IntakeAssumption DEF IntakeInit
  <2>2. workflow \in [Batches -> RowsOf]
    BY NoRowTyped DEF IntakeInit
  <2>3. /\ pending \in [Scopes -> Rounds \cup {NoBatch}]
        /\ batch \in [Batches -> Seq(MessageKeys)] /\ memory \in Seq(MessageKeys)
        /\ analysis \in [Batches -> Analysis]
    BY DEF IntakeInit, Analysis
  <2>4. /\ forgotten \in SUBSET MessageKeys /\ timers \in SUBSET Deadlines
        /\ soon \in SUBSET Deadlines /\ tasks \in SUBSET Deadlines
    BY DEF IntakeInit
  <2> QED
    BY <2>1, <2>2, <2>3, <2>4 DEF IntakeTypeOK, RowsOf, Rounds
<1>4. AllRemembered /\ NoMessageTwice
  BY <1>1 DEF AllRemembered, NoMessageTwice
<1>5. Begun /\ PendingHasDeadline
  BY <1>2 DEF IntakeInit, Begun, PendingHasDeadline, AllDeadlines
<1>6. Rows
  BY <1>1, <1>2, NoRowTyped DEF Rows
<1> QED
  BY <1>3, <1>4, <1>5, <1>6 DEF IntakeInv

-----------------------------------------------------------------------------
(* Collecting.                                                             *)

\* The memory takes a key in and lets at most its oldest one go.
LEMMA RemembersAll ==
  ASSUME IntakeInv, NEW key \in MessageKeys, Remember(key)
  PROVE  /\ memory' \in Seq(MessageKeys) /\ Len(memory') <= MemoryLimit
         /\ forgotten \in SUBSET forgotten' /\ forgotten' \in SUBSET MessageKeys
         /\ \A k \in ToSet(memory) \cup forgotten \cup {key} :
              k \in ToSet(memory') \cup forgotten'
<1>1. /\ memory \in Seq(MessageKeys) /\ Len(memory) <= MemoryLimit
      /\ MemoryLimit \in Nat /\ MemoryLimit >= 1 /\ forgotten \in SUBSET MessageKeys
  BY IntakeTypes DEF IntakeInv, IntakeTypeOK
<1>2. CASE Len(memory) < MemoryLimit
  <2>1. memory' = Append(memory, key) /\ forgotten' = forgotten
    BY <1>2 DEF Remember
  <2>2. memory' \in Seq(MessageKeys) /\ Len(memory') = Len(memory) + 1
    BY <1>1, <2>1
  <2>3. /\ \A i \in DOMAIN memory : i \in DOMAIN memory' /\ memory'[i] = memory[i]
        /\ Len(memory) + 1 \in DOMAIN memory' /\ memory'[Len(memory) + 1] = key
    BY <1>1, <2>1
  <2>4. \A k \in ToSet(memory) \cup {key} : k \in ToSet(memory')
    BY <2>3 DEF ToSet
  <2> QED
    BY <1>1, <1>2, <2>1, <2>2, <2>4
<1>3. CASE ~(Len(memory) < MemoryLimit)
  <2>1. memory' = Append(Tail(memory), key) /\ forgotten' = forgotten \cup {Head(memory)}
    BY <1>3 DEF Remember
  <2>2. Len(memory) \in Nat /\ Len(memory) # 0
    BY <1>1, <1>3
  <2>3. /\ Tail(memory) \in Seq(MessageKeys) /\ Len(Tail(memory)) = Len(memory) - 1
        /\ \A i \in 1 .. Len(memory) - 1 : Tail(memory)[i] = memory[i + 1]
        /\ Head(memory) = memory[1] /\ Head(memory) \in MessageKeys
    BY <1>1, <2>2
  <2>4. PICK t \in Seq(MessageKeys) : t = Tail(memory)
    BY <2>3
  <2>5. memory' \in Seq(MessageKeys) /\ Len(memory') = Len(memory)
    BY <2>1, <2>2, <2>3, <2>4
  <2>6. /\ \A i \in DOMAIN t : i \in DOMAIN memory' /\ memory'[i] = t[i]
        /\ Len(t) + 1 \in DOMAIN memory' /\ memory'[Len(t) + 1] = key
    BY <2>1, <2>4
  <2>7. \A i \in DOMAIN memory : i = 1 \/ (i - 1 \in DOMAIN t /\ t[i - 1] = memory[i])
    BY <1>1, <2>2, <2>3, <2>4
  <2>8. ASSUME NEW k \in ToSet(memory)
        PROVE  k \in ToSet(memory') \cup forgotten'
    <3>1. PICK i \in DOMAIN memory : k = memory[i]
      BY DEF ToSet
    <3>2. CASE i = 1
      BY <2>1, <2>3, <3>1, <3>2
    <3>3. CASE i # 1
      BY <2>6, <2>7, <3>1, <3>3 DEF ToSet
    <3> QED
      BY <3>2, <3>3
  <2>9. key \in ToSet(memory')
    BY <2>6 DEF ToSet
  <2> QED
    BY <1>1, <2>1, <2>3, <2>5, <2>8, <2>9
<1> QED
  BY <1>2, <1>3

\* The batch that takes a message: the scope's, or the next one.
LEMMA CollectedIn ==
  ASSUME IntakeInv, NEW s \in Scopes, NEW m \in Messages, Collect(s, m),
         NEW p, p = BatchFor(s)
  PROVE  /\ p.id \in Batches /\ p.generation \in Nat
         /\ Len(batch[p.id]) < MaxBatch
         /\ \/ pending[s] # NoBatch /\ p = pending[s] /\ p.id <= begun /\ begun' = begun
            \/ pending[s] = NoBatch /\ p.id = begun + 1 /\ begun' = p.id
         /\ \A u \in Scopes : u # s /\ pending[u] # NoBatch => pending[u].id # p.id
         /\ \A d \in soon : d[1] # p.id
         /\ \A d \in timers \cup tasks : d[1] = p.id => d = DeadlineOf(p)
         /\ analysis[p.id] = "none"
<1>1. p.id \in Batches /\ Len(batch[p.id]) < MaxBatch
  BY DEF Collect
<1>2. begun' = IF p.id > begun THEN p.id ELSE begun
  BY DEF Collect
<1>3. \A u \in Scopes : pending[u] # NoBatch => pending[u].id \in Nat /\ pending[u].id <= begun
  BY IntakeTypes DEF IntakeInv, Begun, Batches
<1>4. \A d \in AllDeadlines : d[1] \in Nat /\ d[1] <= begun
  BY IntakeTypes DEF IntakeInv, Begun, AllDeadlines, Deadlines, Batches
<1>5. begun \in Nat
  BY IntakeTypes
<1>6. \A d \in soon : d[1] # p.id
  <2>1. \A d \in soon : d[1] \in Batches /\ Len(batch[d[1]]) >= MaxBatch
    BY IntakeTypes DEF IntakeInv, Begun, Deadlines
  <2>2. \A b \in Batches : Len(batch[b]) \in Nat
    BY IntakeTypes
  <2>3. MaxBatch \in Nat
    BY IntakeTypes
  <2> QED
    BY <1>1, <2>1, <2>2, <2>3
<1>7. CASE pending[s] # NoBatch
  <2>1. p = pending[s]
    BY <1>7 DEF BatchFor
  <2>2. p.id \in Nat /\ p.id <= begun /\ p.generation \in Nat
    BY <1>3, <1>7, <2>1, IntakeTypes
  <2>3. begun' = begun
    BY <1>2, <1>5, <2>2
  <2>4. \A u \in Scopes : u # s /\ pending[u] # NoBatch => pending[u].id # p.id
    BY <1>7, <2>1 DEF IntakeInv, Begun
  <2>5. \A d \in timers \cup tasks : d[1] = p.id => d = DeadlineOf(p)
    BY <1>7, <2>1 DEF IntakeInv, PendingHasDeadline
  <2>6. analysis[p.id] = "none"
    BY <1>7, <2>1 DEF IntakeInv, Rows
  <2> QED
    BY <1>1, <1>6, <1>7, <2>1, <2>2, <2>3, <2>4, <2>5, <2>6
<1>8. CASE pending[s] = NoBatch
  <2>1. p.id = begun + 1 /\ p.generation = 0
    BY <1>8 DEF BatchFor
  <2>2. p.id > begun /\ begun' = p.id
    BY <1>2, <1>5, <2>1
  <2>3. \A u \in Scopes : u # s /\ pending[u] # NoBatch => pending[u].id # p.id
    BY <1>3, <1>5, <2>1
  <2>4. \A d \in timers \cup tasks : d[1] # p.id
    BY <1>4, <1>5, <2>1 DEF AllDeadlines
  <2>5. analysis[p.id] = "none"
    BY <1>1, <2>2 DEF IntakeInv, Rows
  <2> QED
    BY <1>1, <1>6, <1>8, <2>1, <2>2, <2>3, <2>4, <2>5
<1> QED
  BY <1>7, <1>8

\* A collected message moves the deadline of its batch: the old one is gone,
\* the new one is to come, and the others stay.
LEMMA Rescheduled ==
  ASSUME IntakeInv, NEW s \in Scopes, NEW m \in Messages, Collect(s, m),
         NEW p, p = BatchFor(s), NEW next, next = <<p.id, p.generation + 1>>
  PROVE  /\ next \in Deadlines /\ next \in AllDeadlines'
         /\ \A d \in AllDeadlines' : d = next \/ (d \in AllDeadlines /\ d[1] # p.id)
         /\ \A d \in AllDeadlines : d[1] # p.id => d \in AllDeadlines'
         /\ timers' \in SUBSET Deadlines /\ soon' \in SUBSET Deadlines
         /\ tasks' \in SUBSET Deadlines
         /\ \A d \in soon' :
              d \in soon \/ (d = next /\ Len(batch[p.id]) + 1 >= MaxBatch)
<1>1. /\ p.id \in Batches /\ p.generation \in Nat
      /\ \A d \in soon : d[1] # p.id
      /\ \A d \in timers \cup tasks : d[1] = p.id => d = DeadlineOf(p)
  BY CollectedIn
<1>2. /\ timers \in SUBSET Deadlines /\ soon \in SUBSET Deadlines
      /\ tasks \in SUBSET Deadlines /\ MaxBatch \in Nat
      /\ Len(batch[p.id]) \in Nat
  BY <1>1, IntakeTypes
<1>3. next \in Deadlines /\ next[1] = p.id
  BY <1>1 DEF Deadlines
<1>4. DeadlineOf(p)[1] = p.id
  BY DEF DeadlineOf
<1>5. PICK old : old = DeadlineOf(p)
  OBVIOUS
<1>6. /\ tasks' = tasks \ {old}
      /\ \/ /\ timers' = (timers \ {old}) \cup {next} /\ soon' = soon
         \/ /\ Len(batch[p.id]) + 1 >= MaxBatch
            /\ timers' = timers \ {old} /\ soon' = soon \cup {next}
  <2>1. Reschedule(p, Len(batch[p.id]) + 1)
    BY DEF Collect
  <2>2. CASE Len(batch[p.id]) + 1 < MaxBatch
    BY <1>5, <2>1, <2>2 DEF Reschedule
  <2>3. CASE ~(Len(batch[p.id]) + 1 < MaxBatch)
    <3>1. Len(batch[p.id]) + 1 >= MaxBatch
      BY <1>2, <2>3
    <3> QED
      BY <1>5, <2>1, <2>3, <3>1 DEF Reschedule
  <2> QED
    BY <2>2, <2>3
<1>7. \A d \in timers \cup tasks : d[1] = p.id => d = old
  BY <1>1, <1>5
<1>8. /\ next \in AllDeadlines'
      /\ \A d \in AllDeadlines' : d = next \/ (d \in AllDeadlines /\ d[1] # p.id)
  BY <1>1, <1>6, <1>7 DEF AllDeadlines
<1>9. \A d \in AllDeadlines : d[1] # p.id => d \in AllDeadlines'
  BY <1>4, <1>5, <1>6 DEF AllDeadlines
<1>10. timers' \in SUBSET Deadlines /\ soon' \in SUBSET Deadlines
       /\ tasks' \in SUBSET Deadlines
  BY <1>2, <1>3, <1>6
<1>11. \A d \in soon' :
         d \in soon \/ (d = next /\ Len(batch[p.id]) + 1 >= MaxBatch)
  BY <1>6
<1> QED
  BY <1>3, <1>8, <1>9, <1>10, <1>11

LEMMA IntakeCollects ==
  ASSUME IntakeInv, NEW s \in Scopes, NEW m \in Messages, Collect(s, m)
  PROVE  IntakeInv'
<1> DEFINE key == <<s, m>>
<1>1. PICK p : p = BatchFor(s)
  OBVIOUS
<1>2. PICK next : next = <<p.id, p.generation + 1>>
  OBVIOUS
<1>3. PICK q : q = [id |-> p.id, generation |-> p.generation + 1]
  OBVIOUS
<1>4. /\ p.id \in Batches /\ p.generation \in Nat /\ Len(batch[p.id]) < MaxBatch
      /\ \/ pending[s] # NoBatch /\ p = pending[s] /\ p.id <= begun /\ begun' = begun
         \/ pending[s] = NoBatch /\ p.id = begun + 1 /\ begun' = p.id
      /\ \A u \in Scopes : u # s /\ pending[u] # NoBatch => pending[u].id # p.id
      /\ analysis[p.id] = "none"
  BY <1>1, CollectedIn
<1>5. /\ next \in AllDeadlines'
      /\ \A d \in AllDeadlines' : d = next \/ (d \in AllDeadlines /\ d[1] # p.id)
      /\ \A d \in AllDeadlines : d[1] # p.id => d \in AllDeadlines'
      /\ timers' \in SUBSET Deadlines /\ soon' \in SUBSET Deadlines
      /\ tasks' \in SUBSET Deadlines
      /\ \A d \in soon' :
           d \in soon \/ (d = next /\ Len(batch[p.id]) + 1 >= MaxBatch)
  BY <1>1, <1>2, Rescheduled
<1>6. /\ key \notin ToSet(memory) /\ key \in MessageKeys /\ Remember(key)
      /\ batch' = [batch EXCEPT ![p.id] = Append(batch[p.id], key)]
      /\ pending' = [pending EXCEPT ![s] = q]
      /\ UNCHANGED <<analysis, workflow>>
  BY <1>1, <1>3 DEF Collect, MessageKeys
<1>7. /\ memory' \in Seq(MessageKeys) /\ Len(memory') <= MemoryLimit
      /\ forgotten \in SUBSET forgotten' /\ forgotten' \in SUBSET MessageKeys
      /\ \A k \in ToSet(memory) \cup forgotten \cup {key} :
           k \in ToSet(memory') \cup forgotten'
  BY <1>6, RemembersAll
<1> HIDE DEF key
<1>8. q \in Rounds /\ q.id = p.id /\ DeadlineOf(q) = next /\ next[1] = p.id
  BY <1>2, <1>3, <1>4 DEF Rounds, DeadlineOf
<1>9. /\ pending'[s] = q /\ \A u \in Scopes : u # s => pending'[u] = pending[u]
      /\ pending' \in [Scopes -> Rounds \cup {NoBatch}]
  BY <1>6, <1>8, IntakeTypes
<1>10. PICK old \in Seq(MessageKeys) : old = batch[p.id]
  BY <1>4, IntakeTypes
<1>11. /\ Append(old, key) \in Seq(MessageKeys) /\ Len(old) \in Nat
       /\ Len(Append(old, key)) = Len(old) + 1
       /\ DOMAIN Append(old, key) = 1 .. Len(old) + 1
       /\ \A i \in 1 .. Len(old) : Append(old, key)[i] = old[i]
       /\ Append(old, key)[Len(old) + 1] = key
       /\ DOMAIN old = 1 .. Len(old)
  BY <1>6
<1>12. /\ batch'[p.id] = Append(old, key)
       /\ \A b \in Batches : b # p.id => batch'[b] = batch[b]
       /\ batch' \in [Batches -> Seq(MessageKeys)]
  BY <1>4, <1>6, <1>10, <1>11, IntakeTypes
<1>13. begun' \in 0 .. MaxBatches /\ begun' \in Nat /\ begun <= begun' /\ p.id <= begun'
  BY <1>4, IntakeTypes DEF Batches
<1>14. IntakeTypeOK'
  BY <1>5, <1>6, <1>7, <1>9, <1>12, <1>13, IntakeTypes DEF IntakeTypeOK, Rounds, RowsOf
\* A key of a batch is one that was there, or the new one at its end.
<1>15. ASSUME NEW b \in Batches, NEW i \in DOMAIN batch'[b]
       PROVE  \/ i \in DOMAIN batch[b] /\ batch'[b][i] = batch[b][i]
              \/ b = p.id /\ i = Len(old) + 1 /\ batch'[b][i] = key
  <2>1. CASE b # p.id
    BY <1>12, <2>1
  <2>2. CASE b = p.id
    <3>1. i \in 1 .. Len(old) \/ i = Len(old) + 1
      BY <1>11, <1>12, <2>2
    <3> QED
      BY <1>10, <1>11, <1>12, <2>2, <3>1
  <2> QED
    BY <2>1, <2>2
<1>16. AllRemembered'
  BY <1>7, <1>15 DEF IntakeInv, AllRemembered
<1>17. NoMessageTwice'
  <2> SUFFICES ASSUME NEW b \in Batches, NEW c \in Batches,
                      NEW i \in DOMAIN batch'[b], NEW j \in DOMAIN batch'[c],
                      batch'[b][i] = batch'[c][j], <<b, i>> # <<c, j>>
               PROVE  batch'[b][i] \in forgotten'
    BY DEF NoMessageTwice
  <2>1. \A a \in Batches : \A k \in DOMAIN batch[a] :
          batch[a][k] = key => batch[a][k] \in forgotten'
    BY <1>6, <1>7 DEF IntakeInv, AllRemembered
  <2>2. CASE i \in DOMAIN batch[b] /\ batch'[b][i] = batch[b][i]
             /\ j \in DOMAIN batch[c] /\ batch'[c][j] = batch[c][j]
    BY <1>7, <2>2 DEF IntakeInv, NoMessageTwice
  <2>3. CASE b = p.id /\ i = Len(old) + 1 /\ batch'[b][i] = key
    <3>1. ~(c = p.id /\ j = Len(old) + 1)
      BY <2>3
    <3>2. j \in DOMAIN batch[c] /\ batch[c][j] = key
      BY <1>15, <2>3, <3>1
    <3> QED
      BY <2>1, <2>3, <3>2
  <2>4. CASE c = p.id /\ j = Len(old) + 1 /\ batch'[c][j] = key
    <3>1. ~(b = p.id /\ i = Len(old) + 1)
      BY <2>4
    <3>2. i \in DOMAIN batch[b] /\ batch[b][i] = key /\ batch'[b][i] = key
      BY <1>15, <2>4, <3>1
    <3> QED
      BY <2>1, <3>2
  <2> QED
    BY <1>15, <2>2, <2>3, <2>4
<1>18. Begun'
  <2>1. \A u \in Scopes : pending[u] # NoBatch => pending[u].id \in Nat /\ pending[u].id <= begun
    BY IntakeTypes DEF IntakeInv, Begun, Batches
  <2>2. \A u \in Scopes : pending'[u] # NoBatch => pending'[u].id <= begun'
    <3>1. ASSUME NEW u \in Scopes, u # s, pending'[u] # NoBatch PROVE pending'[u].id <= begun'
      BY <1>9, <1>13, <2>1, <3>1, IntakeTypes
    <3> QED
      BY <1>8, <1>9, <1>13, <3>1
  <2>3. \A u, v \in Scopes : pending'[u] # NoBatch /\ pending'[v] # NoBatch
                             /\ pending'[u].id = pending'[v].id => u = v
    BY <1>4, <1>8, <1>9 DEF IntakeInv, Begun
  <2>4. \A d \in AllDeadlines' : d[1] <= begun'
    <3>1. \A d \in AllDeadlines : d[1] \in Nat /\ d[1] <= begun
      BY IntakeTypes DEF IntakeInv, Begun, AllDeadlines, Deadlines, Batches
    <3>2. begun \in Nat
      BY IntakeTypes
    <3> QED
      BY <1>5, <1>8, <1>13, <3>1, <3>2
  <2>5. ASSUME NEW d \in soon' PROVE Len(batch'[d[1]]) >= MaxBatch
    <3>1. MaxBatch \in Nat
      BY IntakeTypes
    <3>2. CASE d = next /\ Len(batch[p.id]) + 1 >= MaxBatch
      BY <1>8, <1>10, <1>11, <1>12, <3>1, <3>2
    <3>3. CASE d \in soon
      <4>1. d[1] \in Batches /\ d[1] # p.id
        BY <1>1, <3>3, CollectedIn, IntakeTypes DEF Deadlines
      <4> QED
        BY <1>12, <3>3, <4>1 DEF IntakeInv, Begun
    <3> QED
      BY <1>5, <3>2, <3>3
  <2> QED
    BY <2>2, <2>3, <2>4, <2>5 DEF Begun
<1>19. PendingHasDeadline'
  <2> SUFFICES ASSUME NEW u \in Scopes, pending'[u] # NoBatch
               PROVE  /\ DeadlineOf(pending'[u]) \in AllDeadlines'
                      /\ \A d \in AllDeadlines' :
                           d[1] = pending'[u].id => d = DeadlineOf(pending'[u])
    BY DEF PendingHasDeadline, AllDeadlines, DeadlineOf
  <2>1. CASE u = s
    BY <1>5, <1>8, <1>9, <2>1
  <2>2. CASE u # s
    <3>1. pending'[u] = pending[u] /\ pending[u].id # p.id
      BY <1>4, <1>9, <2>2
    <3>2. DeadlineOf(pending[u])[1] = pending[u].id
      BY DEF DeadlineOf
    <3>3. /\ DeadlineOf(pending[u]) \in AllDeadlines
          /\ \A d \in AllDeadlines : d[1] = pending[u].id => d = DeadlineOf(pending[u])
      BY <3>1 DEF IntakeInv, PendingHasDeadline, AllDeadlines
    <3> QED
      BY <1>5, <1>8, <3>1, <3>2, <3>3
  <2> QED
    BY <2>1, <2>2
<1>20. Rows'
  <2>1. \A u \in Scopes : pending'[u] # NoBatch => analysis'[pending'[u].id] = "none"
    BY <1>4, <1>6, <1>8, <1>9 DEF IntakeInv, Rows
  <2>2. \A b \in Batches : b > begun' => analysis'[b] = "none"
    <3>1. \A b \in Batches : b > begun' => b > begun
      BY <1>13, IntakeTypes DEF Batches
    <3> QED
      BY <1>6, <3>1 DEF IntakeInv, Rows
  <2> QED
    BY <1>6, <2>1, <2>2 DEF IntakeInv, Rows
<1> QED
  BY <1>14, <1>16, <1>17, <1>18, <1>19, <1>20 DEF IntakeInv

-----------------------------------------------------------------------------
(* Sealing and stopping.                                                   *)

\* Batches that are given up or sealed, and deadlines that are dropped with
\* them, leave the rest as it was.
LEMMA IntakeDrops ==
  ASSUME IntakeInv, UNCHANGED <<begun, batch>>,
         memory' \in Seq(MessageKeys), Len(memory') <= MemoryLimit,
         forgotten \in SUBSET forgotten', forgotten' \in SUBSET MessageKeys,
         \A k \in ToSet(memory) \cup forgotten : k \in ToSet(memory') \cup forgotten',
         pending' \in [Scopes -> Rounds \cup {NoBatch}],
         \A u \in Scopes : pending'[u] # NoBatch => pending'[u] = pending[u],
         timers' \in SUBSET Deadlines, soon' \in SUBSET soon, tasks' \in SUBSET Deadlines,
         AllDeadlines' \in SUBSET AllDeadlines,
         \A u \in Scopes : pending'[u] # NoBatch => DeadlineOf(pending[u]) \in AllDeadlines',
         analysis' \in [Batches -> Analysis], workflow' \in [Batches -> RowsOf], Rows'
  PROVE  IntakeInv'
<1>1. IntakeTypeOK'
  <2>1. soon' \in SUBSET Deadlines
    BY IntakeTypes
  <2> QED
    BY <2>1, IntakeTypes DEF IntakeTypeOK, Rounds, RowsOf
<1>2. AllRemembered'
  BY DEF IntakeInv, AllRemembered
<1>3. NoMessageTwice'
  BY DEF IntakeInv, NoMessageTwice
<1>4. Begun'
  <2>1. \A u \in Scopes : pending'[u] # NoBatch => pending[u] # NoBatch /\ pending'[u] = pending[u]
    OBVIOUS
  <2>2. \A u \in Scopes : pending'[u] # NoBatch => pending'[u].id <= begun'
    BY <2>1 DEF IntakeInv, Begun
  <2>3. \A u, v \in Scopes : pending'[u] # NoBatch /\ pending'[v] # NoBatch
                             /\ pending'[u].id = pending'[v].id => u = v
    BY <2>1 DEF IntakeInv, Begun
  <2>4. \A d \in AllDeadlines' : d[1] <= begun'
    BY DEF IntakeInv, Begun
  <2>5. \A d \in soon' : Len(batch'[d[1]]) >= MaxBatch
    BY DEF IntakeInv, Begun
  <2> QED
    BY <2>2, <2>3, <2>4, <2>5 DEF Begun
<1>5. PendingHasDeadline'
  <2> SUFFICES ASSUME NEW u \in Scopes, pending'[u] # NoBatch
               PROVE  /\ DeadlineOf(pending'[u]) \in AllDeadlines'
                      /\ \A d \in AllDeadlines' :
                           d[1] = pending'[u].id => d = DeadlineOf(pending'[u])
    BY DEF PendingHasDeadline, AllDeadlines, DeadlineOf
  <2>1. pending'[u] = pending[u] /\ pending[u] # NoBatch
    OBVIOUS
  <2>2. \A d \in AllDeadlines : d[1] = pending[u].id => d = DeadlineOf(pending[u])
    BY <2>1 DEF IntakeInv, PendingHasDeadline, AllDeadlines
  <2> QED
    BY <2>1, <2>2
<1> QED
  BY <1>1, <1>2, <1>3, <1>4, <1>5 DEF IntakeInv

\* The deadlines of two scopes are different ones.
LEMMA OwnDeadline ==
  ASSUME IntakeInv, NEW s \in Scopes, NEW u \in Scopes, s # u,
         pending[s] # NoBatch, pending[u] # NoBatch
  PROVE  DeadlineOf(pending[s]) # DeadlineOf(pending[u])
<1>1. pending[s].id # pending[u].id
  BY DEF IntakeInv, Begun
<1> QED
  BY <1>1 DEF DeadlineOf

LEMMA SealRows ==
  ASSUME IntakeInv, NEW s \in Scopes, pending[s] # NoBatch, Seal(s),
         UNCHANGED <<begun, workflow>>
  PROVE  /\ Rows' /\ analysis' \in [Batches -> Analysis]
         /\ pending' \in [Scopes -> Rounds \cup {NoBatch}]
         /\ pending'[s] = NoBatch /\ \A u \in Scopes : u # s => pending'[u] = pending[u]
<1>1. PICK b \in Batches : b = pending[s].id
  BY IntakeTypes
<1>2. /\ pending' = [pending EXCEPT ![s] = NoBatch]
      /\ analysis' = [analysis EXCEPT ![b] = "save"]
  BY <1>1 DEF Seal
<1>3. /\ pending'[s] = NoBatch /\ \A u \in Scopes : u # s => pending'[u] = pending[u]
      /\ pending' \in [Scopes -> Rounds \cup {NoBatch}]
      /\ analysis' \in [Batches -> Analysis] /\ analysis'[b] = "save"
      /\ \A c \in Batches : c # b => analysis'[c] = analysis[c]
  BY <1>2, IntakeTypes DEF Analysis
<1>4. analysis[b] = "none" /\ b <= begun
  BY <1>1 DEF IntakeInv, Rows, Begun
<1>5. ASSUME NEW u \in Scopes, pending'[u] # NoBatch
      PROVE  analysis'[pending'[u].id] = "none"
  <2>1. u # s /\ pending'[u] = pending[u]
    BY <1>3, <1>5
  <2>2. pending[u].id \in Batches /\ pending[u].id # b
    BY <1>1, <1>5, <2>1, IntakeTypes DEF IntakeInv, Begun
  <2> QED
    BY <1>3, <1>5, <2>1, <2>2 DEF IntakeInv, Rows
<1>6. \A c \in Batches : c > begun' => analysis'[c] = "none"
  <2>1. ~(b > begun)
    BY <1>4, IntakeTypes DEF Batches
  <2> QED
    BY <1>3, <2>1 DEF IntakeInv, Rows
<1>7. \A c \in Batches : analysis'[c] \in {"none", "save"} => workflow[c] = NoRow
  BY <1>3, <1>4 DEF IntakeInv, Rows
<1>8. Rows'
  BY <1>5, <1>6, <1>7 DEF IntakeInv, Rows
<1> QED
  BY <1>3, <1>8

\* A scope's batch is given up or sealed by the user, who cancels its deadline.
LEMMA IntakeLeaves ==
  ASSUME IntakeInv, NEW s \in Scopes, CancelPending(s) \/ Flush(s)
  PROVE  IntakeInv' /\ workflow' = workflow
<1>1. PICK d : d = DeadlineOf(pending[s])
  OBVIOUS
<1>2. /\ pending[s] # NoBatch /\ timers' = timers \ {d} /\ tasks' = tasks \ {d}
      /\ UNCHANGED <<begun, batch, memory, forgotten, soon, workflow>>
  BY <1>1 DEF CancelPending, Flush, CancelDeadline
<1>3. /\ Rows' /\ analysis' \in [Batches -> Analysis]
      /\ pending' \in [Scopes -> Rounds \cup {NoBatch}]
      /\ pending'[s] = NoBatch /\ \A u \in Scopes : u # s => pending'[u] = pending[u]
  <2>1. CASE CancelPending(s)
    <3>1. pending' = [pending EXCEPT ![s] = NoBatch] /\ analysis' = analysis
      BY <2>1 DEF CancelPending
    <3>2. /\ pending' \in [Scopes -> Rounds \cup {NoBatch}]
          /\ pending'[s] = NoBatch /\ \A u \in Scopes : u # s => pending'[u] = pending[u]
      BY <3>1, IntakeTypes
    <3>3. Rows'
      BY <1>2, <3>1, <3>2 DEF IntakeInv, Rows
    <3> QED
      BY <3>1, <3>2, <3>3, IntakeTypes
  <2>2. CASE Flush(s)
    BY <1>2, <2>2, SealRows DEF Flush
  <2> QED
    BY <2>1, <2>2
<1>4. /\ AllDeadlines' \in SUBSET AllDeadlines
      /\ \A e \in AllDeadlines : e # d => e \in AllDeadlines'
  BY <1>2 DEF AllDeadlines
<1>5. ASSUME NEW u \in Scopes, pending'[u] # NoBatch
      PROVE  pending'[u] = pending[u] /\ DeadlineOf(pending[u]) \in AllDeadlines'
  <2>1. u # s /\ pending'[u] = pending[u] /\ pending[u] # NoBatch
    BY <1>3, <1>5
  <2>2. DeadlineOf(pending[u]) \in AllDeadlines
    BY <2>1 DEF IntakeInv, PendingHasDeadline, AllDeadlines
  <2> QED
    BY <1>1, <1>2, <1>4, <2>1, <2>2, OwnDeadline
<1>6. timers' \in SUBSET Deadlines /\ soon' \in SUBSET soon /\ tasks' \in SUBSET Deadlines
  BY <1>2, IntakeTypes
<1>7. /\ memory' \in Seq(MessageKeys) /\ Len(memory') <= MemoryLimit
      /\ forgotten \in SUBSET forgotten' /\ forgotten' \in SUBSET MessageKeys
      /\ \A k \in ToSet(memory) \cup forgotten : k \in ToSet(memory') \cup forgotten'
      /\ workflow' \in [Batches -> RowsOf]
  BY <1>2, IntakeTypes DEF IntakeInv, IntakeTypeOK
<1> QED
  BY <1>2, <1>3, <1>4, <1>5, <1>6, <1>7, IntakeDrops

LEMMA IntakeFires ==
  ASSUME IntakeInv, NEW d, DeadlineFires(d)
  PROVE  IntakeInv' /\ workflow' = workflow
<1>1. /\ d \in timers \cup soon /\ timers' = timers \ {d} /\ soon' = soon \ {d}
      /\ tasks' = tasks \cup {d}
      /\ UNCHANGED <<pending, begun, batch, memory, forgotten, analysis, workflow>>
  BY DEF DeadlineFires, collection
<1>2. AllDeadlines' = AllDeadlines
  BY <1>1 DEF AllDeadlines
<1>3. timers' \in SUBSET Deadlines /\ soon' \in SUBSET soon /\ tasks' \in SUBSET Deadlines
  BY <1>1, IntakeTypes
<1>4. Rows'
  BY <1>1 DEF IntakeInv, Rows
<1>5. /\ memory' \in Seq(MessageKeys) /\ Len(memory') <= MemoryLimit
      /\ forgotten \in SUBSET forgotten' /\ forgotten' \in SUBSET MessageKeys
      /\ \A k \in ToSet(memory) \cup forgotten : k \in ToSet(memory') \cup forgotten'
      /\ workflow' \in [Batches -> RowsOf] /\ analysis' \in [Batches -> Analysis]
      /\ pending' \in [Scopes -> Rounds \cup {NoBatch}]
  BY <1>1, IntakeTypes DEF IntakeInv, IntakeTypeOK
<1>6. \A u \in Scopes : pending'[u] # NoBatch =>
        pending'[u] = pending[u] /\ DeadlineOf(pending[u]) \in AllDeadlines'
  BY <1>1, <1>2 DEF IntakeInv, PendingHasDeadline, AllDeadlines
<1> QED
  BY <1>1, <1>2, <1>3, <1>4, <1>5, <1>6, IntakeDrops

\* A deadline seals the batch it is of, or was of and does nothing.
LEMMA IntakeElapses ==
  ASSUME IntakeInv, NEW d, DeadlineElapsed(d)
  PROVE  IntakeInv' /\ workflow' = workflow
<1>1. /\ d \in tasks /\ tasks' = tasks \ {d}
      /\ UNCHANGED <<begun, batch, memory, forgotten, timers, soon, workflow>>
  BY DEF DeadlineElapsed
<1>2. /\ AllDeadlines' \in SUBSET AllDeadlines
      /\ \A e \in AllDeadlines : e # d => e \in AllDeadlines'
  BY <1>1 DEF AllDeadlines
<1>3. timers' \in SUBSET Deadlines /\ soon' \in SUBSET soon /\ tasks' \in SUBSET Deadlines
  BY <1>1, IntakeTypes
<1>4. /\ memory' \in Seq(MessageKeys) /\ Len(memory') <= MemoryLimit
      /\ forgotten \in SUBSET forgotten' /\ forgotten' \in SUBSET MessageKeys
      /\ \A k \in ToSet(memory) \cup forgotten : k \in ToSet(memory') \cup forgotten'
      /\ workflow' \in [Batches -> RowsOf]
  BY <1>1, IntakeTypes DEF IntakeInv, IntakeTypeOK
<1>5. \A u \in Scopes : pending[u] # NoBatch => DeadlineOf(pending[u]) \in AllDeadlines
  BY DEF IntakeInv, PendingHasDeadline, AllDeadlines
<1>6. CASE ~(\E s \in Scopes : IsCurrent(d, s)) /\ UNCHANGED <<pending, analysis>>
  <2>1. Rows'
    BY <1>1, <1>6 DEF IntakeInv, Rows
  <2>2. \A u \in Scopes : pending'[u] # NoBatch =>
          pending'[u] = pending[u] /\ DeadlineOf(pending[u]) \in AllDeadlines'
    BY <1>2, <1>5, <1>6 DEF IsCurrent
  <2> QED
    BY <1>1, <1>2, <1>3, <1>4, <1>6, <2>1, <2>2, IntakeDrops, IntakeTypes
<1>7. CASE \E s \in Scopes : IsCurrent(d, s) /\ Seal(s)
  <2>1. PICK s \in Scopes : IsCurrent(d, s) /\ Seal(s)
    BY <1>7
  <2>2. pending[s] # NoBatch /\ DeadlineOf(pending[s]) = d
    BY <2>1 DEF IsCurrent
  <2>3. /\ Rows' /\ analysis' \in [Batches -> Analysis]
        /\ pending' \in [Scopes -> Rounds \cup {NoBatch}]
        /\ pending'[s] = NoBatch /\ \A u \in Scopes : u # s => pending'[u] = pending[u]
    BY <1>1, <2>1, <2>2, SealRows
  <2>4. ASSUME NEW u \in Scopes, pending'[u] # NoBatch
        PROVE  pending'[u] = pending[u] /\ DeadlineOf(pending[u]) \in AllDeadlines'
    <3>1. u # s /\ pending'[u] = pending[u] /\ pending[u] # NoBatch
      BY <2>3, <2>4
    <3>2. DeadlineOf(pending[u]) # d
      BY <2>2, <3>1, OwnDeadline
    <3> QED
      BY <1>2, <1>5, <3>1, <3>2
  <2> QED
    BY <1>1, <1>2, <1>3, <1>4, <2>3, <2>4, IntakeDrops
<1> QED
  BY <1>6, <1>7 DEF DeadlineElapsed

LEMMA IntakeStops ==
  ASSUME IntakeInv, StopIntake
  PROVE  IntakeInv' /\ workflow' = workflow
<1>1. /\ timers' = {} /\ soon' = {} /\ tasks' = {} /\ memory' = <<>>
      /\ pending' = [s \in Scopes |-> NoBatch] /\ forgotten' = forgotten \cup ToSet(memory)
      /\ UNCHANGED <<begun, batch, workflow>>
  BY DEF StopIntake
<1>2. \A b \in Batches : IF analysis[b] = "none" THEN analysis'[b] = "none"
                                                 ELSE analysis'[b] = "ended"
  BY DEF StopIntake
<1>3. analysis' \in [Batches -> Analysis]
  BY DEF StopIntake, Analysis
<1>4. Rows'
  BY <1>1, <1>2 DEF IntakeInv, Rows
<1>5. \A k \in ToSet(memory) : k \in MessageKeys
  <2>1. memory \in Seq(MessageKeys)
    BY IntakeTypes
  <2>2. \A i \in DOMAIN memory : memory[i] \in MessageKeys
    BY <2>1
  <2> QED
    BY <2>2 DEF ToSet
<1>6. /\ memory' \in Seq(MessageKeys) /\ Len(memory') = 0
      /\ forgotten \in SUBSET forgotten' /\ forgotten' \in SUBSET MessageKeys
      /\ \A k \in ToSet(memory) \cup forgotten : k \in ToSet(memory') \cup forgotten'
      /\ workflow' \in [Batches -> RowsOf]
  BY <1>1, <1>5, IntakeTypes DEF IntakeInv, IntakeTypeOK
<1>7. Len(memory') <= MemoryLimit
  BY <1>6, IntakeTypes
<1>8. AllDeadlines' = {} /\ \A u \in Scopes : pending'[u] = NoBatch
  BY <1>1 DEF AllDeadlines
<1>9. pending' \in [Scopes -> Rounds \cup {NoBatch}]
  BY <1>1
<1> QED
  BY <1>1, <1>3, <1>4, <1>6, <1>7, <1>8, <1>9, IntakeDrops

-----------------------------------------------------------------------------
(* The rows.                                                               *)

\* What a step may do to a user's words and to a cancelled draft.
KeepsWord(b) ==
  /\ workflow[b].content = "user" => workflow'[b].content = "user"
  /\ workflow[b].state = "CANCELLED" => workflow'[b] = workflow[b]

LEMMA NotLegal ==
  /\ ~IsTransitionAllowed("absent", "CANCELLED")
  /\ ~IsTransitionAllowed("CANCELLED", "CANCELLED")
  /\ ~IsTransitionAllowed("CANCELLED", "REVIEW")
  /\ ~IsTransitionAllowed("REVIEW", "REVIEW")
  BY DEF IsTransitionAllowed, LegalTransitions

\* A row is written by the analysis of its batch, or by its user.
LEMMA IntakeWrites ==
  ASSUME IntakeInv, NEW b \in Batches, NEW stage \in Analysis, NEW row \in RowsOf,
         UNCHANGED <<collection, scheduler>>,
         analysis' = [analysis EXCEPT ![b] = stage],
         workflow' = [workflow EXCEPT ![b] = row],
         stage = analysis[b] \/ (analysis[b] # "none" /\ stage \notin {"none", "save"}),
         stage \in {"none", "save"} => row = NoRow,
         row.revision = 0 => row = NoRow,
         row.revision = 1 => row.state = "COLLECTING" /\ row.content = "none",
         row.revision = 2 => \/ row.state = "ANALYZING" /\ row.content = "none"
                             \/ row.state \in {"REVIEW", "CANCELLED"},
         workflow[b].content = "user" => row.content = "user",
         workflow[b].state = "CANCELLED" => row = workflow[b]
  PROVE  IntakeInv' /\ \A c \in Batches : KeepsWord(c)
<1>1. UNCHANGED <<pending, begun, batch, memory, forgotten, timers, soon, tasks>>
  BY DEF collection, scheduler
<1>2. /\ analysis'[b] = stage /\ \A c \in Batches : c # b => analysis'[c] = analysis[c]
      /\ workflow'[b] = row /\ \A c \in Batches : c # b => workflow'[c] = workflow[c]
      /\ analysis' \in [Batches -> Analysis] /\ workflow' \in [Batches -> RowsOf]
  BY IntakeTypes
<1>3. \A c \in Batches : analysis[c] = "none" => analysis'[c] = "none"
  BY <1>2
<1>4. Rows'
  <2>1. \A u \in Scopes : pending'[u] # NoBatch => analysis'[pending'[u].id] = "none"
    BY <1>1, <1>3, IntakeTypes DEF IntakeInv, Rows
  <2>2. \A c \in Batches : c > begun' => analysis'[c] = "none"
    BY <1>1, <1>3 DEF IntakeInv, Rows
  <2>3. \A c \in Batches :
          /\ analysis'[c] \in {"none", "save"} => workflow'[c] = NoRow
          /\ workflow'[c].revision = 0 => workflow'[c] = NoRow
          /\ workflow'[c].revision = 1 =>
               workflow'[c].state = "COLLECTING" /\ workflow'[c].content = "none"
          /\ workflow'[c].revision = 2 =>
               \/ workflow'[c].state = "ANALYZING" /\ workflow'[c].content = "none"
               \/ workflow'[c].state \in {"REVIEW", "CANCELLED"}
    BY <1>2 DEF IntakeInv, Rows
  <2> QED
    BY <2>1, <2>2, <2>3 DEF Rows
<1>5. IntakeTypeOK'
  BY <1>1, <1>2 DEF IntakeInv, IntakeTypeOK, RowsOf
<1>6. AllRemembered' /\ NoMessageTwice'
  BY <1>1 DEF IntakeInv, AllRemembered, NoMessageTwice
<1>7. Begun'
  BY <1>1 DEF IntakeInv, Begun, AllDeadlines
<1>8. PendingHasDeadline'
  BY <1>1 DEF IntakeInv, PendingHasDeadline, DeadlineOf
<1>9. \A c \in Batches : KeepsWord(c)
  BY <1>2 DEF KeepsWord
<1> QED
  BY <1>4, <1>5, <1>6, <1>7, <1>8, <1>9 DEF IntakeInv

\* A step of an analysis that writes nothing.
LEMMA IntakeProceeds ==
  ASSUME IntakeInv, NEW b \in Batches, NEW stage \in Analysis \ {"none", "save"},
         UNCHANGED <<collection, scheduler, workflow>>,
         analysis[b] # "none", Proceed(b, stage)
  PROVE  IntakeInv' /\ \A c \in Batches : KeepsWord(c)
<1>1. analysis' = [analysis EXCEPT ![b] = stage]
  BY DEF Proceed
<1>2. PICK row \in RowsOf : row = workflow[b]
  BY IntakeTypes
<1>3. workflow' = [workflow EXCEPT ![b] = row]
  BY <1>2, IntakeTypes
<1>4. /\ row.revision = 0 => row = NoRow
      /\ row.revision = 1 => row.state = "COLLECTING" /\ row.content = "none"
      /\ row.revision = 2 => \/ row.state = "ANALYZING" /\ row.content = "none"
                             \/ row.state \in {"REVIEW", "CANCELLED"}
  BY <1>2 DEF IntakeInv, Rows
<1> QED
  BY <1>1, <1>2, <1>3, <1>4, IntakeWrites

\* A row that is set is one revision further.
LEMMA RowIsSet ==
  ASSUME IntakeInv, NEW b \in Batches, NEW s \in DraftState,
         NEW c \in {"none", "analyser", "user"}, SetRow(b, s, c)
  PROVE  \E row \in RowsOf :
           /\ workflow' = [workflow EXCEPT ![b] = row]
           /\ row.state = s /\ row.content = c
           /\ row.revision = workflow[b].revision + 1 /\ workflow[b].revision \in Nat
<1> DEFINE row == [state |-> s, revision |-> workflow[b].revision + 1, content |-> c]
<1>1. workflow[b].revision \in Nat
  BY IntakeTypes DEF RowsOf
<1>2. row \in RowsOf /\ row.state = s /\ row.content = c
      /\ row.revision = workflow[b].revision + 1
  BY <1>1 DEF RowsOf
<1>3. workflow' = [workflow EXCEPT ![b] = row]
  BY DEF SetRow
<1> HIDE DEF row
<1> QED
  BY <1>1, <1>2, <1>3

LEMMA StatesAre ==
  {"COLLECTING", "ANALYZING", "ANALYSIS_FAILED", "REVIEW", "CANCELLED"} \in SUBSET DraftState
  BY DEF DraftState, CreateStates, TerminalStates

\* A step of an analysis that writes a row neither edited nor cancelled.
LEMMA IntakeSets ==
  ASSUME IntakeInv, NEW b \in Batches, NEW stage \in Analysis \ {"none", "save"},
         NEW s \in {"COLLECTING", "ANALYZING", "ANALYSIS_FAILED", "REVIEW", "CANCELLED"},
         NEW c \in {"none", "analyser", "user"},
         UNCHANGED <<collection, scheduler>>,
         analysis[b] # "none", Proceed(b, stage), SetRow(b, s, c),
         workflow[b].revision = 0 => s = "COLLECTING" /\ c = "none",
         workflow[b].revision = 1 => s = "ANALYZING" /\ c = "none",
         workflow[b].content # "user", workflow[b].state # "CANCELLED"
  PROVE  IntakeInv' /\ \A d \in Batches : KeepsWord(d)
<1>1. PICK row \in RowsOf :
        /\ workflow' = [workflow EXCEPT ![b] = row]
        /\ row.state = s /\ row.content = c
        /\ row.revision = workflow[b].revision + 1 /\ workflow[b].revision \in Nat
  BY StatesAre, RowIsSet
<1>2. analysis' = [analysis EXCEPT ![b] = stage]
  BY DEF Proceed
<1>3. row.revision # 0
  BY <1>1
<1>4. row.revision = 1 => row.state = "COLLECTING" /\ row.content = "none"
  <2>1. row.revision = 1 => workflow[b].revision = 0
    BY <1>1
  <2> QED
    BY <1>1, <2>1
<1>5. row.revision = 2 => row.state = "ANALYZING" /\ row.content = "none"
  <2>1. row.revision = 2 => workflow[b].revision = 1
    BY <1>1
  <2> QED
    BY <1>1, <2>1
<1> QED
  BY <1>1, <1>2, <1>3, <1>4, <1>5, IntakeWrites

\* The analysis writes a row that is as the batch or the analysis left it.
LEMMA IntakeProcesses ==
  ASSUME IntakeInv, NEW b \in Batches, Process(b)
  PROVE  IntakeInv' /\ \A c \in Batches : KeepsWord(c)
<1>1. CASE SaveCollecting(b)
  <2>1. analysis[b] = "save" /\ UNCHANGED <<collection, scheduler>>
    BY <1>1 DEF SaveCollecting
  <2>2. CASE SetRow(b, "COLLECTING", "none") /\ Proceed(b, "begin")
    <3>1. workflow[b] = NoRow
      BY <2>1 DEF IntakeInv, Rows
    <3>2. /\ workflow[b].revision # 1 /\ workflow[b].content # "user"
          /\ workflow[b].state # "CANCELLED"
      BY <3>1, NoRowTyped
    <3> QED
      BY <2>1, <2>2, <3>2, IntakeSets DEF Analysis
  <2>3. CASE Proceed(b, "ended") /\ UNCHANGED workflow
    BY <2>1, <2>3, IntakeProceeds DEF Analysis
  <2> QED
    BY <1>1, <2>2, <2>3 DEF SaveCollecting
<1>2. CASE BeginAnalysis(b)
  <2>1. analysis[b] = "begin" /\ UNCHANGED <<collection, scheduler>>
    BY <1>2 DEF BeginAnalysis
  <2>2. CASE workflow[b].revision = 1 /\ SetRow(b, "ANALYZING", "none") /\ Proceed(b, "analyze")
    <3>1. workflow[b].state = "COLLECTING" /\ workflow[b].content = "none"
      BY <2>2 DEF IntakeInv, Rows
    <3> QED
      BY <2>1, <2>2, <3>1, IntakeSets DEF Analysis
  <2>3. CASE Proceed(b, "ended") /\ UNCHANGED workflow
    BY <2>1, <2>3, IntakeProceeds DEF Analysis
  <2> QED
    BY <1>2, <2>2, <2>3 DEF BeginAnalysis
<1>3. CASE Analyze(b)
  BY <1>3, IntakeProceeds DEF Analyze, Analysis
<1>4. CASE MarkAnalysisFailed(b)
  <2>1. analysis[b] = "failed" /\ UNCHANGED <<collection, scheduler>> /\ Proceed(b, "ended")
    BY <1>4 DEF MarkAnalysisFailed
  <2>2. CASE RowIs(b, "ANALYZING", 2) /\ SetRow(b, "ANALYSIS_FAILED", "none")
    <3>1. /\ workflow[b].revision = 2
          /\ workflow[b].state = "ANALYZING" /\ workflow[b].content = "none"
      BY <2>2 DEF IntakeInv, Rows, RowIs
    <3> QED
      BY <2>1, <2>2, <3>1, IntakeSets DEF Analysis
  <2>3. CASE UNCHANGED workflow
    BY <2>1, <2>3, IntakeProceeds DEF Analysis
  <2> QED
    BY <1>4, <2>2, <2>3 DEF MarkAnalysisFailed
<1>5. CASE Reread(b)
  BY <1>5, IntakeProceeds DEF Reread, Analysis
<1>6. CASE StoreResult(b)
  <2>1. analysis[b] = "store" /\ UNCHANGED <<collection, scheduler>>
    BY <1>6 DEF StoreResult
  <2>2. CASE StoreAccepted(b) /\ SetRow(b, "REVIEW", "analyser") /\ Proceed(b, "show")
    <3>1. workflow[b].revision = 2 /\ IsTransitionAllowed(workflow[b].state, "REVIEW")
      BY <2>2 DEF StoreAccepted
    <3>2. workflow[b].state = "ANALYZING" /\ workflow[b].content = "none"
      BY <3>1, NotLegal DEF IntakeInv, Rows
    <3> QED
      BY <2>1, <2>2, <3>1, <3>2, IntakeSets DEF Analysis
  <2>3. CASE Proceed(b, "ended") /\ UNCHANGED workflow
    BY <2>1, <2>3, IntakeProceeds DEF Analysis
  <2> QED
    BY <1>6, <2>2, <2>3 DEF StoreResult
<1>7. CASE ShowDraft(b)
  BY <1>7, IntakeProceeds DEF ShowDraft, Analysis
<1> QED
  BY <1>1, <1>2, <1>3, <1>4, <1>5, <1>6, <1>7 DEF Process

\* The user writes a row that is there, so one of a sealed batch.
LEMMA IntakeUser ==
  ASSUME IntakeInv, NEW b \in Batches, UserEdits(b) \/ UserCancels(b)
  PROVE  IntakeInv' /\ \A c \in Batches : KeepsWord(c)
<1>1. UNCHANGED <<collection, scheduler, analysis>>
  BY DEF UserEdits, UserCancels
<1>2. /\ workflow[b].content \in {"none", "analyser", "user"}
      /\ workflow[b].revision \in Nat
  BY IntakeTypes DEF RowsOf
<1>3. PICK s \in {"REVIEW", "CANCELLED"}, c \in {"none", "analyser", "user"} :
        /\ SetRow(b, s, c) /\ IsTransitionAllowed(workflow[b].state, s)
        /\ workflow[b].state # "absent"
        /\ workflow[b].content = "user" => c = "user"
  BY <1>2, NotLegal DEF UserEdits, UserCancels
<1>4. PICK row \in RowsOf :
        /\ workflow' = [workflow EXCEPT ![b] = row]
        /\ row.state = s /\ row.content = c
        /\ row.revision = workflow[b].revision + 1
  BY <1>3, StatesAre, RowIsSet
<1>5. workflow[b] # NoRow /\ workflow[b].state # "CANCELLED"
  BY <1>3, NoRowTyped, NotLegal
<1>6. workflow[b].revision # 0 /\ analysis[b] \notin {"none", "save"}
  BY <1>5 DEF IntakeInv, Rows
<1>7. row.revision # 0 /\ row.revision # 1
  BY <1>2, <1>4, <1>6
<1>8. PICK stage \in Analysis : stage = analysis[b]
  BY IntakeTypes
<1>9. analysis' = [analysis EXCEPT ![b] = stage]
  BY <1>1, <1>8, IntakeTypes
<1> QED
  BY <1>1, <1>3, <1>4, <1>5, <1>6, <1>7, <1>8, <1>9, IntakeWrites

-----------------------------------------------------------------------------
(* The theorems.                                                           *)

LEMMA IntakeStep ==
  ASSUME IntakeInv, [IntakeNext]_intakeVars
  PROVE  IntakeInv' /\ \A b \in Batches : KeepsWord(b)
<1>1. CASE UNCHANGED intakeVars
  <2>1. /\ UNCHANGED <<pending, begun, batch, memory, forgotten, timers, soon, tasks>>
        /\ UNCHANGED <<analysis, workflow>>
    BY <1>1 DEF intakeVars, collection, scheduler
  <2>2. IntakeTypeOK' /\ AllRemembered' /\ NoMessageTwice'
    BY <2>1 DEF IntakeInv, IntakeTypeOK, AllRemembered, NoMessageTwice
  <2>3. Begun' /\ PendingHasDeadline' /\ Rows'
    BY <2>1 DEF IntakeInv, Begun, AllDeadlines, PendingHasDeadline, DeadlineOf, Rows
  <2> QED
    BY <2>1, <2>2, <2>3 DEF IntakeInv, KeepsWord
<1>2. ASSUME NEW s \in Scopes, NEW m \in Messages, Collect(s, m)
      PROVE  IntakeInv' /\ workflow' = workflow
  BY <1>2, IntakeCollects DEF Collect
<1>3. workflow' = workflow => \A b \in Batches : KeepsWord(b)
  BY DEF KeepsWord
<1> QED
  BY <1>1, <1>2, <1>3, IntakeLeaves, IntakeFires, IntakeElapses, IntakeStops,
     IntakeProcesses, IntakeUser
     DEF IntakeNext

\* The state of intake is always well typed, and the invariant holds: every
\* collected key is remembered or was forgotten, every pending batch is one
\* scope's own with one deadline to come (schedule, cancel and fire of
\* AsyncTaskScheduler), and a row's first two revisions tell whose they are.
THEOREM IntakeInvariance == IntakeSpec => []IntakeInv
<1> QED
  BY IntakeInitInv, IntakeStep, PTL DEF IntakeSpec

\* However a batch's deadline, a flush, a restart of the process and the
\* redelivery of a message interleave, collect() takes no message in twice that
\* the memory of recent keys still holds.
THEOREM NoMessageTwiceHolds == IntakeSpec => []NoMessageTwice
<1>1. IntakeInv => NoMessageTwice
  BY DEF IntakeInv
<1> QED
  BY <1>1, IntakeInvariance, PTL

\* The batch a scope collects has exactly one deadline to come, that of its
\* generation, whether it is a timer, a callback of the loop or a task: it is
\* never left behind, and never sealed by an earlier deadline.
THEOREM PendingHasDeadlineHolds == IntakeSpec => []PendingHasDeadline
<1>1. IntakeInv => PendingHasDeadline
  BY DEF IntakeInv
<1> QED
  BY <1>1, IntakeInvariance, PTL

\* An analysis that ends after the user edited or cancelled the draft does not
\* write over it: what it compares, the revision and the state, tells its own
\* row from the user's.
THEOREM UserHasTheLastWordHolds == IntakeSpec => UserHasTheLastWord
<1>1. ASSUME IntakeInv, [IntakeNext]_intakeVars
      PROVE  [\A b \in Batches :
                /\ workflow[b].content = "user" => workflow'[b].content = "user"
                /\ workflow[b].state = "CANCELLED" => workflow'[b] = workflow[b]]_intakeVars
  BY <1>1, IntakeStep DEF KeepsWord
<1> QED
  BY <1>1, IntakeInvariance, PTL DEF IntakeSpec, UserHasTheLastWord

=============================================================================
