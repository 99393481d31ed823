--------------------------- MODULE KeyedProcessor ---------------------------
(***************************************************************************)
(* Keyed serialization (infrastructure/keyed_processor.py): calls with the *)
(* same key run one after the other, in the order of their admission, and  *)
(* at most MaxConcurrency calls run at once.                               *)
(*                                                                         *)
(* A caller makes one call; its completion future is named after it.  The  *)
(* order of a key is a chain of futures: each call waits for the future    *)
(* that was the tail of its key's entry and puts its own there.  An entry  *)
(* is named after the caller that created it.  An action is the code       *)
(* between two awaits: the state lock is never held over one, so taking it *)
(* does not suspend.  A caller may be cancelled, by its deadline or from   *)
(* outside, wherever it waits.                                             *)
(***************************************************************************)
EXTENDS Naturals, FiniteSets

CONSTANTS Callers, Keys,
          MaxConcurrency, MaxQueue,
          None            \* no key, no entry, a future that is done at once

ASSUME ProcessorAssumption ==
  /\ IsFiniteSet(Callers)
  /\ MaxConcurrency \in Nat \ {0} /\ MaxQueue \in Nat
  /\ None \notin Callers /\ None \notin Keys

VARIABLES
  \* per caller: where it is, its key, the future it waits for, its entry
  step, key, predecessor, entry,
  done,       \* the completed futures
  deferred,   \* futures to complete when their predecessor does
  \* the registry: the entry of each key; the tail and references of entries
  entries, tail, references,
  admitted, active,
  free, waiting, granted,   \* the execution slots: a semaphore
  closed, drained,
  closer      \* the call of close()

caller == <<step, key, predecessor, entry>>
futures == <<done, deferred>>
registry == <<entries, tail, references, admitted>>
slots == <<free, waiting, granted>>
closing == <<closed, closer>>
vars == <<caller, futures, registry, active, slots, drained, closing>>

Capacity == MaxConcurrency + MaxQueue
Futures == Callers \cup {None}

TypeOK ==
  /\ step \in [Callers -> {"new", "turn", "slot", "running", "left"}]
  /\ key \in [Callers -> Keys \cup {None}]
  /\ predecessor \in [Callers -> Futures]
  /\ entry \in [Callers -> Futures]
  /\ done \subseteq Callers /\ deferred \subseteq Callers
  /\ entries \in [Keys -> Futures]
  /\ tail \in [Callers -> Futures]
  /\ references \in [Callers -> Nat]
  /\ admitted \in 0 .. Capacity /\ active \in 0 .. MaxConcurrency
  /\ free \in 0 .. MaxConcurrency
  /\ waiting \subseteq Callers /\ granted \subseteq Callers
  /\ closed \in BOOLEAN /\ drained \in BOOLEAN
  /\ closer \in {"open", "draining", "returned"}

Init ==
  /\ step = [c \in Callers |-> "new"]
  /\ key = [c \in Callers |-> None]
  /\ predecessor = [c \in Callers |-> None]
  /\ entry = [c \in Callers |-> None]
  /\ done = {} /\ deferred = {}
  /\ entries = [k \in Keys |-> None]
  /\ tail = [c \in Callers |-> None]
  /\ references = [c \in Callers |-> 0]
  /\ admitted = 0 /\ active = 0
  /\ free = MaxConcurrency /\ waiting = {} /\ granted = {}
  /\ closed = FALSE /\ drained = TRUE /\ closer = "open"

Admitted(c) == step[c] \in {"turn", "slot", "running"}
IsDone(f) == f = None \/ f \in done

-----------------------------------------------------------------------------
(* Admission.                                                              *)

\* Mutant of HasRoom.
RoomForOneMore == admitted <= Capacity
HasRoom == admitted < Capacity

Refuse(c) ==
  /\ step[c] = "new"
  /\ closed \/ ~HasRoom
  /\ step' = [step EXCEPT ![c] = "left"]
  /\ UNCHANGED <<key, predecessor, entry, futures, registry, active, slots,
                 drained, closing>>

\* The entry of k for the call of c, with the tail of its chain.
EntryFor(c, k) == IF entries[k] = None THEN c ELSE entries[k]
TailFor(k) == IF entries[k] = None THEN None ELSE tail[entries[k]]

Admit(c, k) ==
  LET e == EntryFor(c, k)
  IN  /\ step[c] = "new"
      /\ ~closed /\ HasRoom
      /\ step' = [step EXCEPT ![c] = "turn"]
      /\ key' = [key EXCEPT ![c] = k]
      /\ entry' = [entry EXCEPT ![c] = e]
      /\ predecessor' = [predecessor EXCEPT ![c] = TailFor(k)]
      /\ entries' = [entries EXCEPT ![k] = e]
      /\ tail' = [tail EXCEPT ![e] = c]
      /\ references' = [references EXCEPT ![e] = @ + 1]
      /\ admitted' = admitted + 1
      /\ drained' = FALSE
      /\ UNCHANGED <<futures, active, slots, closing>>

-----------------------------------------------------------------------------
(* The semaphore of the execution slots (asyncio): free slots, waiters, and *)
(* waiters that were given a slot and have not resumed yet.  Which waiter  *)
(* is next is left open.                                                   *)

Locked == free = 0 \/ waiting # {} \/ granted # {}

\* n slots are free and waiters in w; holders have been given one.
Offer(n, w, holders) ==
  \E g \in SUBSET w :
    /\ Cardinality(g) = IF n < Cardinality(w) THEN n ELSE Cardinality(w)
    /\ free' = n - Cardinality(g)
    /\ waiting' = w \ g
    /\ granted' = holders \cup g

\* release() wakes one waiter.
Release ==
  \/ waiting = {} /\ free' = free + 1 /\ UNCHANGED <<waiting, granted>>
  \/ \E c \in waiting : /\ granted' = granted \cup {c}
                        /\ waiting' = waiting \ {c}
                        /\ UNCHANGED free

-----------------------------------------------------------------------------
(* A call waits for its predecessor, then for a slot, and runs.            *)

Run(c) ==
  /\ step' = [step EXCEPT ![c] = "running"]
  /\ active' = active + 1

TakeTurn(c) ==
  /\ step[c] = "turn"
  /\ IsDone(predecessor[c])
  /\ \/ /\ ~Locked
        /\ free' = free - 1
        /\ Run(c)
        /\ UNCHANGED <<waiting, granted>>
     \/ /\ Locked
        /\ waiting' = waiting \cup {c}
        /\ step' = [step EXCEPT ![c] = "slot"]
        /\ UNCHANGED <<active, free, granted>>
  /\ UNCHANGED <<key, predecessor, entry, futures, registry, drained, closing>>

TakeSlot(c) ==
  /\ step[c] = "slot"
  /\ c \in granted
  /\ Offer(free, waiting, granted \ {c})
  /\ Run(c)
  /\ UNCHANGED <<key, predecessor, entry, futures, registry, drained, closing>>

-----------------------------------------------------------------------------
(* The end of a call: the finally block, without an await that suspends.   *)

Complete(c) == done' = done \cup {c} /\ UNCHANGED deferred

\* Mutant of Defer: a caller that gives up leaves its future pending.
Forget(c) == UNCHANGED futures
Defer(c) == deferred' = deferred \cup {c} /\ UNCHANGED done

\* Mutant of CompleteTurn: a caller that gives up opens its lane.
CompleteAtOnce(c) == Complete(c)

CompleteTurn(c) ==
  \/ (step[c] # "turn" \/ IsDone(predecessor[c])) /\ Complete(c)
  \/ step[c] = "turn" /\ ~IsDone(predecessor[c]) /\ Defer(c)

\* Mutants: the entry goes with the first call that ends; the event is set
\* when nothing runs, though calls wait.
AnyReference(e) == TRUE
LastReference(e) == references[e] = 1
LastRunning == active <= 1
LastAdmitted == admitted = 1

Finish(c) ==
  LET e == entry[c]
  IN  /\ step' = [step EXCEPT ![c] = "left"]
      /\ references' = [references EXCEPT ![e] = @ - 1]
      /\ entries' = IF LastReference(e) /\ entries[key[c]] = e
                      THEN [entries EXCEPT ![key[c]] = None]
                      ELSE entries
      /\ admitted' = admitted - 1
      /\ drained' = (drained \/ LastAdmitted)

\* The operation returns, raises, or is cancelled.
End(c) ==
  /\ step[c] = "running"
  /\ active' = active - 1
  /\ Release
  /\ CompleteTurn(c)
  /\ Finish(c)
  /\ UNCHANGED <<key, predecessor, entry, tail, closing>>

CancelTurn(c) ==
  /\ step[c] = "turn"
  /\ CompleteTurn(c)
  /\ Finish(c)
  /\ UNCHANGED <<key, predecessor, entry, tail, active, slots, closing>>

\* Mutant of CancelSlot: a slot that was given is not given back.
CancelKeepsSlot(c) ==
  /\ step[c] = "slot"
  /\ Offer(free, waiting \ {c}, granted \ {c})
  /\ CompleteTurn(c)
  /\ Finish(c)
  /\ UNCHANGED <<key, predecessor, entry, tail, active, closing>>

CancelSlot(c) ==
  /\ step[c] = "slot"
  /\ Offer(IF c \in granted THEN free + 1 ELSE free,
           waiting \ {c}, granted \ {c})
  /\ CompleteTurn(c)
  /\ Finish(c)
  /\ UNCHANGED <<key, predecessor, entry, tail, active, closing>>

\* The callback of the predecessor's future.
CompleteDeferred(c) ==
  /\ c \in deferred
  /\ IsDone(predecessor[c])
  /\ done' = done \cup {c}
  /\ deferred' = deferred \ {c}
  /\ UNCHANGED <<caller, registry, active, slots, drained, closing>>

-----------------------------------------------------------------------------
(* close: no new calls; return when the admitted ones have ended.          *)

Close ==
  /\ closer = "open"
  /\ closed' = TRUE
  /\ drained' = (drained \/ admitted = 0)
  /\ closer' = "draining"
  /\ UNCHANGED <<caller, futures, registry, active, slots>>

CloseReturns ==
  /\ closer = "draining"
  /\ drained
  /\ closer' = "returned"
  /\ UNCHANGED <<caller, futures, registry, active, slots, closed, drained>>

-----------------------------------------------------------------------------

Go(c) == TakeTurn(c) \/ TakeSlot(c) \/ End(c) \/ CompleteDeferred(c)

Next ==
  \/ \E c \in Callers : Refuse(c) \/ Go(c) \/ CancelTurn(c) \/ CancelSlot(c)
  \/ \E c \in Callers, k \in Keys : Admit(c, k)
  \/ Close \/ CloseReturns

Spec == Init /\ [][Next]_vars

\* The event loop resumes what is ready, and operations end: each waits only
\* for exchanges that have a timeout.
FairSpec == Spec /\ WF_vars(CloseReturns) /\ \A c \in Callers : WF_vars(Go(c))

-----------------------------------------------------------------------------
(* Properties.                                                             *)

\* Two calls with the same key never run together: not when waiters between
\* them gave up, and not when the key's entry was dropped and made anew.
OneAtATimePerKey ==
  \A c, d \in Callers :
    step[c] = "running" /\ step[d] = "running" /\ key[c] = key[d] => c = d

\* The calls admitted before c in its chain: those in every set of futures that
\* has c's predecessor and, of each of its calls, the predecessor.
Backward(S) == \A f \in S \ {None} : predecessor[f] \in S
Ahead(c) == {d \in Callers : \A S \in SUBSET Futures :
                predecessor[c] \in S /\ Backward(S) => d \in S}

\* What shows of a call: whether it waits, and the admitted calls ahead of it.
StageOf(c) == IF step[c] \in {"turn", "slot"} THEN "waiting" ELSE step[c]
AheadOf(c) == IF Admitted(c) THEN {d \in Ahead(c) : Admitted(d)} ELSE {}

Queue == INSTANCE KeyedQueue WITH stage <- [c \in Callers |-> StageOf(c)],
                                  lane <- key,
                                  ahead <- [c \in Callers |-> AheadOf(c)],
                                  door <- closer

\* Each key has a lane of its own, kept in the order of admission: the
\* processor implements KeyedQueue, where a call starts when every call that
\* was in its lane before it has left.  Futures that were completed or left to
\* a callback, entries dropped and made anew, and slots do not show in it.
ImplementsKeyedQueue == Queue!QueueSpec

\* A slot is free, given or in use: cancelling a waiter that was just given
\* one neither loses nor doubles it.  And none lies free while calls wait for
\* one that nobody is about to wake.
SlotsAreConserved ==
  /\ free + Cardinality(granted)
       + Cardinality({c \in Callers : step[c] = "running"}) = MaxConcurrency
  /\ free > 0 /\ waiting # {} => granted # {}

\* close() returns only when no call is under way, and none begins after.
ClosedMeansDrained ==
  closer = "returned" => \A c \in Callers : ~Admitted(c)

\* Every admitted call gets its turn or gives up: no waiter is forgotten.
EveryTurnComes == \A c \in Callers : Admitted(c) ~> step[c] = "left"

\* close() returns.
CloseDrains == closer = "draining" ~> closer = "returned"

=============================================================================
