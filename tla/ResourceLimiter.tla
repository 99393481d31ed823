-------------------------- MODULE ResourceLimiter --------------------------
(***************************************************************************)
(* Bounded access to a provider (services/limits.py): a call takes a permit*)
(* of its actor's gate, then one of the resource, runs its operation,      *)
(* gives both back, and may retry after a pause.  Enough failures in a row *)
(* close the resource to new calls for a while.                            *)
(*                                                                         *)
(* One resource kind: kinds share only the drained event.  A gate is made  *)
(* for the first call of an actor and dropped with the last; it is named   *)
(* after the call that made it.  An action is the code between two awaits  *)
(* (the state lock is never held over one).                                *)
(***************************************************************************)
EXTENDS Naturals, FiniteSets, Semaphores

CONSTANTS Calls, Actors,
          GlobalLimit, PerActorLimit, QueueLimit,
          RetryBudget, FailureThreshold,
          NoGate

ASSUME LimiterAssumption ==
  /\ IsFiniteSet(Calls)
  /\ PerActorLimit \in Nat \ {0} /\ GlobalLimit \in Nat \ {0}
  /\ PerActorLimit <= GlobalLimit
  /\ QueueLimit \in Nat /\ RetryBudget \in Nat /\ FailureThreshold \in Nat \ {0}
  /\ NoGate \notin Calls

VARIABLES
  stage,      \* of each call
  actor,      \* on whose behalf
  gate,       \* the gate object it holds a reference to
  attempts,   \* dispatches
  gates,      \* the registry: the gate of each actor
  gateRefs, gateSem,   \* of each gate
  pool,       \* the global semaphore
  admitted, active,
  failures,   \* consecutive
  cooldown,   \* "none", or whether its end is in the future or past
  limiter,    \* "open", "closing", "closed"
  idle        \* the drained event

calls == <<stage, actor, gate, attempts>>
gating == <<gates, gateRefs, gateSem>>
breaker == <<failures, cooldown>>
limiterVars ==
  <<calls, gating, pool, admitted, active, breaker, limiter, idle>>

Gates == Calls \cup {NoGate}
SemaphoresOf(n) ==
  [free : 0 .. n, waiting : Seq(Calls), granted : SUBSET Calls]

LimiterTypeOK ==
  /\ stage \in [Calls -> {"new", "gate", "slot", "running", "pause", "left"}]
  /\ actor \in [Calls -> Actors]
  /\ gate \in [Calls -> Gates]
  /\ attempts \in [Calls -> 0 .. RetryBudget + 1]
  /\ gates \in [Actors -> Gates]
  /\ gateRefs \in [Calls -> Nat]
  /\ gateSem \in [Calls -> SemaphoresOf(PerActorLimit)]
  /\ pool \in SemaphoresOf(GlobalLimit)
  /\ admitted \in 0 .. GlobalLimit + QueueLimit
  /\ active \in 0 .. GlobalLimit
  /\ failures \in Nat
  /\ cooldown \in {"none", "future", "past"}
  /\ limiter \in {"open", "closing", "closed"}
  /\ idle \in BOOLEAN

LimiterInit ==
  /\ stage = [c \in Calls |-> "new"]
  /\ actor \in [Calls -> Actors]
  /\ gate = [c \in Calls |-> NoGate]
  /\ attempts = [c \in Calls |-> 0]
  /\ gates = [a \in Actors |-> NoGate]
  /\ gateRefs = [c \in Calls |-> 0]
  /\ gateSem = [c \in Calls |-> Semaphore(PerActorLimit)]
  /\ pool = Semaphore(GlobalLimit)
  /\ admitted = 0 /\ active = 0
  /\ failures = 0 /\ cooldown = "none"
  /\ limiter = "open" /\ idle = TRUE

-----------------------------------------------------------------------------
(* Waiting for the two permits.                                            *)

\* With the actor's permit in hand: run, or wait for a global one.
TakeGlobal(c) ==
  \/ /\ ~Locked(pool)
     /\ pool' = Acquired(pool)
     /\ active' = active + 1
     /\ stage' = [stage EXCEPT ![c] = "running"]
  \/ /\ Locked(pool)
     /\ pool' = Queued(pool, c)
     /\ stage' = [stage EXCEPT ![c] = "slot"]
     /\ UNCHANGED active

\* The gate of c's actor, made if there is none, and what its semaphore is.
GateFor(c) == IF gates[actor[c]] = NoGate THEN c ELSE gates[actor[c]]
SemFor(c) ==
  IF gates[actor[c]] = NoGate THEN Semaphore(PerActorLimit)
                              ELSE gateSem[gates[actor[c]]]

\* One attempt begins.
Dispatch(c) ==
  LET g == GateFor(c)
      s == SemFor(c)
  IN  /\ gates' = [gates EXCEPT ![actor[c]] = g]
      /\ gateRefs' = [gateRefs EXCEPT ![g] = @ + 1]
      /\ gate' = [gate EXCEPT ![c] = g]
      /\ attempts' = [attempts EXCEPT ![c] = @ + 1]
      /\ \/ /\ ~Locked(s)
            /\ gateSem' = [gateSem EXCEPT ![g] = Acquired(s)]
            /\ TakeGlobal(c)
         \/ /\ Locked(s)
            /\ gateSem' = [gateSem EXCEPT ![g] = Queued(s, c)]
            /\ stage' = [stage EXCEPT ![c] = "gate"]
            /\ UNCHANGED <<pool, active>>

PassGate(c) ==
  /\ stage[c] = "gate"
  /\ c \in gateSem[gate[c]].granted
  /\ gateSem' = [gateSem EXCEPT ![gate[c]] = Resumed(@, c)]
  /\ TakeGlobal(c)
  /\ UNCHANGED <<actor, gate, attempts, gates, gateRefs, admitted, breaker,
                 limiter, idle>>

TakeSlot(c) ==
  /\ stage[c] = "slot"
  /\ c \in pool.granted
  /\ pool' = Resumed(pool, c)
  /\ active' = active + 1
  /\ stage' = [stage EXCEPT ![c] = "running"]
  /\ UNCHANGED <<actor, gate, attempts, gating, admitted, breaker, limiter,
                 idle>>

-----------------------------------------------------------------------------
(* Admission.                                                              *)

\* An expired cooldown is reset before it is looked at.
SettledFailures == IF cooldown = "past" THEN 0 ELSE failures

\* Mutant of IsFull: one call too many is admitted.
IsOverfull == admitted > GlobalLimit + QueueLimit
IsFull == admitted >= GlobalLimit + QueueLimit

RefuseCall(c) ==
  /\ stage[c] = "new"
  /\ \/ limiter # "open" /\ UNCHANGED breaker
     \/ limiter = "open" /\ cooldown = "future" /\ UNCHANGED breaker
     \/ /\ limiter = "open" /\ cooldown # "future"
        /\ IsFull
        /\ cooldown' = "none" /\ failures' = SettledFailures
  /\ stage' = [stage EXCEPT ![c] = "left"]
  /\ UNCHANGED <<actor, gate, attempts, gating, pool, admitted, active,
                 limiter, idle>>

AdmitCall(c) ==
  /\ stage[c] = "new"
  /\ limiter = "open" /\ cooldown # "future"
  /\ ~IsFull
  /\ cooldown' = "none" /\ failures' = SettledFailures
  /\ admitted' = admitted + 1
  /\ idle' = FALSE
  /\ Dispatch(c)
  /\ UNCHANGED <<actor, limiter>>

Retry(c) ==
  /\ stage[c] = "pause"
  /\ Dispatch(c)
  /\ UNCHANGED <<actor, admitted, breaker, limiter, idle>>

-----------------------------------------------------------------------------
(* The end of an attempt, and of a call.                                   *)

\* Mutant of LastUser: the gate goes with the first call that leaves it.
AnyUser(g) == TRUE
LastUser(g) == gateRefs[g] = 1

\* c gives up its reference to its gate, whose semaphore becomes s.
LeaveGate(c, s) ==
  LET g == gate[c]
  IN  /\ gateSem' = [gateSem EXCEPT ![g] = s]
      /\ gateRefs' = [gateRefs EXCEPT ![g] = @ - 1]
      /\ gates' = IF LastUser(g) /\ gates[actor[c]] = g
                    THEN [gates EXCEPT ![actor[c]] = NoGate] ELSE gates
      /\ gate' = [gate EXCEPT ![c] = NoGate]

LeaveGlobal(c) ==
  /\ active' = active - 1
  /\ pool' = Released(pool)

\* Mutant of LastCall: the event is set when the last operation ends.
LastOperation == active = 1
LastCall == admitted = 1

EndCall(c) ==
  /\ stage' = [stage EXCEPT ![c] = "left"]
  /\ admitted' = admitted - 1
  /\ idle' = (idle \/ LastCall)

\* The operation returns.
Succeed(c) ==
  /\ stage[c] = "running"
  /\ failures' = 0 /\ cooldown' = "none"
  /\ LeaveGlobal(c)
  /\ LeaveGate(c, Released(gateSem[gate[c]]))
  /\ EndCall(c)
  /\ UNCHANGED <<actor, attempts, limiter>>

\* The operation raises: a retryable failure counts towards a cooldown, and
\* is retried while the budget lasts.
Fail(c) ==
  /\ stage[c] = "running"
  /\ LeaveGlobal(c)
  /\ LeaveGate(c, Released(gateSem[gate[c]]))
  /\ \/ UNCHANGED breaker /\ EndCall(c)
     \/ /\ failures' = failures + 1
        /\ cooldown' = IF failures + 1 >= FailureThreshold THEN "future"
                                                           ELSE cooldown
        /\ \/ attempts[c] > RetryBudget /\ EndCall(c)
           \/ /\ attempts[c] <= RetryBudget
              /\ stage' = [stage EXCEPT ![c] = "pause"]
              /\ UNCHANGED <<admitted, idle>>
  /\ UNCHANGED <<actor, attempts, limiter>>

\* The deadline, or a cancellation, wherever the call waits.
GiveUp(c) ==
  /\ \/ /\ stage[c] = "gate"
        /\ LeaveGate(c, Abandoned(gateSem[gate[c]], c))
        /\ UNCHANGED <<pool, active>>
     \/ /\ stage[c] = "slot"
        /\ pool' = Abandoned(pool, c)
        /\ LeaveGate(c, Released(gateSem[gate[c]]))
        /\ UNCHANGED active
     \/ /\ stage[c] = "running"
        /\ LeaveGlobal(c)
        /\ LeaveGate(c, Released(gateSem[gate[c]]))
     \/ /\ stage[c] = "pause"
        /\ UNCHANGED <<pool, active, gate, gating>>
  /\ EndCall(c)
  /\ UNCHANGED <<actor, attempts, breaker, limiter>>

-----------------------------------------------------------------------------
(* Time, and close.                                                        *)

CooldownExpires ==
  /\ cooldown = "future"
  /\ cooldown' = "past"
  /\ UNCHANGED <<calls, gating, pool, admitted, active, failures, limiter,
                 idle>>

CloseLimiter ==
  /\ limiter = "open"
  /\ limiter' = "closing"
  /\ idle' = (idle \/ admitted = 0)
  /\ UNCHANGED <<calls, gating, pool, admitted, active, breaker>>

LimiterCloses ==
  /\ limiter = "closing"
  /\ idle
  /\ limiter' = "closed"
  /\ UNCHANGED <<calls, gating, pool, admitted, active, breaker, idle>>

-----------------------------------------------------------------------------

LimiterNext ==
  \/ \E c \in Calls :
       \/ RefuseCall(c) \/ AdmitCall(c) \/ PassGate(c) \/ TakeSlot(c)
       \/ Succeed(c) \/ Fail(c) \/ GiveUp(c) \/ Retry(c)
  \/ CooldownExpires \/ CloseLimiter \/ LimiterCloses

LimiterSpec == LimiterInit /\ [][LimiterNext]_limiterVars

-----------------------------------------------------------------------------
(* Properties.                                                             *)

HoldersOf(g) == {c \in Calls : gate[c] = g /\ stage[c] \in {"slot", "running"}}

\* A permit, of the resource or of an actor's gate, is free, granted or held:
\* none is lost or doubled by a retry, a deadline, or a cancellation at the
\* moment it was granted.  And none lies free while a call waits for it that
\* nobody is about to wake.
PermitsAreConserved ==
  /\ pool.free + Cardinality(pool.granted)
       + Cardinality({c \in Calls : stage[c] = "running"}) = GlobalLimit
  /\ HandsOn(pool)
  /\ \A a \in Actors : gates[a] # NoGate =>
       /\ gateSem[gates[a]].free + Cardinality(gateSem[gates[a]].granted)
            + Cardinality(HoldersOf(gates[a])) = PerActorLimit
       /\ HandsOn(gateSem[gates[a]])

\* An actor's calls never hold or wait for more global permits than its own
\* limit, whichever gates were dropped and made anew between its calls: one
\* actor cannot fill the pool's queue.
ActorKeepsToItsShare ==
  \A a \in Actors :
    Cardinality({c \in Calls : actor[c] = a /\ stage[c] \in {"slot", "running"}})
      <= PerActorLimit

\* close() returns only when every admitted call has ended, the ones that wait
\* for a permit or pause before a retry included.
ClosedMeansDrained ==
  limiter = "closed" => \A c \in Calls : stage[c] \in {"new", "left"}

=============================================================================
