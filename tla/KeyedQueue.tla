----------------------------- MODULE KeyedQueue -----------------------------
(***************************************************************************)
(* What the keyed processor promises its callers: every key has a lane.  A *)
(* call joins the end of its lane, starts when every call that was in the  *)
(* lane before it has left, and leaves when it ends or gives up, wherever  *)
(* it is.  At most MaxConcurrency calls run, at most MaxQueue more are     *)
(* let in, and the door closes for good once those inside have left.       *)
(***************************************************************************)
EXTENDS Naturals, FiniteSets

CONSTANTS Callers, Keys, MaxConcurrency, MaxQueue, None

VARIABLES
  stage,   \* of each call: "new", "waiting", "running" or "left"
  lane,    \* the key of each call
  ahead,   \* the calls each call waits for
  door     \* "open", "draining" or "returned"

queueVars == <<stage, lane, ahead, door>>

QueueInit ==
  /\ stage = [c \in Callers |-> "new"]
  /\ lane = [c \in Callers |-> None]
  /\ ahead = [c \in Callers |-> {}]
  /\ door = "open"

Inside == {c \in Callers : stage[c] \in {"waiting", "running"}}
IsFull == Cardinality(Inside) >= MaxConcurrency + MaxQueue

Join(c, k) ==
  /\ stage[c] = "new"
  /\ door = "open" /\ ~IsFull
  /\ stage' = [stage EXCEPT ![c] = "waiting"]
  /\ lane' = [lane EXCEPT ![c] = k]
  /\ ahead' = [ahead EXCEPT ![c] = {d \in Inside : lane[d] = k}]
  /\ UNCHANGED door

TurnAway(c) ==
  /\ stage[c] = "new"
  /\ door # "open" \/ IsFull
  /\ stage' = [stage EXCEPT ![c] = "left"]
  /\ UNCHANGED <<lane, ahead, door>>

Start(c) ==
  /\ stage[c] = "waiting"
  /\ ahead[c] = {}
  /\ Cardinality({d \in Callers : stage[d] = "running"}) < MaxConcurrency
  /\ stage' = [stage EXCEPT ![c] = "running"]
  /\ UNCHANGED <<lane, ahead, door>>

Leave(c) ==
  /\ c \in Inside
  /\ stage' = [stage EXCEPT ![c] = "left"]
  /\ ahead' = [d \in Callers |-> IF d = c THEN {} ELSE ahead[d] \ {c}]
  /\ UNCHANGED <<lane, door>>

StopAdmitting ==
  /\ door = "open"
  /\ door' = "draining"
  /\ UNCHANGED <<stage, lane, ahead>>

ReportEmpty ==
  /\ door = "draining"
  /\ Inside = {}
  /\ door' = "returned"
  /\ UNCHANGED <<stage, lane, ahead>>

QueueNext ==
  \/ \E c \in Callers, k \in Keys : Join(c, k)
  \/ \E c \in Callers : TurnAway(c) \/ Start(c) \/ Leave(c)
  \/ StopAdmitting \/ ReportEmpty

QueueSpec == QueueInit /\ [][QueueNext]_queueVars

=============================================================================
