---------------------------- MODULE Connectivity ----------------------------
(***************************************************************************)
(* The VPN tunnel: NetworkManagerL2tpManager (vpn.py) asks for its state   *)
(* and brings it up with commands that may fail or be killed; and          *)
(* ConnectivityService (services/connectivity_service.py) puts a short     *)
(* memory of a positive answer before it, for one caller at a time.        *)
(*                                                                         *)
(* A caller of the service waits for its lock; it, and whoever starts the  *)
(* tunnel directly (/vpnstart, the client that validates a PAT), waits for *)
(* the manager's.  A state query sees the tunnel at one instant.           *)
(***************************************************************************)
EXTENDS Naturals

CONSTANTS Callers, NoCaller

ASSUME ConnectivityAssumption == NoCaller \notin Callers

VARIABLES
  enabled, allowStart,    \* settings
  tunnel,
  ours,         \* history: a start that succeeded brought the tunnel up
  again,        \* history: such a tunnel was brought up once more, though its
                \* state had been learnt
  positive,     \* _last_positive_utc: none, within its TTL, or past it
  probing, starting,      \* who holds the service's lock, and the manager's
  caller        \* what each caller asks for, and how far it is

settings == <<enabled, allowStart>>
link == <<tunnel, ours, again>>
vpnLocks == <<probing, starting>>
connectivityVars == <<settings, link, positive, vpnLocks, caller>>

NoCall == [asks |-> "none", pc |-> "idle", blind |-> FALSE]

ConnectivityTypeOK ==
  /\ {enabled, allowStart, ours, again} \subseteq BOOLEAN
  /\ tunnel \in {"up", "down"}
  /\ positive \in {"none", "valid", "expired"}
  /\ {probing, starting} \subseteq Callers \cup {NoCaller}
  /\ caller \in [Callers ->
       [asks : {"none", "is_connected", "ensure_connected", "start"},
        pc : {"idle", "queued", "status", "start", "check", "load", "up", "verify"},
        blind : BOOLEAN]]

ConnectivityInit ==
  /\ enabled \in BOOLEAN /\ allowStart \in {FALSE, enabled}
  /\ tunnel \in {"up", "down"} /\ ours = FALSE /\ again = FALSE
  /\ positive = "none"
  /\ probing = NoCaller /\ starting = NoCaller
  /\ caller = [c \in Callers |-> NoCall]

-----------------------------------------------------------------------------

CallerAt(c, pc) == caller[c].pc = pc
CallerTo(c, pc) == caller' = [caller EXCEPT ![c].pc = pc]

\* c is answered, and gives back what it holds.
Answer(c) ==
  /\ caller' = [caller EXCEPT ![c] = NoCall]
  /\ probing' = IF probing = c THEN NoCaller ELSE probing
  /\ starting' = IF starting = c THEN NoCaller ELSE starting

\* The service remembers that the VPN was up, or forgets it.
Remembered(c, up) ==
  positive' = IF caller[c].asks = "start" THEN positive
              ELSE IF up THEN "valid" ELSE "none"

AskConnectivity(c, op) ==
  /\ CallerAt(c, "idle")
  /\ positive # "valid"                \* else it is answered at once
  /\ caller' = [caller EXCEPT ![c] = [NoCall EXCEPT !.asks = op, !.pc = "queued"]]
  /\ UNCHANGED <<settings, link, positive, vpnLocks>>

AskStart(c) ==
  /\ CallerAt(c, "idle")
  /\ caller' = [caller EXCEPT ![c] = [NoCall EXCEPT !.asks = "start", !.pc = "start"]]
  /\ UNCHANGED <<settings, link, positive, vpnLocks>>

\* With the lock, the memory is looked at again.
Probe(c) ==
  /\ CallerAt(c, "queued")
  /\ probing = NoCaller
  /\ \/ positive = "valid" /\ Answer(c)
     \/ /\ positive # "valid"
        /\ probing' = c
        /\ CallerTo(c, "status")
        /\ UNCHANGED starting
  /\ UNCHANGED <<settings, link, positive>>

\* What the state query may report: it may fail, or time out.  A VPN that is
\* disabled counts as up.
Reported == IF enabled THEN {tunnel, "error"} ELSE {"up"}

ProbeStatus(c) ==
  /\ CallerAt(c, "status")
  /\ \E report \in Reported :
       \/ /\ report = "up" \/ caller[c].asks = "is_connected"
          /\ Remembered(c, report = "up")
          /\ Answer(c)
       \/ /\ report # "up" /\ caller[c].asks = "ensure_connected"
          /\ CallerTo(c, "start")
          /\ UNCHANGED <<positive, vpnLocks>>
  /\ UNCHANGED <<settings, link>>

-----------------------------------------------------------------------------
(* NetworkManagerL2tpManager.start                                         *)

LockStart(c) ==
  /\ CallerAt(c, "start")
  /\ starting = NoCaller
  /\ starting' = c
  /\ CallerTo(c, "check")
  /\ UNCHANGED <<settings, link, positive, probing>>

\* Mutant of Seen: the state is not asked for again with the lock.
SeenDown == {"down"}
Seen == Reported

CheckBeforeStart(c) ==
  /\ CallerAt(c, "check")
  /\ \E report \in Seen :
       \/ report = "up" /\ Remembered(c, TRUE) /\ Answer(c)
       \/ report # "up" /\ ~allowStart /\ Remembered(c, FALSE) /\ Answer(c)
       \/ /\ report # "up" /\ allowStart
          /\ caller' = [caller EXCEPT ![c].pc = "load",
                                      ![c].blind = (report = "error")]
          /\ UNCHANGED <<positive, vpnLocks>>
  /\ UNCHANGED <<settings, link>>

\* The profile is loaded; if it cannot be, the start has failed.
LoadProfile(c) ==
  /\ CallerAt(c, "load")
  /\ \/ CallerTo(c, "up") /\ UNCHANGED <<positive, vpnLocks>>
     \/ Remembered(c, FALSE) /\ Answer(c)
  /\ UNCHANGED <<settings, link>>

\* The command succeeds; or it fails or is killed, whatever it has done.
BringUp(c) ==
  /\ CallerAt(c, "up")
  /\ \/ /\ tunnel' = "up"
        /\ ours' = TRUE
        /\ CallerTo(c, "verify")
        /\ UNCHANGED <<positive, vpnLocks>>
     \/ /\ Remembered(c, FALSE) /\ Answer(c)
        /\ tunnel' \in {tunnel, "up"}
        /\ UNCHANGED ours
  /\ again' = (again \/ (ours /\ ~caller[c].blind))
  /\ UNCHANGED settings

VerifyStart(c) ==
  /\ CallerAt(c, "verify")
  /\ \E report \in Reported : Remembered(c, report = "up") /\ Answer(c)
  /\ UNCHANGED <<settings, link>>

-----------------------------------------------------------------------------
(* The caller's deadline; time; the network.                               *)

CancelCaller(c) ==
  /\ ~CallerAt(c, "idle")
  /\ Answer(c)
  /\ UNCHANGED <<settings, link, positive>>

PositiveExpires ==
  /\ positive = "valid"
  /\ positive' = "expired"
  /\ UNCHANGED <<settings, link, vpnLocks, caller>>

\* Whoever meets a connection error; no lock is taken.
InvalidateCache ==
  /\ positive # "none"
  /\ positive' = "none"
  /\ UNCHANGED <<settings, link, vpnLocks, caller>>

\* The tunnel drops, or someone else brings it up.
TunnelChanges ==
  /\ tunnel' = IF tunnel = "up" THEN "down" ELSE "up"
  /\ ours' = FALSE
  /\ UNCHANGED <<settings, again, positive, vpnLocks, caller>>

-----------------------------------------------------------------------------

ConnectivityNext ==
  \/ \E c \in Callers :
       \/ \E op \in {"is_connected", "ensure_connected"} : AskConnectivity(c, op)
       \/ AskStart(c) \/ Probe(c) \/ ProbeStatus(c)
       \/ LockStart(c) \/ CheckBeforeStart(c) \/ LoadProfile(c) \/ BringUp(c)
       \/ VerifyStart(c) \/ CancelCaller(c)
  \/ PositiveExpires \/ InvalidateCache \/ TunnelChanges

ConnectivitySpec == ConnectivityInit /\ [][ConnectivityNext]_connectivityVars

-----------------------------------------------------------------------------
(* Properties.                                                             *)

\* A tunnel that one start brought up is not brought up by another while it
\* stays up, however many callers had found it down at once: only a start whose
\* own query failed goes ahead without knowing.
OneStartPerOutage == ~again

=============================================================================
