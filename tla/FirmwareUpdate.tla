--------------------------- MODULE FirmwareUpdate ---------------------------
(***************************************************************************)
(* What a firmware update promises to whoever asked for it, without        *)
(* goroutines, mutexes or events: an update is planned, started, confirmed *)
(* and ends once, with one outcome.  Nobody is told of an outcome the      *)
(* update did not have, and it is cancelled only if someone asked for it.  *)
(* FirmwareSession implements this specification.                          *)
(***************************************************************************)
CONSTANT Cancellers     \* the callers of CancelFirmware

VARIABLES
    phase,      \* how far the update has come
    outcome,    \* its outcome, "none" until it is done
    call        \* what each caller of CancelFirmware has been told

vars == <<phase, outcome, call>>

Outcomes == {"Completed", "CompletedUnverified", "Cancelled", "Failed"}

TypeOK ==
    /\ phase \in {"planned", "awaiting", "running", "done"}
    /\ outcome \in Outcomes \cup {"none"}
    /\ call \in [Cancellers -> Outcomes \cup {"none", "waiting", "left"}]

Init ==
    /\ phase = "planned"
    /\ outcome = "none"
    /\ call = [c \in Cancellers |-> "none"]

Start ==
    /\ phase = "planned"
    /\ phase' = "awaiting"
    /\ UNCHANGED <<outcome, call>>

Confirm ==
    /\ phase = "awaiting"
    /\ phase' = "running"
    /\ UNCHANGED <<outcome, call>>

Ask(c) ==
    /\ call[c] = "none"
    /\ call' = [call EXCEPT ![c] = "waiting"]
    /\ UNCHANGED <<phase, outcome>>

\* A caller whose update never got as far as the transfer ends it.
Abandon(c) ==
    /\ phase \in {"planned", "awaiting"}
    /\ call[c] = "waiting"
    /\ phase' = "done"
    /\ outcome' = "Cancelled"
    /\ call' = [call EXCEPT ![c] = "Cancelled"]

\* The transfer ends; it may end cancelled only if somebody asked for that.
Finish(o) ==
    /\ phase = "running"
    /\ o = "Cancelled" => \E c \in Cancellers : call[c] # "none"
    /\ phase' = "done"
    /\ outcome' = o
    /\ UNCHANGED call

Answer(c) ==
    /\ phase = "done"
    /\ call[c] \in {"none", "waiting"}
    /\ call' = [call EXCEPT ![c] = outcome]
    /\ UNCHANGED <<phase, outcome>>

\* A caller stops waiting: its own context ended.
Leave(c) ==
    /\ call[c] = "waiting"
    /\ call' = [call EXCEPT ![c] = "left"]
    /\ UNCHANGED <<phase, outcome>>

Next ==
    \/ Start
    \/ Confirm
    \/ \E o \in Outcomes : Finish(o)
    \/ \E c \in Cancellers : Ask(c) \/ Abandon(c) \/ Answer(c) \/ Leave(c)

Fairness ==
    /\ WF_vars(\E o \in Outcomes : Finish(o))
    /\ \A c \in Cancellers : WF_vars(call[c] = "waiting" /\ Answer(c))

Spec == Init /\ [][Next]_vars /\ Fairness
=============================================================================
