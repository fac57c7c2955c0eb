--------------------------- MODULE FlowAdmission ---------------------------
(***************************************************************************)
(* The admission gate of a flow (turbo_flow/src/flow_runtime.c): who may   *)
(* start a publication, and how many publications are under way.  All of   *)
(* it is guarded by runtime_mutex, so each operator below is one step.     *)
(*                                                                         *)
(* The lifecycle commands (FlowLifecycle), the reactive runs (FlowRuns)    *)
(* and the asynchronous ingress (AsyncIngress) share this gate.            *)
(***************************************************************************)
EXTENDS Integers

VARIABLES
    state,       \* lifecycle state of the flow
    admission,   \* state of the publish gate
    active       \* active_publishes: publications, runs and claims under way

gateVars == <<state, admission, active>>

FlowStates == {"NEW", "COMPILED", "STARTED", "STOPPED", "FAILED"}

Admissions == {"CLOSED", "OPEN", "PAUSED", "RESIZING", "STOPPING"}

(* flow_publish_enter: only a started, open flow admits. *)
PublishEnterStatus ==
    IF state # "STARTED" THEN "EINVAL" ELSE IF admission = "OPEN" THEN "OK" ELSE "ESHUTDOWN"

PublishEnter ==
    /\ PublishEnterStatus = "OK"
    /\ active' = active + 1
    /\ UNCHANGED <<state, admission>>

(* flow_publish_leave *)
PublishLeave ==
    /\ active' = IF active > 0 THEN active - 1 ELSE 0
    /\ UNCHANGED <<state, admission>>

(* What pause, resume and drain answer before they look at the gate itself. *)
CommandStatus ==
    IF state # "STARTED" THEN "EINVAL"
    ELSE CASE admission = "RESIZING" -> "EBUSY"
           [] admission = "STOPPING" -> "ESHUTDOWN"
           [] OTHER -> "OK"

(* turbo_flow_pause, and the first step of turbo_flow_drain *)
CloseGate ==
    /\ CommandStatus = "OK"
    /\ admission' = "PAUSED"
    /\ UNCHANGED <<state, active>>

(* turbo_flow_resume *)
OpenGate ==
    /\ CommandStatus = "OK"
    /\ admission' = "OPEN"
    /\ UNCHANGED <<state, active>>

(* The wait of turbo_flow_drain: what ends it, and with which status.  Only a
   caller with a deadline may see ETIMEDOUT. *)
DrainAnswers(timed) ==
    IF active = 0 THEN {"OK"}
    ELSE IF admission = "STOPPING" THEN {"ESHUTDOWN"}
    ELSE IF timed THEN {"ETIMEDOUT"} ELSE {}
=============================================================================
