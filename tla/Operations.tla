----------------------------- MODULE Operations -----------------------------
(***************************************************************************)
(* The operation line of the App: which daemon operation is being driven   *)
(* and what became of the last one (app/operations.rs), and the two-stage  *)
(* driver of app/connection.rs that keeps an accepted operation Running    *)
(* until the daemon pushes the event that confirms it.                     *)
(*                                                                         *)
(* The run loop is one task: a handler that awaits an RPC keeps the loop,  *)
(* so no other handler and no push runs while `awaiting' names it.         *)
(*                                                                         *)
(* Taken alone the module leaves the daemon arbitrary: an RPC returns      *)
(* anything, a push of any kind arrives between any two handlers.  The     *)
(* modules Connection, Session and SettingsSync instantiate it and replace *)
(* that environment by the daemon's own state and its event feed.          *)
(***************************************************************************)

CONSTANT Ops    \* the operations the user can start in this instance

VARIABLES
    operation_status,           \* App.operation_status
    pending_push_confirmation,  \* App.pending_push_confirmation: its operation
    awaiting                    \* the operation whose handler holds the loop

opVars == <<operation_status, pending_push_confirmation, awaiting>>

NoOp == "NoOp"

-----------------------------------------------------------------------------
(* The operations, grouped by the driver their App method calls.           *)

\* start_push_op with PendingPushMatch::Tunnel
TunnelOps == {"Connect", "Disconnect", "Reconnect"}

\* start_push_op_unit with PendingPushMatch::Device
DeviceOps == {"Login", "Logout"}

\* start_settings_push_op
SettingsOps ==
    {"ToggleLan", "ToggleAutoConnect", "ToggleLockdown", "ToggleQuantumResistant",
     "ToggleIpv6", "SetMtu", "ToggleDaita", "ToggleDaitaDirectOnly",
     "ToggleDnsBlocker", "ToggleCustomDns", "AddCustomDns", "RemoveCustomDns",
     "ReplaceCustomDns", "ToggleAccessMethod", "AddSplitTunnelApp",
     "RemoveSplitTunnelApp", "SetAntiCensorshipPort", "SetAntiCensorshipMode",
     "SelectRelay", "SelectRelayCountry", "SelectRelayCity", "SelectEntryRelay",
     "SelectEntryRelayCountry", "SelectEntryRelayCity", "ToggleMultihop",
     "SetIpVersionPreference", "SetRelayOverride", "ClearRelayOverrides"}

\* run_operation
PullOps ==
    {"Resync", "RefreshAccount", "ListDevices", "RemoveDevice", "SubmitVoucher",
     "RotateWireGuardKey", "RefreshCurrentAccessMethod", "SetActiveAccessMethod",
     "ToggleSplitTunnel", "RefreshSplitTunnelProcesses",
     "AddSplitTunnelProcess", "RemoveSplitTunnelProcess"}

PushOps == TunnelOps \union DeviceOps \union SettingsOps

Operation == PushOps \union PullOps

\* Methods that check their argument first and report a bad one by
\* set_operation_failed alone, without set_operation_running.
Validated ==
    {"Login", "SetMtu", "RemoveCustomDns", "ReplaceCustomDns",
     "SetAntiCensorshipPort", "ListDevices", "RemoveDevice", "SubmitVoucher"}

ASSUME OpsAssumption == Ops \subseteq Operation

-----------------------------------------------------------------------------
OperationStatus ==
    [state : {"Idle", "Running", "Success", "Failed"}, op : Operation \union {NoOp}]

Status(state, op) == [state |-> state, op |-> op]

OpTypeOK ==
    /\ operation_status \in OperationStatus
    /\ pending_push_confirmation \in PushOps \union {NoOp}
    /\ awaiting \in Operation \union {NoOp}

OpInit ==
    /\ operation_status = Status("Idle", NoOp)
    /\ pending_push_confirmation = NoOp
    /\ awaiting = NoOp

-----------------------------------------------------------------------------
(* The three setters every driver is made of.                              *)

\* Mutant: an earlier pending confirmation survives.
set_operation_running_keeps(op) ==
    /\ UNCHANGED pending_push_confirmation
    /\ operation_status' = Status("Running", op)

set_operation_running(op) ==
    /\ pending_push_confirmation' = NoOp
    /\ operation_status' = Status("Running", op)

set_operation_success(op) ==
    /\ operation_status' = Status("Success", op)
    /\ UNCHANGED pending_push_confirmation

set_operation_failed(op) ==
    /\ operation_status' = Status("Failed", op)
    /\ UNCHANGED pending_push_confirmation

-----------------------------------------------------------------------------
(* A driver up to its await, and each way the await comes back.            *)

Start(op) ==
    /\ awaiting = NoOp
    /\ op \in Ops
    /\ set_operation_running(op)
    /\ awaiting' = op

Reject(op) ==
    /\ awaiting = NoOp
    /\ op \in Ops \intersect Validated
    /\ set_operation_failed(op)
    /\ UNCHANGED awaiting

\* Mutant: the confirmation to wait for is not recorded.
Accepted_unrecorded(op) ==
    /\ awaiting = op
    /\ op \in PushOps
    /\ awaiting' = NoOp
    /\ UNCHANGED <<operation_status, pending_push_confirmation>>

\* Ok(true) of start_push_op, Ok(()) of start_push_op_unit
Accepted(op) ==
    /\ awaiting = op
    /\ op \in PushOps
    /\ pending_push_confirmation' = op
    /\ awaiting' = NoOp
    /\ UNCHANGED operation_status

\* Ok(false) of start_push_op: the daemon says there is nothing to do
AlreadyThere(op) ==
    /\ awaiting = op
    /\ op \in TunnelOps
    /\ set_operation_success(op)
    /\ awaiting' = NoOp

\* Ok of run_operation
Completed(op) ==
    /\ awaiting = op
    /\ op \in PullOps
    /\ set_operation_success(op)
    /\ awaiting' = NoOp

\* Err of any driver
Failed(op) ==
    /\ awaiting = op
    /\ op # NoOp
    /\ set_operation_failed(op)
    /\ awaiting' = NoOp

\* submit_voucher calls refresh_account, itself a run_operation, from inside
\* its own closure: the inner driver takes over the status line.
NestedRefresh ==
    /\ awaiting = "SubmitVoucher"
    /\ operation_status = Status("Running", "SubmitVoucher")
    /\ set_operation_running("RefreshAccount")
    /\ UNCHANGED awaiting

-----------------------------------------------------------------------------
(* Resolution of the pending operation by a push.                          *)

\* Mutant: Disconnect waits for Secured as well.
Target_secured(op) == "Connected"

Target(op) == IF op = "Disconnect" THEN "Disconnected" ELSE "Connected"

KeepWaiting == UNCHANGED <<operation_status, pending_push_confirmation>>

Resolve(verdict) ==
    /\ operation_status' = Status(verdict, pending_push_confirmation)
    /\ pending_push_confirmation' = NoOp

\* Mutants: Error keeps waiting; Connecting is taken for connected.
resolve_pending_for_tunnel_past_error(status) ==
    \/ /\ pending_push_confirmation \in TunnelOps
       /\ \/ status = Target(pending_push_confirmation) /\ Resolve("Success")
          \/ status # Target(pending_push_confirmation) /\ KeepWaiting
    \/ pending_push_confirmation \notin TunnelOps /\ KeepWaiting

resolve_pending_for_tunnel_connecting(status) ==
    \/ /\ pending_push_confirmation \in TunnelOps
       /\ \/ status = "Error" /\ Resolve("Failed")
          \/ /\ status # "Error"
             /\ (pending_push_confirmation = "Disconnect") = (status \in {"Disconnecting", "Disconnected"})
             /\ Resolve("Success")
          \/ /\ status # "Error"
             /\ (pending_push_confirmation = "Disconnect") # (status \in {"Disconnecting", "Disconnected"})
             /\ KeepWaiting
    \/ pending_push_confirmation \notin TunnelOps /\ KeepWaiting

resolve_pending_for_tunnel(status) ==
    \/ /\ pending_push_confirmation \in TunnelOps
       /\ \/ status = "Error" /\ Resolve("Failed")
          \/ status = Target(pending_push_confirmation) /\ Resolve("Success")
          \/ status \notin {"Error", Target(pending_push_confirmation)} /\ KeepWaiting
    \/ pending_push_confirmation \notin TunnelOps /\ KeepWaiting

\* Mutant: what the operation wanted is not looked at.
resolve_pending_for_device_any_want(loggedIn) ==
    \/ /\ pending_push_confirmation \in DeviceOps
       /\ Resolve(IF loggedIn THEN "Success" ELSE "Failed")
    \/ pending_push_confirmation \notin DeviceOps /\ KeepWaiting

\* `want': Login waits for LoggedIn, Logout for LoggedOut or Revoked
resolve_pending_for_device(loggedIn) ==
    \/ /\ pending_push_confirmation \in DeviceOps
       /\ IF loggedIn = (pending_push_confirmation = "Login")
          THEN Resolve("Success")
          ELSE Resolve("Failed")
    \/ pending_push_confirmation \notin DeviceOps /\ KeepWaiting

resolve_pending_for_settings ==
    \/ pending_push_confirmation \in SettingsOps /\ Resolve("Success")
    \/ pending_push_confirmation \notin SettingsOps /\ KeepWaiting

-----------------------------------------------------------------------------
(* The module on its own: any operation, any answer, any push.             *)

TunnelState == {"Disconnected", "Connecting", "Connected", "Disconnecting", "Error"}

Push ==
    /\ awaiting = NoOp
    /\ UNCHANGED awaiting
    /\ \/ \E status \in TunnelState : resolve_pending_for_tunnel(status)
       \/ \E loggedIn \in BOOLEAN : resolve_pending_for_device(loggedIn)
       \/ resolve_pending_for_settings

OpNext ==
    \/ \E op \in Ops :
          \/ Start(op)
          \/ Reject(op)
          \/ Accepted(op)
          \/ AlreadyThere(op)
          \/ Completed(op)
          \/ Failed(op)
    \/ NestedRefresh
    \/ Push

OpSpec == OpInit /\ [][OpNext]_opVars

-----------------------------------------------------------------------------
(***************************************************************************)
(* Properties.                                                             *)
(***************************************************************************)

\* A status line that says Running is always waiting for something that can
\* still end it: the RPC a handler awaits, or the pending confirmation of
\* that very operation.  The setters run in five places and only one of them
\* touches both fields; a spinner nothing can stop would show as a violation.
RunningIsAwaited ==
    operation_status.state = "Running" =>
        \/ awaiting # NoOp
        \/ pending_push_confirmation = operation_status.op

\* At most one verdict is outstanding: a pending confirmation excludes an RPC
\* in flight, and the line shows the pending operation as Running unless a
\* later operation was refused by its own validation.
PendingIsCurrent ==
    pending_push_confirmation # NoOp =>
        /\ awaiting = NoOp
        /\ \/ operation_status = Status("Running", pending_push_confirmation)
           \/ operation_status \in [state : {"Failed"}, op : Validated]

\* While a handler holds the loop the line shows that handler's operation,
\* or the refresh that submit_voucher runs inside its own.
AwaitedIsShown ==
    awaiting # NoOp =>
        \/ operation_status = Status("Running", awaiting)
        \/ awaiting = "SubmitVoucher"
           /\ operation_status = Status("Running", "RefreshAccount")

OpInv == RunningIsAwaited /\ PendingIsCurrent /\ AwaitedIsShown

\* Once the user has started something else, the push of an earlier operation
\* no longer changes the line (the comment in set_operation_running), with one
\* exception: a validation that fails leaves the pending confirmation alone,
\* so the verdict it shows is overwritten by the push that comes later.
VerdictsSurviveLatePushes ==
    [][(operation_status.state \in {"Success", "Failed"}
          /\ operation_status' # operation_status
          /\ operation_status'.state # "Running") =>
          \/ operation_status.state = "Failed" /\ operation_status.op \in Validated
          \/ operation_status'.state = "Failed" /\ operation_status'.op \in Validated]_opVars
=============================================================================
