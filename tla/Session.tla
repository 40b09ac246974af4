------------------------------- MODULE Session -------------------------------
(***************************************************************************)
(* The account session: the App's copy of the daemon's device state with   *)
(* the account data and the device list that hang on it (app/session.rs,   *)
(* app/pages/account.rs), the Account page that starts its operations      *)
(* (tui/pages/account.rs), and the DeviceChanged arm of apply_app_event    *)
(* (tui/mod.rs).                                                           *)
(*                                                                         *)
(* The daemon is external: it logs in only when it is logged out, pushes   *)
(* its device state on every change of it and on every key rotation, and   *)
(* other clients and the API change it too.  A device state is the account *)
(* logged in to, LoggedOut or Revoked.  A handler holds the run loop from  *)
(* its first RPC to the return of its last one.                            *)
(***************************************************************************)
EXTENDS Naturals, Sequences, SequencesExt

CONSTANTS
    Accounts,       \* account numbers
    LoggedOut, Revoked,
    None,           \* no data, no device list
    UserOps,        \* the operations the user starts
    Faults,         \* the resync can fail and the event stream can break
    OthersAct,      \* other clients and the API act on the session
    MaxQueue        \* bound on the pushes under way

VARIABLES
    operation_status, pending_push_confirmation, awaiting,  \* see Operations
    subscribed, events,                                     \* see EventFeed
    daemon,         \* the daemon's device state
    device, data,   \* App.account_info; data: the account it is the data of
    devices,        \* PageState.devices: the account whose devices it lists
    devices_error,  \* PageState.devices_error.is_some()
    page,           \* the page on screen
    popup,          \* the operation an open overlay or modal asks to start
    rpc,            \* the RPC that holds the run loop
    account,        \* its account argument
    attempt,        \* with_client: first or second run of it
    reply,          \* the daemon's answer to that run
    clean,          \* history: no push was under way when Login or Logout ran
    inOrder,        \* history: device came from all pushes, none lost or overtaken
    missed          \* history: a newer device state than any seen or under way

opVars   == <<operation_status, pending_push_confirmation, awaiting>>
feedVars == <<subscribed, events>>
infoVars == <<device, data>>
listVars == <<devices, devices_error>>
uiVars   == <<page, popup>>
rpcVars  == <<rpc, account, attempt, reply>>
histVars == <<clean, inOrder, missed>>
vars == <<opVars, feedVars, daemon, infoVars, listVars, uiVars, rpcVars, histVars>>

-----------------------------------------------------------------------------
DeviceState == Accounts \union {LoggedOut, Revoked}

LoggedIn(state) == state \in Accounts

Rpc == {"none", "login", "logout", "list_devices", "remove_device",
        "submit_voucher", "rotate_wireguard_key", "get_device", "get_account_data"}

\* What an answer says: done, refused by the daemon, or a device state
Reply == {"none", "done", "refused"} \union DeviceState

PopupOps == {"Login", "Logout", "SubmitVoucher", "RotateWireGuardKey"}
SessionOps == PopupOps \union {"ListDevices", "RemoveDevice"}

Operations == INSTANCE Operations WITH Ops <- UserOps
Feed       == INSTANCE EventFeed WITH Event <- DeviceState

NoOp == Operations!NoOp

ASSUME SessionAssumption ==
    /\ LoggedOut # Revoked
    /\ None \notin DeviceState
    /\ Accounts \intersect {LoggedOut, Revoked} = {}
    /\ DeviceState \intersect {"none", "done", "refused"} = {}
    /\ UserOps \subseteq SessionOps
    /\ Faults \in BOOLEAN
    /\ OthersAct \in BOOLEAN
    /\ MaxQueue \in Nat

TypeOK ==
    /\ Operations!OpTypeOK
    /\ Feed!FeedTypeOK
    /\ daemon \in DeviceState
    /\ device \in DeviceState
    /\ data \in Accounts \union {None}
    /\ devices \in Accounts \union {None}
    /\ devices_error \in BOOLEAN
    /\ page \in {"Account", "AccountDevices"}
    /\ popup \in PopupOps \union {NoOp}
    /\ rpc \in Rpc
    /\ account \in Accounts \union {None}
    /\ attempt \in 1 .. 2
    /\ reply \in Reply
    /\ clean \in BOOLEAN
    /\ inOrder \in BOOLEAN
    /\ missed \in BOOLEAN

-----------------------------------------------------------------------------
(* The user.                                                               *)

Begin(call, acct) ==
    /\ rpc' = call
    /\ account' = acct
    /\ attempt' = 1
    /\ reply' = "none"

Idle == rpc = "none"

\* The button that opens an overlay or modal is on screen in the states its
\* operation makes sense in; the answer may come in another one.
OpenPopup(op) ==
    /\ Idle
    /\ popup = NoOp
    /\ op \in UserOps
    /\ \/ op \in {"Logout", "SubmitVoucher"} /\ page = "Account" /\ LoggedIn(device)
       \/ op = "Login" /\ page = "Account" /\ ~LoggedIn(device)
       \/ op = "RotateWireGuardKey" /\ page = "AccountDevices" /\ LoggedIn(device)
    /\ popup' = op
    /\ UNCHANGED <<opVars, feedVars, daemon, infoVars, listVars, page, rpcVars, histVars>>

ClosePopup ==
    /\ Idle
    /\ popup # NoOp
    /\ popup' = NoOp
    /\ UNCHANGED <<opVars, feedVars, daemon, infoVars, listVars, page, rpcVars, histVars>>

Confirm(op, call, acct) ==
    /\ Idle
    /\ popup = op
    /\ popup' = NoOp
    /\ Operations!Start(op)
    /\ Begin(call, acct)
    /\ UNCHANGED <<feedVars, daemon, infoVars, listVars, page, histVars>>

login(acct)          == Confirm("Login", "login", acct)
logout               == Confirm("Logout", "logout", None)
submit_voucher       == Confirm("SubmitVoucher", "submit_voucher", None)
rotate_wireguard_key == Confirm("RotateWireGuardKey", "rotate_wireguard_key", None)

\* [Manage devices] enters the sub-page, keeps the cached list and fetches.
list_devices ==
    /\ Idle
    /\ popup = NoOp
    /\ page = "Account"
    /\ LoggedIn(device)
    /\ page' = "AccountDevices"
    /\ Operations!Start("ListDevices")
    /\ Begin("list_devices", device)
    /\ UNCHANGED <<feedVars, daemon, infoVars, listVars, popup, histVars>>

remove_device ==
    /\ Idle
    /\ popup = NoOp
    /\ page = "AccountDevices"
    /\ devices # None
    /\ \/ /\ LoggedIn(device)
          /\ Operations!Start("RemoveDevice")
          /\ Begin("remove_device", device)
       \/ /\ ~LoggedIn(device)
          /\ Operations!Reject("RemoveDevice")
          /\ UNCHANGED rpcVars
    /\ UNCHANGED <<feedVars, daemon, infoVars, listVars, uiVars, histVars>>

LeaveSubPage ==
    /\ Idle
    /\ popup = NoOp
    /\ page = "AccountDevices"
    /\ page' = "Account"
    /\ UNCHANGED <<opVars, feedVars, daemon, infoVars, listVars, popup, rpcVars, histVars>>

User ==
    \/ \E op \in PopupOps : OpenPopup(op)
    \/ ClosePopup
    \/ \E acct \in Accounts : login(acct)
    \/ logout
    \/ submit_voucher
    \/ rotate_wireguard_key
    \/ list_devices
    \/ remove_device
    \/ LeaveSubPage

-----------------------------------------------------------------------------
(* The daemon.                                                             *)

Becomes(state) ==
    /\ Len(events) < MaxQueue
    /\ daemon' = state
    /\ Feed!Publish(state)
    /\ missed' = ~subscribed
    /\ inOrder' = (inOrder /\ subscribed)

SomebodyElseActs ==
    /\ OthersAct
    /\ \/ LoggedIn(daemon) /\ Becomes(LoggedOut)
       \/ LoggedIn(daemon) /\ Becomes(Revoked)
       \/ LoggedIn(daemon) /\ Becomes(daemon)
       \/ ~LoggedIn(daemon) /\ \E acct \in Accounts : Becomes(acct)
    /\ UNCHANGED <<opVars, infoVars, listVars, uiVars, rpcVars, clean>>

Answers(answer) ==
    /\ reply' = answer
    /\ UNCHANGED <<opVars, infoVars, listVars, uiVars, rpc, account, attempt>>

\* The RPCs that read, and those that change nothing here: the API may refuse,
\* and it has no account to redeem a voucher for when nobody is logged in.
ExecuteQuery ==
    /\ reply = "none"
    /\ \/ rpc = "get_device" /\ Answers(daemon)
       \/ /\ rpc \in {"list_devices", "remove_device", "submit_voucher", "get_account_data"}
          /\ \/ Answers("done") /\ (rpc = "submit_voucher" => LoggedIn(daemon))
             \/ Answers("refused")
    /\ UNCHANGED <<feedVars, daemon, histVars>>

ExecuteChange ==
    /\ reply = "none"
    /\ clean' = (events = <<>>)
    /\ \/ /\ rpc = "login" /\ ~LoggedIn(daemon)
          /\ Answers("done") /\ Becomes(account)
       \/ /\ rpc = "logout"
          /\ Answers("done") /\ Becomes(LoggedOut)
       \/ /\ rpc = "rotate_wireguard_key" /\ LoggedIn(daemon)
          /\ Answers("done") /\ Becomes(daemon)

ExecuteRefused ==
    /\ reply = "none"
    /\ \/ rpc = "login"
       \/ rpc \in {"logout", "rotate_wireguard_key"} /\ ~LoggedIn(daemon)
    /\ Answers("refused")
    /\ UNCHANGED <<feedVars, daemon, histVars>>

-----------------------------------------------------------------------------
(* The rest of the handler, once an RPC returns.                           *)

EndRpc == Begin("none", None)

\* Mutant: the daemon's refusal is taken for acceptance.
ChangeReturns_refused ==
    /\ rpc \in {"login", "logout"}
    /\ reply # "none"
    /\ Operations!Accepted(awaiting)
    /\ EndRpc
    /\ UNCHANGED <<feedVars, daemon, infoVars, listVars, uiVars, histVars>>

ChangeReturns ==
    /\ rpc \in {"login", "logout"}
    /\ reply = "done"
    /\ Operations!Accepted(awaiting)
    /\ EndRpc
    /\ UNCHANGED <<feedVars, daemon, infoVars, listVars, uiVars, histVars>>

RotateReturns ==
    /\ rpc = "rotate_wireguard_key"
    /\ reply = "done"
    /\ Operations!Completed(awaiting)
    /\ EndRpc
    /\ UNCHANGED <<feedVars, daemon, infoVars, listVars, uiVars, histVars>>

\* The last RPC of list_devices, and of remove_device
ListReturns ==
    /\ rpc = "list_devices"
    /\ reply = "done"
    /\ devices' = account
    /\ devices_error' = FALSE
    /\ Operations!Completed(awaiting)
    /\ EndRpc
    /\ UNCHANGED <<feedVars, daemon, infoVars, uiVars, histVars>>

RemoveReturns ==
    /\ rpc = "remove_device"
    /\ reply = "done"
    /\ Begin("list_devices", account)
    /\ UNCHANGED <<opVars, feedVars, daemon, infoVars, listVars, uiVars, histVars>>

\* refresh_account inside submit_voucher
VoucherReturns ==
    /\ rpc = "submit_voucher"
    /\ reply = "done"
    /\ Operations!NestedRefresh
    /\ Begin("get_device", None)
    /\ UNCHANGED <<feedVars, daemon, infoVars, listVars, uiVars, histVars>>

\* get_account: the data of the device's account, in a second RPC.  Both
\* halves reach account_info together, past set_device.
DeviceReturns ==
    /\ rpc = "get_device"
    /\ reply \in DeviceState
    /\ \/ /\ LoggedIn(reply)
          /\ Begin("get_account_data", reply)
          /\ UNCHANGED <<opVars, infoVars>>
       \/ /\ ~LoggedIn(reply)
          /\ device' = reply
          /\ data' = None
          /\ Operations!Completed(awaiting)
          /\ EndRpc
    /\ inOrder' = (inOrder /\ device' = device)
    /\ UNCHANGED <<feedVars, daemon, listVars, uiVars, clean, missed>>

\* For submit_voucher's refresh, or for the follow-up of apply_app_event
DataReturns ==
    /\ rpc = "get_account_data"
    /\ reply = "done"
    /\ data' = account
    /\ \/ /\ awaiting # NoOp
          /\ device' = account
          /\ Operations!Completed(awaiting)
       \/ awaiting = NoOp /\ UNCHANGED <<opVars, device>>
    /\ EndRpc
    /\ inOrder' = (inOrder /\ device' = device)
    /\ UNCHANGED <<feedVars, daemon, listVars, uiVars, clean, missed>>

\* A transport error of the first run: reconnect and run the RPC again.
with_client_retry ==
    /\ ~Idle
    /\ attempt = 1
    /\ reply # "refused"
    /\ attempt' = 2
    /\ reply' = "none"
    /\ UNCHANGED <<opVars, feedVars, daemon, infoVars, listVars, uiVars, rpc,
                   account, histVars>>

\* A refusal, or a transport that fails for good, before the run or after it.
\* A failed follow-up is only logged.
RpcFails ==
    /\ ~Idle
    /\ \/ awaiting # NoOp /\ Operations!Failed(awaiting)
       \/ awaiting = NoOp /\ UNCHANGED opVars
    /\ devices_error' = (devices_error \/ awaiting = "ListDevices")
    /\ EndRpc
    /\ UNCHANGED <<feedVars, daemon, infoVars, devices, uiVars, histVars>>

Call ==
    \/ ExecuteQuery
    \/ ExecuteChange
    \/ ExecuteRefused
    \/ ChangeReturns
    \/ RotateReturns
    \/ ListReturns
    \/ RemoveReturns
    \/ VoucherReturns
    \/ DeviceReturns
    \/ DataReturns
    \/ with_client_retry
    \/ RpcFails

-----------------------------------------------------------------------------
(* The event feed.                                                         *)

invalidate_devices ==
    /\ devices' = None
    /\ devices_error' = FALSE

\* Mutants: a revocation is not shown; data and list stay when the device
\* leaves.
set_device_past_revocation ==
    LET state == Head(events) IN
    /\ Idle
    /\ Feed!Receive
    /\ device' = IF state = Revoked THEN device ELSE state
    /\ Operations!resolve_pending_for_device(LoggedIn(state))
    /\ UNCHANGED <<awaiting, data, listVars, rpcVars, daemon, uiVars, histVars>>

set_device_keeps_data ==
    LET state == Head(events) IN
    /\ Idle
    /\ Feed!Receive
    /\ device' = state
    /\ Operations!resolve_pending_for_device(LoggedIn(state))
    /\ \/ LoggedIn(state) /\ Begin("get_account_data", state)
       \/ ~LoggedIn(state) /\ UNCHANGED rpcVars
    /\ UNCHANGED <<awaiting, data, listVars, daemon, uiVars, histVars>>

\* apply_app_event(DeviceChanged): set_device, then the data follow-up, an
\* RPC that holds the run loop.
set_device ==
    LET state == Head(events) IN
    /\ Idle
    /\ Feed!Receive
    /\ device' = state
    /\ \/ LoggedIn(device) /\ ~LoggedIn(state) /\ invalidate_devices
       \/ ~(LoggedIn(device) /\ ~LoggedIn(state)) /\ UNCHANGED listVars
    /\ Operations!resolve_pending_for_device(LoggedIn(state))
    /\ \/ /\ LoggedIn(state)
          /\ Begin("get_account_data", state)
          /\ UNCHANGED data
       \/ /\ ~LoggedIn(state)
          /\ data' = None
          /\ UNCHANGED rpcVars
    /\ UNCHANGED <<awaiting, daemon, uiVars, histVars>>

FeedBreaks ==
    /\ Faults
    /\ Feed!Break
    /\ missed' = (missed \/ events' # events)
    /\ inOrder' = (inOrder /\ events' = events)
    /\ UNCHANGED <<opVars, daemon, infoVars, listVars, uiVars, rpcVars, clean>>

FeedResumes ==
    /\ Feed!Resubscribe
    /\ UNCHANGED <<opVars, daemon, infoVars, listVars, uiVars, rpcVars, histVars>>

-----------------------------------------------------------------------------
\* The resync read the account or failed, leaving what App::new put there; the
\* listener then subscribed or failed.
Init ==
    /\ Operations!OpInit
    /\ Feed!FeedInit
    /\ daemon \in DeviceState
    /\ \/ device = daemon /\ data = IF LoggedIn(daemon) THEN daemon ELSE None
       \/ Faults /\ device = LoggedOut /\ data = None
    /\ ~Faults => subscribed
    /\ devices = None
    /\ devices_error = FALSE
    /\ page = "Account"
    /\ popup = NoOp
    /\ rpc = "none"
    /\ account = None
    /\ attempt = 1
    /\ reply = "none"
    /\ clean = FALSE
    /\ inOrder = (device = daemon)
    /\ missed = (device # daemon)

Next ==
    \/ User
    \/ SomebodyElseActs
    \/ Call
    \/ set_device
    \/ FeedBreaks
    \/ FeedResumes

\* RPCs return and the idle run loop takes what the feed holds for it.
Fairness ==
    /\ WF_vars(Call)
    /\ WF_vars(set_device)

Spec == Init /\ [][Next]_vars /\ Fairness

-----------------------------------------------------------------------------
(***************************************************************************)
(* Properties.                                                             *)
(***************************************************************************)

Newest == IF events = <<>> THEN device ELSE Last(events)

\* Draining the feed makes the cached device the daemon's, unless the loss of
\* a push is known: an account refresh that overtakes queued pushes may put
\* the cache back for a while, never for good.
FeedCatchesUp == ~missed => Newest = daemon

\* The data and the device list are never shown without the account they
\* belong to: account_info and the two lists beside it are written by four
\* handlers, each with an RPC between the halves.  Data is there only for a
\* device logged in; as long as no push was lost or overtaken by a refresh the
\* data and the list are those of the very account logged in.
DataIsTheAccounts ==
    /\ data # None => LoggedIn(device)
    /\ (inOrder /\ data # None) => data = device
    /\ (inOrder /\ devices # None) => devices = device

\* An accepted login or logout waits only while a push that will decide it is
\* under way, or the loss of one is known.
VerdictStillComing ==
    (pending_push_confirmation \in Operations!DeviceOps /\ ~missed) => events # <<>>

\* When no push was lost or overtaken and none was under way as the daemon
\* accepted a login or logout, the push that decides it says Success, whatever
\* other clients do before it arrives.
Undecided == pending_push_confirmation \in Operations!DeviceOps

AcceptedSucceeds ==
    [][(inOrder /\ clean /\ Undecided /\ pending_push_confirmation' = NoOp /\ awaiting' = NoOp) =>
          operation_status'.state = "Success"]_vars

=============================================================================
