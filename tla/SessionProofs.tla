---------------------------- MODULE SessionProofs ----------------------------
(***************************************************************************)
(* Proofs about module Session, for any accounts, operations and length of *)
(* the feed, with or without faults and other clients: the device shown    *)
(* catches up with the daemon's, the data and the list beside it are those *)
(* of its account, and an accepted login or logout gets the verdict it has *)
(* earned.                                                                 *)
(***************************************************************************)
EXTENDS Session, SequenceLemmas

-----------------------------------------------------------------------------
(* Sets of operations and states.                                          *)

DeviceOps == {"Login", "Logout"}

LEMMA OperationFacts ==
    /\ NoOp \notin Operations!Operation
    /\ Operations!DeviceOps = DeviceOps
    /\ UserOps \subseteq Operations!Operation
    /\ DeviceOps \subseteq Operations!PushOps
    /\ Operations!PushOps \subseteq Operations!Operation
    /\ UserOps \intersect Operations!PushOps \subseteq DeviceOps
    /\ "RefreshAccount" \in Operations!Operation
BY SessionAssumption
DEF NoOp, Operations!NoOp, Operations!Operation, Operations!PushOps,
    Operations!PullOps, Operations!TunnelOps, Operations!DeviceOps,
    Operations!SettingsOps, DeviceOps, SessionOps, PopupOps

LEMMA StatusType ==
    ASSUME NEW state \in {"Idle", "Running", "Success", "Failed"},
           NEW op \in Operations!Operation \union {NoOp}
    PROVE  Operations!Status(state, op) \in Operations!OperationStatus
BY DEF Operations!Status, Operations!OperationStatus, NoOp

LEMMA DeviceFacts ==
    /\ \A state \in DeviceState : state \notin {None, "none", "done", "refused"}
    /\ Accounts \subseteq DeviceState
    /\ ~LoggedIn(LoggedOut) /\ ~LoggedIn(Revoked)
    /\ LoggedOut \in DeviceState /\ Revoked \in DeviceState
BY SessionAssumption DEF DeviceState, LoggedIn

-----------------------------------------------------------------------------
(* Types, and what goes with the RPC that holds the run loop.              *)

\* The operation and the argument of each RPC.  The device is still the one its
\* handler started from: nothing else of the App runs before it ends.
Coupled ==
    /\ rpc = "login" => awaiting = "Login" /\ account \in Accounts
    /\ rpc = "logout" => awaiting = "Logout"
    /\ rpc \in {"list_devices", "remove_device"} => account \in Accounts /\ account = device
    /\ rpc = "get_account_data" =>
          account \in Accounts /\ (awaiting = NoOp => account = device)
    /\ rpc = "none" => awaiting = NoOp /\ reply = "none"
    /\ reply \in DeviceState => rpc = "get_device"
    /\ rpc = "get_device" => awaiting # NoOp
    /\ awaiting # NoOp => pending_push_confirmation = NoOp
    /\ awaiting \in UserOps \union {NoOp}
    /\ pending_push_confirmation \in DeviceOps \union {NoOp}

SessionInv == TypeOK /\ Coupled

\* The drivers and the resolver keep the status line's types.
LEMMA LineTypes ==
    ASSUME Operations!OpTypeOK, NEW op \in UserOps \union {NoOp},
           \/ Operations!Start(op)
           \/ Operations!Reject(op)
           \/ Operations!Accepted(op)
           \/ Operations!Completed(op)
           \/ Operations!Failed(op)
           \/ Operations!NestedRefresh
           \/ UNCHANGED awaiting
              /\ \E loggedIn \in BOOLEAN : Operations!resolve_pending_for_device(loggedIn)
           \/ UNCHANGED opVars
    PROVE  Operations!OpTypeOK'
<1> USE OperationFacts, StatusType DEF Operations!OpTypeOK, NoOp
<1>1. CASE Operations!Start(op)
  BY <1>1 DEF Operations!Start, Operations!set_operation_running
<1>2. CASE Operations!Reject(op)
  BY <1>2 DEF Operations!Reject, Operations!set_operation_failed
<1>3. CASE Operations!Accepted(op)
  BY <1>3 DEF Operations!Accepted
<1>4. CASE Operations!Completed(op)
  BY <1>4 DEF Operations!Completed, Operations!set_operation_success
<1>5. CASE Operations!Failed(op)
  BY <1>5 DEF Operations!Failed, Operations!set_operation_failed
<1>6. CASE Operations!NestedRefresh
  BY <1>6 DEF Operations!NestedRefresh, Operations!set_operation_running
<1>7. CASE UNCHANGED awaiting
           /\ \E loggedIn \in BOOLEAN : Operations!resolve_pending_for_device(loggedIn)
  BY <1>7 DEF Operations!resolve_pending_for_device, Operations!Resolve,
              Operations!KeepWaiting
<1>8. CASE UNCHANGED opVars
  BY <1>8 DEF opVars
<1>9. QED
  BY <1>1, <1>2, <1>3, <1>4, <1>5, <1>6, <1>7, <1>8

\* What the drivers do to the two fields the invariant is about
LEMMA LineSteps ==
    ASSUME NEW op \in UserOps
    PROVE  /\ Operations!Start(op) =>
                awaiting = NoOp /\ awaiting' = op /\ pending_push_confirmation' = NoOp
           /\ Operations!Reject(op) => UNCHANGED <<awaiting, pending_push_confirmation>>
           /\ Operations!Accepted(op) =>
                awaiting = op /\ awaiting' = NoOp /\ pending_push_confirmation' = op /\ op \in DeviceOps
           /\ (Operations!Completed(op) \/ Operations!Failed(op)) =>
                awaiting = op /\ awaiting' = NoOp /\ UNCHANGED pending_push_confirmation
           /\ op # NoOp
BY OperationFacts
DEF Operations!Start, Operations!Reject, Operations!Accepted, Operations!Completed,
    Operations!Failed, Operations!set_operation_running, Operations!set_operation_failed,
    Operations!set_operation_success, NoOp, Operations!NoOp

-----------------------------------------------------------------------------
(* The steps keep the types and the coupling.                              *)

LEMMA UserTypes ==
    ASSUME SessionInv, User
    PROVE  SessionInv'
<1> USE OperationFacts, DeviceFacts DEF SessionInv, Idle
<1>0. TypeOK /\ Coupled /\ Operations!OpTypeOK /\ Feed!FeedTypeOK
  BY DEF TypeOK
<1>1. UNCHANGED <<feedVars, daemon, infoVars, listVars, histVars>>
  BY DEF User, OpenPopup, ClosePopup, login, logout, submit_voucher, rotate_wireguard_key,
         Confirm, list_devices, remove_device, LeaveSubPage
<1>2. ASSUME NEW op \in UserOps, NEW call \in Rpc, NEW acct \in Accounts \union {None},
             Operations!Start(op), Begin(call, acct),
             page' \in {"Account", "AccountDevices"}, popup' \in PopupOps \union {NoOp},
             call = "login" => op = "Login" /\ acct \in Accounts,
             call = "logout" => op = "Logout",
             call \in {"list_devices", "remove_device"} => acct \in Accounts /\ acct = device,
             call \notin {"get_account_data", "get_device", "none"}
      PROVE  SessionInv'
  <2>1. Operations!OpTypeOK'
    BY <1>0, <1>2, LineTypes
  <2>2. awaiting' = op /\ pending_push_confirmation' = NoOp /\ op # NoOp
    BY <1>2, LineSteps
  <2>3. rpc' = call /\ account' = acct /\ attempt' = 1 /\ reply' = "none"
    BY <1>2 DEF Begin
  <2>4. TypeOK'
    BY <1>0, <1>1, <1>2, <2>1, <2>3
    DEF TypeOK, Feed!FeedTypeOK, feedVars, infoVars, listVars, histVars, Reply
  <2>5. Coupled'
    BY <1>0, <1>1, <1>2, <2>2, <2>3 DEF Coupled, infoVars
  <2>6. QED
    BY <2>4, <2>5
<1>3. ASSUME Operations!Reject("RemoveDevice"), UNCHANGED <<rpcVars, uiVars>>
      PROVE  SessionInv'
  <2>1. "RemoveDevice" \in UserOps
    BY <1>3 DEF Operations!Reject
  <2>2. Operations!OpTypeOK' /\ UNCHANGED <<awaiting, pending_push_confirmation>>
    BY <1>0, <1>3, <2>1, LineTypes, LineSteps
  <2>3. TypeOK'
    BY <1>0, <1>1, <1>3, <2>2
    DEF TypeOK, Feed!FeedTypeOK, feedVars, infoVars, listVars, histVars, rpcVars, uiVars
  <2>4. Coupled'
    BY <1>0, <1>1, <1>3, <2>2 DEF Coupled, infoVars, rpcVars
  <2>5. QED
    BY <2>3, <2>4
<1>4. ASSUME UNCHANGED <<opVars, rpcVars>>,
             page' \in {"Account", "AccountDevices"}, popup' \in PopupOps \union {NoOp}
      PROVE  SessionInv'
  BY <1>0, <1>1, <1>4
  DEF TypeOK, Coupled, Operations!OpTypeOK, Feed!FeedTypeOK, opVars, feedVars, infoVars,
      listVars, histVars, rpcVars
<1>5. page \in {"Account", "AccountDevices"} /\ popup \in PopupOps \union {NoOp}
  BY <1>0 DEF TypeOK
<1>6. ASSUME NEW op \in PopupOps, OpenPopup(op) PROVE SessionInv'
  BY <1>4, <1>5, <1>6 DEF OpenPopup
<1>7. CASE ClosePopup \/ LeaveSubPage
  BY <1>4, <1>5, <1>7 DEF ClosePopup, LeaveSubPage
<1>8. ASSUME NEW acct \in Accounts, login(acct) PROVE SessionInv'
  BY <1>2, <1>5, <1>8 DEF login, Confirm, Rpc, Operations!Start
<1>9. CASE logout \/ submit_voucher \/ rotate_wireguard_key
  BY <1>2, <1>5, <1>9
  DEF logout, submit_voucher, rotate_wireguard_key, Confirm, Rpc, Operations!Start
<1>10. CASE list_devices
  BY <1>2, <1>5, <1>10 DEF list_devices, Rpc, Operations!Start, LoggedIn
<1>11. CASE remove_device
  BY <1>2, <1>3, <1>5, <1>11 DEF remove_device, Rpc, Operations!Start, LoggedIn, uiVars
<1>12. QED
  BY <1>6, <1>7, <1>8, <1>9, <1>10, <1>11 DEF User

\* The daemon's device changes and is pushed.
LEMMA BecomesTypes ==
    ASSUME TypeOK, NEW state \in DeviceState, Becomes(state)
    PROVE  Feed!FeedTypeOK' /\ daemon' \in DeviceState
           /\ missed' \in BOOLEAN /\ inOrder' \in BOOLEAN
<1>1. Feed!FeedTypeOK /\ inOrder \in BOOLEAN
  BY DEF TypeOK
<1>2. Feed!FeedTypeOK'
  BY <1>1, PublishedFeed DEF Becomes, Feed!Publish, Feed!FeedTypeOK
<1>3. missed' \in BOOLEAN /\ inOrder' \in BOOLEAN
  BY <1>1, Zenon DEF Becomes, Feed!FeedTypeOK
<1>4. QED
  BY <1>2, <1>3 DEF Becomes

\* A handler returns: it holds nothing any more.
LEMMA EndTypes ==
    ASSUME SessionInv, EndRpc, Operations!OpTypeOK', awaiting' = NoOp,
           pending_push_confirmation' \in DeviceOps \union {NoOp},
           UNCHANGED <<feedVars, daemon, uiVars>>, device' \in DeviceState,
           data' \in Accounts \union {None}, devices' \in Accounts \union {None},
           devices_error' \in BOOLEAN, clean' \in BOOLEAN, inOrder' \in BOOLEAN,
           missed' \in BOOLEAN
    PROVE  SessionInv'
<1>1. rpc' = "none" /\ account' = None /\ attempt' = 1 /\ reply' = "none"
  BY DEF EndRpc, Begin
<1>2. TypeOK'
  BY <1>1 DEF SessionInv, TypeOK, Feed!FeedTypeOK, feedVars, uiVars, Rpc, Reply
<1>3. Coupled'
  BY <1>1, DeviceFacts DEF Coupled
<1>4. QED
  BY <1>2, <1>3 DEF SessionInv

LEMMA ExecuteTypes ==
    ASSUME SessionInv, ExecuteQuery \/ ExecuteChange \/ ExecuteRefused
    PROVE  SessionInv'
<1>0. TypeOK /\ Coupled
  BY DEF SessionInv
<1>1. UNCHANGED <<opVars, infoVars, listVars, uiVars, rpc, account, attempt>>
      /\ reply = "none" /\ rpc # "none"
  BY <1>0, Zenon DEF ExecuteQuery, ExecuteChange, ExecuteRefused, Answers
<1>2. reply' \in Reply /\ (reply' \in DeviceState => rpc = "get_device")
  BY <1>0, DeviceFacts
  DEF ExecuteQuery, ExecuteChange, ExecuteRefused, Answers, Reply, TypeOK
<1>3. Feed!FeedTypeOK' /\ daemon' \in DeviceState /\ missed' \in BOOLEAN
      /\ inOrder' \in BOOLEAN /\ clean' \in BOOLEAN
  <2>1. CASE ExecuteQuery \/ ExecuteRefused
    <3>1. UNCHANGED <<feedVars, daemon, histVars>>
      BY <2>1 DEF ExecuteQuery, ExecuteRefused
    <3>2. QED
      BY <1>0, <3>1 DEF TypeOK, Feed!FeedTypeOK, feedVars, histVars
  <2>2. CASE ExecuteChange
    <3>1. PICK state \in DeviceState : Becomes(state)
      BY <1>0, <2>2, DeviceFacts DEF ExecuteChange, Coupled, TypeOK
    <3>2. clean' \in BOOLEAN
      BY <2>2 DEF ExecuteChange
    <3>3. QED
      BY <1>0, <3>1, <3>2, BecomesTypes
  <2>3. QED
    BY <2>1, <2>2
<1>4. TypeOK'
  BY <1>0, <1>1, <1>2, <1>3
  DEF TypeOK, Operations!OpTypeOK, opVars, infoVars, listVars, uiVars
<1>5. Coupled'
  BY <1>0, <1>1, <1>2 DEF Coupled, opVars, infoVars
<1>6. QED
  BY <1>4, <1>5 DEF SessionInv

LEMMA CallTypes ==
    ASSUME SessionInv, Call
    PROVE  SessionInv'
<1> USE OperationFacts, DeviceFacts
<1>0. TypeOK /\ Coupled /\ Operations!OpTypeOK
  BY DEF SessionInv, TypeOK
<1>1. CASE ExecuteQuery \/ ExecuteChange \/ ExecuteRefused
  BY <1>1, ExecuteTypes
<1>2. ASSUME awaiting \in UserOps,
             \/ Operations!Accepted(awaiting)
             \/ Operations!Completed(awaiting)
             \/ Operations!Failed(awaiting)
      PROVE  /\ Operations!OpTypeOK' /\ awaiting' = NoOp
             /\ pending_push_confirmation' \in DeviceOps \union {NoOp}
  BY <1>0, <1>2, LineTypes, LineSteps DEF Coupled
<1>3. CASE ChangeReturns \/ RotateReturns
  <2>1. \/ Operations!Accepted(awaiting)
        \/ Operations!Completed(awaiting)
    BY <1>3 DEF ChangeReturns, RotateReturns
  <2>2. awaiting \in UserOps
    BY <1>0, <2>1 DEF Coupled, Operations!Accepted, Operations!Completed, NoOp, Operations!NoOp,
                      Operations!PullOps
  <2>3. QED
    BY <1>0, <1>2, <1>3, <2>1, <2>2, EndTypes
    DEF ChangeReturns, RotateReturns, infoVars, listVars, histVars, TypeOK
<1>4. CASE ListReturns
  <2>1. Operations!Completed(awaiting) /\ account \in Accounts
    BY <1>0, <1>4 DEF ListReturns, Coupled
  <2>2. awaiting \in UserOps
    BY <1>0, <2>1 DEF Coupled, Operations!Completed, NoOp, Operations!NoOp,
                      Operations!PullOps
  <2>3. QED
    BY <1>0, <1>2, <1>4, <2>1, <2>2, EndTypes DEF ListReturns, infoVars, histVars, TypeOK
<1>5. CASE RemoveReturns
  <2>1. rpc' = "list_devices" /\ account' = account /\ attempt' = 1 /\ reply' = "none"
        /\ rpc = "remove_device"
        /\ UNCHANGED <<opVars, feedVars, daemon, infoVars, listVars, uiVars, histVars>>
    BY <1>5 DEF RemoveReturns, Begin
  <2>2. TypeOK'
    BY <1>0, <2>1 DEF TypeOK, Operations!OpTypeOK, Feed!FeedTypeOK, opVars, feedVars,
                      infoVars, listVars, uiVars, histVars, Rpc, Reply
  <2>3. Coupled'
    BY <1>0, <2>1 DEF Coupled, opVars, infoVars
  <2>4. QED
    BY <2>2, <2>3 DEF SessionInv
<1>6. CASE VoucherReturns
  <2>1. rpc' = "get_device" /\ account' = None /\ attempt' = 1 /\ reply' = "none"
        /\ UNCHANGED <<feedVars, daemon, infoVars, listVars, uiVars, histVars>>
    BY <1>6 DEF VoucherReturns, Begin
  <2>2. UNCHANGED awaiting /\ pending_push_confirmation' = NoOp /\ awaiting # NoOp
    BY <1>6 DEF VoucherReturns, Operations!NestedRefresh, Operations!set_operation_running,
                NoOp, Operations!NoOp
  <2>3. Operations!OpTypeOK'
    BY <1>0, <1>6, LineTypes DEF VoucherReturns
  <2>4. TypeOK'
    BY <1>0, <2>1, <2>3 DEF TypeOK, Feed!FeedTypeOK, feedVars, infoVars, listVars, uiVars,
                            histVars, Rpc, Reply
  <2>5. Coupled'
    BY <1>0, <2>1, <2>2 DEF Coupled, infoVars
  <2>6. QED
    BY <2>4, <2>5 DEF SessionInv
<1>7. CASE DeviceReturns
  <2>1. reply \in DeviceState /\ rpc = "get_device" /\ awaiting # NoOp /\ awaiting \in UserOps
        /\ inOrder' \in BOOLEAN
    BY <1>0, <1>7 DEF DeviceReturns, Coupled
  <2>2. CASE LoggedIn(reply)
    <3>1. rpc' = "get_account_data" /\ account' = reply /\ attempt' = 1 /\ reply' = "none"
          /\ reply \in Accounts
          /\ UNCHANGED <<opVars, infoVars, feedVars, daemon, listVars, uiVars, clean, missed>>
      BY <1>7, <2>2 DEF DeviceReturns, Begin, LoggedIn
    <3>2. TypeOK'
      BY <1>0, <2>1, <3>1 DEF TypeOK, Operations!OpTypeOK, Feed!FeedTypeOK, opVars, feedVars,
                              infoVars, listVars, uiVars, Rpc, Reply
    <3>3. Coupled'
      BY <1>0, <2>1, <3>1 DEF Coupled, opVars, infoVars
    <3>4. QED
      BY <3>2, <3>3 DEF SessionInv
  <2>3. CASE ~LoggedIn(reply)
    BY <1>0, <1>2, <1>7, <2>1, <2>3, EndTypes DEF DeviceReturns, listVars, TypeOK
  <2>4. QED
    BY <2>2, <2>3
<1>8. CASE DataReturns
  <2>1. account \in Accounts /\ account \in DeviceState /\ inOrder' \in BOOLEAN
    BY <1>0, <1>8 DEF DataReturns, Coupled
  <2>2. CASE awaiting = NoOp
    <3>1. Operations!OpTypeOK'
      BY <1>0, <1>8, <2>2, LineTypes DEF DataReturns
    <3>2. UNCHANGED <<awaiting, pending_push_confirmation, device>>
      BY <1>8, <2>2 DEF DataReturns, opVars
    <3>3. QED
      BY <1>0, <1>8, <2>1, <2>2, <3>1, <3>2, EndTypes DEF DataReturns, listVars, TypeOK, Coupled
  <2>3. CASE awaiting # NoOp
    <3>1. awaiting \in UserOps /\ Operations!Completed(awaiting) /\ device' = account
      BY <1>0, <1>8, <2>3 DEF DataReturns, Coupled
    <3>2. QED
      BY <1>0, <1>2, <1>8, <2>1, <3>1, EndTypes DEF DataReturns, listVars, TypeOK
  <2>4. QED
    BY <2>2, <2>3
<1>9. CASE with_client_retry
  <2>1. attempt' = 2 /\ reply' = "none"
        /\ UNCHANGED <<opVars, feedVars, daemon, infoVars, listVars, uiVars, rpc, account, histVars>>
    BY <1>9 DEF with_client_retry
  <2>2. TypeOK'
    BY <1>0, <2>1 DEF TypeOK, Operations!OpTypeOK, Feed!FeedTypeOK, opVars, feedVars,
                      infoVars, listVars, uiVars, histVars, Reply
  <2>3. Coupled'
    BY <1>0, <2>1 DEF Coupled, opVars, infoVars
  <2>4. QED
    BY <2>2, <2>3 DEF SessionInv
<1>10. CASE RpcFails
  <2>1. devices_error' \in BOOLEAN /\ devices' \in Accounts \union {None}
    BY <1>0, <1>10 DEF RpcFails, TypeOK
  <2>2. /\ Operations!OpTypeOK' /\ awaiting' = NoOp
        /\ pending_push_confirmation' \in DeviceOps \union {NoOp}
    <3>1. CASE awaiting = NoOp
      BY <1>0, <1>10, <3>1, LineTypes DEF RpcFails, opVars, Coupled
    <3>2. CASE awaiting # NoOp
      BY <1>0, <1>2, <1>10, <3>2 DEF RpcFails, Coupled
    <3>3. QED
      BY <3>1, <3>2
  <2>3. QED
    BY <1>0, <1>10, <2>1, <2>2, EndTypes DEF RpcFails, infoVars, histVars, TypeOK
<1>11. QED
  BY <1>1, <1>3, <1>4, <1>5, <1>6, <1>7, <1>8, <1>9, <1>10 DEF Call

LEMMA StepTypes ==
    ASSUME SessionInv, [Next]_vars
    PROVE  SessionInv'
<1> USE OperationFacts, DeviceFacts
<1>0. TypeOK /\ Coupled /\ Operations!OpTypeOK /\ Feed!FeedTypeOK
  BY DEF SessionInv, TypeOK
<1>1. CASE User
  BY <1>1, UserTypes
<1>2. CASE SomebodyElseActs
  <2>1. PICK state \in DeviceState : Becomes(state)
    BY <1>0, <1>2 DEF SomebodyElseActs, TypeOK
  <2>2. UNCHANGED <<opVars, infoVars, listVars, uiVars, rpcVars, clean>>
    BY <1>2 DEF SomebodyElseActs
  <2>3. TypeOK'
    BY <1>0, <2>1, <2>2, BecomesTypes
    DEF TypeOK, Operations!OpTypeOK, opVars, infoVars, listVars, uiVars, rpcVars
  <2>4. Coupled'
    BY <1>0, <2>2 DEF Coupled, opVars, infoVars, rpcVars
  <2>5. QED
    BY <2>3, <2>4 DEF SessionInv
<1>3. CASE Call
  BY <1>3, CallTypes
<1>4. CASE set_device
  <2>1. Head(events) \in DeviceState /\ Feed!FeedTypeOK'
    BY <1>0, <1>4, ReceivedFeed DEF set_device, Feed!Receive, Feed!FeedTypeOK
  <2>2. rpc = "none" /\ awaiting = NoOp /\ reply = "none"
    BY <1>0, <1>4 DEF set_device, Idle, Coupled
  <2>3. LoggedIn(Head(events)) \in BOOLEAN
    BY DEF LoggedIn
  <2>4. UNCHANGED awaiting /\ Operations!resolve_pending_for_device(LoggedIn(Head(events)))
    BY <1>4 DEF set_device
  <2>5. Operations!OpTypeOK'
    BY <1>0, <2>3, <2>4, LineTypes
  <2>6. pending_push_confirmation' \in DeviceOps \union {NoOp}
    BY <1>0, <2>4
    DEF Operations!resolve_pending_for_device, Operations!Resolve, Operations!KeepWaiting,
        NoOp, Coupled
  <2>7. device' = Head(events) /\ devices' \in Accounts \union {None} /\ devices_error' \in BOOLEAN
        /\ UNCHANGED <<daemon, page, popup, clean, inOrder, missed>>
    BY <1>0, <1>4 DEF set_device, invalidate_devices, listVars, uiVars, histVars, TypeOK
  <2>8. CASE LoggedIn(Head(events))
    <3>1. rpc' = "get_account_data" /\ account' = Head(events) /\ attempt' = 1 /\ reply' = "none"
          /\ UNCHANGED data /\ account' \in Accounts
      BY <1>4, <2>8 DEF set_device, Begin, LoggedIn
    <3>2. TypeOK'
      BY <1>0, <2>1, <2>5, <2>7, <3>1 DEF TypeOK, Rpc, Reply
    <3>3. Coupled'
      BY <2>2, <2>4, <2>6, <2>7, <3>1 DEF Coupled
    <3>4. QED
      BY <3>2, <3>3 DEF SessionInv
  <2>9. CASE ~LoggedIn(Head(events))
    <3>1. data' = None /\ UNCHANGED <<rpc, account, attempt, reply>>
      BY <1>4, <2>9 DEF set_device, rpcVars
    <3>2. TypeOK'
      BY <1>0, <2>1, <2>5, <2>7, <3>1 DEF TypeOK
    <3>3. Coupled'
      BY <2>2, <2>4, <2>6, <2>7, <3>1 DEF Coupled
    <3>4. QED
      BY <3>2, <3>3 DEF SessionInv
  <2>10. QED
    BY <2>8, <2>9
<1>5. CASE FeedBreaks
  <2>1. PICK n \in 0 .. Len(events) : events' = SubSeq(events, 1, n)
    BY <1>5 DEF FeedBreaks, Feed!Break
  <2>2. Feed!FeedTypeOK'
    BY <1>0, <1>5, <2>1, BrokenFeed DEF FeedBreaks, Feed!Break, Feed!FeedTypeOK
  <2>3. UNCHANGED <<opVars, daemon, infoVars, listVars, uiVars, rpcVars, clean>>
        /\ missed' \in BOOLEAN /\ inOrder' \in BOOLEAN
    BY <1>5 DEF FeedBreaks
  <2>4. TypeOK'
    BY <1>0, <2>2, <2>3 DEF TypeOK, Operations!OpTypeOK, opVars, infoVars, listVars, uiVars, rpcVars
  <2>5. Coupled'
    BY <1>0, <2>3 DEF Coupled, opVars, infoVars, rpcVars
  <2>6. QED
    BY <2>4, <2>5 DEF SessionInv
<1>6. CASE FeedResumes \/ UNCHANGED vars
  <2>1. UNCHANGED <<opVars, daemon, infoVars, listVars, uiVars, rpcVars, histVars>>
        /\ Feed!FeedTypeOK'
    BY <1>0, <1>6 DEF FeedResumes, Feed!Resubscribe, Feed!FeedTypeOK, vars, feedVars
  <2>2. TypeOK'
    BY <1>0, <2>1 DEF TypeOK, Operations!OpTypeOK, opVars, infoVars, listVars, uiVars,
                      rpcVars, histVars
  <2>3. Coupled'
    BY <1>0, <2>1 DEF Coupled, opVars, infoVars, rpcVars
  <2>4. QED
    BY <2>2, <2>3 DEF SessionInv
<1>7. QED
  BY <1>1, <1>2, <1>3, <1>4, <1>5, <1>6 DEF Next

LEMMA TypesHold == Spec => []SessionInv
<1>1. Init => SessionInv
  <2> SUFFICES ASSUME Init PROVE SessionInv
    OBVIOUS
  <2>1. Operations!OpTypeOK /\ awaiting = NoOp /\ pending_push_confirmation = NoOp
    BY DEF Init, Operations!OpInit, Operations!OpTypeOK, NoOp,
           Operations!OperationStatus, Operations!Status
  <2>2. Feed!FeedTypeOK
    BY DEF Init, Feed!FeedInit, Feed!FeedTypeOK
  <2>3. clean \in BOOLEAN /\ inOrder \in BOOLEAN /\ missed \in BOOLEAN /\ devices_error \in BOOLEAN
    BY DEF Init
  <2>4. attempt \in 1 .. 2 /\ reply \in Reply /\ rpc \in Rpc /\ reply = "none" /\ rpc = "none"
    BY DEF Init, Reply, Rpc
  <2>5. daemon \in DeviceState /\ device \in DeviceState /\ data \in Accounts \union {None}
        /\ devices \in Accounts \union {None} /\ account \in Accounts \union {None}
        /\ page \in {"Account", "AccountDevices"} /\ popup \in PopupOps \union {NoOp}
    BY DeviceFacts DEF Init, LoggedIn
  <2>6. TypeOK
    BY <2>1, <2>2, <2>3, <2>4, <2>5 DEF TypeOK
  <2>7. Coupled
    BY <2>1, <2>4, DeviceFacts DEF Coupled
  <2>8. QED
    BY <2>6, <2>7 DEF SessionInv
<1>2. SessionInv /\ [Next]_vars => SessionInv'
  BY StepTypes
<1>3. QED
  BY <1>1, <1>2, PTL DEF Spec

-----------------------------------------------------------------------------
(* The steps, by what they do to the cached device, the feed and the       *)
(* daemon.  An account replaces another one by way of LoggedOut or Revoked. *)

Near(a, b) == LoggedIn(a) /\ LoggedIn(b) => a = b

Pushes(state) == Becomes(state) /\ Near(daemon, state) /\ UNCHANGED device

Calm == UNCHANGED <<daemon, subscribed, events, missed, device, inOrder, clean>>

\* The steps of the user and of a call
LEMMA HandlerSteps ==
    ASSUME SessionInv, User \/ Call
    PROVE  \/ Calm
           \/ \E state \in DeviceState : Pushes(state)
           \/ DeviceReturns
           \/ DataReturns
<1> USE DEF feedVars, infoVars, histVars, Calm
<1>0. TypeOK /\ Coupled
  BY DEF SessionInv
<1>1. CASE User
  BY <1>1 DEF User, OpenPopup, ClosePopup, login, logout, submit_voucher, rotate_wireguard_key,
         Confirm, list_devices, remove_device, LeaveSubPage
<1>2. CASE ExecuteChange
  <2>1. UNCHANGED device
    BY <1>2 DEF ExecuteChange, Answers
  <2>2. \E state \in DeviceState : Becomes(state) /\ Near(daemon, state)
    BY <1>0, <1>2, DeviceFacts DEF ExecuteChange, Coupled, Near, TypeOK
  <2>3. QED
    BY <2>1, <2>2 DEF Pushes
<1>3. CASE ExecuteQuery \/ ExecuteRefused
  BY <1>3 DEF ExecuteQuery, ExecuteRefused, Answers
<1>4. CASE \/ ChangeReturns \/ RotateReturns \/ ListReturns \/ RemoveReturns
           \/ VoucherReturns \/ with_client_retry \/ RpcFails
  BY <1>4 DEF ChangeReturns, RotateReturns, ListReturns, RemoveReturns, VoucherReturns,
              with_client_retry, RpcFails
<1>5. QED
  BY <1>1, <1>2, <1>3, <1>4 DEF Call

LEMMA FeedSteps ==
    ASSUME SessionInv, [Next]_vars
    PROVE  \/ UNCHANGED <<daemon, events, missed, device, inOrder, clean>>
           \/ \E state \in DeviceState : Pushes(state)
           \/ DeviceReturns
           \/ DataReturns
           \/ set_device
           \/ FeedBreaks
<1>1. CASE User \/ Call
  BY <1>1, HandlerSteps DEF Calm
<1>2. CASE SomebodyElseActs
  <2>1. UNCHANGED device
    BY <1>2 DEF SomebodyElseActs, infoVars
  <2>2. \E state \in DeviceState : Becomes(state) /\ Near(daemon, state)
    BY <1>2, DeviceFacts DEF SomebodyElseActs, Near, SessionInv, TypeOK
  <2>3. QED
    BY <2>1, <2>2 DEF Pushes
<1>3. CASE FeedResumes
  BY <1>3 DEF FeedResumes, Feed!Resubscribe, infoVars, histVars
<1>4. CASE UNCHANGED vars
  BY <1>4 DEF vars, feedVars, infoVars, histVars
<1>5. QED
  BY <1>1, <1>2, <1>3, <1>4 DEF Next

\* What a push leaves in the feed
LEMMA PushSteps ==
    ASSUME SessionInv, NEW state \in DeviceState, Pushes(state)
    PROVE  /\ daemon' = state /\ device' = device
           /\ missed' = ~subscribed /\ (inOrder' => inOrder /\ subscribed)
           /\ ~missed' => subscribed
           /\ subscribed => /\ events' # <<>>
                            /\ Newest' = state
                            /\ events # <<>> => events'[1] = events[1]
                            /\ events = <<>> => events'[1] = state
           /\ ~subscribed => events' = events
<1>1. events \in Seq(DeviceState)
  BY DEF SessionInv, TypeOK, Feed!FeedTypeOK
<1>2. subscribed => events' = Append(events, state)
  BY DEF Pushes, Becomes, Feed!Publish
<1>3. /\ Append(events, state) # <<>> /\ Last(Append(events, state)) = state
      /\ events # <<>> => Append(events, state)[1] = events[1]
      /\ events = <<>> => Append(events, state)[1] = state
  <2>1. Append(events, state) # <<>> /\ Last(Append(events, state)) = state
    BY <1>1, PublishedFeed
  <2>2. events # <<>> => Append(events, state)[1] = events[1]
    BY <1>1
  <2>3. events = <<>> => Append(events, state)[1] = state
    OBVIOUS
  <2>4. QED
    BY <2>1, <2>2, <2>3
<1>4. subscribed => Newest' = state
  BY <1>2, <1>3, Zenon DEF Newest
<1>5. subscribed => /\ events' # <<>>
                    /\ events # <<>> => events'[1] = events[1]
                    /\ events = <<>> => events'[1] = state
  BY <1>2, <1>3, Zenon
<1>6. daemon' = state /\ device' = device /\ missed' = ~subscribed
      /\ inOrder' = (inOrder /\ subscribed) /\ (~subscribed => events' = events)
  BY DEF Pushes, Becomes, Feed!Publish
<1>7. QED
  BY <1>4, <1>5, <1>6, Zenon

\* What the App's taking a push leaves in the feed
LEMMA ReceiveSteps ==
    ASSUME SessionInv, set_device
    PROVE  /\ events # <<>> /\ Head(events) = events[1] /\ Head(events) \in DeviceState
           /\ device' = Head(events) /\ events' = Tail(events)
           /\ Newest' = Last(events)
           /\ UNCHANGED <<daemon, missed, inOrder, clean, awaiting>>
           /\ rpc = "none" /\ rpc' \in {"none", "get_account_data"} /\ awaiting = NoOp
<1>1. events \in Seq(DeviceState) /\ events # <<>>
  BY DEF SessionInv, TypeOK, Feed!FeedTypeOK, set_device, Feed!Receive
<1>2. device' = Head(events) /\ events' = Tail(events)
      /\ UNCHANGED <<daemon, missed, inOrder, clean, awaiting>>
  BY DEF set_device, Feed!Receive, histVars
<1>3. rpc = "none" /\ rpc' \in {"none", "get_account_data"} /\ awaiting = NoOp
  BY DEF set_device, Idle, Begin, rpcVars, SessionInv, Coupled
<1>4. Newest' = Last(events)
  BY <1>1, <1>2, ReceivedFeed DEF Newest
<1>5. QED
  BY <1>1, <1>2, <1>3, <1>4, ReceivedFeed

-----------------------------------------------------------------------------
(* The cached device follows the daemon's.                                 *)

\* What a refresh has read and not yet written is the daemon's device too.
RefreshIsNewest ==
    (~missed /\ events = <<>>) =>
        /\ reply \in DeviceState => reply = daemon
        /\ (rpc = "get_account_data" /\ awaiting # NoOp) => account = daemon

CatchesUpInv == FeedCatchesUp /\ RefreshIsNewest

\* What the steps do to a refresh in flight
LEMMA RefreshSteps ==
    ASSUME SessionInv, [Next]_vars
    PROVE  /\ reply' \in DeviceState =>
                (reply' = reply \/ (reply' = daemon /\ UNCHANGED <<daemon, events, missed>>))
           /\ (rpc' = "get_account_data" /\ awaiting' # NoOp) =>
                \/ UNCHANGED <<rpc, awaiting, account>>
                \/ /\ reply \in DeviceState /\ account' = reply
                   /\ UNCHANGED <<daemon, events, missed>>
<1> USE DeviceFacts, OperationFacts
<1>0. TypeOK /\ Coupled
  BY DEF SessionInv
<1>1. CASE User
  <2>1. \/ reply' = "none" /\ rpc' # "get_account_data"
        \/ UNCHANGED <<rpc, reply>> /\ rpc = "none"
    BY <1>1
    DEF User, OpenPopup, ClosePopup, login, logout, submit_voucher, rotate_wireguard_key, Idle,
        Confirm, list_devices, remove_device, LeaveSubPage, Begin, rpcVars
  <2>2. QED
    BY <2>1
<1>2. CASE SomebodyElseActs \/ FeedBreaks \/ FeedResumes \/ UNCHANGED vars
  BY <1>2 DEF SomebodyElseActs, FeedBreaks, FeedResumes, vars, rpcVars, opVars
<1>3. CASE set_device
  <2>1. awaiting' = NoOp
    BY <1>3, ReceiveSteps
  <2>2. reply' = "none" \/ reply' = reply
    BY <1>3 DEF set_device, Begin, rpcVars
  <2>3. QED
    BY <2>1, <2>2
<1>4. CASE ExecuteQuery
  <2>1. UNCHANGED <<daemon, events, missed, awaiting, rpc, account>>
    BY <1>4 DEF ExecuteQuery, Answers, opVars, feedVars, histVars
  <2>2. reply' \in {"done", "refused", daemon}
    BY <1>4 DEF ExecuteQuery, Answers
  <2>3. QED
    BY <2>1, <2>2
<1>5. CASE ExecuteChange \/ ExecuteRefused
  <2>1. reply' \in {"done", "refused"} /\ UNCHANGED <<awaiting, rpc, account>>
    BY <1>5 DEF ExecuteChange, ExecuteRefused, Answers, opVars
  <2>2. QED
    BY <2>1
<1>6. CASE ChangeReturns \/ RotateReturns \/ ListReturns \/ RpcFails \/ DataReturns
  BY <1>6 DEF ChangeReturns, RotateReturns, ListReturns, RpcFails, DataReturns, EndRpc, Begin
<1>7. CASE RemoveReturns \/ VoucherReturns
  BY <1>7 DEF RemoveReturns, VoucherReturns, Begin
<1>8. CASE DeviceReturns
  BY <1>8 DEF DeviceReturns, EndRpc, Begin, feedVars
<1>9. CASE with_client_retry
  BY <1>9 DEF with_client_retry, opVars
<1>10. QED
  BY <1>1, <1>2, <1>3, <1>4, <1>5, <1>6, <1>7, <1>8, <1>9 DEF Next, Call

LEMMA CatchesUpStep ==
    ASSUME SessionInv, CatchesUpInv, [Next]_vars
    PROVE  CatchesUpInv'
<1> USE DEF CatchesUpInv, FeedCatchesUp
<1>0. TypeOK /\ Coupled /\ events \in Seq(DeviceState)
  BY DEF SessionInv, TypeOK, Feed!FeedTypeOK
<1>1. CASE UNCHANGED <<daemon, events, missed, device, inOrder, clean>>
  <2>1. FeedCatchesUp'
    BY <1>1 DEF Newest
  <2>2. RefreshIsNewest'
    BY <1>1, RefreshSteps DEF RefreshIsNewest
  <2>3. QED
    BY <2>1, <2>2
<1>2. CASE \E state \in DeviceState : Pushes(state)
  <2>1. PICK state \in DeviceState : Pushes(state)
    BY <1>2
  <2>2. FeedCatchesUp'
    BY <2>1, PushSteps
  <2>3. missed' \/ events' # <<>>
    BY <2>1, PushSteps
  <2>4. QED
    BY <2>2, <2>3 DEF RefreshIsNewest
<1>3. CASE DeviceReturns
  <2>1. UNCHANGED <<daemon, events, missed>> /\ reply \in DeviceState
        /\ (device' = device \/ device' = reply)
    BY <1>3 DEF DeviceReturns, feedVars, infoVars
  <2>2. FeedCatchesUp'
    BY <2>1 DEF Newest, RefreshIsNewest
  <2>3. RefreshIsNewest'
    BY <2>1, RefreshSteps DEF RefreshIsNewest
  <2>4. QED
    BY <2>2, <2>3
<1>4. CASE DataReturns
  <2>1. UNCHANGED <<daemon, events, missed>> /\ rpc = "get_account_data"
        /\ (device' = device \/ (awaiting # NoOp /\ device' = account))
    BY <1>4 DEF DataReturns, feedVars
  <2>2. FeedCatchesUp'
    BY <2>1 DEF Newest, RefreshIsNewest
  <2>3. RefreshIsNewest'
    BY <2>1, RefreshSteps DEF RefreshIsNewest
  <2>4. QED
    BY <2>2, <2>3
<1>5. CASE set_device
  <2>1. UNCHANGED <<daemon, missed>> /\ Newest' = Last(events) /\ events # <<>> /\ awaiting' = NoOp
    BY <1>5, ReceiveSteps
  <2>2. FeedCatchesUp'
    BY <2>1 DEF Newest
  <2>3. reply' \notin DeviceState
    BY <1>0, <1>5, DeviceFacts DEF set_device, Idle, Begin, rpcVars, Coupled
  <2>4. QED
    BY <2>1, <2>2, <2>3 DEF RefreshIsNewest
<1>6. CASE FeedBreaks
  <2>1. UNCHANGED <<daemon, device, reply, rpc, awaiting, account>>
        /\ (missed' \/ (~missed /\ events' = events))
    BY <1>0, <1>6, Zenon DEF FeedBreaks, rpcVars, infoVars, opVars
  <2>2. QED
    BY <2>1 DEF RefreshIsNewest, Newest
<1>7. QED
  BY <1>1, <1>2, <1>3, <1>4, <1>5, <1>6, FeedSteps

\* However the device is rewritten - by a push, by its follow-up, by the
\* refresh inside submit_voucher - draining the feed makes it the daemon's,
\* unless the loss of a push is known (set_device, refresh_account).
THEOREM DeviceCatchesUp == Spec => []FeedCatchesUp
<1>1. Init => CatchesUpInv
  BY DeviceFacts
  DEF Init, Feed!FeedInit, CatchesUpInv, FeedCatchesUp, RefreshIsNewest, Newest
<1>2. CatchesUpInv => FeedCatchesUp
  BY DEF CatchesUpInv
<1>3. QED
  BY <1>1, <1>2, CatchesUpStep, TypesHold, PTL DEF Spec

-----------------------------------------------------------------------------
(* The data and the list are the account's.                                *)

\* While no push is lost or overtaken, the device changes step by step along
\* the feed up to the daemon's: never from one account straight to another.
Stepwise ==
    inOrder =>
        /\ Newest = daemon
        /\ events # <<>> => Near(device, events[1])
        /\ \A i \in DOMAIN events : i + 1 \in DOMAIN events => Near(events[i], events[i + 1])

DataInv == DataIsTheAccounts /\ Stepwise

\* The steps that write account_info or the list beside it
LEMMA DataSteps ==
    ASSUME SessionInv, [Next]_vars
    PROVE  \/ /\ UNCHANGED <<data, device>>
              /\ devices' = devices \/ devices' = device
           \/ DeviceReturns
           \/ DataReturns
           \/ set_device
<1> USE DEF infoVars, listVars
<1>0. Coupled
  BY DEF SessionInv
<1>1. CASE User
  BY <1>1 DEF User, OpenPopup, ClosePopup, login, logout, submit_voucher, rotate_wireguard_key,
         Confirm, list_devices, remove_device, LeaveSubPage
<1>2. CASE ExecuteQuery \/ ExecuteChange \/ ExecuteRefused
  BY <1>2, Zenon DEF ExecuteQuery, ExecuteChange, ExecuteRefused, Answers
<1>3. CASE \/ ChangeReturns \/ RotateReturns \/ ListReturns \/ RemoveReturns
           \/ VoucherReturns \/ with_client_retry \/ RpcFails
  BY <1>0, <1>3 DEF ChangeReturns, RotateReturns, ListReturns, RemoveReturns, VoucherReturns,
              with_client_retry, RpcFails, Coupled
<1>4. CASE SomebodyElseActs \/ FeedBreaks \/ FeedResumes \/ UNCHANGED vars
  BY <1>4 DEF SomebodyElseActs, FeedBreaks, FeedResumes, vars
<1>5. QED
  BY <1>1, <1>2, <1>3, <1>4 DEF Next, Call

\* The history the steps leave
LEMMA OrderSteps ==
    ASSUME SessionInv, [Next]_vars, inOrder'
    PROVE  inOrder
<1>1. CASE \E state \in DeviceState : Pushes(state)
  BY <1>1, PushSteps
<1>2. CASE DeviceReturns \/ DataReturns
  BY <1>2 DEF DeviceReturns, DataReturns
<1>3. CASE set_device
  BY <1>3, ReceiveSteps
<1>4. CASE FeedBreaks
  BY <1>4 DEF FeedBreaks
<1>5. QED
  BY <1>1, <1>2, <1>3, <1>4, FeedSteps

LEMMA StepwiseStep ==
    ASSUME SessionInv, Stepwise, [Next]_vars
    PROVE  Stepwise'
<1> SUFFICES ASSUME inOrder'
             PROVE  /\ Newest' = daemon'
                    /\ events' # <<>> => Near(device', events'[1])
                    /\ \A i \in DOMAIN events' :
                          i + 1 \in DOMAIN events' => Near(events'[i], events'[i + 1])
  BY DEF Stepwise, Near, LoggedIn
<1>0. inOrder /\ Newest = daemon /\ events \in Seq(DeviceState)
      /\ (events # <<>> => Near(device, events[1]))
      /\ \A i \in DOMAIN events : i + 1 \in DOMAIN events => Near(events[i], events[i + 1])
  BY OrderSteps DEF Stepwise, SessionInv, TypeOK, Feed!FeedTypeOK
<1>1. CASE UNCHANGED <<daemon, events, missed, device, inOrder, clean>>
  BY <1>0, <1>1 DEF Newest
<1>2. CASE \E state \in DeviceState : Pushes(state)
  <2>1. PICK state \in DeviceState : Pushes(state)
    BY <1>2
  <2>2. subscribed /\ Near(daemon, state) /\ daemon' = state /\ device' = device
        /\ Newest' = state /\ events' # <<>>
        /\ (events # <<>> => events'[1] = events[1])
        /\ (events = <<>> => events'[1] = state)
    BY <2>1, PushSteps DEF Pushes
  <2>3. events' = Append(events, state)
    BY <2>1, <2>2 DEF Pushes, Becomes, Feed!Publish
  <2>4. Near(device', events'[1])
    <3>1. CASE events = <<>>
      BY <1>0, <2>2, <3>1 DEF Newest
    <3>2. CASE events # <<>>
      BY <1>0, <2>2, <3>2
    <3>3. QED
      BY <3>1, <3>2
  <2>5. ASSUME NEW i \in DOMAIN Append(events, state), i + 1 \in DOMAIN Append(events, state)
        PROVE  Near(Append(events, state)[i], Append(events, state)[i + 1])
    <3>1. CASE i + 1 \in DOMAIN events
      BY <1>0, <2>5, <3>1
    <3>2. CASE i = Len(events)
      <4>1. events # <<>> /\ Last(events) = events[i] /\ Append(events, state)[i] = events[i]
            /\ Append(events, state)[i + 1] = state
        BY <1>0, <2>5, <3>2 DEF Last
      <4>2. Last(events) = daemon
        BY <1>0, <4>1 DEF Newest
      <4>3. QED
        BY <2>2, <4>1, <4>2
    <3>3. QED
      BY <1>0, <2>5, <3>1, <3>2
  <2>6. QED
    BY <2>2, <2>3, <2>4, <2>5
<1>3. CASE DeviceReturns \/ DataReturns
  <2>1. UNCHANGED <<daemon, events, device>>
    BY <1>3 DEF DeviceReturns, DataReturns, feedVars
  <2>2. QED
    BY <1>0, <2>1 DEF Newest
<1>4. CASE set_device
  <2>1. events # <<>> /\ Head(events) = events[1] /\ device' = Head(events)
        /\ events' = Tail(events) /\ Newest' = Last(events) /\ daemon' = daemon
    BY <1>4, ReceiveSteps
  <2>2. Newest' = daemon'
    BY <1>0, <2>1 DEF Newest
  <2>3. \A i \in DOMAIN Tail(events) :
           i + 1 \in DOMAIN events /\ Tail(events)[i] = events[i + 1] /\ 1 < i + 1
    BY <1>0, <2>1, ReceivedFeed
  <2>4. Tail(events) # <<>> => Near(events[1], Tail(events)[1])
    <3>1. SUFFICES ASSUME Tail(events) # <<>> PROVE Near(events[1], Tail(events)[1])
      OBVIOUS
    <3>2. PICK t \in Seq(DeviceState) : t = Tail(events)
      BY <1>0, <2>1, ReceivedFeed
    <3>3. Len(t) # 0
      BY <3>1, <3>2, EmptySeq
    <3>4. 1 \in DOMAIN t
      BY <3>3
    <3>5. 1 + 1 \in DOMAIN events /\ Tail(events)[1] = events[1 + 1]
      BY <2>3, <3>2, <3>4
    <3>6. 1 \in DOMAIN events
      BY <1>0, <2>1
    <3>7. QED
      BY <1>0, <3>5, <3>6
  <2>5. ASSUME NEW i \in DOMAIN Tail(events), i + 1 \in DOMAIN Tail(events)
        PROVE  Near(Tail(events)[i], Tail(events)[i + 1])
    BY <1>0, <2>3, <2>5
  <2>6. QED
    BY <2>1, <2>2, <2>4, <2>5
<1>5. CASE FeedBreaks
  <2>1. UNCHANGED <<daemon, events, device>>
    BY <1>5 DEF FeedBreaks, infoVars
  <2>2. QED
    BY <1>0, <2>1 DEF Newest
<1>6. QED
  BY <1>1, <1>2, <1>3, <1>4, <1>5, FeedSteps

LEMMA DataStep ==
    ASSUME SessionInv, DataInv, [Next]_vars
    PROVE  DataInv'
<1> USE DeviceFacts DEF DataIsTheAccounts
<1>0. TypeOK /\ Coupled /\ DataIsTheAccounts
  BY DEF SessionInv, DataInv
<1>1. Stepwise'
  BY StepwiseStep DEF DataInv
<1> SUFFICES DataIsTheAccounts'
  BY <1>1 DEF DataInv
<1>2. CASE UNCHANGED <<data, device>> /\ (devices' = devices \/ devices' = device)
  BY <1>0, <1>2, OrderSteps
<1>3. CASE DeviceReturns
  <2>1. device' = device \/ ~inOrder'
    BY <1>3 DEF DeviceReturns
  <2>2. (data' = data /\ device' = device) \/ data' = None
    BY <1>3 DEF DeviceReturns, infoVars
  <2>3. devices' = devices
    BY <1>3 DEF DeviceReturns, listVars
  <2>4. QED
    BY <1>0, <2>1, <2>2, <2>3, OrderSteps
<1>4. CASE DataReturns
  <2>1. device' = device \/ ~inOrder'
    BY <1>4 DEF DataReturns
  <2>2. data' = account /\ account \in Accounts /\ device' = account
    BY <1>0, <1>4 DEF DataReturns, Coupled
  <2>3. devices' = devices
    BY <1>4 DEF DataReturns, listVars
  <2>4. QED
    BY <1>0, <2>1, <2>2, <2>3, OrderSteps DEF LoggedIn
<1>5. CASE set_device
  <2>1. device' = Head(events) /\ Head(events) = events[1] /\ events # <<>> /\ inOrder' = inOrder
    BY <1>5, ReceiveSteps
  <2>2. inOrder => Near(device, events[1])
    BY <2>1 DEF DataInv, Stepwise
  <2>3. (LoggedIn(Head(events)) /\ data' = data) \/ data' = None
    BY <1>5 DEF set_device
  <2>4. \/ LoggedIn(device) /\ ~LoggedIn(Head(events)) /\ devices' = None
        \/ ~(LoggedIn(device) /\ ~LoggedIn(Head(events))) /\ devices' = devices
    BY <1>5 DEF set_device, invalidate_devices, listVars
  <2>5. devices \in Accounts \union {None}
    BY <1>0 DEF TypeOK
  <2>6. data' # None => LoggedIn(device')
    BY <2>1, <2>3
  <2>7. (inOrder' /\ data' # None) => data' = device'
    BY <1>0, <2>1, <2>2, <2>3 DEF Near
  <2>8. (inOrder' /\ devices' # None) => devices' = device'
    BY <1>0, <2>1, <2>2, <2>4, <2>5 DEF Near, LoggedIn
  <2>9. QED
    BY <2>6, <2>7, <2>8
<1>6. QED
  BY <1>2, <1>3, <1>4, <1>5, DataSteps

\* Account data and the device list are never shown without the account they
\* belong to, over any history of pushes, refreshes and list requests in flight
\* (set_device, refresh_account, list_devices, apply_app_event).
THEOREM DataBelongs == Spec => []DataIsTheAccounts
<1>1. Init => DataInv
  <2> SUFFICES ASSUME Init PROVE DataInv
    OBVIOUS
  <2>1. events = <<>> /\ devices = None
    BY DEF Init, Feed!FeedInit
  <2>2. (device = daemon /\ data = IF LoggedIn(daemon) THEN daemon ELSE None) \/ data = None
    BY DEF Init
  <2>3. inOrder => device = daemon
    BY DEF Init
  <2>4. DataIsTheAccounts
    BY <2>1, <2>2 DEF DataIsTheAccounts
  <2>5. Stepwise
    BY <2>1, <2>3 DEF Stepwise, Newest
  <2>6. QED
    BY <2>4, <2>5 DEF DataInv
<1>2. DataInv => DataIsTheAccounts
  BY DEF DataInv
<1>3. QED
  BY <1>1, <1>2, DataStep, TypesHold, PTL DEF Spec

-----------------------------------------------------------------------------
(* The verdict on an accepted login or logout.                             *)

\* An operation pends only while nothing holds the run loop.
PendsIdle == rpc # "none" => pending_push_confirmation = NoOp

\* The daemon has taken a login or logout the App may not know to be accepted.
Taken == rpc \in {"login", "logout"} /\ reply = "done"

WantsLogin == rpc = "login" \/ pending_push_confirmation = "Login"

\* The push that decides it is under way; with nothing under way before it,
\* it comes first.
VerdictInv ==
    /\ PendsIdle
    /\ ((Undecided \/ Taken) /\ ~missed) => events # <<>>
    /\ ((Undecided \/ Taken) /\ clean /\ inOrder) =>
          events # <<>> /\ (LoggedIn(events[1]) <=> WantsLogin)

\* Steps that leave what is waited for alone, and the others
LEMMA WaitSteps ==
    ASSUME SessionInv, PendsIdle, [Next]_vars
    PROVE  \/ UNCHANGED pending_push_confirmation /\ (Taken' => UNCHANGED <<rpc, reply>>)
           \/ pending_push_confirmation' = NoOp /\ ~Taken'
           \/ ExecuteChange
           \/ ChangeReturns
<1> USE OperationFacts DEF Taken
<1>0. TypeOK /\ Coupled
  BY DEF SessionInv
<1>1. CASE User
  <2>1. ASSUME NEW op \in UserOps, Operations!Start(op), reply' = "none"
        PROVE  pending_push_confirmation' = NoOp /\ ~Taken'
    BY <2>1, LineSteps
  <2>2. ASSUME NEW op \in PopupOps, OpenPopup(op)
        PROVE  UNCHANGED <<pending_push_confirmation, rpc, reply>>
    BY <2>2 DEF OpenPopup, opVars, rpcVars
  <2>3. CASE ClosePopup \/ LeaveSubPage
    BY <2>3 DEF ClosePopup, LeaveSubPage, opVars, rpcVars
  <2>4. ASSUME NEW acct \in Accounts, login(acct)
        PROVE  pending_push_confirmation' = NoOp /\ ~Taken'
    BY <2>1, <2>4 DEF login, Confirm, Begin, Operations!Start
  <2>5. CASE logout \/ submit_voucher \/ rotate_wireguard_key
    BY <2>1, <2>5 DEF logout, submit_voucher, rotate_wireguard_key, Confirm, Begin,
                      Operations!Start
  <2>6. CASE list_devices
    BY <2>1, <2>6 DEF list_devices, Begin, Operations!Start
  <2>7. CASE remove_device
    BY <2>1, <2>7 DEF remove_device, Begin, rpcVars, Operations!Start, Operations!Reject,
                      Operations!set_operation_failed
  <2>8. QED
    BY <1>1, <2>2, <2>3, <2>4, <2>5, <2>6, <2>7 DEF User
<1>2. CASE ExecuteQuery \/ ExecuteRefused
  BY <1>2, DeviceFacts DEF ExecuteQuery, ExecuteRefused, Answers, opVars
<1>3. CASE RotateReturns \/ ListReturns \/ DeviceReturns \/ DataReturns
  <2>1. UNCHANGED pending_push_confirmation
    BY <1>3 DEF RotateReturns, ListReturns, DeviceReturns, DataReturns, opVars,
                Operations!Completed, Operations!set_operation_success
  <2>2. reply' = "none"
    BY <1>3 DEF RotateReturns, ListReturns, DeviceReturns, DataReturns, EndRpc, Begin
  <2>3. QED
    BY <2>1, <2>2
<1>4. CASE RemoveReturns \/ with_client_retry
  BY <1>4 DEF RemoveReturns, with_client_retry, Begin, opVars
<1>5. CASE VoucherReturns
  BY <1>5 DEF VoucherReturns, Begin, Operations!NestedRefresh,
              Operations!set_operation_running, NoOp, Operations!NoOp
<1>6. CASE RpcFails
  <2>1. UNCHANGED pending_push_confirmation
    BY <1>6 DEF RpcFails, opVars, Operations!Failed, Operations!set_operation_failed
  <2>2. reply' = "none"
    BY <1>6 DEF RpcFails, EndRpc, Begin
  <2>3. QED
    BY <2>1, <2>2
<1>7. CASE set_device
  <2>1. pending_push_confirmation' = NoOp
    BY <1>0, <1>7
    DEF set_device, Operations!resolve_pending_for_device, Operations!Resolve,
        Operations!KeepWaiting, NoOp, Coupled
  <2>2. rpc' \notin {"login", "logout"}
    BY <1>7, ReceiveSteps
  <2>3. QED
    BY <2>1, <2>2
<1>8. CASE SomebodyElseActs \/ FeedBreaks \/ FeedResumes \/ UNCHANGED vars
  BY <1>8 DEF SomebodyElseActs, FeedBreaks, FeedResumes, vars, opVars, rpcVars
<1>9. QED
  BY <1>1, <1>2, <1>3, <1>4, <1>5, <1>6, <1>7, <1>8 DEF Next, Call

LEMMA PendsIdleStep ==
    ASSUME SessionInv, PendsIdle, [Next]_vars
    PROVE  PendsIdle'
<1>1. CASE ChangeReturns
  BY <1>1 DEF ChangeReturns, EndRpc, Begin, PendsIdle
<1>2. CASE ExecuteChange
  BY <1>2 DEF ExecuteChange, Answers, opVars, PendsIdle
<1>3. CASE UNCHANGED pending_push_confirmation /\ rpc' # "none" /\ rpc = "none"
  <2>1. User \/ set_device
    <3>1. CASE Call
      BY <1>3, <3>1, Zenon
      DEF Call, SessionInv, ExecuteQuery, ExecuteChange, ExecuteRefused, ChangeReturns,
          RotateReturns, ListReturns, RemoveReturns, VoucherReturns, DeviceReturns,
          DataReturns, with_client_retry, RpcFails, Idle
    <3>2. CASE SomebodyElseActs \/ FeedBreaks \/ FeedResumes \/ UNCHANGED vars
      BY <1>3, <3>2 DEF SomebodyElseActs, FeedBreaks, FeedResumes, vars, rpcVars
    <3>3. QED
      BY <3>1, <3>2 DEF Next
  <2>2. CASE set_device
    BY <1>3, <2>2, OperationFacts
    DEF set_device, Operations!resolve_pending_for_device, Operations!Resolve,
        Operations!KeepWaiting, NoOp, SessionInv, Coupled, PendsIdle
  <2>3. CASE User
    <3>1. \E op \in UserOps : Operations!Start(op)
      BY <1>3, <2>3
      DEF User, OpenPopup, ClosePopup, login, logout, submit_voucher, rotate_wireguard_key,
          Confirm, list_devices, remove_device, LeaveSubPage, rpcVars, Operations!Start
    <3>2. QED
      BY <3>1, LineSteps DEF PendsIdle
  <2>4. QED
    BY <2>1, <2>2, <2>3
<1>4. QED
  BY <1>1, <1>2, <1>3, WaitSteps DEF PendsIdle

LEMMA CleanSteps ==
    ASSUME SessionInv, [Next]_vars
    PROVE  ExecuteChange \/ UNCHANGED clean
<1>1. CASE User
  BY <1>1 DEF User, OpenPopup, ClosePopup, login, logout, submit_voucher, rotate_wireguard_key,
         Confirm, list_devices, remove_device, LeaveSubPage, histVars
<1>2. CASE Call
  BY <1>2 DEF Call, ExecuteQuery, ExecuteRefused, ChangeReturns, RotateReturns, ListReturns,
         RemoveReturns, VoucherReturns, DeviceReturns, DataReturns, with_client_retry,
         RpcFails, histVars
<1>3. CASE SomebodyElseActs \/ set_device \/ FeedBreaks \/ FeedResumes \/ UNCHANGED vars
  BY <1>3 DEF SomebodyElseActs, set_device, FeedBreaks, FeedResumes, vars, histVars
<1>4. QED
  BY <1>1, <1>2, <1>3 DEF Next

LEMMA VerdictStep ==
    ASSUME SessionInv, VerdictInv, [Next]_vars
    PROVE  VerdictInv'
<1> USE OperationFacts DEF Undecided
<1>0. TypeOK /\ Coupled /\ PendsIdle /\ PendsIdle' /\ NoOp \notin DeviceOps
  BY PendsIdleStep DEF SessionInv, VerdictInv
<1>1. CASE ExecuteChange
  <2>1. pending_push_confirmation' = NoOp /\ rpc' = rpc /\ clean' = (events = <<>>)
    BY <1>0, <1>1 DEF ExecuteChange, Answers, opVars, PendsIdle, Coupled
  <2>2. PICK state \in DeviceState :
           Pushes(state) /\ (Taken' => (LoggedIn(state) <=> rpc = "login"))
    <3>1. UNCHANGED device
      BY <1>1 DEF ExecuteChange, Answers, infoVars
    <3>2. \E state \in DeviceState : /\ Becomes(state) /\ Near(daemon, state)
                                     /\ Taken' => (LoggedIn(state) <=> rpc = "login")
      BY <1>0, <1>1, <2>1, DeviceFacts
      DEF ExecuteChange, Coupled, Near, TypeOK, Taken, LoggedIn
    <3>3. QED
      BY <3>1, <3>2 DEF Pushes
  <2>3. ~missed' => events' # <<>>
    BY <2>2, PushSteps
  <2>4. (clean' /\ inOrder') => events' # <<>> /\ events'[1] = state
    BY <2>1, <2>2, PushSteps
  <2>5. WantsLogin' <=> rpc = "login"
    BY <2>1 DEF WantsLogin, NoOp, Operations!NoOp
  <2>6. ~Undecided'
    BY <1>0, <2>1
  <2>7. (Taken' /\ clean' /\ inOrder') =>
           events' # <<>> /\ (LoggedIn(events'[1]) <=> WantsLogin')
    BY <2>2, <2>4, <2>5, <2>6
  <2>8. QED
    BY <1>0, <2>3, <2>6, <2>7 DEF VerdictInv, LoggedIn
<1>2. CASE ChangeReturns
  <2>1. UNCHANGED <<events, missed, clean, inOrder>> /\ Taken
    BY <1>2 DEF ChangeReturns, feedVars, histVars, Taken
  <2>2. pending_push_confirmation' = awaiting /\ rpc' = "none"
    BY <1>2 DEF ChangeReturns, Operations!Accepted, EndRpc, Begin
  <2>3. WantsLogin' <=> WantsLogin
    BY <1>0, <1>2, <2>2 DEF WantsLogin, Coupled, PendsIdle, ChangeReturns, NoOp, Operations!NoOp
  <2>4. QED
    BY <1>0, <2>1, <2>2, <2>3 DEF VerdictInv
<1>3. CASE UNCHANGED pending_push_confirmation /\ (Taken' => UNCHANGED <<rpc, reply>>)
           /\ UNCHANGED clean
  <2>1. SUFFICES ASSUME Undecided' \/ Taken'
                 PROVE  /\ ~missed' => events' # <<>>
                        /\ (clean' /\ inOrder') =>
                              events' # <<>> /\ (LoggedIn(events'[1]) <=> WantsLogin')
    BY <1>0 DEF VerdictInv, LoggedIn
  <2>2. Undecided \/ Taken
    BY <1>3, <2>1 DEF Taken
  <2>3. WantsLogin' <=> WantsLogin
    <3>1. CASE Taken'
      BY <1>3, <3>1 DEF WantsLogin
    <3>2. CASE Undecided'
      BY <1>0, <1>3, <3>2 DEF WantsLogin, PendsIdle, NoOp, Operations!NoOp
    <3>3. QED
      BY <2>1, <3>1, <3>2
  <2>4. /\ ~missed => events # <<>>
        /\ (clean /\ inOrder) => events # <<>> /\ (LoggedIn(events[1]) <=> WantsLogin)
    BY <2>2 DEF VerdictInv
  <2>5. CASE \E state \in DeviceState : Pushes(state)
    <3>1. PICK state \in DeviceState : Pushes(state)
      BY <2>5
    <3>2. (~missed' => events' # <<>>) /\ (inOrder' => inOrder /\ subscribed)
          /\ (subscribed => events' # <<>> /\ (events # <<>> => events'[1] = events[1]))
      BY <3>1, PushSteps
    <3>3. QED
      BY <1>3, <2>3, <2>4, <3>2
  <2>6. CASE DeviceReturns \/ DataReturns
    <3>1. UNCHANGED <<events, missed>>
      BY <2>6 DEF DeviceReturns, DataReturns, feedVars
    <3>2. QED
      BY <1>3, <2>3, <2>4, <3>1, OrderSteps
  <2>7. CASE set_device
    <3>1. ~Taken'
      BY <2>7, ReceiveSteps DEF Taken
    <3>2. pending_push_confirmation' \notin DeviceOps
      BY <1>0, <2>7
      DEF set_device, Operations!resolve_pending_for_device, Operations!Resolve,
          Operations!KeepWaiting, NoOp, Coupled
    <3>3. QED
      BY <2>1, <3>1, <3>2
  <2>8. CASE FeedBreaks
    <3>1. events' = events \/ (missed' /\ ~inOrder')
      BY <2>8 DEF FeedBreaks
    <3>2. (missed => missed') /\ (inOrder' => inOrder)
      BY <2>8 DEF FeedBreaks
    <3>3. QED
      BY <1>3, <2>3, <2>4, <3>1, <3>2
  <2>9. CASE UNCHANGED <<daemon, events, missed, device, inOrder, clean>>
    BY <2>3, <2>4, <2>9
  <2>10. QED
    BY <2>5, <2>6, <2>7, <2>8, <2>9, FeedSteps
<1>4. CASE pending_push_confirmation' = NoOp /\ ~Taken'
  BY <1>0, <1>4 DEF VerdictInv
<1>5. QED
  BY <1>0, <1>1, <1>2, <1>3, <1>4, WaitSteps, CleanSteps

LEMMA VerdictsHold == Spec => []VerdictInv
<1>1. Init => VerdictInv
  BY OperationFacts
  DEF Init, Operations!OpInit, VerdictInv, PendsIdle, Undecided, Taken, NoOp
<1>2. QED
  BY <1>1, VerdictStep, TypesHold, PTL DEF Spec

\* An accepted login or logout never waits in vain: a push that decides it is
\* under way, or the loss of one is known (start_push_op_unit with
\* PendingPushMatch::Device).
THEOREM LoginIsAnswered == Spec => []VerdictStillComing
<1>1. VerdictInv => VerdictStillComing
  BY DEF VerdictInv, VerdictStillComing, Undecided
<1>2. QED
  BY <1>1, VerdictsHold, PTL

\* The push that decides an accepted login or logout is the one it caused, so
\* the verdict is Success, when nothing was under way as the daemon took it
\* (resolve_pending_for_device).
THEOREM LoginSucceeds == Spec => AcceptedSucceeds
<1>1. ASSUME SessionInv, VerdictInv, [Next]_vars,
             inOrder, clean, Undecided, pending_push_confirmation' = NoOp, awaiting' = NoOp
      PROVE  operation_status'.state = "Success"
  <2> USE OperationFacts DEF Undecided
  <2>0. Coupled /\ PendsIdle /\ pending_push_confirmation # NoOp /\ rpc = "none"
    BY <1>1 DEF SessionInv, VerdictInv, PendsIdle
  <2>1. CASE set_device
    <3>1. events # <<>> /\ (LoggedIn(events[1]) <=> pending_push_confirmation = "Login")
      BY <1>1, <2>0 DEF VerdictInv, WantsLogin
    <3>2. Head(events) = events[1]
      BY <1>1, <2>1, ReceiveSteps
    <3>3. Operations!resolve_pending_for_device(LoggedIn(Head(events)))
      BY <2>1 DEF set_device
    <3>4. Operations!Resolve("Success")
      BY <1>1, <3>1, <3>2, <3>3 DEF Operations!resolve_pending_for_device, LoggedIn
    <3>5. QED
      BY <3>4 DEF Operations!Resolve, Operations!Status
  <2>2. CASE User
    <3>1. (\E op \in UserOps : Operations!Start(op)) \/ UNCHANGED pending_push_confirmation
      BY <2>2
      DEF User, OpenPopup, ClosePopup, login, logout, submit_voucher, rotate_wireguard_key,
          Confirm, list_devices, remove_device, LeaveSubPage, opVars, Operations!Start,
          Operations!Reject, Operations!set_operation_failed
    <3>2. QED
      BY <1>1, <2>0, <3>1, LineSteps
  <2>3. CASE Call
    BY <2>0, <2>3, Zenon
    DEF Call, ExecuteQuery, ExecuteChange, ExecuteRefused, ChangeReturns, RotateReturns,
        ListReturns, RemoveReturns, VoucherReturns, DeviceReturns, DataReturns,
        with_client_retry, RpcFails, Idle, Coupled
  <2>4. CASE SomebodyElseActs \/ FeedBreaks \/ FeedResumes \/ UNCHANGED vars
    BY <1>1, <2>0, <2>4 DEF SomebodyElseActs, FeedBreaks, FeedResumes, vars, opVars
  <2>5. QED
    BY <1>1, <2>1, <2>2, <2>3, <2>4 DEF Next
<1>2. SessionInv /\ VerdictInv /\ [Next]_vars =>
        [(inOrder /\ clean /\ Undecided /\ pending_push_confirmation' = NoOp /\ awaiting' = NoOp) =>
            operation_status'.state = "Success"]_vars
  BY <1>1
<1>3. QED
  BY <1>2, TypesHold, VerdictsHold, PTL DEF Spec, AcceptedSucceeds
=============================================================================
