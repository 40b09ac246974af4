-------------------------- MODULE ConnectionProofs --------------------------
(***************************************************************************)
(* Proofs about module Connection, for any length of the feed, with or     *)
(* without faults, retries and other clients: the status on screen catches *)
(* up with the daemon's, an operation that waits has a push to wait for,   *)
(* and a verdict is earned.                                                *)
(***************************************************************************)
EXTENDS Connection, SequenceLemmas

-----------------------------------------------------------------------------
(* Sets of operations and states.                                          *)

LEMMA OperationFacts ==
    /\ NoOp \notin Operations!Operation
    /\ TunnelOps = {"Connect", "Disconnect", "Reconnect"}
    /\ TunnelOps \subseteq Operations!PushOps
    /\ Operations!PushOps \subseteq Operations!Operation
    /\ TunnelOps \intersect Operations!Validated = {}
    /\ TunnelOps \intersect Operations!PullOps = {}
    /\ TunnelState = {"Disconnected", "Connecting", "Connected", "Disconnecting", "Error"}
BY DEF NoOp, Operations!NoOp, Operations!Operation, Operations!PushOps,
       Operations!PullOps, Operations!TunnelOps, Operations!DeviceOps,
       Operations!SettingsOps, Operations!Validated, TunnelOps,
       TunnelState, Operations!TunnelState

LEMMA StatusType ==
    ASSUME NEW state \in {"Idle", "Running", "Success", "Failed"},
           NEW op \in Operations!Operation \union {NoOp}
    PROVE  Operations!Status(state, op) \in Operations!OperationStatus
BY DEF Operations!Status, Operations!OperationStatus, NoOp

-----------------------------------------------------------------------------
(* What the steps do to the tunnel and its feed.                           *)

\* The tunnel enters a state and the daemon pushes it.
Published ==
    /\ daemon' \in TunnelState
    /\ Feed!Publish(daemon')
    /\ missed' = ~subscribed
    /\ UNCHANGED <<subscribed, connection_status>>

Quiet == UNCHANGED <<daemon, subscribed, events, missed, connection_status>>

\* Only `after' may change: the daemon turns round, or has nothing to do.
LEMMA TunnelSteps ==
    ASSUME TypeOK, UNCHANGED connection_status,
           \/ ConnectTunnel
           \/ DisconnectTunnel
           \/ ReconnectTunnel
           \/ daemon = "Connected" /\ (Enters("Connecting") \/ Enters("Connected"))
                 /\ UNCHANGED after
    PROVE  (Published \/ Quiet) /\ after' \in {"Connecting", "Disconnected"}
BY OperationFacts
DEF ConnectTunnel, DisconnectTunnel, ReconnectTunnel, Enters, Published, Quiet,
    Feed!Publish, feedVars, tunnelVars, TypeOK

LEMMA MoveSteps ==
    ASSUME TypeOK, TunnelMoves
    PROVE  Published
BY OperationFacts DEF TunnelMoves, Enters, Published, Feed!Publish, TypeOK

LEMMA ExecuteSteps ==
    ASSUME TypeOK, Execute
    PROVE  (Published \/ Quiet) /\ after' \in {"Connecting", "Disconnected"}
<1>1. CASE UNCHANGED <<feedVars, tunnelVars, missed>>
  BY <1>1 DEF Execute, Quiet, feedVars, tunnelVars, TypeOK
<1>2. CASE ConnectTunnel \/ DisconnectTunnel \/ ReconnectTunnel
  BY <1>2, TunnelSteps DEF Execute
<1>3. QED
  BY <1>1, <1>2 DEF Execute

\* The steps, by what they do to the cache, the feed and the daemon.
LEMMA FeedSteps ==
    ASSUME TypeOK, [Next]_vars
    PROVE  \/ Published
           \/ UNCHANGED <<daemon, events, missed, connection_status>>
           \/ set_connection_status
           \/ FeedBreaks
<1> USE DEF feedVars, tunnelVars, histVars
<1>1. CASE User
  BY <1>1 DEF User, connect, disconnect, reconnect, Begin, OpenConfirm, CloseConfirm
<1>2. CASE TunnelMoves
  BY <1>2, MoveSteps
<1>3. CASE SomebodyElseActs
  BY <1>3, TunnelSteps DEF SomebodyElseActs, Quiet
<1>4. CASE Execute
  BY <1>4, ExecuteSteps DEF Quiet
<1>5. CASE CallReturns \/ with_client_retry \/ CallFails
  BY <1>5 DEF CallReturns, with_client_retry, CallFails
<1>6. CASE FeedResumes
  BY <1>6 DEF FeedResumes, Feed!Resubscribe
<1>7. CASE UNCHANGED vars
  BY <1>7 DEF vars
<1>8. QED
  BY <1>1, <1>2, <1>3, <1>4, <1>5, <1>6, <1>7 DEF Next, Call

-----------------------------------------------------------------------------
(* Types.                                                                  *)

LEMMA PublishType ==
    ASSUME Feed!FeedTypeOK, Published
    PROVE  Feed!FeedTypeOK'
BY PublishedFeed DEF Published, Feed!Publish, Feed!FeedTypeOK

\* The drivers and resolvers keep the status line's types.
LEMMA LineTypes ==
    ASSUME Operations!OpTypeOK, NEW op \in TunnelOps, NEW status,
           \/ Operations!Start(op)
           \/ Operations!Accepted(op)
           \/ Operations!AlreadyThere(op)
           \/ Operations!Failed(op)
           \/ Operations!resolve_pending_for_tunnel(status) /\ UNCHANGED awaiting
           \/ UNCHANGED opVars
    PROVE  Operations!OpTypeOK'
<1> USE OperationFacts, StatusType DEF Operations!OpTypeOK, NoOp
<1>1. CASE Operations!Start(op)
  BY <1>1 DEF Operations!Start, Operations!set_operation_running
<1>2. CASE Operations!Accepted(op)
  BY <1>2 DEF Operations!Accepted
<1>3. CASE Operations!AlreadyThere(op)
  BY <1>3 DEF Operations!AlreadyThere, Operations!set_operation_success
<1>4. CASE Operations!Failed(op)
  BY <1>4 DEF Operations!Failed, Operations!set_operation_failed
<1>5. CASE Operations!resolve_pending_for_tunnel(status) /\ UNCHANGED awaiting
  BY <1>5 DEF Operations!resolve_pending_for_tunnel, Operations!Resolve,
              Operations!KeepWaiting
<1>6. CASE UNCHANGED opVars
  BY <1>6 DEF opVars
<1>7. QED
  BY <1>1, <1>2, <1>3, <1>4, <1>5, <1>6

\* Only tunnel operations are ever in flight.
InFlight == awaiting \in TunnelOps \union {NoOp}

LEMMA StepTypes ==
    ASSUME TypeOK, InFlight, [Next]_vars
    PROVE  TypeOK' /\ InFlight'
<1> USE OperationFacts DEF InFlight
<1>0. Operations!OpTypeOK /\ Feed!FeedTypeOK
  BY DEF TypeOK
<1>1. CASE User
  <2>1. PICK op \in TunnelOps : Operations!Start(op) \/ UNCHANGED opVars
    BY <1>1 DEF User, connect, disconnect, reconnect, Begin, OpenConfirm, CloseConfirm
  <2>2. Operations!OpTypeOK'
    BY <1>0, <2>1, LineTypes
  <2>3. InFlight'
    BY <2>1 DEF Operations!Start, opVars
  <2>4. UNCHANGED <<feedVars, tunnelVars, connection_status, histVars>>
    BY <1>1 DEF User, connect, disconnect, reconnect, Begin, OpenConfirm, CloseConfirm
  <2>5. confirming' \in BOOLEAN /\ attempt' \in 1 .. 2 /\ reply' \in Reply
    <3>1. attempt \in 1 .. 2 /\ reply \in Reply
      BY DEF TypeOK
    <3>2. (attempt' = 1 /\ reply' = "none") \/ (attempt' = attempt /\ reply' = reply)
      BY <1>1 DEF User, connect, disconnect, reconnect, Begin, OpenConfirm, CloseConfirm, rpcVars
    <3>3. confirming' \in BOOLEAN
      BY <1>1 DEF User, connect, disconnect, reconnect, Begin, OpenConfirm, CloseConfirm,
                  TypeOK
    <3>4. CASE attempt' = 1 /\ reply' = "none"
      BY <3>3, <3>4 DEF Reply
    <3>5. CASE attempt' = attempt /\ reply' = reply
      BY <3>1, <3>3, <3>5
    <3>6. QED
      BY <3>2, <3>4, <3>5
  <2>6. QED
    BY <2>2, <2>3, <2>4, <2>5 DEF TypeOK, Feed!FeedTypeOK, feedVars, tunnelVars, histVars
<1>2. CASE TunnelMoves
  <2>1. Feed!FeedTypeOK' /\ daemon' \in TunnelState /\ missed' \in BOOLEAN
    BY <1>0, <1>2, MoveSteps, PublishType DEF Published, Feed!FeedTypeOK
  <2>2. UNCHANGED <<after, opVars, connection_status, confirming, rpcVars, clean, alone>>
        /\ arrived' \in BOOLEAN
    BY <1>2 DEF TunnelMoves, TypeOK
  <2>3. QED
    BY <2>1, <2>2 DEF TypeOK, Operations!OpTypeOK, opVars, rpcVars
<1>3. CASE SomebodyElseActs
  <2>1. (Published \/ Quiet) /\ after' \in {"Connecting", "Disconnected"}
    BY <1>3, TunnelSteps DEF SomebodyElseActs
  <2>2. Feed!FeedTypeOK' /\ daemon' \in TunnelState /\ missed' \in BOOLEAN
    BY <1>0, <2>1, PublishType DEF Published, Quiet, Feed!FeedTypeOK, TypeOK
  <2>3. UNCHANGED <<opVars, connection_status, confirming, rpcVars, clean>>
        /\ arrived' \in BOOLEAN /\ alone' \in BOOLEAN
    BY <1>3 DEF SomebodyElseActs, TypeOK
  <2>4. QED
    BY <2>1, <2>2, <2>3 DEF TypeOK, Operations!OpTypeOK, opVars, rpcVars
<1>4. CASE Execute
  <2>1. (Published \/ Quiet) /\ after' \in {"Connecting", "Disconnected"}
    BY <1>4, ExecuteSteps
  <2>2. Feed!FeedTypeOK' /\ daemon' \in TunnelState /\ missed' \in BOOLEAN
    BY <1>0, <2>1, PublishType DEF Published, Quiet, Feed!FeedTypeOK, TypeOK
  <2>3. UNCHANGED <<opVars, connection_status, confirming, attempt, alone>>
        /\ reply' \in Reply /\ clean' \in BOOLEAN /\ arrived' \in BOOLEAN
    BY <1>4 DEF Execute, Reply, Decides
  <2>4. QED
    BY <2>1, <2>2, <2>3 DEF TypeOK, Operations!OpTypeOK, opVars
<1>5. CASE CallReturns \/ CallFails
  <2>1. /\ \/ Operations!Accepted(awaiting)
           \/ Operations!AlreadyThere(awaiting)
           \/ Operations!Failed(awaiting)
        /\ awaiting \in TunnelOps
    BY <1>5 DEF CallReturns, CallFails, Operations!Accepted, Operations!AlreadyThere,
                TunnelOps
  <2>2. Operations!OpTypeOK' /\ awaiting' = NoOp
    BY <1>0, <2>1, LineTypes
    DEF Operations!Accepted, Operations!AlreadyThere, Operations!Failed, NoOp
  <2>3. QED
    BY <1>5, <2>2 DEF CallReturns, CallFails, TypeOK, Feed!FeedTypeOK, Reply,
                      feedVars, tunnelVars, histVars
<1>6. CASE with_client_retry
  <2>1. attempt' \in 1 .. 2 /\ reply' \in Reply
    BY <1>6 DEF with_client_retry, Reply
  <2>2. UNCHANGED <<opVars, feedVars, tunnelVars, connection_status, confirming, histVars>>
    BY <1>6 DEF with_client_retry
  <2>3. QED
    BY <2>1, <2>2 DEF TypeOK, Operations!OpTypeOK, Feed!FeedTypeOK,
                      opVars, feedVars, tunnelVars, histVars
<1>7. CASE set_connection_status
  <2>1. Operations!resolve_pending_for_tunnel(Head(events)) /\ UNCHANGED awaiting
        /\ "Connect" \in TunnelOps
    BY <1>7 DEF set_connection_status
  <2>2. Operations!OpTypeOK'
    BY <1>0, <2>1, LineTypes
  <2>3. Feed!FeedTypeOK' /\ connection_status' \in TunnelState
    BY <1>0, <1>7, ReceivedFeed DEF set_connection_status, Feed!Receive, Feed!FeedTypeOK
  <2>4. QED
    BY <1>7, <2>2, <2>3 DEF set_connection_status, TypeOK, tunnelVars, rpcVars, histVars
<1>8. CASE FeedBreaks
  <2>1. PICK n \in 0 .. Len(events) : events' = SubSeq(events, 1, n)
    BY <1>8 DEF FeedBreaks, Feed!Break
  <2>2. Feed!FeedTypeOK'
    BY <1>0, <1>8, <2>1, BrokenFeed DEF FeedBreaks, Feed!Break, Feed!FeedTypeOK
  <2>3. QED
    BY <1>8, <2>2 DEF FeedBreaks, TypeOK, Operations!OpTypeOK, opVars, tunnelVars, rpcVars
<1>9. CASE FeedResumes
  BY <1>9 DEF FeedResumes, Feed!Resubscribe, Feed!FeedTypeOK, TypeOK,
              Operations!OpTypeOK, opVars, tunnelVars, rpcVars, histVars
<1>10. CASE UNCHANGED vars
  BY <1>10 DEF vars, opVars, feedVars, tunnelVars, rpcVars, histVars, TypeOK,
               Operations!OpTypeOK, Feed!FeedTypeOK
<1>11. QED
  BY <1>1, <1>2, <1>3, <1>4, <1>5, <1>6, <1>7, <1>8, <1>9, <1>10 DEF Next, Call

LEMMA TypesHold == Spec => [](TypeOK /\ InFlight)
<1>1. Init => TypeOK /\ InFlight
  <2> SUFFICES ASSUME Init PROVE TypeOK /\ InFlight
    OBVIOUS
  <2>1. Operations!OpTypeOK /\ InFlight
    BY DEF Init, Operations!OpInit, Operations!OpTypeOK, InFlight, NoOp,
           Operations!OperationStatus, Operations!Status
  <2>2. Feed!FeedTypeOK
    BY DEF Init, Feed!FeedInit, Feed!FeedTypeOK
  <2>3. clean \in BOOLEAN /\ arrived \in BOOLEAN /\ confirming \in BOOLEAN
        /\ alone \in BOOLEAN /\ missed \in BOOLEAN
    BY Zenon DEF Init
  <2>4. attempt \in 1 .. 2 /\ reply \in Reply
    BY DEF Init, Reply
  <2>5. daemon \in TunnelState /\ after \in {"Connecting", "Disconnected"}
        /\ connection_status \in TunnelState \union {NoStatus}
    BY DEF Init
  <2>6. QED
    BY <2>1, <2>2, <2>3, <2>4, <2>5 DEF TypeOK
<1>2. (TypeOK /\ InFlight) /\ [Next]_vars => (TypeOK /\ InFlight)'
  BY StepTypes
<1>3. QED
  BY <1>1, <1>2, PTL DEF Spec

-----------------------------------------------------------------------------
(* The cache follows the daemon.                                           *)

LEMMA CatchesUpStep ==
    ASSUME TypeOK, FeedCatchesUp, [Next]_vars
    PROVE  FeedCatchesUp'
<1> USE DEF FeedCatchesUp, Newest
<1>0. events \in Seq(TunnelState)
  BY DEF TypeOK, Feed!FeedTypeOK
<1>1. CASE UNCHANGED <<daemon, events, missed, connection_status>>
  BY <1>1
<1>2. CASE Published
  <2>1. subscribed => events' = Append(events, daemon')
    BY <1>2 DEF Published, Feed!Publish
  <2>2. CASE subscribed
    <3>1. Append(events, daemon') # <<>> /\ Last(Append(events, daemon')) = daemon'
      BY <1>0, <1>2, PublishedFeed DEF Published
    <3>2. QED
      BY <2>1, <2>2, <3>1, Zenon
  <2>3. QED
    BY <1>2, <2>2 DEF Published
<1>3. CASE set_connection_status
  <2>1. events # <<>> /\ events' = Tail(events) /\ connection_status' = Head(events)
        /\ UNCHANGED <<daemon, missed>>
    BY <1>3 DEF set_connection_status, Feed!Receive, tunnelVars, histVars
  <2>2. Newest' = Last(events)
    BY <1>0, <2>1, ReceivedFeed
  <2>3. QED
    BY <2>1, <2>2
<1>4. CASE FeedBreaks
  BY <1>4 DEF FeedBreaks, tunnelVars
<1>5. QED
  BY <1>1, <1>2, <1>3, <1>4, FeedSteps

\* Unless the loss of a push is known, draining the feed makes the status on
\* screen the daemon's, however the tunnel moves and whoever moves it
\* (set_connection_status as the only writer of App.connection_status).
THEOREM StatusCatchesUp == Spec => []FeedCatchesUp
<1>1. Init => FeedCatchesUp
  BY DEF Init, Feed!FeedInit, FeedCatchesUp, Newest
<1>2. QED
  BY <1>1, CatchesUpStep, TypesHold, PTL DEF Spec

-----------------------------------------------------------------------------
(* What an operation waits for.                                            *)

\* An RPC in flight excludes a pending operation, and only it has a reply.
OneAtATime ==
    /\ awaiting # NoOp => pending_push_confirmation = NoOp
    /\ awaiting = NoOp => reply = "none"

\* The daemon has taken the current operation, and set the tunnel in motion.
Taken == awaiting # NoOp => reply # "none"
Moved == awaiting # NoOp => reply = "moved"

\* ArrivalStillComing from the moment the daemon takes the call.
ArrivalInv ==
    (Moved /\ Decides(Current, daemon) /\ ~missed) =>
        \E i \in DOMAIN events : Decides(Current, events[i])

\* From a clean call on, a push under way that decides it was published since.
EarnedInv ==
    (Taken /\ clean) => \A i \in DOMAIN events : Decides(Current, events[i]) => arrived

WaitInv == OneAtATime /\ ArrivalInv /\ EarnedInv

\* Publishing the state of the daemon keeps what is said of the feed.
LEMMA PublishWait ==
    ASSUME TypeOK, ArrivalInv, EarnedInv, Published, UNCHANGED <<opVars, rpcVars, clean>>,
           arrived' = (arrived \/ Decides(Current, daemon'))
    PROVE  ArrivalInv' /\ EarnedInv'
<1>0. events \in Seq(TunnelState) /\ daemon' \in TunnelState
  BY DEF TypeOK, Feed!FeedTypeOK, Published
<1>1. UNCHANGED <<Current, Moved, Taken>>
  BY DEF Current, Moved, Taken, opVars, rpcVars
<1>2. CASE subscribed
  <2>1. events' = Append(events, daemon')
    BY <1>2 DEF Published, Feed!Publish
  <2>2. /\ DOMAIN events' = DOMAIN events \union {Len(events) + 1}
        /\ \A i \in DOMAIN events : events'[i] = events[i]
        /\ events'[Len(events) + 1] = daemon'
    BY <1>0, <2>1, PublishedFeed
  <2>3. QED
    BY <1>1, <2>2 DEF ArrivalInv, EarnedInv, Decides
<1>3. CASE ~subscribed
  BY <1>1, <1>3 DEF Published, Feed!Publish, ArrivalInv, EarnedInv, Decides
<1>4. QED
  BY <1>2, <1>3

LEMMA StartWait ==
    ASSUME InFlight, OneAtATime, NEW op \in TunnelOps, Operations!Start(op), reply' = "none"
    PROVE  (OneAtATime /\ ArrivalInv /\ EarnedInv)'
BY OperationFacts
DEF Operations!Start, Operations!set_operation_running, OneAtATime, ArrivalInv,
    EarnedInv, Moved, Taken, NoOp, Operations!NoOp

\* The daemon takes a call.
LEMMA ExecuteWait ==
    ASSUME TypeOK, InFlight, Execute
    PROVE  ArrivalInv' /\ EarnedInv'
<1> USE OperationFacts
<1>0. events \in Seq(TunnelState)
  BY DEF TypeOK, Feed!FeedTypeOK
<1>1. /\ awaiting # NoOp /\ UNCHANGED opVars
      /\ Current = awaiting /\ Current' = awaiting
      /\ clean' = (events = <<>>) /\ arrived' = Decides(awaiting, daemon')
  BY DEF Execute, Current, opVars
<1>2. CASE Published
  <2>1. daemon' \in TunnelState
    BY <1>2 DEF Published
  <2>2. CASE subscribed
    <3>1. events' = Append(events, daemon')
      BY <1>2, <2>2 DEF Published, Feed!Publish
    <3>2. /\ DOMAIN events' = DOMAIN events \union {Len(events) + 1}
          /\ events'[Len(events) + 1] = daemon'
      BY <1>0, <2>1, <3>1, PublishedFeed
    <3>3. events = <<>> => DOMAIN events' = {1} /\ events'[1] = daemon'
      BY <1>0, <3>2
    <3>4. QED
      BY <1>1, <3>2, <3>3 DEF ArrivalInv, EarnedInv
  <2>3. CASE ~subscribed
    <3>1. events' = events /\ missed'
      BY <1>2, <2>3 DEF Published, Feed!Publish
    <3>2. events = <<>> => DOMAIN events = {}
      BY <1>0
    <3>3. QED
      BY <1>1, <3>1, <3>2 DEF ArrivalInv, EarnedInv
  <2>4. QED
    BY <2>2, <2>3
<1>3. CASE Quiet
  <2>1. events = <<>> => DOMAIN events = {}
    BY <1>0
  <2>2. EarnedInv'
    BY <1>1, <1>3, <2>1 DEF EarnedInv, Quiet
  <2>3. reply' = "moved" => daemon' = "Disconnecting"
    BY <1>3 DEF Execute, Quiet, ConnectTunnel, DisconnectTunnel, ReconnectTunnel,
                Enters, TypeOK
  <2>4. ~Decides(awaiting, "Disconnecting")
    BY DEF Decides, Operations!Target
  <2>5. QED
    BY <1>1, <2>2, <2>3, <2>4 DEF ArrivalInv, Moved, opVars
<1>4. QED
  BY <1>2, <1>3, ExecuteSteps

\* The push at the head of the feed: it decides the pending operation, or the
\* one that will is behind it.
LEMMA PushWait ==
    ASSUME TypeOK, WaitInv, set_connection_status
    PROVE  /\ ArrivalInv' /\ EarnedInv'
           /\ (clean /\ (PushDecides("Success") \/ PushDecides("Failed"))) => arrived
<1> DEFINE pending == pending_push_confirmation
<1>0. events \in Seq(TunnelState) /\ events # <<>> /\ events' = Tail(events)
  BY DEF TypeOK, Feed!FeedTypeOK, set_connection_status, Feed!Receive
<1>1. /\ Head(events) = events[1] /\ 1 \in DOMAIN events
      /\ \A i \in DOMAIN events' : i + 1 \in DOMAIN events /\ events'[i] = events[i + 1]
      /\ \A i \in DOMAIN events : i # 1 => i - 1 \in DOMAIN events' /\ events'[i - 1] = events[i]
  BY <1>0
<1>2. /\ awaiting = NoOp /\ awaiting' = NoOp
      /\ Current = pending /\ Current' = pending'
      /\ Moved /\ Taken /\ UNCHANGED <<daemon, missed, clean, arrived, reply>>
  BY DEF set_connection_status, Current, Moved, Taken, tunnelVars, rpcVars, histVars
<1>3. CASE Decides(pending, events[1])
  <2>1. pending' = NoOp
    BY <1>1, <1>3
    DEF set_connection_status, Operations!resolve_pending_for_tunnel, Operations!Resolve,
        Decides, TunnelOps, NoOp
  <2>2. \A state : ~Decides(NoOp, state)
    BY OperationFacts DEF Decides
  <2>3. clean => arrived
    BY <1>1, <1>2, <1>3 DEF WaitInv, EarnedInv
  <2>4. QED
    BY <1>2, <2>1, <2>2, <2>3 DEF ArrivalInv, EarnedInv
<1>4. CASE ~Decides(pending, events[1])
  <2>1. UNCHANGED pending
    BY <1>1, <1>4
    DEF set_connection_status, Operations!resolve_pending_for_tunnel,
        Operations!KeepWaiting, Decides, TunnelOps
  <2>2. ArrivalInv'
    BY <1>1, <1>2, <1>4, <2>1 DEF WaitInv, ArrivalInv
  <2>3. EarnedInv'
    BY <1>1, <1>2, <2>1 DEF WaitInv, EarnedInv
  <2>4. ~PushDecides("Success") /\ ~PushDecides("Failed")
    BY <2>1 DEF PushDecides
  <2>5. QED
    BY <2>2, <2>3, <2>4
<1>5. QED
  BY <1>3, <1>4

LEMMA WaitStep ==
    ASSUME TypeOK, InFlight, WaitInv, [Next]_vars
    PROVE  WaitInv'
<1> USE DEF WaitInv
<1>1. CASE User
  <2>1. (\E op \in TunnelOps : Operations!Start(op) /\ reply' = "none")
        \/ UNCHANGED <<opVars, rpcVars, feedVars, tunnelVars, histVars>>
    BY <1>1, OperationFacts
    DEF User, connect, disconnect, reconnect, Begin, OpenConfirm, CloseConfirm
  <2>2. QED
    BY <2>1, StartWait DEF OneAtATime, ArrivalInv, EarnedInv, Moved, Taken, Current,
                           opVars, rpcVars, feedVars, tunnelVars, histVars
<1>2. CASE TunnelMoves
  <2>1. UNCHANGED <<opVars, rpcVars, clean>>
        /\ arrived' = (arrived \/ Decides(Current, daemon'))
    BY <1>2 DEF TunnelMoves
  <2>2. QED
    BY <1>2, <2>1, MoveSteps, PublishWait DEF OneAtATime, opVars, rpcVars
<1>3. CASE SomebodyElseActs
  <2>1. UNCHANGED <<opVars, rpcVars, clean>>
        /\ arrived' = (arrived \/ Decides(Current, daemon'))
    BY <1>3 DEF SomebodyElseActs
  <2>2. Published \/ Quiet
    BY <1>3, TunnelSteps DEF SomebodyElseActs
  <2>3. CASE Quiet
    BY <2>1, <2>3 DEF Quiet, OneAtATime, ArrivalInv, EarnedInv, Moved, Taken, Current,
                      opVars, rpcVars
  <2>4. QED
    BY <2>1, <2>2, <2>3, PublishWait DEF OneAtATime, opVars, rpcVars
<1>4. CASE Execute
  <2>1. OneAtATime'
    BY <1>4 DEF Execute, OneAtATime, opVars
  <2>2. QED
    BY <1>4, <2>1, ExecuteWait
<1>5. CASE CallReturns \/ CallFails
  <2>1. awaiting \in TunnelOps /\ awaiting' = NoOp /\ reply' = "none"
        /\ UNCHANGED <<feedVars, tunnelVars, histVars>>
    BY <1>5, OperationFacts
    DEF CallReturns, CallFails, Operations!Accepted, Operations!AlreadyThere,
        Operations!Failed, TunnelOps, InFlight, NoOp
  <2>2. \/ reply = "moved" /\ pending_push_confirmation' = awaiting
        \/ UNCHANGED pending_push_confirmation
    BY <1>5 DEF CallReturns, CallFails, Operations!Accepted, Operations!AlreadyThere,
                Operations!Failed, Operations!set_operation_success,
                Operations!set_operation_failed
  <2>3. awaiting # NoOp /\ \A state : ~Decides(NoOp, state)
    BY <2>1, OperationFacts DEF Decides
  <2>4. QED
    BY <2>1, <2>2, <2>3 DEF OneAtATime, ArrivalInv, EarnedInv, Moved, Taken, Current,
                            feedVars, tunnelVars, histVars
<1>6. CASE with_client_retry
  BY <1>6 DEF with_client_retry, OneAtATime, ArrivalInv, EarnedInv, Moved, Taken, opVars
<1>7. CASE set_connection_status
  <2>1. OneAtATime'
    BY <1>7 DEF set_connection_status, OneAtATime, rpcVars
  <2>2. QED
    BY <1>7, <2>1, PushWait
<1>8. CASE FeedBreaks
  <2>1. PICK n \in 0 .. Len(events) : events' = SubSeq(events, 1, n)
    BY <1>8 DEF FeedBreaks, Feed!Break
  <2>2. DOMAIN events' \subseteq DOMAIN events /\ \A i \in DOMAIN events' : events'[i] = events[i]
    BY <2>1, BrokenFeed DEF TypeOK, Feed!FeedTypeOK
  <2>3. missed' = (missed \/ events' # events)
        /\ UNCHANGED <<opVars, tunnelVars, rpcVars, clean, arrived>>
    BY <1>8 DEF FeedBreaks
  <2>4. QED
    BY <2>2, <2>3 DEF OneAtATime, ArrivalInv, EarnedInv, Moved, Taken, Current,
                      opVars, tunnelVars, rpcVars
<1>9. CASE FeedResumes
  BY <1>9 DEF FeedResumes, Feed!Resubscribe, OneAtATime, ArrivalInv, EarnedInv, Moved,
              Taken, Current, opVars, tunnelVars, rpcVars, histVars
<1>10. CASE UNCHANGED vars
  BY <1>10 DEF vars, OneAtATime, ArrivalInv, EarnedInv, Moved, Taken, Current,
               opVars, feedVars, tunnelVars, rpcVars, histVars
<1>11. QED
  BY <1>1, <1>2, <1>3, <1>4, <1>5, <1>6, <1>7, <1>8, <1>9, <1>10 DEF Next, Call

LEMMA WaitInvHolds == Spec => []WaitInv
<1>1. Init => WaitInv
  <2> SUFFICES ASSUME Init PROVE WaitInv
    OBVIOUS
  <2>1. \A state : ~Decides(NoOp, state)
    BY OperationFacts DEF Decides
  <2>2. Current = NoOp /\ reply = "none" /\ clean = FALSE /\ awaiting = NoOp
        /\ pending_push_confirmation = NoOp
    BY DEF Init, Operations!OpInit, Current, NoOp
  <2>3. QED
    BY <2>1, <2>2 DEF WaitInv, OneAtATime, ArrivalInv, EarnedInv
<1>2. QED
  BY <1>1, WaitStep, TypesHold, PTL DEF Spec

\* No operation waits past its moment: once the tunnel is where it wanted it,
\* or in Error, the push that ends the wait is under way unless one is lost.
THEOREM WaitsForAPush == Spec => []ArrivalStillComing
<1>1. TypeOK /\ WaitInv => ArrivalStillComing
  <2> SUFFICES ASSUME TypeOK, WaitInv, Decides(pending_push_confirmation, daemon), ~missed
               PROVE  \E i \in DOMAIN events : Decides(pending_push_confirmation, events[i])
    BY DEF ArrivalStillComing
  <2>1. pending_push_confirmation # NoOp
    BY OperationFacts DEF Decides
  <2>2. awaiting = NoOp
    BY <2>1 DEF WaitInv, OneAtATime
  <2>3. QED
    BY <2>2 DEF WaitInv, ArrivalInv, Moved, Current
<1>2. QED
  BY <1>1, TypesHold, WaitInvHolds, PTL

\* A verdict is earned: of a call taken with no push under way, Success or
\* Failed is only shown once the tunnel has been where that puts it.
THEOREM VerdictsAreEarned == Spec => VerdictIsEarned
<1>1. ASSUME TypeOK, InFlight, WaitInv, [Next]_vars,
             clean, PushDecides("Success") \/ PushDecides("Failed")
      PROVE  arrived
  <2>1. /\ awaiting = NoOp /\ awaiting' = NoOp
        /\ pending_push_confirmation # NoOp /\ pending_push_confirmation' = NoOp
    BY <1>1 DEF PushDecides, WaitInv, OneAtATime
  <2>2. CASE set_connection_status
    BY <1>1, <2>2, PushWait
  <2>3. CASE User
    BY <2>1, <2>3, OperationFacts
    DEF User, connect, disconnect, reconnect, Begin, OpenConfirm, CloseConfirm,
        Operations!Start, opVars
  <2>4. CASE CallReturns \/ CallFails
    BY <2>1, <2>4, OperationFacts
    DEF CallReturns, CallFails, Operations!Accepted, Operations!AlreadyThere, TunnelOps
  <2>5. CASE UNCHANGED opVars
    BY <2>1, <2>5 DEF opVars
  <2>6. QED
    BY <1>1, <2>2, <2>3, <2>4, <2>5
    DEF Next, Call, TunnelMoves, SomebodyElseActs, Execute, with_client_retry, FeedBreaks,
        FeedResumes, vars
<1>2. QED
  BY <1>1, TypesHold, WaitInvHolds, PTL DEF Spec, VerdictIsEarned
=============================================================================
