----------------------------- MODULE AppProofs -----------------------------
(***************************************************************************)
(* Proofs about three components of the App whose modules stand alone.     *)
(*                                                                         *)
(* The operation line (Operations): for every choice of operations, with a *)
(* daemon that answers and pushes whatever it likes, the line keeps its    *)
(* type and its invariant.                                                 *)
(*                                                                         *)
(* The event listener (EventListener): for any channel capacity, backoff   *)
(* and number of events, its types - the channel never holds more than its *)
(* capacity, the backoff never exceeds its cap -, that no subscription     *)
(* outlives the task that reads it, and that the listener implements the   *)
(* feed of module EventFeed.                                               *)
(*                                                                         *)
(* The Select-location page (LocationTree, SelectLocation): for any relay  *)
(* lists and settings the daemon pushes, any queries, any widget tables    *)
(* and any height of the terminal, that the walks of the activation        *)
(* handler agree with the rows, that the focus is on the frame and in the  *)
(* window, and that going to the current selection ends there.             *)
(***************************************************************************)
EXTENDS Operations, EventListener, SelectLocation, SequenceLemmas

-----------------------------------------------------------------------------
(* The sets of operations, without their members.                          *)

\* The drivers exclude each other: no operation is confirmed by two kinds of
\* push, none by a push and by its own RPC (the groups of Operation in
\* app/operations.rs by the driver their method calls).
LEMMA DriversAreDisjoint ==
    /\ TunnelOps \intersect DeviceOps = {}
    /\ TunnelOps \intersect SettingsOps = {}
    /\ DeviceOps \intersect SettingsOps = {}
    /\ PushOps \intersect PullOps = {}
BY DEF TunnelOps, DeviceOps, SettingsOps, PullOps, PushOps

\* NoOp, which stands for None, is no operation, and the operations named in
\* the actions are of the kind their driver expects.
LEMMA OperationFacts ==
    /\ NoOp \notin Operation
    /\ Validated \subseteq Operation
    /\ "SubmitVoucher" \in PullOps
    /\ "RefreshAccount" \in PullOps
BY DEF NoOp, Operation, PushOps, PullOps, TunnelOps, DeviceOps, SettingsOps, Validated

\* A well-formed status from its two fields
LEMMA StatusType ==
    ASSUME NEW state \in {"Idle", "Running", "Success", "Failed"},
           NEW op \in Operation \union {NoOp}
    PROVE  /\ Status(state, op) \in OperationStatus
           /\ Status(state, op).state = state
           /\ Status(state, op).op = op
BY DEF Status, OperationStatus

-----------------------------------------------------------------------------
(* Type correctness.                                                       *)

\* Every status the line takes is one of the four with a known operation, and
\* only operations that a push confirms are ever pending.
THEOREM OpTypeCorrect == OpSpec => []OpTypeOK
<1>1. OpInit => OpTypeOK
  BY StatusType DEF OpInit, OpTypeOK
<1>2. OpTypeOK /\ [OpNext]_opVars => OpTypeOK'
  <2> SUFFICES ASSUME OpTypeOK, [OpNext]_opVars
               PROVE  OpTypeOK'
    OBVIOUS
  <2> USE OpsAssumption, StatusType, OperationFacts
  <2>1. ASSUME NEW op \in Ops, Start(op) PROVE OpTypeOK'
    BY <2>1 DEF OpTypeOK, Start, set_operation_running
  <2>2. ASSUME NEW op \in Ops, Reject(op) PROVE OpTypeOK'
    BY <2>2 DEF OpTypeOK, Reject, set_operation_failed
  <2>3. ASSUME NEW op \in Ops, Accepted(op) PROVE OpTypeOK'
    BY <2>3 DEF OpTypeOK, Accepted
  <2>4. ASSUME NEW op \in Ops, AlreadyThere(op) PROVE OpTypeOK'
    BY <2>4 DEF OpTypeOK, AlreadyThere, set_operation_success
  <2>5. ASSUME NEW op \in Ops, Completed(op) PROVE OpTypeOK'
    BY <2>5 DEF OpTypeOK, Completed, set_operation_success
  <2>6. ASSUME NEW op \in Ops, Failed(op) PROVE OpTypeOK'
    BY <2>6 DEF OpTypeOK, Failed, set_operation_failed
  <2>7. CASE NestedRefresh
    BY <2>7 DEF OpTypeOK, NestedRefresh, set_operation_running, Operation
  <2>8. CASE Push
    <3>1. CASE KeepWaiting /\ UNCHANGED awaiting
      BY <3>1 DEF KeepWaiting, OpTypeOK
    <3>2. ASSUME NEW verdict \in {"Success", "Failed"},
                 pending_push_confirmation # NoOp,
                 Resolve(verdict), UNCHANGED awaiting
          PROVE  OpTypeOK'
      BY <3>2 DEF Resolve, OpTypeOK, Operation
    <3>3. QED
      BY <2>8, <3>1, <3>2, OperationFacts
      DEF Push, resolve_pending_for_tunnel, resolve_pending_for_device,
          resolve_pending_for_settings, Operation, PushOps
  <2>9. CASE UNCHANGED opVars
    BY <2>9 DEF opVars, OpTypeOK
  <2>10. QED
    BY <2>1, <2>2, <2>3, <2>4, <2>5, <2>6, <2>7, <2>8, <2>9 DEF OpNext
<1>3. QED
  BY <1>1, <1>2, PTL DEF OpSpec

-----------------------------------------------------------------------------
(* The invariant of the operation line.                                    *)

\* OpInv is inductive relative to the types: what the line shows while an RPC
\* is awaited (AwaitedIsShown) is what it shows when the operation becomes
\* pending (PendingIsCurrent).
LEMMA OpInvStep ==
    ASSUME OpTypeOK, OpInv, [OpNext]_opVars
    PROVE  OpInv'
<1> USE OperationFacts, DriversAreDisjoint, OpsAssumption
<1>1. ASSUME NEW op \in Ops, Start(op) PROVE OpInv'
  BY <1>1 DEF OpInv, RunningIsAwaited, PendingIsCurrent, AwaitedIsShown,
              Start, set_operation_running
<1>2. ASSUME NEW op \in Ops, Reject(op) PROVE OpInv'
  BY <1>2 DEF OpInv, RunningIsAwaited, PendingIsCurrent, AwaitedIsShown,
              Reject, set_operation_failed, Status
<1>3. ASSUME NEW op \in Ops, Accepted(op) PROVE OpInv'
  <2>1. operation_status = Status("Running", op)
    BY <1>3 DEF OpInv, AwaitedIsShown, Accepted
  <2>2. QED
    BY <1>3, <2>1 DEF OpInv, RunningIsAwaited, PendingIsCurrent, AwaitedIsShown,
                      Accepted, Status
<1>4. ASSUME NEW op \in Ops, awaiting = op, awaiting' = NoOp,
             \/ set_operation_success(op)
             \/ set_operation_failed(op)
      PROVE  OpInv'
  <2>1. pending_push_confirmation' = NoOp
    BY <1>4 DEF OpInv, PendingIsCurrent, set_operation_success, set_operation_failed
  <2>2. operation_status'.state # "Running"
    BY <1>4 DEF set_operation_success, set_operation_failed, Status
  <2>3. QED
    BY <1>4, <2>1, <2>2 DEF OpInv, RunningIsAwaited, PendingIsCurrent, AwaitedIsShown
<1>5. CASE NestedRefresh
  BY <1>5 DEF OpInv, RunningIsAwaited, PendingIsCurrent, AwaitedIsShown,
              NestedRefresh, set_operation_running, NoOp
<1>6. CASE Push
  <2>1. CASE KeepWaiting /\ UNCHANGED awaiting
    BY <2>1 DEF KeepWaiting, OpInv, RunningIsAwaited, PendingIsCurrent, AwaitedIsShown
  <2>2. ASSUME NEW verdict \in {"Success", "Failed"}, Resolve(verdict),
               awaiting = NoOp, UNCHANGED awaiting
        PROVE  OpInv'
    BY <2>2 DEF Resolve, Status, OpInv, RunningIsAwaited, PendingIsCurrent, AwaitedIsShown
  <2>3. QED
    BY <1>6, <2>1, <2>2
    DEF Push, resolve_pending_for_tunnel, resolve_pending_for_device,
        resolve_pending_for_settings
<1>7. CASE UNCHANGED opVars
  BY <1>7 DEF opVars, OpInv, RunningIsAwaited, PendingIsCurrent, AwaitedIsShown
<1>8. QED
  BY <1>1, <1>2, <1>3, <1>4, <1>5, <1>6, <1>7
  DEF OpNext, AlreadyThere, Completed, Failed

\* No spinner without something that can stop it, no pending confirmation
\* beside an RPC in flight, no line that shows another operation than the one
\* awaited: for every set of operations and every daemon.
THEOREM OpInvariant == OpSpec => []OpInv
<1>1. OpInit => OpInv
  BY OperationFacts DEF OpInit, OpInv, RunningIsAwaited, PendingIsCurrent,
                        AwaitedIsShown, Status
<1>2. QED
  BY <1>1, OpInvStep, OpTypeCorrect, PTL DEF OpSpec

-----------------------------------------------------------------------------
(* Late pushes.                                                            *)

\* A verdict on the line is replaced by the push of another operation only if
\* it is the verdict of an argument check: the reset of the pending
\* confirmation in set_operation_running does the rest.
THEOREM LatePushes == OpSpec => VerdictsSurviveLatePushes
<1> DEFINE Verdict ==
        /\ operation_status.state \in {"Success", "Failed"}
        /\ operation_status' # operation_status
        /\ operation_status'.state # "Running"
<1> DEFINE OfACheck ==
        \/ operation_status.state = "Failed" /\ operation_status.op \in Validated
        \/ operation_status'.state = "Failed" /\ operation_status'.op \in Validated
<1>1. ASSUME OpInv, [OpNext]_opVars, Verdict
      PROVE  OfACheck
  <2> USE OperationFacts, OpsAssumption
  <2>1. ASSUME NEW op \in Ops, Start(op) PROVE OfACheck
    BY <1>1, <2>1 DEF Start, set_operation_running, Status
  <2>2. ASSUME NEW op \in Ops, Reject(op) PROVE OfACheck
    BY <2>2 DEF Reject, set_operation_failed, Status
  <2>3. ASSUME awaiting # NoOp PROVE OfACheck
    BY <1>1, <2>3 DEF OpInv, AwaitedIsShown, Status
  <2>4. CASE Push
    <3>1. pending_push_confirmation # NoOp
      BY <1>1, <2>4 DEF Push, resolve_pending_for_tunnel, resolve_pending_for_device,
             resolve_pending_for_settings, KeepWaiting, TunnelOps, DeviceOps,
             SettingsOps, NoOp
    <3>2. QED
      BY <1>1, <3>1 DEF OpInv, PendingIsCurrent, Status
  <2>5. QED
    BY <1>1, <2>1, <2>2, <2>3, <2>4
    DEF OpNext, opVars, Accepted, AlreadyThere, Completed, Failed, NestedRefresh, NoOp
<1>2. QED
  BY <1>1, OpInvariant, PTL DEF OpSpec, VerdictsSurviveLatePushes

-----------------------------------------------------------------------------
(* The event listener: its types, and who reads a subscription.            *)

\* The part of a stream that a breaking connection leaves
LEMMA BrokenStream ==
    ASSUME TypeOK, BreakStream
    PROVE  stream' \in Seq(Number) /\ live' = FALSE
<1>1. PICK n \in 0 .. Len(stream) : stream' = SubSeq(stream, 1, n)
  BY DEF BreakStream
<1>2. QED
  BY <1>1, BrokenFeed DEF BreakStream, TypeOK

\* translate_daemon_event yields what the channel may carry.
LEMMA TranslatedType ==
    ASSUME NEW e \in Number
    PROVE  translate_daemon_event(e) \in Seq(Number) /\ Len(translate_daemon_event(e)) <= 1
BY DEF translate_daemon_event

\* What is sent into the channel fits into it.
LEMMA SentType ==
    ASSUME TypeOK, held # <<>>, Len(channel) < Capacity
    PROVE  channel \o held \in Seq(Number) /\ Len(channel \o held) <= Capacity
BY ListenerAssumption DEF TypeOK

\* Nothing is a sequence of numbers and fits everywhere.
LEMMA NothingType ==
    <<>> \in Seq(Number) /\ Len(<<>>) <= 1 /\ Len(<<>>) <= Capacity
BY ListenerAssumption

LEMMA FirstWait == BackoffInitial \in BackoffInitial .. BackoffMax
BY ListenerAssumption

LEMMA StepTypes ==
    ASSUME TypeOK, [Next]_vars
    PROVE  TypeOK'
<1> USE ListenerAssumption DEF TypeOK, TaskState
<1>1. CASE DaemonPublishes
  <2>1. published + 1 \in Number /\ published' \in 0 .. MaxEvents
    BY <1>1 DEF DaemonPublishes, Number
  <2>2. stream' \in Seq(Number)
    BY <1>1, <2>1, PublishedFeed DEF DaemonPublishes
  <2>3. QED
    BY <1>1, <2>1, <2>2 DEF DaemonPublishes
<1>2. CASE StreamFails
  BY <1>2, BrokenStream DEF StreamFails
<1>3. CASE DaemonStops
  <2>1. stream' \in Seq(Number) /\ live' \in BOOLEAN
    BY <1>3, BrokenStream DEF DaemonStops
  <2>2. QED
    BY <1>3, <2>1 DEF DaemonStops
<1>4. CASE DaemonStarts
  BY <1>4 DEF DaemonStarts
<1>5. CASE drain_events_listen
  <2>1. /\ stream' = <<>> /\ live' \in BOOLEAN /\ task' \in TaskState
        /\ backoff' \in BackoffInitial .. BackoffMax
        /\ UNCHANGED <<daemonUp, published, held, channel, receiver, received>>
    BY <1>5, FirstWait, Zenon DEF drain_events_listen, Disconnected
  <2>2. QED
    BY <2>1, NothingType
<1>6. CASE drain_events_next
  <2>1. Head(stream) \in Number /\ Tail(stream) \in Seq(Number)
    BY <1>6, ReceivedFeed DEF drain_events_next
  <2>2. QED
    BY <1>6, <2>1, TranslatedType DEF drain_events_next
<1>7. CASE drain_events_send
  <2>1. channel' \in Seq(Number) /\ Len(channel') <= Capacity
    BY <1>7, SentType DEF drain_events_send
  <2>2. /\ held' = <<>> /\ live' \in BOOLEAN /\ task' \in TaskState
        /\ stream' = stream \/ stream' = <<>>
        /\ UNCHANGED <<daemonUp, published, backoff, receiver, received>>
    BY <1>7 DEF drain_events_send
  <2>3. QED
    BY <2>1, <2>2, NothingType
<1>8. CASE drain_events_end
  BY <1>8 DEF drain_events_end, Disconnected
<1>9. CASE reconnect_with_backoff
  BY <1>9 DEF reconnect_with_backoff
<1>10. CASE recv_app_event
  <2>1. Head(channel) \in Number /\ Tail(channel) \in Seq(Number)
        /\ Len(Tail(channel)) <= Capacity
    BY <1>10, ReceivedFeed DEF recv_app_event
  <2>2. QED
    BY <1>10, <2>1 DEF recv_app_event, Number
<1>11. CASE Quit
  BY <1>11, NothingType DEF Quit
<1>12. CASE UNCHANGED vars
  BY <1>12 DEF vars
<1>13. QED
  BY <1>1, <1>2, <1>3, <1>4, <1>5, <1>6, <1>7, <1>8, <1>9, <1>10, <1>11, <1>12
  DEF Next, Listener

\* The channel never holds more than its capacity and the wait never exceeds
\* RECONNECT_BACKOFF_MAX, however the daemon, the stream and the run loop move
\* (spawn_event_listener, reconnect_with_backoff).
THEOREM ListenerTypes == Spec => []TypeOK
<1>1. Init => TypeOK
  <2> SUFFICES ASSUME Init PROVE TypeOK
    OBVIOUS
  <2>1. published \in 0 .. MaxEvents /\ received \in 0 .. MaxEvents
    BY ListenerAssumption DEF Init
  <2>2. backoff \in BackoffInitial .. BackoffMax
    BY FirstWait DEF Init
  <2>3. QED
    BY <2>1, <2>2, NothingType DEF Init, TypeOK, TaskState
<1>2. QED
  BY <1>1, StepTypes, PTL DEF Spec

\* A subscription that the daemon still serves is one the task reads: every
\* way out of the read loop gives the stream up (drain_events_listen, the event
\* loop's returns).
THEOREM NoOrphans == Spec => []NoOrphanSubscription
<1>1. Init => NoOrphanSubscription
  BY DEF Init, NoOrphanSubscription
<1>2. TypeOK /\ NoOrphanSubscription /\ [Next]_vars => NoOrphanSubscription'
  BY DEF NoOrphanSubscription, TypeOK, Next, Listener, vars, DaemonPublishes, StreamFails,
         BreakStream, DaemonStops, DaemonStarts, drain_events_listen, drain_events_next,
         drain_events_send, drain_events_end, Disconnected, reconnect_with_backoff,
         recv_app_event, Quit
<1>3. QED
  BY <1>1, <1>2, ListenerTypes, PTL DEF Spec

-----------------------------------------------------------------------------
(* The feed.  InFlight is channel, held and what the stream will become,   *)
(* one after the other; a step of the listener moves the boundaries, the   *)
(* daemon and the App work at the ends.                                    *)

Wanted == Number \ Ignored

\* The translation as a function
Translation == [e \in Number |-> translate_daemon_event(e)]

LEMMA TranslatedEvent ==
    ASSUME NEW e \in Number
    PROVE  translate_daemon_event(e) \in Seq(Wanted)
<1>1. CASE e \in Ignored
  BY <1>1 DEF translate_daemon_event
<1>2. CASE e \notin Ignored
  <2>1. e \in Wanted
    BY <1>2 DEF Wanted
  <2>2. <<e>> \in Seq(Wanted)
    BY <2>1
  <2>3. QED
    BY <1>2, <2>2 DEF translate_daemon_event
<1>3. QED
  BY <1>1, <1>2

LEMMA TranslatedIsFlatMap ==
    /\ Translation \in [Number -> Seq(Wanted)]
    /\ \A s \in Seq(Number) : Translated(s) = FlatMap(Translation, s)
<1>1. Translation \in [Number -> Seq(Wanted)]
  BY TranslatedEvent DEF Translation
<1>2. ASSUME NEW s \in Seq(Number) PROVE Translated(s) = FlatMap(Translation, s)
  <2>1. \A i \in 1 .. Len(s) : s[i] \in Number
    OBVIOUS
  <2>2. Images(Translation, s) = [i \in 1 .. Len(s) |-> translate_daemon_event(s[i])]
    BY <2>1, Zenon DEF Images, Translation
  <2>3. QED
    BY <2>2, Zenon DEF Translated, FlatMap
<1>3. QED
  BY <1>1, <1>2

\* Two stretches of a stream are translated independently of each other.
LEMMA TranslatedConcat ==
    ASSUME NEW a \in Seq(Number), NEW b \in Seq(Number)
    PROVE  /\ Translated(a) \in Seq(Wanted)
           /\ Translated(a \o b) = Translated(a) \o Translated(b)
<1>1. a \o b \in Seq(Number)
  BY ConcatProperties
<1>2. FlatMap(Translation, a) \in Seq(Wanted) /\ FlatMapSplits(Translation, a, b)
  BY TranslatedIsFlatMap, FlatMapConcat, Zenon
<1>3. QED
  BY <1>1, <1>2, TranslatedIsFlatMap, Zenon DEF FlatMapSplits

LEMMA NothingTranslated == Translated(<<>>) = <<>>
<1>1. <<>> \in Seq(Number)
  OBVIOUS
<1>2. QED
  BY <1>1, TranslatedIsFlatMap, FlatMapOfNothing, Zenon

LEMMA TranslatedFew ==
    ASSUME NEW e \in Number
    PROVE  /\ Translated(<<e>>) = translate_daemon_event(e)
           /\ translate_daemon_event(e) \in Seq(Wanted)
<1>1. <<e>> \in Seq(Number)
  OBVIOUS
<1>2. FlatMapOfOne(Translation, e)
  BY TranslatedIsFlatMap, FlatMapFew, Zenon
<1>3. QED
  BY <1>1, <1>2, TranslatedIsFlatMap, TranslatedEvent DEF Translation, FlatMapOfOne

\* The oldest of a concatenation
LEMMA TailOfConcat ==
    ASSUME NEW S, NEW a \in Seq(S), NEW b \in Seq(S), a # <<>>
    PROVE  Tail(a \o b) = Tail(a) \o b /\ a \o b # <<>>
OBVIOUS

\* It does not matter how they are bracketed.
LEMMA Rebracket ==
    \A x, y, z \in Seq(Wanted) : (x \o y) \o z = x \o (y \o z)
BY ConcatAssociative

LEMMA TailOfThree ==
    ASSUME NEW S, NEW a \in Seq(S), NEW b \in Seq(S), NEW c \in Seq(S), a # <<>>
    PROVE  Tail((a \o b) \o c) = (Tail(a) \o b) \o c /\ (a \o b) \o c # <<>>
<1>1. PICK both \in Seq(S) : both = a \o b
  BY ConcatProperties
<1>2. both # <<>> /\ Tail(both) = Tail(a) \o b
  BY <1>1, TailOfConcat
<1>3. Tail(both \o c) = Tail(both) \o c /\ both \o c # <<>>
  BY <1>2, TailOfConcat
<1>4. QED
  BY <1>1, <1>2, <1>3, Zenon

\* A break splits the stream in what survives and what is lost.
LEMMA SplitStream ==
    ASSUME NEW S, NEW s \in Seq(S), NEW n \in 0 .. Len(s)
    PROVE  \E rest \in Seq(S) : SubSeq(s, 1, n) \in Seq(S) /\ s = SubSeq(s, 1, n) \o rest
<1>1. SubSeq(s, 1, n) \in Seq(S) /\ SubSeq(s, n + 1, Len(s)) \in Seq(S)
  OBVIOUS
<1>2. 1 \in 1 .. Len(s) + 1 /\ n \in 1 - 1 .. Len(s) /\ Len(s) \in n .. Len(s)
  OBVIOUS
<1>3. SubSeq(s, 1, n) \o SubSeq(s, n + 1, Len(s)) = SubSeq(s, 1, Len(s))
  BY <1>2, ConcatAdjacentSubSeq
<1>4. SubSeq(s, 1, Len(s)) = s
  BY SubSeqFull
<1>5. QED
  BY <1>1, <1>3, <1>4

\* What is on its way is wanted, and a task that does not read has nothing
\* left to read: a new subscription starts with an empty stream.
FeedInv ==
    /\ TypeOK
    /\ NoOrphanSubscription
    /\ channel \in Seq(Wanted) /\ held \in Seq(Wanted)
    /\ task # "reading" => stream = <<>>

LEMMA FeedInvStep ==
    ASSUME FeedInv, [Next]_vars
    PROVE  FeedInv'
<1>1. TypeOK /\ TypeOK' /\ NoOrphanSubscription
  BY StepTypes DEF FeedInv
<1>2. NoOrphanSubscription'
  BY <1>1 DEF NoOrphanSubscription, TypeOK, Next, Listener, vars, DaemonPublishes, StreamFails,
         BreakStream, DaemonStops, DaemonStarts, drain_events_listen, drain_events_next,
         drain_events_send, drain_events_end, Disconnected, reconnect_with_backoff,
         recv_app_event, Quit
<1>3. <<>> \in Seq(Wanted)
  OBVIOUS
<1>4. CASE \/ DaemonPublishes \/ StreamFails \/ DaemonStops \/ DaemonStarts
           \/ drain_events_listen \/ drain_events_end \/ reconnect_with_backoff
           \/ UNCHANGED vars
  <2>1. channel' = channel /\ held' = held
    BY <1>4 DEF vars, DaemonPublishes, StreamFails, DaemonStops, DaemonStarts,
           drain_events_listen, drain_events_end, reconnect_with_backoff
  <2>2. task' # "reading" => stream' = <<>>
    BY <1>1, <1>4 DEF FeedInv, NoOrphanSubscription, vars, DaemonPublishes, StreamFails,
           DaemonStops, DaemonStarts, drain_events_listen, drain_events_end, Disconnected,
           reconnect_with_backoff
  <2>3. QED
    BY <1>1, <1>2, <2>1, <2>2 DEF FeedInv
<1>5. CASE drain_events_next
  <2>1. Head(stream) \in Number
    BY <1>1, <1>5, ReceivedFeed DEF drain_events_next, TypeOK
  <2>2. held' \in Seq(Wanted) /\ channel' = channel /\ task' = "reading"
    BY <1>5, <2>1, TranslatedEvent DEF drain_events_next
  <2>3. QED
    BY <1>1, <1>2, <2>2 DEF FeedInv
<1>6. CASE drain_events_send
  <2>1. channel \o held \in Seq(Wanted)
    BY ConcatProperties DEF FeedInv
  <2>2. channel' \in Seq(Wanted) /\ held' = <<>>
    BY <1>6, <2>1 DEF drain_events_send, FeedInv
  <2>3. task' # "reading" => stream' = <<>>
    BY <1>6 DEF drain_events_send, FeedInv
  <2>4. QED
    BY <1>1, <1>2, <1>3, <2>2, <2>3 DEF FeedInv
<1>7. CASE recv_app_event
  <2>1. Tail(channel) \in Seq(Wanted)
    BY <1>7, ReceivedFeed DEF FeedInv, recv_app_event
  <2>2. QED
    BY <1>1, <1>2, <1>7, <2>1 DEF FeedInv, recv_app_event
<1>8. CASE Quit
  BY <1>1, <1>2, <1>3, <1>8 DEF FeedInv, Quit
<1>9. QED
  BY <1>4, <1>5, <1>6, <1>7, <1>8 DEF Next, Listener

\* The abstract state of the listener
Subscribed == live /\ receiver
Events == IF receiver THEN InFlight ELSE <<>>

LEMMA FeedStep ==
    ASSUME FeedInv, [Next]_vars
    PROVE  \/ Subscribed' = Subscribed /\ Events' = Events
           \/ \E e \in Wanted : Events' = (IF Subscribed THEN Append(Events, e) ELSE Events)
                               /\ Subscribed' = Subscribed
           \/ Events # <<>> /\ Events' = Tail(Events) /\ Subscribed' = Subscribed
           \/ /\ Subscribed /\ Subscribed' = FALSE
              /\ \E n \in 0 .. Len(Events) : Events' = SubSeq(Events, 1, n)
           \/ ~Subscribed /\ Subscribed' = TRUE /\ Events' = Events
           \/ Subscribed' = FALSE /\ Events' = <<>>
<1>0. TypeOK /\ NoOrphanSubscription /\ live \in BOOLEAN /\ live' \in BOOLEAN
  BY StepTypes DEF FeedInv, TypeOK
<1>1. receiver' => receiver
  BY DEF Next, Listener, vars, DaemonPublishes, StreamFails, DaemonStops, DaemonStarts,
         drain_events_listen, drain_events_next, drain_events_send, drain_events_end,
         reconnect_with_backoff, recv_app_event, Quit
<1>2. CASE ~receiver'
  BY <1>2 DEF Subscribed, Events
<1>3. SUFFICES ASSUME receiver', receiver
      PROVE  \/ live' = live /\ InFlight' = InFlight
             \/ \E e \in Wanted : live' = live /\ live /\ InFlight' = Append(InFlight, e)
             \/ InFlight # <<>> /\ InFlight' = Tail(InFlight) /\ live' = live
             \/ /\ live /\ live' = FALSE
                /\ \E n \in 0 .. Len(InFlight) : InFlight' = SubSeq(InFlight, 1, n)
             \/ ~live /\ live' = TRUE /\ InFlight' = InFlight
  <2> HIDE DEF InFlight
  <2>1. CASE receiver' /\ receiver
    <3>1. Subscribed = live /\ Subscribed' = live' /\ Events = InFlight /\ Events' = InFlight'
      BY <1>0, <2>1, Zenon DEF Subscribed, Events
    <3>2. QED
      BY <1>3, <2>1, <3>1, Zenon
  <2>2. QED
    BY <1>1, <1>2, <2>1
\* The pieces of InFlight, and that it does not matter how they are bracketed.
<1>4. PICK C \in Seq(Wanted), H \in Seq(Wanted), T \in Seq(Wanted) :
         C = channel /\ H = held /\ T = Translated(stream)
  <2>1. Translated(stream) \in Seq(Wanted)
    BY <1>0, TranslatedConcat DEF TypeOK
  <2>2. QED
    BY <2>1 DEF FeedInv
<1>5. InFlight = (C \o H) \o T
  BY <1>4 DEF InFlight
<1>6. C \o H \in Seq(Wanted) /\ (C \o H) \o T \in Seq(Wanted)
  <2>1. C \o H \in Seq(Wanted)
    OBVIOUS
  <2>2. PICK both \in Seq(Wanted) : both = C \o H
    BY <2>1
  <2>3. both \o T \in Seq(Wanted)
    OBVIOUS
  <2>4. QED
    BY <2>1, <2>2, <2>3, Zenon
<1>7. \A x, y, z \in Seq(Wanted) : (x \o y) \o z = x \o (y \o z)
  BY Rebracket
<1>8. CASE channel' = channel /\ held' = held /\ stream' = stream /\ live' = live
  BY <1>8 DEF InFlight
<1>9. CASE DaemonPublishes
  <2>1. CASE ~live
    BY <1>8, <1>9, <2>1 DEF DaemonPublishes
  <2>2. CASE live
    <3>1. PICK e \in Number : stream' = Append(stream, e)
      <4>1. published + 1 \in Number
        BY <1>0, <1>9, ListenerAssumption DEF DaemonPublishes, TypeOK, Number
      <4>2. QED
        BY <1>9, <2>2, <4>1 DEF DaemonPublishes
    <3>2. <<e>> \in Seq(Number) /\ Append(stream, e) = stream \o <<e>>
      BY <1>0 DEF TypeOK
    <3>3. Translated(stream') = T \o translate_daemon_event(e)
      BY <1>0, <1>4, <3>1, <3>2, TranslatedConcat, TranslatedFew, Zenon DEF TypeOK
    <3>4. InFlight' = (C \o H) \o (T \o translate_daemon_event(e))
      BY <1>4, <1>9, <3>3, Zenon DEF InFlight, DaemonPublishes
    <3>5. InFlight' = InFlight \o translate_daemon_event(e)
      BY <1>5, <1>6, <1>7, <3>4, TranslatedEvent, Zenon
    <3>6. InFlight \in Seq(Wanted) /\ live' = live
      BY <1>5, <1>6, <1>9, Zenon DEF DaemonPublishes
    <3> HIDE DEF InFlight
    <3>7. CASE e \in Ignored
      BY <3>5, <3>6, <3>7 DEF translate_daemon_event
    <3>8. CASE e \notin Ignored
      <4>1. e \in Wanted
        BY <3>8 DEF Wanted
      <4>2. InFlight' = Append(InFlight, e)
        BY <3>5, <3>6, <3>8, <4>1 DEF translate_daemon_event
      <4>3. QED
        BY <2>2, <3>6, <4>1, <4>2
    <3>9. QED
      BY <3>7, <3>8
  <2>3. QED
    BY <2>1, <2>2
<1>10. CASE StreamFails \/ DaemonStops
  <2>1. CASE live
    <3>1. BreakStream /\ channel' = channel /\ held' = held
      BY <1>10, <2>1 DEF StreamFails, DaemonStops
    <3>2. PICK n \in 0 .. Len(stream) : stream' = SubSeq(stream, 1, n)
      BY <3>1 DEF BreakStream
    <3>3. PICK b \in Seq(Number) :
             SubSeq(stream, 1, n) \in Seq(Number) /\ stream = SubSeq(stream, 1, n) \o b
      BY <1>0, SplitStream DEF TypeOK
    <3>4. PICK a \in Seq(Number) : a = SubSeq(stream, 1, n) /\ stream = a \o b
      BY <3>3, Zenon
    <3>5. PICK Ta \in Seq(Wanted), Tb \in Seq(Wanted) : Ta = Translated(a) /\ Tb = Translated(b)
      BY TranslatedConcat
    <3>6. T = Ta \o Tb
      BY <1>4, <3>4, <3>5, TranslatedConcat, Zenon
    <3>7. InFlight' = (C \o H) \o Ta
      BY <1>4, <3>1, <3>2, <3>4, <3>5, Zenon DEF InFlight
    <3>8. InFlight = ((C \o H) \o Ta) \o Tb
      <4>1. PICK x \in Seq(Wanted) : x = C \o H
        BY <1>6
      <4>2. (x \o Ta) \o Tb = x \o (Ta \o Tb)
        BY <1>7, Zenon
      <4>3. QED
        BY <1>5, <3>6, <4>1, <4>2, Zenon
    <3>9. PICK both \in Seq(Wanted) : both = (C \o H) \o Ta
      <4>1. PICK x \in Seq(Wanted) : x = C \o H
        BY <1>6
      <4>2. x \o Ta \in Seq(Wanted)
        OBVIOUS
      <4>3. QED
        BY <4>1, <4>2, Zenon
    <3>10. Len(both) \in 0 .. Len(both \o Tb) /\ SubSeq(both \o Tb, 1, Len(both)) = both
      OBVIOUS
    <3>11. InFlight = both \o Tb /\ InFlight' = both
      BY <3>7, <3>8, <3>9, Zenon
    <3>12. \E m \in 0 .. Len(InFlight) : InFlight' = SubSeq(InFlight, 1, m)
      BY <3>10, <3>11, Zenon
    <3>13. live' = FALSE
      BY <3>1 DEF BreakStream
    <3>14. QED
      BY <2>1, <3>12, <3>13, Zenon
  <2>2. CASE ~live
    BY <1>8, <1>10, <2>2 DEF StreamFails, DaemonStops
  <2>3. QED
    BY <2>1, <2>2
<1>11. CASE drain_events_listen
  <2>1. stream' = stream /\ ~live /\ channel' = channel /\ held' = held
    BY <1>0, <1>11 DEF drain_events_listen, FeedInv, NoOrphanSubscription
  <2>2. InFlight' = InFlight
    BY <2>1 DEF InFlight
  <2>3. live' = TRUE \/ live' = live
    BY <1>11 DEF drain_events_listen
  <2>4. QED
    BY <2>1, <2>2, <2>3, Zenon
<1>12. CASE drain_events_next
  <2>1. PICK h \in Number, t \in Seq(Number) : h = Head(stream) /\ t = Tail(stream)
    BY <1>0, <1>12, ReceivedFeed DEF drain_events_next, TypeOK
  <2>2. <<h>> \in Seq(Number) /\ stream = <<h>> \o t
    BY <1>0, <1>12, <2>1 DEF drain_events_next, TypeOK
  <2>3. PICK x \in Seq(Wanted), y \in Seq(Wanted) :
           x = translate_daemon_event(h) /\ y = Translated(t)
    BY TranslatedEvent, TranslatedConcat
  <2>4. T = x \o y
    BY <1>4, <2>2, <2>3, TranslatedConcat, TranslatedFew, Zenon
  <2>5. InFlight' = (C \o x) \o y
    BY <1>4, <1>12, <2>1, <2>3, Zenon DEF InFlight, drain_events_next
  <2>6. C \o H = C
    <3>1. H = <<>>
      BY <1>4, <1>12 DEF drain_events_next
    <3>2. QED
      BY <3>1, ConcatEmptySeq
  <2>7. InFlight' = InFlight
    <3>1. (C \o x) \o y = C \o (x \o y)
      BY <1>7, Zenon
    <3>2. QED
      BY <1>5, <2>4, <2>5, <2>6, <3>1, Zenon
  <2>8. QED
    BY <1>12, <2>7 DEF drain_events_next
<1>13. CASE drain_events_send
  <2>1. channel' = C \o H /\ held' = <<>> /\ stream' = stream /\ live' = live
    BY <1>3, <1>4, <1>13 DEF drain_events_send
  <2>2. InFlight' = ((C \o H) \o <<>>) \o T
    BY <1>4, <2>1, Zenon DEF InFlight
  <2>3. (C \o H) \o <<>> = C \o H
    BY <1>6, ConcatEmptySeq
  <2>4. QED
    BY <1>5, <2>1, <2>2, <2>3, Zenon
<1>14. CASE drain_events_end \/ reconnect_with_backoff \/ DaemonStarts \/ UNCHANGED vars
  BY <1>8, <1>14 DEF drain_events_end, reconnect_with_backoff, DaemonStarts, vars
<1>15. CASE recv_app_event
  <2>1. C # <<>> /\ channel' = Tail(C) /\ UNCHANGED <<held, stream, live>>
    BY <1>4, <1>15 DEF recv_app_event
  <2>2. InFlight' = (Tail(C) \o H) \o T
    BY <1>4, <2>1, Zenon DEF InFlight
  <2>3. Tail((C \o H) \o T) = (Tail(C) \o H) \o T /\ (C \o H) \o T # <<>>
    BY <2>1, TailOfThree
  <2>4. QED
    BY <1>5, <2>1, <2>2, <2>3, Zenon
<1>16. CASE Quit
  BY <1>3, <1>16 DEF Quit
<1>17. QED
  BY <1>9, <1>10, <1>11, <1>12, <1>13, <1>14, <1>15, <1>16 DEF Next, Listener

\* The listener implements the feed the App modules are built on: whatever
\* the daemon, the stream, the channel and the run loop do, events arrive once
\* each and in order, and only a break or the end loses some, the youngest
\* (drain_events, event_listener_loop, spawn_event_listener).
THEOREM ListenerImplementsFeed == Spec => FeedImplemented
<1>1. Init => FeedInv
  <2> SUFFICES ASSUME Init PROVE FeedInv
    OBVIOUS
  <2>1. published \in 0 .. MaxEvents /\ received \in 0 .. MaxEvents
    BY ListenerAssumption DEF Init
  <2>2. TypeOK
    BY <2>1, FirstWait, NothingType DEF Init, TypeOK, TaskState
  <2>3. <<>> \in Seq(Wanted)
    OBVIOUS
  <2>4. QED
    BY <2>2, <2>3 DEF Init, FeedInv, NoOrphanSubscription
<1>2. Init => Feed!FeedInit
  <2> SUFFICES ASSUME Init PROVE Feed!FeedInit
    OBVIOUS
  <2>1. InFlight = (<<>> \o <<>>) \o Translated(<<>>)
    BY DEF Init, InFlight
  <2>2. Translated(<<>>) = <<>>
    BY NothingTranslated
  <2>3. <<>> \o <<>> = <<>>
    OBVIOUS
  <2>4. QED
    BY <2>1, <2>2, <2>3, Zenon DEF Init, Feed!FeedInit
<1>3. FeedInv /\ [Next]_vars => FeedInv'
  BY FeedInvStep
<1>4. FeedInv /\ [Next]_vars => [Feed!FeedNext]_(Feed!feedVars)
  <2> SUFFICES ASSUME FeedInv, [Next]_vars
               PROVE  [Feed!FeedNext]_(Feed!feedVars)
    OBVIOUS
  <2>1. QED
    BY FeedStep, Zenon DEF Subscribed, Events, Wanted, Feed!FeedNext, Feed!feedVars,
       Feed!Publish, Feed!Receive, Feed!Break, Feed!Resubscribe, Feed!Close
<1>5. QED
  BY <1>1, <1>2, <1>3, <1>4, PTL DEF Spec, FeedImplemented, Feed!FeedSpec

-----------------------------------------------------------------------------
(* The Select-location page: the tree.                                     *)

\* The nodes of a tree
CityNodes(c) ==
    {t \in [code : Nat, forced : BOOLEAN, relays : Seq(RelayLocation)] :
       <<c, t.code>> \in DOMAIN CityTexts}

\* The countries of a tree, whose cities are cities of theirs
CountryNodes ==
    {n \in [code : DOMAIN CountryTexts, cities : Seq(UNION {CityNodes(c) : c \in DOMAIN CountryTexts})] :
       n.cities \in Seq(CityNodes(n.code))}

\* The ranks of a finite set of numbers are a sequence.
LEMMA SortedType ==
    ASSUME NEW S \in SUBSET Nat, IsFiniteSet(S)
    PROVE  Sorted(S) \in Seq(S)
<1>1. Cardinality(S) \in Nat
  BY FS_CardinalityType
<1>2. ASSUME NEW n \in 1 .. Cardinality(S) PROVE NthLowest(S, n) \in S
  BY RankExists DEF NthLowest
<1>3. QED
  BY <1>1, <1>2 DEF Sorted

\* The fields of a relay of the list
LEMMA RelayFacts ==
    ASSUME NEW r \in RelayLocation
    PROVE  /\ <<r.country, r.city>> \in DOMAIN CityTexts
           /\ r.country \in DOMAIN CountryTexts /\ r.country \in Nat /\ r.city \in Nat
           /\ r.host \in Seq(STRING)
<1>1. r \in [country : Nat, city : Nat, host : Seq(STRING)] /\ <<r.country, r.city>> \in DOMAIN CityTexts
  BY DEF RelayLocation
<1>2. <<r.country, r.city>> \in (DOMAIN CountryTexts) \X Nat
  BY <1>1, TreeAssumption
<1>3. r.country \in DOMAIN CountryTexts
  BY <1>2
<1>4. QED
  BY <1>1, <1>3

\* Keeping the members of P keeps members of P.
KeptOf(s, k, P) ==
    k = FlattenSeq([i \in DOMAIN s |-> IF s[i] \in P THEN <<s[i]>> ELSE <<>>])

\* Kept is a filter: what is left are members of P.
LEMMA KeptType ==
    ASSUME NEW D, NEW P, NEW s \in Seq(D), NEW k, KeptOf(s, k, P)
    PROVE  k \in Seq({x \in D : x \in P})
<1>1. PICK Q : Q = {x \in D : x \in P}
  OBVIOUS
<1>2. PICK ss : ss = [i \in DOMAIN s |-> IF s[i] \in P THEN <<s[i]>> ELSE <<>>]
  OBVIOUS
<1>3. ASSUME NEW i \in 1 .. Len(s) PROVE ss[i] \in Seq(Q)
  <2>1. s[i] \in D /\ ss[i] = IF s[i] \in P THEN <<s[i]>> ELSE <<>>
    BY <1>2
  <2>2. CASE s[i] \in P
    <3>1. s[i] \in Q
      BY <2>1, <2>2, <1>1
    <3>2. PICK x \in Q : x = s[i]
      BY <3>1
    <3>3. <<x>> \in Seq(Q)
      BY SingletonSeq
    <3>4. QED
      BY <3>2, <3>3, <2>1, <2>2
  <2>3. CASE s[i] \notin P
    BY <2>1, <2>3
  <2>4. QED
    BY <2>2, <2>3
<1>4. ss \in Seq(Seq(Q))
  <2>1. PICK T : T = Seq(Q)
    OBVIOUS
  <2>2. \A i \in 1 .. Len(s) : ss[i] \in T
    BY <1>3, <2>1
  <2>3. DOMAIN ss = 1 .. Len(s) /\ Len(s) \in Nat /\ ss = [i \in DOMAIN ss |-> ss[i]]
    BY <1>2
  <2>4. ss \in Seq(T)
    BY <2>2, <2>3
  <2>5. QED
    BY <2>1, <2>4
<1>5. FlattenSeq(ss) \in Seq(Q)
  BY <1>4, FlattenType
<1>6. QED
  BY <1>1, <1>2, <1>5 DEF KeptOf

\* project_tree groups the list into a tree of that type.
LEMMA ProjectedType ==
    ASSUME NEW relays \in Seq(RelayLocation)
    PROVE  project_tree(relays) \in Seq(CountryNodes)
<1> DEFINE Of(c) == Kept(relays, LAMBDA r : r.country = c)
           In(s, t) == Kept(s, LAMBDA r : r.city = t)
           Towns(c) == {r.city : r \in ToSet(Of(c))}
           City(c, t) == CityNode(t, FALSE, In(Of(c), t))
           Country(c) == [code |-> c, cities |-> Mapped(Sorted(Towns(c)), LAMBDA t : City(c, t))]
           Countries == {r.country : r \in ToSet(relays)}
<1>1. project_tree(relays) = Mapped(Sorted(Countries), Country)
  BY DEF project_tree
<1>2. ASSUME NEW c PROVE Of(c) \in Seq({r \in RelayLocation : r.country = c})
  <2>1. PICK P : P = {r \in RelayLocation : r.country = c}
    OBVIOUS
  <2>2. \A i \in DOMAIN relays : relays[i] \in P <=> relays[i].country = c
    BY <2>1
  <2>3. KeptOf(relays, Of(c), P)
    BY <2>2 DEF KeptOf, Kept, FlatMapped, Mapped
  <2> HIDE DEF Of
  <2>4. Of(c) \in Seq({x \in RelayLocation : x \in P})
    BY <2>3, KeptType
  <2>5. {x \in RelayLocation : x \in P} = {r \in RelayLocation : r.country = c}
    BY <2>1
  <2>6. QED
    BY <2>4, <2>5
<1> HIDE DEF Of
<1>3. ASSUME NEW c \in DOMAIN CountryTexts PROVE Country(c) \in CountryNodes
  <2>1. PICK D : D = {r \in RelayLocation : r.country = c}
    OBVIOUS
  <2>2. PICK of \in Seq(D) : of = Of(c)
    BY <1>2, <2>1
  <2>3. ASSUME NEW t PROVE In(of, t) \in Seq(RelayLocation)
    <3>1. PICK P : P = {r \in D : r.city = t}
      OBVIOUS
    <3>2. \A i \in DOMAIN of : of[i] \in P <=> of[i].city = t
      BY <3>1
    <3>3. PICK k : k = In(of, t)
      OBVIOUS
    <3>4. KeptOf(of, k, P)
      BY <3>2, <3>3 DEF KeptOf, Kept, FlatMapped, Mapped
    <3>5. k \in Seq({x \in D : x \in P})
      BY <3>4, KeptType
    <3>6. {x \in D : x \in P} \subseteq RelayLocation
      BY <2>1
    <3>7. QED
      BY <3>3, <3>5, <3>6
  <2> HIDE DEF In
  <2>4. ToSet(of) \subseteq D /\ IsFiniteSet(ToSet(of))
    BY ValuesAreFinite
  <2>5. Towns(c) \in SUBSET Nat /\ IsFiniteSet(Towns(c)) /\ \A t \in Towns(c) : <<c, t>> \in DOMAIN CityTexts
    <3>1. IsFiniteSet(Towns(c))
      <4>1. PICK f : f = [r \in ToSet(of) |-> r.city]
        OBVIOUS
      <4>2. Towns(c) = {f[r] : r \in ToSet(of)} /\ DOMAIN f = ToSet(of)
        BY <4>1, <2>2
      <4>3. QED
        BY <2>4, <4>2, ImageIsFinite
    <3>2. ASSUME NEW r \in ToSet(of) PROVE r.city \in Nat /\ <<c, r.city>> \in DOMAIN CityTexts
      <4>1. r \in RelayLocation /\ r.country = c
        BY <2>1, <2>4
      <4>2. QED
        BY <4>1, RelayFacts
    <3>3. QED
      BY <3>1, <3>2, <2>2
  <2>6. PICK towns \in Seq(Towns(c)) : towns = Sorted(Towns(c))
    <3> HIDE DEF Towns
    <3>1. QED
      BY <2>5, SortedType
  <2>7. ASSUME NEW t \in Towns(c) PROVE City(c, t) \in CityNodes(c)
    <3>1. In(Of(c), t) \in Seq(RelayLocation)
      BY <2>2, <2>3, Zenon
    <3>2. PICK k \in Seq(RelayLocation) : k = In(Of(c), t)
      BY <3>1
    <3>3. t \in Nat /\ <<c, t>> \in DOMAIN CityTexts
      BY <2>5
    <3> HIDE DEF Towns
    <3>4. QED
      BY <3>2, <3>3 DEF CityNode, CityNodes
  <2>8. PICK cities : cities = Mapped(towns, LAMBDA t : City(c, t))
    OBVIOUS
  <2> HIDE DEF Towns, City
  <2>9. cities \in Seq(CityNodes(c))
    BY <2>7, <2>8 DEF Mapped
  <2>10. Country(c) = [code |-> c, cities |-> cities]
    BY <2>6, <2>8
  <2>11. cities \in Seq(UNION {CityNodes(d) : d \in DOMAIN CountryTexts})
    <3>1. CityNodes(c) \subseteq UNION {CityNodes(d) : d \in DOMAIN CountryTexts}
      OBVIOUS
    <3>2. QED
      BY <2>9, <3>1
  <2>12. QED
    BY <2>9, <2>10, <2>11 DEF CountryNodes
<1>4. Countries \in SUBSET Nat /\ IsFiniteSet(Countries) /\ Countries \subseteq DOMAIN CountryTexts
  <2>1. ToSet(relays) \subseteq RelayLocation /\ IsFiniteSet(ToSet(relays))
    BY ValuesAreFinite
  <2>2. IsFiniteSet(Countries)
    <3>1. PICK f : f = [r \in ToSet(relays) |-> r.country]
      OBVIOUS
    <3>2. Countries = {f[r] : r \in ToSet(relays)} /\ DOMAIN f = ToSet(relays)
      BY <3>1
    <3>3. QED
      BY <2>1, <3>2, ImageIsFinite
  <2>3. QED
    BY <2>1, <2>2, RelayFacts
<1>5. PICK codes \in Seq(Countries) : codes = Sorted(Countries)
  <2> HIDE DEF Countries
  <2>1. QED
    BY <1>4, SortedType
<1> HIDE DEF Countries, Country
<1>6. Mapped(codes, Country) \in Seq(CountryNodes)
  <2>0. \A i \in DOMAIN codes : codes[i] \in DOMAIN CountryTexts
    <3>1. \A i \in DOMAIN codes : codes[i] \in Countries
      BY <1>5
    <3>2. QED
      BY <1>4, <3>1, Zenon
  <2>1. \A i \in DOMAIN codes : Country(codes[i]) \in CountryNodes
    BY <1>3, <2>0, Zenon
  <2>2. DOMAIN codes = 1 .. Len(codes) /\ Len(codes) \in Nat
    BY <1>5
  <2>3. QED
    BY <2>1, <2>2 DEF Mapped
<1>7. QED
  BY <1>1, <1>5, <1>6

\* filter_tree prunes the tree, and keeps its type.
LEMMA FilteredType ==
    ASSUME NEW tree \in Seq(CountryNodes), NEW query
    PROVE  filter_tree(tree, query) \in Seq(CountryNodes)
<1> DEFINE CountryMatch(c) == Names(CountryTexts[c], query)
           PlaceMatch(c, city) == CountryMatch(c) \/ Names(CityTexts[<<c, city.code>>], query)
           HostMatch(city) == \E r \in ToSet(city.relays) : hostname_matches(r.host, query)
           Flagged(c, city) == [city EXCEPT !.forced = HostMatch(city) /\ ~PlaceMatch(c, city)]
           Stays(c, city) == city.forced \/ PlaceMatch(c, city)
           Left(c, cities) == Kept(Mapped(cities, LAMBDA city : Flagged(c, city)),
                                   LAMBDA city : Stays(c, city))
           Pruned(country) == [country EXCEPT !.cities = Left(country.code, @)]
           Survives(c) == CountryMatch(c.code) \/ c.cities # <<>>
<1>1. CASE query = <<>>
  BY <1>1 DEF filter_tree
<1>2. CASE query # <<>>
  <2>1. filter_tree(tree, query) = Kept(Mapped(tree, Pruned), Survives)
    BY <1>2 DEF filter_tree
  <2>2. ASSUME NEW c, NEW city \in CityNodes(c) PROVE Flagged(c, city) \in CityNodes(c)
    <3>1. PICK b \in BOOLEAN : b = (HostMatch(city) /\ ~PlaceMatch(c, city))
      OBVIOUS
    <3> HIDE DEF HostMatch, PlaceMatch
    <3>2. [city EXCEPT !.forced = b] \in CityNodes(c)
      BY DEF CityNodes
    <3>3. QED
      BY <3>1, <3>2
  <2>3. ASSUME NEW c, NEW cities \in Seq(CityNodes(c)) PROVE Left(c, cities) \in Seq(CityNodes(c))
    <3> HIDE DEF Flagged, Stays
    <3>1. PICK D : D = CityNodes(c)
      OBVIOUS
    <3>2. PICK s : s = Mapped(cities, LAMBDA city : Flagged(c, city))
      OBVIOUS
    <3>3. s \in Seq(D)
      <4>1. \A i \in DOMAIN cities : Flagged(c, cities[i]) \in D
        BY <2>2, <3>1
      <4>2. DOMAIN cities = 1 .. Len(cities) /\ Len(cities) \in Nat
        OBVIOUS
      <4>3. QED
        BY <3>2, <4>1, <4>2 DEF Mapped
    <3>4. PICK P : P = {city \in D : Stays(c, city)}
      OBVIOUS
    <3>5. \A i \in DOMAIN s : s[i] \in P <=> Stays(c, s[i])
      BY <3>3, <3>4
    <3>6. PICK k : k = Kept(s, LAMBDA city : Stays(c, city))
      OBVIOUS
    <3>7. KeptOf(s, k, P)
      BY <3>5, <3>6 DEF KeptOf, Kept, FlatMapped, Mapped
    <3>8. k \in Seq({x \in D : x \in P})
      BY <3>3, <3>7, KeptType
    <3>9. k \in Seq(D)
      BY <3>8
    <3>10. QED
      BY <3>1, <3>2, <3>6, <3>9
  <2> HIDE DEF Left
  <2>4. ASSUME NEW n \in CountryNodes PROVE Pruned(n) \in CountryNodes
    <3>1. PICK AllCities : AllCities = UNION {CityNodes(c) : c \in DOMAIN CountryTexts}
      OBVIOUS
    <3>2. n \in [code : DOMAIN CountryTexts, cities : Seq(AllCities)] /\ n.cities \in Seq(CityNodes(n.code))
      BY <3>1 DEF CountryNodes
    <3>3. PICK left : left = Left(n.code, n.cities)
      OBVIOUS
    <3>4. left \in Seq(CityNodes(n.code))
      BY <2>3, <3>2, <3>3, Zenon
    <3>5. CityNodes(n.code) \subseteq AllCities
      BY <3>1, <3>2
    <3>6. left \in Seq(AllCities)
      BY <3>4, <3>5
    <3>7. [n EXCEPT !.cities = left] \in [code : DOMAIN CountryTexts, cities : Seq(AllCities)]
      BY <3>2, <3>6
    <3>8. PICK m : m = [n EXCEPT !.cities = left]
      OBVIOUS
    <3>9. m.cities = left /\ m.code = n.code
      BY <3>2, <3>8
    <3>10. m \in CountryNodes
      BY <3>1, <3>4, <3>7, <3>8, <3>9 DEF CountryNodes
    <3>11. QED
      BY <3>3, <3>8, <3>10
  <2> HIDE DEF Pruned, Survives
  <2>5. PICK s : s = Mapped(tree, Pruned)
    OBVIOUS
  <2>6. s \in Seq(CountryNodes)
    <3>1. \A i \in DOMAIN tree : Pruned(tree[i]) \in CountryNodes
      BY <2>4
    <3>2. DOMAIN tree = 1 .. Len(tree) /\ Len(tree) \in Nat
      OBVIOUS
    <3>3. QED
      BY <2>5, <3>1, <3>2 DEF Mapped
  <2>7. PICK P : P = {n \in CountryNodes : Survives(n)}
    OBVIOUS
  <2>8. PICK k : k = Kept(s, Survives)
    OBVIOUS
  <2>9. KeptOf(s, k, P)
    <3>1. \A i \in DOMAIN s : s[i] \in P <=> Survives(s[i])
      BY <2>6, <2>7
    <3>2. QED
      BY <3>1, <2>8 DEF KeptOf, Kept, FlatMapped, Mapped
  <2>10. k \in Seq({x \in CountryNodes : x \in P})
    BY <2>6, <2>9, KeptType
  <2>11. k \in Seq(CountryNodes)
    BY <2>10
  <2>12. QED
    BY <2>1, <2>5, <2>8, <2>11
<1>3. QED
  BY <1>1, <1>2

-----------------------------------------------------------------------------
(* The rows of the page, as a FlatMap of the tree.                         *)

\* The locations the rows show
Locations == [kind : Kinds, country : Nat, city : Nat, host : Seq(STRING)]

\* A row of the page: a city's is in its country, a relay's never opens.
TreeRows ==
    {row \in [location : Locations, country : DOMAIN CountryTexts, expanded : BOOLEAN,
              forced : BOOLEAN, index : Nat] :
       /\ row.location.kind = "City" => <<row.country, row.location.city>> \in DOMAIN CityTexts
       /\ row.location.kind = "Relay" => row.expanded = FALSE}

\* The expansion of a city and of a country, as the rows have it
CityOpen(open, c, t) == t.forced \/ <<c, t.code>> \in open.cities

CountryOpen(open, force, n) == force \/ n.code \in open.countries

\* The rows as functions of the nodes
RelayRow(c) == [r \in RelayLocation |-> TreeRow(OfRelay(r.host), c, FALSE, FALSE)]

\* The row of a city
CityRow(open, c, t) == TreeRow(OfCity(c, t.code), c, CityOpen(open, c, t), t.forced)

\* A city's row, with the relays under it when it is open
RowsOfCity(open, c) ==
    [t \in CityNodes(c) |->
       <<CityRow(open, c, t)>>
         \o (IF CityOpen(open, c, t) THEN Images(RelayRow(c), t.relays) ELSE <<>>)]

\* The row of a country
CountryRow(open, force, n) ==
    TreeRow(OfCountry(n.code), n.code, CountryOpen(open, force, n), FALSE)

\* A country's row, with the cities under it when it is open
RowsOfCountry(open, force) ==
    [n \in CountryNodes |->
       <<CountryRow(open, force, n)>>
         \o (IF CountryOpen(open, force, n)
             THEN FlatMap(RowsOfCity(open, n.code), n.cities) ELSE <<>>)]

\* The rows of a tree, before they are numbered
FlatRows(tree, open, force) == FlatMap(RowsOfCountry(open, force), tree)

\* The fields of a city
LEMMA CityFacts ==
    ASSUME NEW c \in DOMAIN CountryTexts, NEW t \in CityNodes(c)
    PROVE  /\ t.code \in Nat /\ t.forced \in BOOLEAN /\ t.relays \in Seq(RelayLocation)
           /\ <<c, t.code>> \in DOMAIN CityTexts /\ c \in Nat
BY TreeAssumption DEF CityNodes

\* The fields of a country
LEMMA CountryFacts ==
    ASSUME NEW n \in CountryNodes
    PROVE  n.code \in DOMAIN CountryTexts /\ n.cities \in Seq(CityNodes(n.code))
BY DEF CountryNodes

\* What a row shows is a location.
LEMMA LocationTypes ==
    /\ \A c \in Nat : OfCountry(c) \in Locations
    /\ \A c, t \in Nat : OfCity(c, t) \in Locations
    /\ \A h \in Seq(STRING) : OfRelay(h) \in Locations
BY DEF OfCountry, OfCity, OfRelay, Location, Locations, Kinds

\* The row of a relay is a row of the page.
LEMMA RelayRowType ==
    ASSUME NEW c \in DOMAIN CountryTexts
    PROVE  RelayRow(c) \in [RelayLocation -> TreeRows]
<1>1. ASSUME NEW r \in RelayLocation PROVE TreeRow(OfRelay(r.host), c, FALSE, FALSE) \in TreeRows
  <2>1. OfRelay(r.host) \in Locations /\ OfRelay(r.host).kind = "Relay"
    BY RelayFacts, LocationTypes DEF OfRelay, Location
  <2>2. QED
    BY <2>1 DEF TreeRows, TreeRow
<1>2. QED
  BY <1>1 DEF RelayRow

\* The row of a city is a row of the page.
LEMMA CityRowType ==
    ASSUME NEW open, NEW c \in DOMAIN CountryTexts, NEW t \in CityNodes(c)
    PROVE  CityRow(open, c, t) \in TreeRows
<1>1. PICK b \in BOOLEAN : b = CityOpen(open, c, t)
  BY DEF CityOpen
<1>2. OfCity(c, t.code) \in Locations /\ OfCity(c, t.code).kind = "City" /\ OfCity(c, t.code).city = t.code
  BY CityFacts, LocationTypes DEF OfCity, Location
<1>3. TreeRow(OfCity(c, t.code), c, b, t.forced) \in TreeRows
  BY <1>2, CityFacts DEF TreeRows, TreeRow
<1>4. QED
  BY <1>1, <1>3 DEF CityRow

\* The row of a country is a row of the page.
LEMMA CountryRowType ==
    ASSUME NEW open, NEW force, NEW n \in CountryNodes
    PROVE  CountryRow(open, force, n) \in TreeRows
<1>1. PICK b \in BOOLEAN : b = CountryOpen(open, force, n)
  BY DEF CountryOpen
<1>2. OfCountry(n.code) \in Locations /\ OfCountry(n.code).kind = "Country"
  BY CountryFacts, LocationTypes, TreeAssumption DEF OfCountry, Location
<1>3. TreeRow(OfCountry(n.code), n.code, b, FALSE) \in TreeRows
  BY <1>2, CountryFacts DEF TreeRows, TreeRow
<1>4. QED
  BY <1>1, <1>3 DEF CountryRow

\* The empty sequence is a sequence of anything.
LEMMA NothingIsASeq == \A S : <<>> \in Seq(S)
OBVIOUS

\* One row, and the rows under it
LEMMA RowAndRows ==
    ASSUME NEW S, NEW x \in S, NEW rest \in Seq(S)
    PROVE  <<x>> \o rest \in Seq(S)
<1>1. PICK one \in Seq(S) : one = <<x>>
  BY SingletonSeq
<1>2. one \o rest \in Seq(S)
  BY JoinedSeqs
<1>3. QED
  BY <1>1, <1>2

\* A city is shown by rows of the page.
LEMMA RowsOfCityType ==
    ASSUME NEW open, NEW c \in DOMAIN CountryTexts
    PROVE  RowsOfCity(open, c) \in [CityNodes(c) -> Seq(TreeRows)]
<1>1. ASSUME NEW t \in CityNodes(c)
      PROVE  <<CityRow(open, c, t)>>
               \o (IF CityOpen(open, c, t) THEN Images(RelayRow(c), t.relays) ELSE <<>>) \in Seq(TreeRows)
  <2>1. PICK relays \in Seq(RelayLocation) : relays = t.relays
    BY CityFacts
  <2>2. Images(RelayRow(c), t.relays) \in Seq(TreeRows)
    <3>1. PICK f \in [RelayLocation -> TreeRows] : f = RelayRow(c)
      BY RelayRowType
    <3>2. \A i \in 1 .. Len(relays) : f[relays[i]] \in TreeRows
      OBVIOUS
    <3>3. Images(f, relays) \in Seq(TreeRows)
      BY <3>2 DEF Images
    <3>4. QED
      BY <2>1, <3>1, <3>3
  <2>3. PICK rest \in Seq(TreeRows) :
           rest = IF CityOpen(open, c, t) THEN Images(RelayRow(c), t.relays) ELSE <<>>
    BY <2>2, NothingIsASeq, Zenon
  <2>4. <<CityRow(open, c, t)>> \o rest \in Seq(TreeRows)
    BY CityRowType, RowAndRows
  <2>5. QED
    BY <2>3, <2>4
<1>2. QED
  BY <1>1 DEF RowsOfCity

\* A country is shown by rows of the page.
LEMMA RowsOfCountryType ==
    ASSUME NEW open, NEW force
    PROVE  RowsOfCountry(open, force) \in [CountryNodes -> Seq(TreeRows)]
<1>1. ASSUME NEW n \in CountryNodes
      PROVE  <<CountryRow(open, force, n)>>
               \o (IF CountryOpen(open, force, n)
                   THEN FlatMap(RowsOfCity(open, n.code), n.cities) ELSE <<>>) \in Seq(TreeRows)
  <2>1. RowsOfCity(open, n.code) \in [CityNodes(n.code) -> Seq(TreeRows)] /\ n.cities \in Seq(CityNodes(n.code))
    BY RowsOfCityType, CountryFacts
  <2>2. FlatMap(RowsOfCity(open, n.code), n.cities) \in Seq(TreeRows)
    BY <2>1, FlatMapType
  <2>3. PICK rest \in Seq(TreeRows) :
           rest = IF CountryOpen(open, force, n)
                  THEN FlatMap(RowsOfCity(open, n.code), n.cities) ELSE <<>>
    BY <2>2, NothingIsASeq, Zenon
  <2>4. <<CountryRow(open, force, n)>> \o rest \in Seq(TreeRows)
    BY CountryRowType, RowAndRows
  <2>5. QED
    BY <2>3, <2>4
<1>2. QED
  BY <1>1 DEF RowsOfCountry

\* A tree is shown by rows of the page.
LEMMA FlatRowsType ==
    ASSUME NEW tree \in Seq(CountryNodes), NEW open, NEW force
    PROVE  FlatRows(tree, open, force) \in Seq(TreeRows)
BY RowsOfCountryType, FlatMapType DEF FlatRows

\* The renderer's rows are these.
LEMMA VisibleRowsAre ==
    ASSUME NEW tree \in Seq(CountryNodes), NEW open, NEW force
    PROVE  collect_visible_rows(tree, open, force) = Indexed(FlatRows(tree, open, force))
<1> DEFINE RR(c, city) ==
            Mapped(city.relays,
                   LAMBDA r : TreeRow(OfRelay(r.host), c, FALSE, FALSE))
           CO(c, city) == city.forced \/ <<c, city.code>> \in open.cities
           CR(c, city) ==
            <<TreeRow(OfCity(c, city.code), c, CO(c, city), city.forced)>>
              \o (IF CO(c, city) THEN RR(c, city) ELSE <<>>)
           NO(country) == force \/ country.code \in open.countries
           NR(country) ==
            <<TreeRow(OfCountry(country.code), country.code,
                      NO(country), FALSE)>>
              \o (IF NO(country)
                  THEN FlatMapped(country.cities, LAMBDA t : CR(country.code, t))
                  ELSE <<>>)
<1>1. collect_visible_rows(tree, open, force) = Indexed(FlatMapped(tree, NR))
  BY DEF collect_visible_rows
<1>2. ASSUME NEW c \in DOMAIN CountryTexts, NEW t \in CityNodes(c)
      PROVE  CR(c, t) = RowsOfCity(open, c)[t]
  <2>1. RR(c, t) = Images(RelayRow(c), t.relays)
    <3>1. PICK relays \in Seq(RelayLocation) : relays = t.relays
      BY CityFacts
    <3>2. \A i \in 1 .. Len(relays) : relays[i] \in RelayLocation
      OBVIOUS
    <3>3. PICK f : f = RelayRow(c)
      OBVIOUS
    <3>4. \A i \in 1 .. Len(relays) :
             f[relays[i]] = TreeRow(OfRelay(relays[i].host), c, FALSE, FALSE)
      BY <3>2, <3>3 DEF RelayRow
    <3>5. Images(f, relays) =
             [i \in 1 .. Len(relays) |-> TreeRow(OfRelay(relays[i].host), c, FALSE, FALSE)]
      BY <3>4, Zenon DEF Images
    <3>6. DOMAIN relays = 1 .. Len(relays)
      OBVIOUS
    <3>7. QED
      BY <3>1, <3>3, <3>5, <3>6 DEF Mapped
  <2>2. CO(c, t) = CityOpen(open, c, t)
    BY DEF CityOpen
  <2> HIDE DEF RR, CO
  <2>3. QED
    BY <2>1, <2>2 DEF RowsOfCity, CityRow
<1>3. ASSUME NEW n \in CountryNodes
      PROVE  NR(n) = RowsOfCountry(open, force)[n]
  <2> HIDE DEF CR
  <2>1. FlatMapped(n.cities, LAMBDA t : CR(n.code, t)) = FlatMap(RowsOfCity(open, n.code), n.cities)
    <3>1. PICK cities \in Seq(CityNodes(n.code)) : cities = n.cities
      BY CountryFacts
    <3>2. \A i \in 1 .. Len(cities) : CR(n.code, cities[i]) = RowsOfCity(open, n.code)[cities[i]]
      BY <1>2, CountryFacts
    <3>3. Mapped(cities, LAMBDA t : CR(n.code, t)) = Images(RowsOfCity(open, n.code), cities)
      BY <3>2 DEF Mapped, Images
    <3>4. QED
      BY <3>1, <3>3 DEF FlatMapped, FlatMap
  <2>2. NO(n) = CountryOpen(open, force, n)
    BY DEF CountryOpen
  <2> HIDE DEF NO
  <2>3. QED
    BY <2>1, <2>2 DEF RowsOfCountry, CountryRow
<1> HIDE DEF NR
<1>4. Mapped(tree, NR) = Images(RowsOfCountry(open, force), tree)
  <2>1. \A i \in 1 .. Len(tree) : NR(tree[i]) = RowsOfCountry(open, force)[tree[i]]
    BY <1>3
  <2>2. QED
    BY <2>1 DEF Mapped, Images
<1>5. QED
  BY <1>1, <1>4 DEF FlatMapped, FlatMap, FlatRows

\* Mapping the images
ImagesThenFlatMap(f, g, D, s) ==
    FlatMap(g, Images(f, s)) = FlatMap([x \in D |-> g[f[x]]], s)

\* A map, then a FlatMap
LEMMA FlatMapOfImages ==
    ASSUME NEW D, NEW E, NEW f \in [D -> E], NEW g, NEW s \in Seq(D)
    PROVE  ImagesThenFlatMap(f, g, D, s)
<1>1. PICK im : im = Images(f, s)
  OBVIOUS
<1>2. PICK c : c = [x \in D |-> g[f[x]]]
  OBVIOUS
<1>3. Len(im) = Len(s) /\ \A i \in 1 .. Len(s) : im[i] = f[s[i]]
  BY <1>1 DEF Images
<1>4. \A i \in 1 .. Len(s) : c[s[i]] = g[im[i]]
  BY <1>2, <1>3
<1>5. Images(g, im) = Images(c, s)
  BY <1>3, <1>4, Zenon DEF Images
<1>6. QED
  BY <1>1, <1>2, <1>5, Zenon DEF ImagesThenFlatMap, FlatMap

\* Filtering, then mapping
Same(D) == [x \in D |-> x]

\* f on P, nothing elsewhere
OnlyOn(P, f, D) == [x \in D |-> IF x \in P THEN f[x] ELSE <<>>]

FilterThenFlatMap(P, f, D, s) ==
    FlatMap(f, FlatMap(Telling(P, Same(D)), s)) = FlatMap(OnlyOn(P, f, D), s)

\* What is told of an element is one value or none.
LEMMA TellingType ==
    ASSUME NEW P, NEW D, NEW S, NEW g \in [D -> S]
    PROVE  /\ Telling(P, g) \in [D -> Seq(S)]
           /\ \A x \in D : Telling(P, g)[x] = IF x \in P THEN <<g[x]>> ELSE <<>>
<1>1. ASSUME NEW x \in D
      PROVE  (IF x \in P THEN <<g[x]>> ELSE <<>>) \in Seq(S)
  <2>1. PICK y \in S : y = g[x]
    OBVIOUS
  <2>2. <<y>> \in Seq(S) /\ <<>> \in Seq(S)
    BY SingletonSeq, NothingIsASeq
  <2>3. QED
    BY <2>1, <2>2
<1>2. QED
  BY <1>1 DEF Telling

\* A filter, then a FlatMap: a FlatMap that skips what the filter drops
LEMMA FlatMapOfFilter ==
    ASSUME NEW P, NEW D, NEW S, NEW f \in [D -> Seq(S)], NEW s \in Seq(D)
    PROVE  FilterThenFlatMap(P, f, D, s)
<1>1. PICK t : t = Telling(P, Same(D))
  OBVIOUS
<1>2. Same(D) \in [D -> D] /\ \A x \in D : Same(D)[x] = x
  BY DEF Same
<1>3. t \in [D -> Seq(D)] /\ \A x \in D : t[x] = IF x \in P THEN <<x>> ELSE <<>>
  BY <1>1, <1>2, TellingType
<1>4. FlatMapChains(t, f, D, s)
  BY <1>3, FlatMapCompose, Zenon
<1>5. ASSUME NEW x \in D
      PROVE  FlatMap(f, t[x]) = IF x \in P THEN f[x] ELSE <<>>
  <2>1. CASE x \in P
    <3>1. FlatMapOfOne(f, x)
      BY FlatMapFew, Zenon
    <3>2. QED
      BY <1>3, <2>1, <3>1, Zenon DEF FlatMapOfOne
  <2>2. CASE x \notin P
    BY <1>3, <2>2, FlatMapOfNothing, Zenon
  <2>3. QED
    BY <2>1, <2>2
<1>6. Composed(t, f, D) = OnlyOn(P, f, D)
  BY <1>5, Zenon DEF Composed, OnlyOn
<1>7. QED
  BY <1>1, <1>4, <1>6, Zenon DEF FilterThenFlatMap, FlatMapChains

-----------------------------------------------------------------------------
(* The rows of one kind.                                                   *)

\* The rows of a kind, and what they show
RowsOfKind(k) == {row \in TreeRows : row.location.kind = k}

LocationOf == [row \in TreeRows |-> row.location]

\* The locations that the rows of kind k show
Told(k) == Telling(RowsOfKind(k), LocationOf)

\* Each row tells its location, or nothing.
LEMMA ToldType ==
    ASSUME NEW k
    PROVE  /\ LocationOf \in [TreeRows -> Locations]
           /\ Told(k) \in [TreeRows -> Seq(Locations)]
           /\ \A row \in TreeRows :
                Told(k)[row] = IF row.location.kind = k THEN <<row.location>> ELSE <<>>
<1>1. LocationOf \in [TreeRows -> Locations] /\ \A row \in TreeRows : LocationOf[row] = row.location
  BY DEF LocationOf, TreeRows
<1>2. /\ Told(k) \in [TreeRows -> Seq(Locations)]
      /\ \A row \in TreeRows :
           Told(k)[row] = IF row \in RowsOfKind(k) THEN <<LocationOf[row]>> ELSE <<>>
  <2>1. PICK f \in [TreeRows -> Locations] : f = LocationOf
    BY <1>1
  <2>2. PICK P : P = RowsOfKind(k)
    OBVIOUS
  <2>3. /\ Telling(P, f) \in [TreeRows -> Seq(Locations)]
        /\ \A row \in TreeRows : Telling(P, f)[row] = IF row \in P THEN <<f[row]>> ELSE <<>>
    BY TellingType
  <2>4. QED
    BY <2>1, <2>2, <2>3, Zenon DEF Told
<1>3. \A row \in TreeRows : row \in RowsOfKind(k) <=> row.location.kind = k
  BY DEF RowsOfKind
<1>4. QED
  BY <1>1, <1>2, <1>3

\* The locations of one kind, as functions of the nodes
RelayNames == [r \in RelayLocation |-> OfRelay(r.host)]

\* What kind k has in a city, in a country, told without the rows
InCity(k, open, c, t) ==
    CASE k = "City" -> <<OfCity(c, t.code)>>
      [] k = "Relay" -> Images(RelayNames, IF CityOpen(open, c, t) THEN t.relays ELSE <<>>)
      [] OTHER -> <<>>

InCities(k, open, c) == [t \in CityNodes(c) |-> InCity(k, open, c, t)]

InCountry(k, open, force, n) ==
    IF k = "Country" THEN <<OfCountry(n.code)>>
    ELSE IF CountryOpen(open, force, n) THEN FlatMap(InCities(k, open, n.code), n.cities)
    ELSE <<>>

InCountries(k, open, force) == [n \in CountryNodes |-> InCountry(k, open, force, n)]

\* What is told of one row is its location, if it is of the kind.
ToldOfOne(k, row) ==
    FlatMap(Told(k), <<row>>) = IF row.location.kind = k THEN <<row.location>> ELSE <<>>

\* One row tells its location when it is of the kind.
LEMMA OneTold ==
    ASSUME NEW k, NEW row \in TreeRows
    PROVE  ToldOfOne(k, row)
<1>1. FlatMapOfOne(Told(k), row)
  BY ToldType, FlatMapFew, Zenon
<1>2. QED
  BY <1>1, ToldType, Zenon DEF FlatMapOfOne, ToldOfOne

\* A row and the rows under it
ToldOfRows(k, row, rest) ==
    FlatMap(Told(k), <<row>> \o rest)
      = (IF row.location.kind = k THEN <<row.location>> ELSE <<>>) \o FlatMap(Told(k), rest)

\* A row comes before the rows under it.
LEMMA RowsTold ==
    ASSUME NEW k, NEW row \in TreeRows, NEW rest \in Seq(TreeRows)
    PROVE  ToldOfRows(k, row, rest)
<1>1. <<row>> \in Seq(TreeRows)
  BY SingletonSeq
<1>2. PICK one \in Seq(TreeRows) : one = <<row>>
  BY <1>1
<1>3. FlatMapSplits(Told(k), one, rest)
  BY ToldType, FlatMapConcat, Zenon
<1>4. ToldOfOne(k, row)
  BY OneTold
<1>5. QED
  BY <1>2, <1>3, <1>4, Zenon DEF FlatMapSplits, ToldOfOne, ToldOfRows

\* The rows of relays tell the relays, for their kind.
RelaysTold(k, c, relays) ==
    FlatMap(Told(k), Images(RelayRow(c), relays))
      = IF k = "Relay" THEN Images(RelayNames, relays) ELSE <<>>

\* So they do.
LEMMA ToldOfRelays ==
    ASSUME NEW k, NEW c \in DOMAIN CountryTexts, NEW relays \in Seq(RelayLocation)
    PROVE  RelaysTold(k, c, relays)
<1>1. PICK f \in [RelayLocation -> TreeRows] : f = RelayRow(c)
  BY RelayRowType
<1>2. ImagesThenFlatMap(f, Told(k), RelayLocation, relays)
  BY FlatMapOfImages, Zenon
<1>3. ASSUME NEW r \in RelayLocation
      PROVE  Told(k)[f[r]] = IF k = "Relay" THEN <<OfRelay(r.host)>> ELSE <<>>
  <2>1. f[r] \in TreeRows /\ f[r].location = OfRelay(r.host) /\ f[r].location.kind = "Relay"
    BY <1>1 DEF RelayRow, TreeRow, OfRelay, Location
  <2>2. QED
    BY <2>1, ToldType, Zenon
<1>4. PICK h : h = [r \in RelayLocation |-> Told(k)[f[r]]]
  OBVIOUS
<1>5. CASE k = "Relay"
  <2>1. RelayNames \in [RelayLocation -> Locations]
    BY RelayFacts, LocationTypes DEF RelayNames
  <2>2. FlatMapIsMap(RelayNames, relays)
    BY <2>1, FlatMapSingles, Zenon
  <2>3. h = [r \in DOMAIN RelayNames |-> <<RelayNames[r]>>]
    BY <1>3, <1>4, <1>5 DEF RelayNames
  <2>4. QED
    BY <1>1, <1>2, <1>4, <1>5, <2>2, <2>3, Zenon DEF FlatMapIsMap, ImagesThenFlatMap, RelaysTold
<1>6. CASE k # "Relay"
  <2>1. h = [r \in RelayLocation |-> <<>>]
    BY <1>3, <1>4, <1>6
  <2>2. FlatMap(h, relays) = <<>>
    BY <2>1, FlatMapVanishes
  <2>3. QED
    BY <1>1, <1>2, <1>4, <1>6, <2>2, Zenon DEF ImagesThenFlatMap, RelaysTold
<1>7. QED
  BY <1>5, <1>6

\* The rows of a city tell what the city has.
ToldOfCity(k, open, c, t) ==
    FlatMap(Told(k), RowsOfCity(open, c)[t]) = InCity(k, open, c, t)

\* So they do: by the kind, and by whether the city is open.
LEMMA CityTold ==
    ASSUME NEW k \in Kinds, NEW open, NEW c \in DOMAIN CountryTexts, NEW t \in CityNodes(c)
    PROVE  ToldOfCity(k, open, c, t)
<1>1. PICK row \in TreeRows : row = CityRow(open, c, t)
  BY CityRowType
<1>2. row.location = OfCity(c, t.code) /\ row.location.kind = "City"
  BY <1>1 DEF CityRow, TreeRow, OfCity, Location
<1>3. PICK shown \in Seq(RelayLocation) :
         shown = IF CityOpen(open, c, t) THEN t.relays ELSE <<>>
  BY CityFacts, NothingIsASeq, Zenon
<1>4. PICK rest : rest = Images(RelayRow(c), shown)
  OBVIOUS
<1>5. rest = IF CityOpen(open, c, t) THEN Images(RelayRow(c), t.relays) ELSE <<>>
  <2>1. Images(RelayRow(c), <<>>) = <<>>
    BY DEF Images
  <2>2. QED
    BY <1>3, <1>4, <2>1, Zenon
<1>6. rest \in Seq(TreeRows)
  <2>1. PICK f \in [RelayLocation -> TreeRows] : f = RelayRow(c)
    BY RelayRowType
  <2>2. \A i \in 1 .. Len(shown) : f[shown[i]] \in TreeRows
    OBVIOUS
  <2>3. Images(f, shown) \in Seq(TreeRows)
    BY <2>2 DEF Images
  <2>4. QED
    BY <1>4, <2>1, <2>3
<1>7. RowsOfCity(open, c)[t] = <<row>> \o rest
  BY <1>1, <1>5, Zenon DEF RowsOfCity
<1>8. ToldOfRows(k, row, rest)
  BY <1>6, RowsTold
<1>9. RelaysTold(k, c, shown)
  BY ToldOfRelays
<1>10. /\ FlatMap(Told(k), rest) = IF k = "Relay" THEN Images(RelayNames, shown) ELSE <<>>
       /\ FlatMap(Told(k), <<row>> \o rest)
            = (IF k = "City" THEN <<OfCity(c, t.code)>> ELSE <<>>) \o FlatMap(Told(k), rest)
  BY <1>2, <1>4, <1>8, <1>9, Zenon DEF ToldOfRows, RelaysTold
<1>11. CASE k = "City"
  <2>1. FlatMap(Told(k), rest) = <<>>
    BY <1>10, <1>11
  <2>2. <<OfCity(c, t.code)>> \o <<>> = <<OfCity(c, t.code)>>
    OBVIOUS
  <2>3. InCity(k, open, c, t) = <<OfCity(c, t.code)>>
    BY <1>11 DEF InCity
  <2>4. QED
    BY <1>7, <1>10, <1>11, <2>1, <2>2, <2>3, Zenon DEF ToldOfCity
<1>12. CASE k = "Relay"
  <2>1. k # "City"
    BY <1>12
  <2>2. PICK names \in Seq(Locations) : names = Images(RelayNames, shown)
    <3>1. PICK f \in [RelayLocation -> Locations] : f = RelayNames
      BY RelayFacts, LocationTypes DEF RelayNames
    <3>2. \A i \in 1 .. Len(shown) : f[shown[i]] \in Locations
      OBVIOUS
    <3>3. Images(f, shown) \in Seq(Locations)
      BY <3>2 DEF Images
    <3>4. QED
      BY <3>1, <3>3
  <2>3. <<>> \o names = names
    BY ConcatEmptySeq
  <2>4. InCity(k, open, c, t) = names
    BY <1>3, <1>12, <2>1, <2>2, Zenon DEF InCity
  <2>5. QED
    BY <1>7, <1>10, <1>12, <2>1, <2>2, <2>3, <2>4, Zenon DEF ToldOfCity
<1>13. CASE k = "Country"
  <2>1. k # "City" /\ k # "Relay"
    BY <1>13
  <2>2. <<>> \o <<>> = <<>>
    OBVIOUS
  <2>3. InCity(k, open, c, t) = <<>>
    BY <2>1 DEF InCity
  <2>4. QED
    BY <1>7, <1>10, <2>1, <2>2, <2>3, Zenon DEF ToldOfCity
<1>14. QED
  BY <1>11, <1>12, <1>13 DEF Kinds

\* What the cities have is what their rows tell.
LEMMA InCitiesType ==
    ASSUME NEW k \in Kinds, NEW open, NEW c \in DOMAIN CountryTexts
    PROVE  /\ InCities(k, open, c) \in [CityNodes(c) -> Seq(Locations)]
           /\ InCities(k, open, c) = Composed(RowsOfCity(open, c), Told(k), CityNodes(c))
<1>1. ASSUME NEW t \in CityNodes(c)
      PROVE  /\ InCity(k, open, c, t) = FlatMap(Told(k), RowsOfCity(open, c)[t])
             /\ InCity(k, open, c, t) \in Seq(Locations)
  <2>1. RowsOfCity(open, c)[t] \in Seq(TreeRows)
    BY RowsOfCityType
  <2>2. FlatMap(Told(k), RowsOfCity(open, c)[t]) \in Seq(Locations)
    BY <2>1, ToldType, FlatMapType
  <2>3. ToldOfCity(k, open, c, t)
    BY CityTold
  <2>4. QED
    BY <2>2, <2>3, Zenon DEF ToldOfCity
<1>2. QED
  BY <1>1 DEF InCities, Composed

\* The rows of a country tell what the country has.
ToldOfCountry(k, open, force, n) ==
    FlatMap(Told(k), RowsOfCountry(open, force)[n]) = InCountry(k, open, force, n)

\* So they do: by the kind, and by whether the country is open.
LEMMA CountryTold ==
    ASSUME NEW k \in Kinds, NEW open, NEW force, NEW n \in CountryNodes
    PROVE  ToldOfCountry(k, open, force, n)
<1>1. PICK row \in TreeRows : row = CountryRow(open, force, n)
  BY CountryRowType
<1>2. row.location = OfCountry(n.code) /\ row.location.kind = "Country"
  BY <1>1 DEF CountryRow, TreeRow, OfCountry, Location
<1>3. PICK c \in DOMAIN CountryTexts : c = n.code
  BY CountryFacts
<1>4. PICK cities \in Seq(CityNodes(c)) : cities = n.cities
  BY <1>3, CountryFacts
<1>5. PICK all \in Seq(TreeRows) : all = FlatMap(RowsOfCity(open, c), cities)
  BY RowsOfCityType, FlatMapType
<1>6. FlatMapChains(RowsOfCity(open, c), Told(k), CityNodes(c), cities)
  BY RowsOfCityType, ToldType, FlatMapCompose, Zenon
<1>7. FlatMap(Told(k), all) = FlatMap(InCities(k, open, c), cities)
  BY <1>5, <1>6, InCitiesType, Zenon DEF FlatMapChains
<1>8. PICK told \in Seq(Locations) : told = FlatMap(InCities(k, open, c), cities)
  BY InCitiesType, FlatMapType
<1>9. PICK rest \in Seq(TreeRows) :
         rest = IF CountryOpen(open, force, n) THEN all ELSE <<>>
  BY NothingIsASeq, Zenon
<1>10. RowsOfCountry(open, force)[n] = <<row>> \o rest
  BY <1>1, <1>3, <1>4, <1>5, <1>9, Zenon DEF RowsOfCountry
<1>11. FlatMap(Told(k), rest) = IF CountryOpen(open, force, n) THEN told ELSE <<>>
  BY <1>7, <1>8, <1>9, FlatMapOfNothing, Zenon
<1>12. ToldOfRows(k, row, rest)
  BY RowsTold
<1>13. FlatMap(Told(k), <<row>> \o rest)
         = (IF k = "Country" THEN <<OfCountry(n.code)>> ELSE <<>>) \o FlatMap(Told(k), rest)
  BY <1>2, <1>12, Zenon DEF ToldOfRows
<1>14. CASE k = "Country"
  <2>1. told = <<>>
    <3>1. InCities(k, open, c) = [t \in CityNodes(c) |-> <<>>]
      BY <1>14 DEF InCities, InCity
    <3>2. FlatMap(InCities(k, open, c), cities) = <<>>
      BY <3>1, FlatMapVanishes
    <3>3. QED
      BY <1>8, <3>2
  <2>2. FlatMap(Told(k), rest) = <<>>
    BY <1>11, <2>1, Zenon
  <2>3. <<OfCountry(n.code)>> \o <<>> = <<OfCountry(n.code)>>
    OBVIOUS
  <2>4. QED
    BY <1>10, <1>13, <1>14, <2>2, <2>3, Zenon DEF ToldOfCountry, InCountry
<1>15. CASE k # "Country"
  <2>1. PICK shown \in Seq(Locations) : shown = IF CountryOpen(open, force, n) THEN told ELSE <<>>
    BY NothingIsASeq, Zenon
  <2>2. <<>> \o shown = shown
    BY ConcatEmptySeq
  <2>3. InCountry(k, open, force, n) = shown
    BY <1>3, <1>4, <1>8, <1>15, <2>1, Zenon DEF InCountry
  <2>4. QED
    BY <1>10, <1>11, <1>13, <1>15, <2>1, <2>2, <2>3, Zenon DEF ToldOfCountry
<1>16. QED
  BY <1>14, <1>15

\* The rows of the tree tell what its countries have.
ToldOfTree(k, tree, open, force) ==
    FlatMap(Told(k), FlatRows(tree, open, force)) = FlatMap(InCountries(k, open, force), tree)

\* So they do: telling is a FlatMap, and so is flattening the tree.
LEMMA TreeTold ==
    ASSUME NEW k \in Kinds, NEW tree \in Seq(CountryNodes), NEW open, NEW force
    PROVE  ToldOfTree(k, tree, open, force)
<1>1. FlatMapChains(RowsOfCountry(open, force), Told(k), CountryNodes, tree)
  BY RowsOfCountryType, ToldType, FlatMapCompose, Zenon
<1>2. ASSUME NEW n \in CountryNodes
      PROVE  FlatMap(Told(k), RowsOfCountry(open, force)[n]) = InCountry(k, open, force, n)
  <2>1. ToldOfCountry(k, open, force, n)
    BY CountryTold
  <2>2. QED
    BY <2>1, Zenon DEF ToldOfCountry
<1>3. Composed(RowsOfCountry(open, force), Told(k), CountryNodes) = InCountries(k, open, force)
  BY <1>2, Zenon DEF Composed, InCountries
<1>4. QED
  BY <1>1, <1>3, Zenon DEF FlatMapChains, ToldOfTree, FlatRows

-----------------------------------------------------------------------------
(* The walks of the activation handler.                                    *)

ShownCities ==
    [country : DOMAIN CountryTexts, code : Nat, forced : BOOLEAN,
            relays : Seq(RelayLocation)]

\* A city with the country it is in
ShownCity(c) ==
    [t \in CityNodes(c) |->
       [country |-> c, code |-> t.code, forced |-> t.forced, relays |-> t.relays]]

\* The cities of a country; of the open ones only
CitiesOf == [n \in CountryNodes |-> Images(ShownCity(n.code), n.cities)]

OpenCountries(open, force) == {n \in CountryNodes : CountryOpen(open, force, n)}

CitiesIfOpen(open, force) == OnlyOn(OpenCountries(open, force), CitiesOf, CountryNodes)

\* The relays of a city; of the open ones only
OpenCities(open) == {x \in ShownCities : CityOpen(open, x.country, x)}

RelaysOf == [x \in ShownCities |-> x.relays]

RelaysIfOpen(open) == OnlyOn(OpenCities(open), RelaysOf, ShownCities)

\* Each country has cities of the walk.
LEMMA CitiesOfType ==
    /\ \A c \in DOMAIN CountryTexts : ShownCity(c) \in [CityNodes(c) -> ShownCities]
    /\ CitiesOf \in [CountryNodes -> Seq(ShownCities)]
<1>1. ASSUME NEW c \in DOMAIN CountryTexts
      PROVE  ShownCity(c) \in [CityNodes(c) -> ShownCities]
  <2>1. \A t \in CityNodes(c) :
           [country |-> c, code |-> t.code, forced |-> t.forced, relays |-> t.relays] \in ShownCities
    BY CityFacts DEF ShownCities
  <2>2. QED
    BY <2>1 DEF ShownCity
<1>2. ASSUME NEW n \in CountryNodes PROVE Images(ShownCity(n.code), n.cities) \in Seq(ShownCities)
  <2>0. PICK c \in DOMAIN CountryTexts : c = n.code
    BY CountryFacts
  <2>1. PICK cities \in Seq(CityNodes(c)) : cities = n.cities
    BY <2>0, CountryFacts
  <2>2. PICK f \in [CityNodes(c) -> ShownCities] : f = ShownCity(c)
    BY <1>1
  <2>3. \A i \in 1 .. Len(cities) : f[cities[i]] \in ShownCities
    OBVIOUS
  <2>4. Images(f, cities) \in Seq(ShownCities)
    BY <2>3 DEF Images
  <2>5. QED
    BY <2>0, <2>1, <2>2, <2>4
<1>3. QED
  BY <1>1, <1>2 DEF CitiesOf

\* Skipping keeps the type.
LEMMA OnlyOnType ==
    ASSUME NEW P, NEW D, NEW S, NEW f \in [D -> Seq(S)]
    PROVE  OnlyOn(P, f, D) \in [D -> Seq(S)]
<1>1. \A x \in D : (IF x \in P THEN f[x] ELSE <<>>) \in Seq(S)
  BY NothingIsASeq
<1>2. QED
  BY <1>1 DEF OnlyOn

\* The same for what is open
LEMMA IfOpenTypes ==
    ASSUME NEW open, NEW force
    PROVE  /\ CitiesIfOpen(open, force) \in [CountryNodes -> Seq(ShownCities)]
           /\ RelaysIfOpen(open) \in [ShownCities -> Seq(RelayLocation)]
           /\ RelaysOf \in [ShownCities -> Seq(RelayLocation)]
<1>1. RelaysOf \in [ShownCities -> Seq(RelayLocation)]
  BY DEF RelaysOf, ShownCities
<1>2. QED
  BY <1>1, CitiesOfType, OnlyOnType DEF CitiesIfOpen, RelaysIfOpen

\* Filtering by a test is keeping a set.
IsKept(k, P, D, s) == k = FlatMap(Telling(P, Same(D)), s)

\* Kept is the filter of the FlatMap lemmas.
LEMMA KeptIs ==
    ASSUME NEW D, NEW P, NEW s \in Seq(D), NEW k, KeptOf(s, k, P)
    PROVE  IsKept(k, P, D, s)
<1>1. PICK f : f = Telling(P, Same(D))
  OBVIOUS
<1>2. Same(D) \in [D -> D] /\ \A x \in D : Same(D)[x] = x
  BY DEF Same
<1>3. \A x \in D : f[x] = IF x \in P THEN <<x>> ELSE <<>>
  BY <1>1, <1>2, TellingType
<1>4. \A i \in 1 .. Len(s) : f[s[i]] = IF s[i] \in P THEN <<s[i]>> ELSE <<>>
  BY <1>3
<1>5. DOMAIN s = 1 .. Len(s)
  OBVIOUS
<1>6. Images(f, s) = [i \in DOMAIN s |-> IF s[i] \in P THEN <<s[i]>> ELSE <<>>]
  BY <1>4, <1>5, Zenon DEF Images
<1>7. QED
  BY <1>1, <1>6, Zenon DEF KeptOf, IsKept, FlatMap

\* A filter keeps what is in P.
LEMMA KeptHas ==
    ASSUME NEW D, NEW P, NEW s \in Seq(D), NEW k, KeptOf(s, k, P),
           NEW i \in 1 .. Len(s), s[i] \in P
    PROVE  \E j \in 1 .. Len(k) : k[j] = s[i]
<1>1. PICK f : f = Telling(P, Same(D))
  OBVIOUS
<1>2. Same(D) \in [D -> D] /\ \A x \in D : Same(D)[x] = x
  BY DEF Same
<1>3. f \in [D -> Seq(D)] /\ \A x \in D : f[x] = IF x \in P THEN <<x>> ELSE <<>>
  BY <1>1, <1>2, TellingType
<1>4. f[s[i]] = <<s[i]>>
  BY <1>3
<1>5. 1 \in 1 .. Len(f[s[i]]) /\ f[s[i]][1] = s[i]
  BY <1>4
<1>6. FlatMapHas(f, s, i, 1)
  BY <1>3, <1>5, FlatMapKeeps
<1>7. k = FlatMap(f, s)
  BY <1>1, KeptIs DEF IsKept
<1>8. QED
  BY <1>5, <1>6, <1>7 DEF FlatMapHas

\* The walk for cities: the cities of the open countries, one country after the
\* other.
LEMMA CitiesShownAre ==
    ASSUME NEW tree \in Seq(CountryNodes), NEW open, NEW force
    PROVE  /\ CitiesShown(tree, open, force) = FlatMap(CitiesIfOpen(open, force), tree)
           /\ CitiesShown(tree, open, force) \in Seq(ShownCities)
<1> DEFINE Shown(c) == force \/ c.code \in open.countries
           OfNode(c) == Mapped(c.cities,
                               LAMBDA t : [country |-> c.code, code |-> t.code,
                                           forced |-> t.forced, relays |-> t.relays])
<1>1. CitiesShown(tree, open, force) = FlatMapped(Kept(tree, Shown), OfNode)
  BY DEF CitiesShown
<1>2. PICK P : P = OpenCountries(open, force)
  OBVIOUS
<1>3. PICK kept : kept = Kept(tree, Shown)
  OBVIOUS
<1>4. KeptOf(tree, kept, P)
  <2>1. \A i \in DOMAIN tree : tree[i] \in P <=> Shown(tree[i])
    BY <1>2 DEF OpenCountries, CountryOpen
  <2> HIDE DEF Shown
  <2>2. QED
    BY <1>3, <2>1 DEF KeptOf, Kept, FlatMapped, Mapped
<1>5. kept \in Seq(CountryNodes) /\ IsKept(kept, P, CountryNodes, tree)
  <2>1. kept \in Seq({x \in CountryNodes : x \in P})
    BY <1>4, KeptType
  <2>2. IsKept(kept, P, CountryNodes, tree)
    BY <1>4, KeptIs
  <2>3. QED
    BY <2>1, <2>2
<1>6. ASSUME NEW n \in CountryNodes PROVE OfNode(n) = CitiesOf[n]
  <2>0. PICK c \in DOMAIN CountryTexts : c = n.code
    BY CountryFacts
  <2>1. PICK cities \in Seq(CityNodes(c)) : cities = n.cities
    BY <2>0, CountryFacts
  <2>2. \A i \in 1 .. Len(cities) : cities[i] \in CityNodes(c)
    OBVIOUS
  <2>3. \A i \in 1 .. Len(cities) :
           ShownCity(c)[cities[i]] = [country |-> c, code |-> cities[i].code,
                                      forced |-> cities[i].forced, relays |-> cities[i].relays]
    BY <2>2, Zenon DEF ShownCity
  <2>4. DOMAIN cities = 1 .. Len(cities)
    OBVIOUS
  <2>5. Images(ShownCity(c), cities) =
          [i \in 1 .. Len(cities) |->
             [country |-> c, code |-> cities[i].code,
              forced |-> cities[i].forced, relays |-> cities[i].relays]]
    BY <2>3, Zenon DEF Images
  <2>6. CitiesOf[n] = Images(ShownCity(c), cities)
    BY <2>0, <2>1, Zenon DEF CitiesOf
  <2>7. QED
    BY <2>0, <2>1, <2>4, <2>5, <2>6 DEF Mapped
<1> HIDE DEF OfNode, Shown
<1>7. FlatMapped(kept, OfNode) = FlatMap(CitiesOf, kept)
  <2>1. \A i \in 1 .. Len(kept) : OfNode(kept[i]) = CitiesOf[kept[i]]
    BY <1>5, <1>6
  <2>2. DOMAIN kept = 1 .. Len(kept)
    BY <1>5
  <2>3. Mapped(kept, OfNode) = Images(CitiesOf, kept)
    BY <2>1, <2>2, Zenon DEF Mapped, Images
  <2>4. QED
    BY <2>3, Zenon DEF FlatMapped, FlatMap
<1>8. FilterThenFlatMap(P, CitiesOf, CountryNodes, tree)
  BY CitiesOfType, FlatMapOfFilter, Zenon
<1>9. CitiesShown(tree, open, force) = FlatMap(CitiesIfOpen(open, force), tree)
  BY <1>1, <1>2, <1>3, <1>5, <1>7, <1>8, Zenon DEF FilterThenFlatMap, IsKept, CitiesIfOpen
<1>10. FlatMap(CitiesIfOpen(open, force), tree) \in Seq(ShownCities)
  BY IfOpenTypes, FlatMapType
<1>11. QED
  BY <1>9, <1>10

\* The walk for relays: the relays of the open cities among those.
LEMMA RelaysShownAre ==
    ASSUME NEW tree \in Seq(CountryNodes), NEW open, NEW force
    PROVE  /\ RelaysShown(tree, open, force) =
                FlatMap(RelaysIfOpen(open), CitiesShown(tree, open, force))
           /\ RelaysShown(tree, open, force) \in Seq(RelayLocation)
<1> DEFINE Shown(t) == t.forced \/ <<t.country, t.code>> \in open.cities
           Relays(t) == t.relays
<1>1. PICK cities \in Seq(ShownCities) : cities = CitiesShown(tree, open, force)
  BY CitiesShownAre
<1>2. RelaysShown(tree, open, force) = FlatMapped(Kept(cities, Shown), Relays)
  BY <1>1 DEF RelaysShown
<1>3. PICK P : P = OpenCities(open)
  OBVIOUS
<1>4. PICK kept : kept = Kept(cities, Shown)
  OBVIOUS
<1>5. KeptOf(cities, kept, P)
  <2>1. \A i \in DOMAIN cities : cities[i] \in P <=> Shown(cities[i])
    BY <1>3 DEF OpenCities, CityOpen
  <2> HIDE DEF Shown
  <2>2. QED
    BY <1>4, <2>1 DEF KeptOf, Kept, FlatMapped, Mapped
<1>6. kept \in Seq(ShownCities) /\ IsKept(kept, P, ShownCities, cities)
  <2>1. kept \in Seq({x \in ShownCities : x \in P})
    BY <1>5, KeptType
  <2>2. IsKept(kept, P, ShownCities, cities)
    BY <1>5, KeptIs
  <2>3. QED
    BY <2>1, <2>2
<1> HIDE DEF Shown
<1>7. FlatMapped(kept, Relays) = FlatMap(RelaysOf, kept)
  <2>1. \A i \in 1 .. Len(kept) : kept[i].relays = RelaysOf[kept[i]]
    BY <1>6 DEF RelaysOf
  <2>2. DOMAIN kept = 1 .. Len(kept)
    BY <1>6
  <2>3. Mapped(kept, Relays) = Images(RelaysOf, kept)
    BY <2>1, <2>2, Zenon DEF Mapped, Images
  <2>4. QED
    BY <2>3, Zenon DEF FlatMapped, FlatMap
<1>8. FilterThenFlatMap(P, RelaysOf, ShownCities, cities)
  BY IfOpenTypes, FlatMapOfFilter, Zenon
<1>9. RelaysShown(tree, open, force) = FlatMap(RelaysIfOpen(open), cities)
  BY <1>2, <1>3, <1>4, <1>6, <1>7, <1>8, Zenon DEF FilterThenFlatMap, IsKept, RelaysIfOpen
<1>10. FlatMap(RelaysIfOpen(open), cities) \in Seq(RelayLocation)
  BY IfOpenTypes, FlatMapType
<1>11. QED
  BY <1>1, <1>9, <1>10

\* What each walk's entities are called
CountryNames == [n \in CountryNodes |-> OfCountry(n.code)]

CityNames == [x \in ShownCities |-> OfCity(x.country, x.code)]

\* They are called by locations.
LEMMA NameTypes ==
    /\ CountryNames \in [CountryNodes -> Locations]
    /\ CityNames \in [ShownCities -> Locations]
    /\ RelayNames \in [RelayLocation -> Locations]
<1>1. \A n \in CountryNodes : n.code \in Nat
  BY CountryFacts, TreeAssumption
<1>2. \A x \in ShownCities : x.country \in Nat /\ x.code \in Nat
  BY TreeAssumption DEF ShownCities
<1>3. CountryNames \in [CountryNodes -> Locations]
  BY <1>1, LocationTypes DEF CountryNames
<1>4. CityNames \in [ShownCities -> Locations]
  BY <1>2, LocationTypes DEF CityNames
<1>5. RelayNames \in [RelayLocation -> Locations]
  BY RelayFacts, LocationTypes DEF RelayNames
<1>6. QED
  BY <1>3, <1>4, <1>5

\* The walk for one kind of row, named as the rows are, is what the rows tell
\* of the kind.
Walk(k, tree, open, force) ==
    IF k = "Country" THEN Images(CountryNames, tree)
    ELSE IF k = "City" THEN Images(CityNames, CitiesShown(tree, open, force))
    ELSE Images(RelayNames, RelaysShown(tree, open, force))

\* The activation walk for kind k gives, in order, what the rows of kind k
\* show.
WalkTells(k, tree, open, force) ==
    Walk(k, tree, open, force) = FlatMap(Told(k), FlatRows(tree, open, force))

\* Below the countries, a walk goes through the cities shown.
WalkOfCities(g, k, tree, open, force) ==
    FlatMap(g, CitiesShown(tree, open, force)) = FlatMap(InCountries(k, open, force), tree)

\* A walk that tells of each city what the city has tells what the countries
\* have.
LEMMA CitiesWalk ==
    ASSUME NEW k \in {"City", "Relay"}, NEW tree \in Seq(CountryNodes), NEW open, NEW force,
           NEW g \in [ShownCities -> Seq(Locations)],
           \A c \in DOMAIN CountryTexts : \A t \in CityNodes(c) :
              g[ShownCity(c)[t]] = InCity(k, open, c, t)
    PROVE  WalkOfCities(g, k, tree, open, force)
<1>1. FlatMapChains(CitiesIfOpen(open, force), g, CountryNodes, tree)
  BY IfOpenTypes, FlatMapCompose, Zenon
<1>2. ASSUME NEW n \in CountryNodes
      PROVE  FlatMap(g, CitiesIfOpen(open, force)[n]) = InCountry(k, open, force, n)
  <2>1. PICK c \in DOMAIN CountryTexts : c = n.code
    BY CountryFacts
  <2>2. PICK cities \in Seq(CityNodes(c)) : cities = n.cities
    BY <2>1, CountryFacts
  <2>3. ImagesThenFlatMap(ShownCity(c), g, CityNodes(c), cities)
    BY CitiesOfType, FlatMapOfImages, Zenon
  <2>4. [t \in CityNodes(c) |-> g[ShownCity(c)[t]]] = InCities(k, open, c)
    BY Zenon DEF InCities
  <2>5. FlatMap(g, CitiesOf[n]) = FlatMap(InCities(k, open, c), cities)
    BY <2>1, <2>2, <2>3, <2>4, Zenon DEF ImagesThenFlatMap, CitiesOf
  <2>6. CitiesIfOpen(open, force)[n] = IF CountryOpen(open, force, n) THEN CitiesOf[n] ELSE <<>>
    BY Zenon DEF CitiesIfOpen, OnlyOn, OpenCountries
  <2>7. k # "Country"
    OBVIOUS
  <2>8. QED
    BY <2>1, <2>2, <2>5, <2>6, <2>7, FlatMapOfNothing, Zenon DEF InCountry
<1>3. Composed(CitiesIfOpen(open, force), g, CountryNodes) = InCountries(k, open, force)
  BY <1>2, Zenon DEF Composed, InCountries
<1>4. QED
  BY <1>1, <1>3, CitiesShownAre, Zenon DEF FlatMapChains, WalkOfCities

\* Each of the three walks tells what the rows tell: the rows and the walks
\* flatten the same tree.
LEMMA WalksTell ==
    ASSUME NEW k \in Kinds, NEW tree \in Seq(CountryNodes), NEW open, NEW force
    PROVE  WalkTells(k, tree, open, force)
<1>1. SUFFICES Walk(k, tree, open, force) = FlatMap(InCountries(k, open, force), tree)
  <2>1. ToldOfTree(k, tree, open, force)
    BY TreeTold
  <2>2. QED
    BY <2>1, Zenon DEF ToldOfTree, WalkTells
<1>2. CASE k = "Country"
  <2>1. FlatMapIsMap(CountryNames, tree)
    BY NameTypes, FlatMapSingles, Zenon
  <2>2. InCountries(k, open, force) = [n \in DOMAIN CountryNames |-> <<CountryNames[n]>>]
    BY <1>2 DEF InCountries, InCountry, CountryNames
  <2>3. QED
    BY <1>2, <2>1, <2>2, Zenon DEF FlatMapIsMap, Walk
<1>3. CASE k = "City"
  <2>0. k # "Country" /\ k \in {"City", "Relay"}
    BY <1>3
  <2>1. PICK cities \in Seq(ShownCities) : cities = CitiesShown(tree, open, force)
    BY CitiesShownAre
  <2>2. PICK g : g = [x \in DOMAIN CityNames |-> <<CityNames[x]>>]
    OBVIOUS
  <2>3. g \in [ShownCities -> Seq(Locations)] /\ \A x \in ShownCities : g[x] = <<CityNames[x]>>
    BY <2>2, NameTypes, SingletonSeq
  <2>4. FlatMapIsMap(CityNames, cities)
    BY NameTypes, FlatMapSingles, Zenon
  <2>5. ASSUME NEW c \in DOMAIN CountryTexts, NEW t \in CityNodes(c)
        PROVE  g[ShownCity(c)[t]] = InCity(k, open, c, t)
    <3>1. ShownCity(c)[t] \in ShownCities
      BY CitiesOfType
    <3>2. ShownCity(c)[t].country = c /\ ShownCity(c)[t].code = t.code
      BY DEF ShownCity
    <3>3. CityNames[ShownCity(c)[t]] = OfCity(c, t.code)
      BY <3>1, <3>2, Zenon DEF CityNames
    <3>4. InCity(k, open, c, t) = <<OfCity(c, t.code)>>
      BY <1>3 DEF InCity
    <3>5. QED
      BY <2>3, <3>1, <3>3, <3>4, Zenon
  <2>6. WalkOfCities(g, k, tree, open, force)
    BY <2>0, <2>3, <2>5, CitiesWalk, Zenon
  <2>7. QED
    BY <1>3, <2>0, <2>1, <2>2, <2>4, <2>6, Zenon DEF FlatMapIsMap, WalkOfCities, Walk
<1>4. CASE k = "Relay"
  <2>0. k # "Country" /\ k # "City" /\ k \in {"City", "Relay"}
    BY <1>4
  <2>1. PICK cities \in Seq(ShownCities) : cities = CitiesShown(tree, open, force)
    BY CitiesShownAre
  <2>2. PICK r \in [ShownCities -> Seq(RelayLocation)] : r = RelaysIfOpen(open)
    BY IfOpenTypes
  <2>3. PICK relays \in Seq(RelayLocation) : relays = RelaysShown(tree, open, force) /\ relays = FlatMap(r, cities)
    BY <2>1, <2>2, RelaysShownAre
  <2>4. PICK s : s = [x \in DOMAIN RelayNames |-> <<RelayNames[x]>>]
    OBVIOUS
  <2>5. s \in [RelayLocation -> Seq(Locations)]
    BY <2>4, NameTypes, SingletonSeq
  <2>6. PICK g : g = Composed(r, s, ShownCities)
    OBVIOUS
  <2>7. g \in [ShownCities -> Seq(Locations)] /\ \A x \in ShownCities : g[x] = FlatMap(s, r[x])
    <3>1. \A x \in ShownCities : FlatMap(s, r[x]) \in Seq(Locations)
      BY <2>5, FlatMapType
    <3>2. QED
      BY <2>6, <3>1, Zenon DEF Composed
  <2>8. FlatMapChains(r, s, ShownCities, cities)
    BY <2>5, FlatMapCompose, Zenon
  <2>9. FlatMapIsMap(RelayNames, relays)
    BY NameTypes, FlatMapSingles, Zenon
  <2>10. ASSUME NEW c \in DOMAIN CountryTexts, NEW t \in CityNodes(c)
         PROVE  g[ShownCity(c)[t]] = InCity(k, open, c, t)
    <3>1. PICK x \in ShownCities : x = ShownCity(c)[t]
      BY CitiesOfType
    <3>2. x.country = c /\ x.code = t.code /\ x.forced = t.forced /\ x.relays = t.relays
      BY <3>1 DEF ShownCity
    <3>3. CityOpen(open, x.country, x) <=> CityOpen(open, c, t)
      BY <3>2, Zenon DEF CityOpen
    <3>4. r[x] = IF CityOpen(open, c, t) THEN t.relays ELSE <<>>
      BY <2>2, <3>2, <3>3, Zenon DEF RelaysIfOpen, OnlyOn, OpenCities, RelaysOf
    <3>5. PICK shown \in Seq(RelayLocation) : shown = r[x]
      OBVIOUS
    <3>6. FlatMapIsMap(RelayNames, shown)
      BY NameTypes, FlatMapSingles, Zenon
    <3>7. g[x] = Images(RelayNames, shown)
      BY <2>4, <2>7, <3>5, <3>6, Zenon DEF FlatMapIsMap
    <3>8. InCity(k, open, c, t) = Images(RelayNames, IF CityOpen(open, c, t) THEN t.relays ELSE <<>>)
      BY <1>4 DEF InCity
    <3>9. QED
      BY <3>1, <3>4, <3>5, <3>7, <3>8, Zenon
  <2>11. WalkOfCities(g, k, tree, open, force)
    BY <2>0, <2>7, <2>10, CitiesWalk, Zenon
  <2>12. FlatMap(s, relays) = FlatMap(InCountries(k, open, force), tree)
    BY <2>1, <2>3, <2>6, <2>8, <2>11, Zenon DEF FlatMapChains, WalkOfCities
  <2>13. QED
    BY <2>0, <2>3, <2>4, <2>9, <2>12, Zenon DEF FlatMapIsMap, Walk
<1>5. QED
  BY <1>2, <1>3, <1>4 DEF Kinds

-----------------------------------------------------------------------------
(* The radio of a row.                                                     *)

\* The number of row i among the rows of its kind
RankInKind(rows, i) == Cardinality(UpTo(rows, RowsOfKind(KindOfRow(rows[i])), i))

\* Numbering the rows leaves what they show, and gives each its number among
\* its kind.
LEMMA IndexedRows ==
    ASSUME NEW rows \in Seq(TreeRows)
    PROVE  /\ Indexed(rows) \in Seq(TreeRows) /\ Len(Indexed(rows)) = Len(rows)
           /\ DOMAIN Indexed(rows) = 1 .. Len(rows)
           /\ \A i \in 1 .. Len(rows) :
                /\ Indexed(rows)[i].location = rows[i].location
                /\ KindOfRow(Indexed(rows)[i]) = KindOfRow(rows[i])
                /\ Indexed(rows)[i].index = RankInKind(rows, i)
                /\ Indexed(rows)[i].index \in Nat \ {0}
<1>1. ASSUME NEW i \in 1 .. Len(rows)
      PROVE  /\ RankInKind(rows, i) \in Nat \ {0}
             /\ RankInKind(rows, i) =
                  Cardinality({j \in 1 .. i : KindOfRow(rows[j]) = KindOfRow(rows[i])})
  <2>1. PICK P : P = RowsOfKind(KindOfRow(rows[i]))
    OBVIOUS
  <2>2. \A j \in 1 .. i : rows[j] \in P <=> KindOfRow(rows[j]) = KindOfRow(rows[i])
    BY <2>1 DEF RowsOfKind, KindOfRow
  <2>3. UpTo(rows, P, i) = {j \in 1 .. i : KindOfRow(rows[j]) = KindOfRow(rows[i])}
    BY <2>2, Zenon DEF UpTo
  <2>4. i \in UpTo(rows, P, i)
    BY <2>3
  <2>5. IsFiniteSet(UpTo(rows, P, i)) /\ Cardinality(UpTo(rows, P, i)) \in Nat
    BY UpToGrows
  <2>6. Cardinality(UpTo(rows, P, i)) # 0
    BY <2>4, <2>5, FS_EmptySet
  <2>7. QED
    BY <2>1, <2>3, <2>5, <2>6 DEF RankInKind
<1>2. PICK out : out = Indexed(rows)
  OBVIOUS
<1>3. out = [i \in 1 .. Len(rows) |-> [rows[i] EXCEPT !.index = RankInKind(rows, i)]]
  <2>1. out = [i \in DOMAIN rows |->
                 [rows[i] EXCEPT !.index =
                    Cardinality({j \in 1 .. i : KindOfRow(rows[j]) = KindOfRow(rows[i])})]]
    BY <1>2, Zenon DEF Indexed
  <2>2. DOMAIN rows = 1 .. Len(rows)
    OBVIOUS
  <2>3. QED
    BY <1>1, <2>1, <2>2, Zenon
<1>4. ASSUME NEW i \in 1 .. Len(rows)
      PROVE  /\ out[i] \in TreeRows /\ out[i].location = rows[i].location
             /\ out[i].index = RankInKind(rows, i)
  <2>1. PICK n \in Nat : n = RankInKind(rows, i)
    BY <1>1
  <2>2. PICK row \in TreeRows : row = rows[i]
    OBVIOUS
  <2>3. out[i] = [row EXCEPT !.index = n]
    BY <1>3, <2>1, <2>2, Zenon
  <2>4. QED
    BY <2>1, <2>2, <2>3 DEF TreeRows
<1>5. Len(rows) \in Nat
  OBVIOUS
<1>6. out \in Seq(TreeRows) /\ Len(out) = Len(rows) /\ DOMAIN out = 1 .. Len(rows)
  <2>1. out = [i \in 1 .. Len(rows) |-> out[i]]
    BY <1>3
  <2>2. QED
    BY <1>4, <1>5, <2>1
<1>7. QED
  BY <1>1, <1>2, <1>4, <1>6 DEF KindOfRow

\* Radios are told apart: the table and the place of an id are its own.
LEMMA IndexFound ==
    ASSUME NEW k \in Kinds, NEW n \in DOMAIN Radio[k]
    PROVE  /\ IndexInTable(Radio[k][n], Radio[k]) = n
           /\ \A l \in Kinds \ {k} : IndexInTable(Radio[k][n], Radio[l]) = 0
<1>1. \A l \in Kinds : \A i \in DOMAIN Radio[k], j \in DOMAIN Radio[l] :
         Radio[k][i] = Radio[l][j] => k = l /\ i = j
  BY TreeAssumption, Zenon
<1>2. \A l \in Kinds : ToSet(Radio[l]) = {Radio[l][j] : j \in DOMAIN Radio[l]}
  BY DEF ToSet
<1>3. Radio[k][n] \in ToSet(Radio[k])
  BY <1>2
<1>4. \A i \in DOMAIN Radio[k] : Radio[k][i] = Radio[k][n] => i = n
  BY <1>1
<1>5. (CHOOSE i \in DOMAIN Radio[k] : Radio[k][i] = Radio[k][n]) = n
  BY <1>4
<1>6. ASSUME NEW l \in Kinds \ {k} PROVE Radio[k][n] \notin ToSet(Radio[l])
  <2>1. l \in Kinds /\ l # k
    OBVIOUS
  <2>2. ASSUME NEW j \in DOMAIN Radio[l], Radio[l][j] = Radio[k][n] PROVE FALSE
    <3>1. k = l
      BY <1>1, <2>1, <2>2, Zenon
    <3>2. QED
      BY <2>1, <3>1
  <2>3. ToSet(Radio[l]) = {Radio[l][j] : j \in DOMAIN Radio[l]}
    BY <1>2, <2>1
  <2>4. QED
    BY <2>2, <2>3, Zenon
<1>7. QED
  BY <1>3, <1>5, <1>6, Zenon DEF IndexInTable

\* The radio of a row is the one with its number in the table of its kind.
WidgetOfKind(rows, i) ==
    rows[i].index \in DOMAIN Radio[KindOfRow(rows[i])]
    /\ widget_for_row(rows, i) = Radio[KindOfRow(rows[i])][rows[i].index]

\* A row that has a radio has that one.
LEMMA WidgetFound ==
    ASSUME NEW rows, NEW i, KindOfRow(rows[i]) \in Kinds, rows[i].index \in Nat \ {0},
           widget_for_row(rows, i) # NoWidget
    PROVE  WidgetOfKind(rows, i)
<1>1. PICK table \in Seq(STRING) : table = Radio[KindOfRow(rows[i])]
  BY TreeAssumption
<1>2. widget_for_row(rows, i) = IF rows[i].index <= Len(table) THEN table[rows[i].index] ELSE NoWidget
  BY <1>1 DEF widget_for_row, row_id_or_none
<1>3. rows[i].index <= Len(table)
  BY <1>2
<1>4. rows[i].index \in DOMAIN table
  BY <1>3
<1>5. QED
  BY <1>1, <1>2, <1>3, <1>4 DEF WidgetOfKind

\* The fields of a row
LEMMA RowKinds ==
    ASSUME NEW row \in TreeRows
    PROVE  KindOfRow(row) \in Kinds /\ row.index \in Nat /\ row.location \in Locations
BY DEF TreeRows, Locations, KindOfRow

\* The walk of the activation handler finds, for the radio of a row, the
\* location of the row: the rows of a kind are numbered as the walk goes.
LEMMA RadioStands ==
    ASSUME NEW tree \in Seq(CountryNodes), NEW open, NEW force, NEW rows,
           rows = collect_visible_rows(tree, open, force),
           NEW i \in DOMAIN rows, widget_for_row(rows, i) # NoWidget
    PROVE  Activated(tree, open, force, widget_for_row(rows, i)) = {rows[i].location}
<1>1. PICK flat \in Seq(TreeRows) : flat = FlatRows(tree, open, force)
  BY FlatRowsType
<1>2. rows = Indexed(flat)
  BY <1>1, VisibleRowsAre
<1>3. /\ rows \in Seq(TreeRows) /\ i \in 1 .. Len(flat)
      /\ rows[i].location = flat[i].location /\ KindOfRow(rows[i]) = KindOfRow(flat[i])
      /\ rows[i].index = RankInKind(flat, i) /\ rows[i].index \in Nat \ {0}
  BY <1>2, IndexedRows
<1>4. PICK k \in Kinds : k = KindOfRow(rows[i]) /\ k = KindOfRow(flat[i])
  BY <1>3, RowKinds
<1>5. PICK n \in Nat \ {0} : n = rows[i].index
  BY <1>3
<1>6. PICK w : w = widget_for_row(rows, i)
  OBVIOUS
<1>7. n \in DOMAIN Radio[k] /\ w = Radio[k][n]
  <2>1. WidgetOfKind(rows, i)
    BY <1>3, <1>4, WidgetFound, Zenon
  <2>2. QED
    BY <2>1, <1>4, <1>5, <1>6, Zenon DEF WidgetOfKind
<1>8. IndexInTable(w, Radio[k]) = n /\ \A l \in Kinds \ {k} : IndexInTable(w, Radio[l]) = 0
  BY <1>7, IndexFound
<1>9. n \in 1 .. Len(Walk(k, tree, open, force))
      /\ Walk(k, tree, open, force)[n] = rows[i].location
  <2>1. flat[i] \in RowsOfKind(k) /\ flat[i] \in TreeRows
    BY <1>3, <1>4 DEF RowsOfKind, KindOfRow
  <2>2. TellsNth(RowsOfKind(k), LocationOf, flat, i)
    BY <1>3, <2>1, ToldType, NthTold, Zenon
  <2>3. WalkTells(k, tree, open, force)
    BY WalksTell
  <2>4. LocationOf[flat[i]] = flat[i].location
    BY <2>1, Zenon DEF LocationOf
  <2>5. Cardinality(UpTo(flat, RowsOfKind(k), i)) = n
    BY <1>3, <1>4, <1>5, Zenon DEF RankInKind
  <2>6. QED
    BY <1>1, <1>3, <2>2, <2>3, <2>4, <2>5, Zenon DEF TellsNth, WalkTells, Told
<1> DEFINE Nth(seq, l) == {seq[j] : j \in DOMAIN seq \cap {IndexInTable(w, Radio[l])}}
<1>10. ASSUME NEW D, NEW seq \in Seq(D), NEW l \in Kinds
       PROVE  /\ l # k => Nth(seq, l) = {}
              /\ l = k /\ n \in 1 .. Len(seq) => Nth(seq, l) = {seq[n]}
  <2>1. DOMAIN seq = 1 .. Len(seq)
    OBVIOUS
  <2>2. ASSUME l # k PROVE Nth(seq, l) = {}
    <3>1. IndexInTable(w, Radio[l]) = 0
      BY <1>8, <2>2
    <3>2. 0 \notin 1 .. Len(seq)
      OBVIOUS
    <3>3. QED
      BY <2>1, <3>1, <3>2, Zenon
  <2>3. ASSUME l = k, n \in 1 .. Len(seq) PROVE Nth(seq, l) = {seq[n]}
    <3>1. IndexInTable(w, Radio[l]) = n
      BY <1>8, <2>3
    <3>2. DOMAIN seq \cap {n} = {n}
      BY <2>1, <2>3
    <3>3. QED
      BY <3>1, <3>2, Zenon
  <2>4. QED
    BY <2>2, <2>3
<1>11. PICK cities \in Seq(ShownCities) : cities = CitiesShown(tree, open, force)
  BY CitiesShownAre
<1>12. PICK relays \in Seq(RelayLocation) : relays = RelaysShown(tree, open, force)
  BY RelaysShownAre
<1>13. Activated(tree, open, force, w)
         = {OfCountry(c.code) : c \in Nth(tree, "Country")}
             \cup {OfCity(t.country, t.code) : t \in Nth(cities, "City")}
             \cup {OfRelay(r.host) : r \in Nth(relays, "Relay")}
  BY <1>11, <1>12, Zenon DEF Activated
<1> HIDE DEF Nth
<1>k. "Country" \in Kinds /\ "City" \in Kinds /\ "Relay" \in Kinds
  BY DEF Kinds
<1>14. CASE k = "Country"
  <2>0. "City" # k /\ "Relay" # k /\ "Country" = k
    BY <1>14
  <2>1. Walk(k, tree, open, force) = Images(CountryNames, tree)
    BY <1>14 DEF Walk
  <2>2. n \in 1 .. Len(tree) /\ OfCountry(tree[n].code) = rows[i].location
    <3>1. n \in 1 .. Len(tree) /\ CountryNames[tree[n]] = rows[i].location
      BY <1>9, <2>1 DEF Images
    <3>2. tree[n] \in CountryNodes
      BY <3>1
    <3>3. QED
      BY <3>1, <3>2, Zenon DEF CountryNames
  <2>3. Nth(tree, "Country") = {tree[n]} /\ Nth(cities, "City") = {} /\ Nth(relays, "Relay") = {}
    BY <2>0, <2>2, <1>10, <1>k, Zenon
  <2>4. QED
    BY <1>6, <1>13, <2>2, <2>3, Zenon
<1>15. CASE k = "City"
  <2>0. "City" = k /\ "Relay" # k /\ "Country" # k
    BY <1>15
  <2>1. Walk(k, tree, open, force) = Images(CityNames, cities)
    BY <1>11, <2>0, Zenon DEF Walk
  <2>2. n \in 1 .. Len(cities) /\ OfCity(cities[n].country, cities[n].code) = rows[i].location
    <3>1. n \in 1 .. Len(cities) /\ CityNames[cities[n]] = rows[i].location
      BY <1>9, <2>1 DEF Images
    <3>2. cities[n] \in ShownCities
      BY <3>1
    <3>3. QED
      BY <3>1, <3>2, Zenon DEF CityNames
  <2>3. Nth(tree, "Country") = {} /\ Nth(cities, "City") = {cities[n]} /\ Nth(relays, "Relay") = {}
    BY <2>0, <2>2, <1>10, <1>k, Zenon
  <2>4. QED
    BY <1>6, <1>13, <2>2, <2>3, Zenon
<1>16. CASE k = "Relay"
  <2>0. "City" # k /\ "Relay" = k /\ "Country" # k
    BY <1>16
  <2>1. Walk(k, tree, open, force) = Images(RelayNames, relays)
    BY <1>12, <2>0, Zenon DEF Walk
  <2>2. n \in 1 .. Len(relays) /\ OfRelay(relays[n].host) = rows[i].location
    <3>1. n \in 1 .. Len(relays) /\ RelayNames[relays[n]] = rows[i].location
      BY <1>9, <2>1 DEF Images
    <3>2. relays[n] \in RelayLocation
      BY <3>1
    <3>3. QED
      BY <3>1, <3>2, Zenon DEF RelayNames
  <2>3. Nth(tree, "Country") = {} /\ Nth(cities, "City") = {} /\ Nth(relays, "Relay") = {relays[n]}
    BY <2>0, <2>2, <1>10, <1>k, Zenon
  <2>4. QED
    BY <1>6, <1>13, <2>2, <2>3, Zenon
<1>17. QED
  BY <1>14, <1>15, <1>16 DEF Kinds

-----------------------------------------------------------------------------
(* The page.                                                               *)

\* The types of the App's fields, for a set W of widgets
Views(W) == [countries : SUBSET DOMAIN CountryTexts, cities : SUBSET DOMAIN CityTexts,
             offset : Nat, center : BOOLEAN, scrolledAt : W]

Apps(W) == [page : {"Status", "SelectLocation", "SelectLocationFilter"},
            node_mode : NodeKind, query : Queries, view : [NodeKind -> Views(W)],
            focused : W, relay_locations : RelayLists, settings : SettingsValues]

\* What the types say of the focus is that it is on the frame, no more: the
\* widgets are those of a set, whichever.
Typed(a) == \E W : a \in Apps(W)

\* The fields of a typed App
LEMMA TypedFacts ==
    ASSUME NEW a, Typed(a)
    PROVE  /\ a.page \in {"Status", "SelectLocation", "SelectLocationFilter"}
           /\ a.node_mode \in NodeKind
           /\ a.query \in Queries
           /\ \A m \in NodeKind :
                /\ a.view[m].countries \in SUBSET DOMAIN CountryTexts
                /\ a.view[m].cities \in SUBSET DOMAIN CityTexts
                /\ a.view[m].offset \in Nat
                /\ a.view[m].center \in BOOLEAN
           /\ a.relay_locations \in RelayLists
           /\ a.settings \in SettingsValues
BY DEF Typed, Apps, Views

\* What a frame shows depends on these fields only.
SameFrame(a, b) ==
    /\ b.page = a.page /\ b.node_mode = a.node_mode /\ b.settings = a.settings
    /\ ShapeOf(b) = ShapeOf(a)

\* Such Apps show the same.
LEMMA SameFrames ==
    ASSUME NEW a, NEW b, SameFrame(a, b)
    PROVE  /\ Registry(b) = Registry(a) /\ Rows(b) = Rows(a) /\ Tree(b) = Tree(a)
           /\ RowCapacity(b) = RowCapacity(a)
           /\ effective_mode(b) = effective_mode(a)
           /\ \A m : HiddenEntry(b, m) <=> HiddenEntry(a, m)
<1>1. Rows(b) = Rows(a) /\ Tree(b) = Tree(a)
  BY DEF SameFrame, Rows, Tree
<1>2. /\ is_multihop_enabled(b) = is_multihop_enabled(a)
      /\ daita_overrides_entry(b) = daita_overrides_entry(a)
  BY DEF SameFrame, is_multihop_enabled, daita_overrides_entry
<1>3. \A m : HiddenEntry(b, m) <=> HiddenEntry(a, m)
  BY <1>2, Zenon DEF HiddenEntry
<1>4. RowCapacity(b) = RowCapacity(a) /\ effective_mode(b) = effective_mode(a)
  BY <1>2, Zenon DEF RowCapacity, effective_mode, SameFrame
<1>5. Registry(b) = Registry(a)
  BY <1>1, <1>2, <1>3, Zenon DEF Registry, SameFrame
<1>6. QED
  BY <1>1, <1>3, <1>4, <1>5

\* The rows are tabulated for every shape an App can have.
LEMMA ShapeFacts ==
    ASSUME NEW a, Typed(a)
    PROVE  /\ ShapeOf(a) \in Shapes
           /\ ShapeOf(a).relays = a.relay_locations /\ ShapeOf(a).query = a.query
           /\ ShapeOf(a).countries = Open(a).countries /\ ShapeOf(a).cities = Open(a).cities
           /\ Open(a).countries \in SUBSET DOMAIN CountryTexts
           /\ Open(a).cities \in SUBSET DOMAIN CityTexts
<1>1. /\ Open(a).countries \in SUBSET DOMAIN CountryTexts
      /\ Open(a).cities \in SUBSET DOMAIN CityTexts
      /\ a.relay_locations \in RelayLists /\ a.query \in Queries
  BY TypedFacts DEF Open
<1>2. PICK k \in RelayLists \X Queries \X (SUBSET DOMAIN CountryTexts)
                            \X (SUBSET DOMAIN CityTexts) :
         /\ k[1] = a.relay_locations /\ k[2] = a.query
         /\ k[3] = Open(a).countries /\ k[4] = Open(a).cities
  <2>1. <<a.relay_locations, a.query, Open(a).countries, Open(a).cities>>
          \in RelayLists \X Queries \X (SUBSET DOMAIN CountryTexts)
                         \X (SUBSET DOMAIN CityTexts)
    BY <1>1
  <2>2. QED
    BY <2>1
<1>3. [relays |-> k[1], query |-> k[2], countries |-> k[3], cities |-> k[4]] \in Shapes
  BY Zenon DEF Shapes
<1>4. ShapeOf(a) = [relays |-> k[1], query |-> k[2], countries |-> k[3], cities |-> k[4]]
  BY <1>2, Zenon DEF ShapeOf
<1>5. ShapeOf(a) \in Shapes
  BY <1>3, <1>4, Zenon
<1>6. QED
  BY <1>1, <1>5 DEF ShapeOf

\* The tree and the rows of a frame
LEMMA FrameRows ==
    ASSUME NEW a, Typed(a)
    PROVE  /\ Tree(a) \in Seq(CountryNodes)
           /\ Tree(a) = project_filtered_tree(a.relay_locations, a.query)
           /\ Rows(a) = collect_visible_rows(Tree(a), ShapeOf(a), a.query # <<>>)
           /\ Rows(a) = Indexed(FlatRows(Tree(a), ShapeOf(a), a.query # <<>>))
           /\ Rows(a) \in Seq(TreeRows)
<1>1. PICK s \in Shapes : s = ShapeOf(a)
  BY ShapeFacts
<1>2. s.relays = a.relay_locations /\ s.query = a.query
  BY <1>1, ShapeFacts
<1>3. Tree(a) = project_filtered_tree(s.relays, s.query)
  BY <1>1 DEF Tree, FilteredTree
<1>4. Tree(a) \in Seq(CountryNodes)
  <2>1. s.relays \in Seq(RelayLocation)
    BY <1>2, TypedFacts, PageAssumption
  <2>2. project_tree(s.relays) \in Seq(CountryNodes)
    BY <2>1, ProjectedType
  <2>3. QED
    BY <1>3, <2>2, FilteredType DEF project_filtered_tree
<1>5. Rows(a) = collect_visible_rows(Tree(a), s, s.query # <<>>)
  BY <1>1, Zenon DEF Rows, VisibleRows, Tree
<1>6. Rows(a) = Indexed(FlatRows(Tree(a), s, s.query # <<>>))
  BY <1>4, <1>5, VisibleRowsAre
<1>7. Indexed(FlatRows(Tree(a), s, s.query # <<>>)) \in Seq(TreeRows)
  <2>1. FlatRows(Tree(a), s, s.query # <<>>) \in Seq(TreeRows)
    BY <1>4, FlatRowsType
  <2>2. QED
    BY <2>1, IndexedRows
<1>8. QED
  BY <1>1, <1>2, <1>3, <1>4, <1>5, <1>6, <1>7

\* The activation handler's tables are tables of the walks.
LEMMA PickedIs ==
    ASSUME NEW a, Typed(a), NEW widget \in RadioIds
    PROVE  Picked(a, widget) = Activated(Tree(a), ShapeOf(a), a.query # <<>>, widget)
<1>1. PICK s \in Shapes : s = ShapeOf(a)
  BY ShapeFacts
<1>2. s.query = a.query
  BY <1>1, ShapeFacts
<1>3. Activations[s][widget] = Activated(FilteredTree[s], s, s.query # <<>>, widget)
  BY Zenon DEF Activations
<1>4. QED
  BY <1>1, <1>2, <1>3, Zenon DEF Picked, Tree

\* The statement of RadioStandsForItsRow for any App
RadioFits(a) ==
    \A i \in DOMAIN Rows(a) :
        LET widget == widget_for_row(Rows(a), i)
        IN  widget # NoWidget => Picked(a, widget) = {Rows(a)[i].location}

\* It holds for every typed App: the filter and the expansion the handler walks
\* with are the frame's.
LEMMA RadiosFit ==
    ASSUME NEW a, Typed(a)
    PROVE  RadioFits(a)
<1> SUFFICES ASSUME NEW i \in DOMAIN Rows(a), widget_for_row(Rows(a), i) # NoWidget
             PROVE  Picked(a, widget_for_row(Rows(a), i)) = {Rows(a)[i].location}
  BY DEF RadioFits
<1>1. PICK rows \in Seq(TreeRows) : rows = Rows(a)
  BY FrameRows
<1>2. PICK w : w = widget_for_row(rows, i)
  OBVIOUS
<1>3. rows[i] \in TreeRows
  BY <1>1
<1>4. w \in RadioIds
  <2>1. KindOfRow(rows[i]) \in Kinds
    BY <1>3, RowKinds
  <2>2. rows[i].index \in Nat \ {0}
    <3>1. PICK flat \in Seq(TreeRows) : rows = Indexed(flat)
      BY <1>1, FrameRows, FlatRowsType
    <3>2. i \in 1 .. Len(flat)
      BY <1>1, <3>1, IndexedRows
    <3>3. QED
      BY <3>1, <3>2, IndexedRows
  <2>3. WidgetOfKind(rows, i)
    BY <1>1, <2>1, <2>2, WidgetFound
  <2>4. PICK k \in Kinds : \E n \in DOMAIN Radio[k] : w = Radio[k][n]
    BY <1>2, <2>1, <2>3, Zenon DEF WidgetOfKind
  <2>5. w \in ToSet(Radio[k])
    BY <2>4 DEF ToSet
  <2>6. QED
    BY <2>5 DEF RadioIds
<1>5. Picked(a, w) = Activated(Tree(a), ShapeOf(a), a.query # <<>>, w)
  BY <1>4, PickedIs
<1>6. Activated(Tree(a), ShapeOf(a), a.query # <<>>, w) = {rows[i].location}
  BY <1>1, <1>2, FrameRows, RadioStands
<1>7. QED
  BY <1>1, <1>2, <1>5, <1>6

-----------------------------------------------------------------------------
(* The window of a frame.                                                  *)

\* A row owns a radio alone.
LEMMA OwnerIsOne ==
    ASSUME NEW a, Typed(a), NEW w
    PROVE  /\ RowsOwning(Rows(a), w) \in SUBSET (1 .. Len(Rows(a)))
           /\ \A i, j \in RowsOwning(Rows(a), w) : i = j
<1>1. PICK rows \in Seq(TreeRows) : rows = Rows(a)
  BY FrameRows
<1>2. PICK flat \in Seq(TreeRows) : rows = Indexed(flat)
  BY <1>1, FrameRows, FlatRowsType
<1>3. Len(rows) = Len(flat) /\ DOMAIN rows = 1 .. Len(rows)
  BY <1>2, IndexedRows
<1>4. RowsOwning(rows, w) \in SUBSET (1 .. Len(rows))
  BY <1>3 DEF RowsOwning
<1>5. \A i \in RowsOwning(rows, w) : widget_for_row(rows, i) = w /\ w # NoWidget
  BY DEF RowsOwning
<1>6. ASSUME NEW i \in RowsOwning(rows, w), NEW j \in RowsOwning(rows, w), i < j
      PROVE  FALSE
  <2>1. i \in 1 .. Len(flat) /\ j \in 1 .. Len(flat) /\ i \in 1 .. Len(rows)
        /\ j \in 1 .. Len(rows)
    BY <1>3, <1>4
  <2>2. /\ KindOfRow(rows[i]) \in Kinds /\ rows[i].index \in Nat \ {0}
        /\ KindOfRow(rows[j]) \in Kinds /\ rows[j].index \in Nat \ {0}
    BY <1>2, <2>1, IndexedRows, RowKinds
  <2>3. WidgetOfKind(rows, i) /\ WidgetOfKind(rows, j)
    BY <1>5, <2>2, WidgetFound
  <2>4. PICK k \in Kinds : k = KindOfRow(rows[i])
    BY <2>2
  <2>5. PICK l \in Kinds : l = KindOfRow(rows[j])
    BY <2>2
  <2>6. /\ rows[i].index \in DOMAIN Radio[k] /\ Radio[k][rows[i].index] = w
        /\ rows[j].index \in DOMAIN Radio[l] /\ Radio[l][rows[j].index] = w
    BY <1>5, <2>3, <2>4, <2>5 DEF WidgetOfKind
  <2>7. k = l /\ rows[i].index = rows[j].index
    BY <2>6, TreeAssumption
  <2>8. PICK P : P = RowsOfKind(k)
    OBVIOUS
  <2>9. KindOfRow(flat[i]) = k /\ KindOfRow(flat[j]) = k
    BY <1>2, <2>1, <2>4, <2>5, <2>7, IndexedRows
  <2>10. Cardinality(UpTo(flat, P, i)) = Cardinality(UpTo(flat, P, j))
    BY <1>2, <2>1, <2>7, <2>8, <2>9, IndexedRows DEF RankInKind
  <2>11. flat[j] \in P
    BY <2>1, <2>8, <2>9 DEF RowsOfKind, KindOfRow
  <2>12. UpTo(flat, P, i) \in SUBSET UpTo(flat, P, j)
    BY <1>6, <2>1 DEF UpTo
  <2>13. j \in UpTo(flat, P, j) /\ j \notin UpTo(flat, P, i)
    BY <1>6, <2>1, <2>11 DEF UpTo
  <2>14. IsFiniteSet(UpTo(flat, P, j))
    BY <2>1, UpToGrows
  <2>15. QED
    BY <2>10, <2>12, <2>13, <2>14, FS_Subset
<1>7. \A i, j \in RowsOwning(rows, w) : i \in Nat /\ j \in Nat
  BY <1>4
<1>8. QED
  BY <1>1, <1>4, <1>6, <1>7

\* Row i in a window of this offset
InRange(offset, i, capacity) == offset < i /\ i <= offset + capacity

\* The only element is the lowest.
LEMMA OneIsLowest ==
    ASSUME NEW i \in Nat
    PROVE  Lowest({i}) = i
BY DEF Lowest

\* What the two ways to place the window promise
LEMMA Clamped ==
    ASSUME NEW current \in Nat, NEW length \in Nat, NEW capacity \in Nat \ {0},
           NEW at \in SUBSET (1 .. length), \A i, j \in at : i = j,
           NEW offset, offset = clamp_scroll_offset(current, at, length, capacity)
    PROVE  /\ offset \in Nat /\ offset <= length
           /\ \A i \in at : InRange(offset, i, capacity)
<1>1. CASE at = {}
  BY <1>1 DEF clamp_scroll_offset, Smaller
<1>2. CASE at # {}
  <2>1. PICK i \in 1 .. length : at = {i}
    BY <1>2
  <2>2. Lowest(at) = i
    BY <2>1, OneIsLowest
  <2>3. QED
    BY <2>1, <2>2 DEF clamp_scroll_offset, Smaller, InRange
<1>3. QED
  BY <1>1, <1>2

\* Centering leaves a focused row in the window.
LEMMA Centered ==
    ASSUME NEW length \in Nat, NEW capacity \in Nat \ {0},
           NEW at \in SUBSET (1 .. length), \A i, j \in at : i = j,
           NEW offset, offset = centered_scroll_offset(at, length, capacity)
    PROVE  /\ offset \in Nat /\ offset <= length
           /\ \A i \in at : InRange(offset, i, capacity)
<1>1. CASE at = {}
  BY <1>1 DEF centered_scroll_offset
<1>2. CASE at # {}
  <2>1. PICK i \in 1 .. length : at = {i}
    BY <1>2
  <2>2. Lowest(at) = i
    BY <2>1, OneIsLowest
  <2>3. PICK half \in Nat : half = capacity \div 2 /\ half < capacity
    OBVIOUS
  <2>4. offset = IF length <= capacity THEN 0 ELSE Clamp((i - 1) - half, 0, length - capacity)
    BY <1>2, <2>2, <2>3 DEF centered_scroll_offset
  <2>5. QED
    BY <2>1, <2>3, <2>4 DEF Clamp, Smaller, InRange
<1>3. QED
  BY <1>1, <1>2

\* The page has room for a row at least.
LEMMA RowCapacityType ==
    ASSUME NEW a
    PROVE  RowCapacity(a) \in Nat \ {0}
<1>1. Height \in Nat /\ Height > 2
  BY PageAssumption
<1>2. PICK tabs \in {1, 2} : tabs = IF is_multihop_enabled(a) THEN 2 ELSE 1
  BY Zenon
<1>3. RowCapacity(a) = Height - tabs
  BY <1>2 DEF RowCapacity
<1>4. QED
  BY <1>1, <1>3

\* The types grow with the set of widgets.
LEMMA AppsGrow ==
    ASSUME NEW W, NEW X, W \subseteq X
    PROVE  Apps(W) \subseteq Apps(X) /\ Views(W) \subseteq Views(X)
<1>1. Views(W) \subseteq Views(X)
  BY DEF Views
<1>2. [NodeKind -> Views(W)] \subseteq [NodeKind -> Views(X)]
  BY <1>1
<1>3. QED
  BY <1>1, <1>2 DEF Apps

\* One more widget is no matter.
LEMMA TypedWith ==
    ASSUME NEW a, Typed(a), NEW w
    PROVE  \E W : w \in W /\ a \in Apps(W)
<1>1. PICK W : a \in Apps(W)
  BY DEF Typed
<1>2. a \in Apps(W \cup {w}) /\ w \in W \cup {w}
  BY <1>1, AppsGrow
<1>3. QED
  BY <1>2

\* A view may be replaced by a view.
ViewSet(b, a, m, v) ==
    /\ b.page = a.page /\ b.node_mode = a.node_mode /\ b.query = a.query
    /\ b.focused = a.focused /\ b.relay_locations = a.relay_locations
    /\ b.settings = a.settings /\ b.view[m] = v
    /\ \A n \in NodeKind \ {m} : b.view[n] = a.view[n]

\* So it may: the rest stays.
LEMMA ViewMaySet ==
    ASSUME NEW W, NEW a \in Apps(W), NEW m \in NodeKind, NEW v \in Views(W)
    PROVE  /\ [a EXCEPT !.view[m] = v] \in Apps(W)
           /\ ViewSet([a EXCEPT !.view[m] = v], a, m, v)
<1>1. PICK V : V = Views(W)
  OBVIOUS
<1>2. PICK b : b = [a EXCEPT !.view[m] = v]
  OBVIOUS
<1>3. a.view \in [NodeKind -> V]
  BY <1>1 DEF Apps
<1>4. PICK views \in [NodeKind -> V] : views = [a.view EXCEPT ![m] = v]
  BY <1>1, <1>3
<1>5. b = [a EXCEPT !.view = views]
  BY <1>2, <1>4, Zenon
<1>6. b \in Apps(W)
  BY <1>1, <1>5 DEF Apps
<1>7. b.view = views
  BY <1>5 DEF Apps
<1>8. views[m] = v /\ \A n \in NodeKind \ {m} : views[n] = a.view[n]
  BY <1>1, <1>3, <1>4
<1>9. ViewSet(b, a, m, v)
  BY <1>5, <1>7, <1>8 DEF ViewSet, Apps
<1>10. QED
  BY <1>2, <1>6, <1>9

\* The focused row, if a row has the focus, is in the window.
Shown(a) == \A i \in RowsOwning(Rows(a), a.focused) : InWindow(a, i)

\* The statement of FocusStaysInView for a frame that shows the list
InView(a) ==
    /\ Open(a).offset <= Len(Rows(a))
    /\ Open(a).scrolledAt # a.focused => Shown(a)

\* The scroll bookkeeping leaves the window inside the list, with the focused
\* row in it unless the wheel holds the window; a request to center overrides
\* the hold.
LEMMA ScrolledKeeps ==
    ASSUME NEW a, Typed(a)
    PROVE  /\ Typed(Scrolled(a)) /\ SameFrame(a, Scrolled(a))
           /\ Scrolled(a).focused = a.focused /\ InView(Scrolled(a))
           /\ Open(a).center => Shown(Scrolled(a))
<1>1. PICK W : NoWidget \in W /\ a \in Apps(W)
  BY TypedWith
<1>2. PICK m \in NodeKind : m = a.node_mode
  BY TypedFacts
<1>3. PICK v \in Views(W) : v = a.view[m]
  BY <1>1 DEF Apps
<1>4. PICK rows \in Seq(TreeRows) : rows = Rows(a)
  BY FrameRows
<1>5. PICK length \in Nat : length = Len(rows)
  OBVIOUS
<1>6. PICK capacity \in Nat \ {0} : capacity = RowCapacity(a)
  BY RowCapacityType
<1>7. PICK at \in SUBSET (1 .. length) : at = RowsOwning(rows, a.focused) /\ \A i, j \in at : i = j
  BY <1>4, <1>5, OwnerIsOne
<1>8. PICK holds \in BOOLEAN : holds <=> v.scrolledAt # NoWidget /\ v.scrolledAt = a.focused
  OBVIOUS
<1>9. PICK offset : offset = IF v.center THEN centered_scroll_offset(at, length, capacity)
                  ELSE IF holds THEN Smaller(v.offset, IF length > capacity THEN length - capacity ELSE 0)
                  ELSE clamp_scroll_offset(v.offset, at, length, capacity)
  OBVIOUS
<1>10. PICK kept : kept = [v EXCEPT !.offset = offset, !.center = FALSE,
                          !.scrolledAt = IF holds THEN @ ELSE NoWidget]
  OBVIOUS
<1>11. Scrolled(a) = [a EXCEPT !.view[m] = kept]
  BY <1>2, <1>3, <1>4, <1>5, <1>6, <1>7, <1>8, <1>9, <1>10, Zenon DEF Scrolled, Open
<1>12. v.offset \in Nat /\ v.center \in BOOLEAN /\ v.scrolledAt \in W
  BY DEF Views
<1>13. /\ offset \in Nat /\ offset <= length
       /\ (holds /\ ~v.center) \/ \A i \in at : InRange(offset, i, capacity)
  <2>1. CASE v.center
    <3>1. offset = centered_scroll_offset(at, length, capacity)
      BY <1>9, <2>1
    <3>2. QED
      BY <1>7, <3>1, Centered
  <2>2. CASE ~v.center /\ ~holds
    <3>1. offset = clamp_scroll_offset(v.offset, at, length, capacity)
      BY <1>9, <2>2
    <3>2. QED
      BY <1>7, <1>12, <3>1, Clamped
  <2>3. CASE ~v.center /\ holds
    BY <1>9, <1>12, <2>3 DEF Smaller
  <2>4. QED
    BY <1>12, <2>1, <2>2, <2>3
<1>14. /\ kept \in Views(W) /\ kept.offset = offset /\ kept.countries = v.countries
       /\ kept.cities = v.cities /\ kept.scrolledAt = IF holds THEN v.scrolledAt ELSE NoWidget
  BY <1>1, <1>10, <1>13 DEF Views
<1>15. PICK b \in Apps(W) : b = Scrolled(a) /\ ViewSet(b, a, m, kept)
  BY <1>1, <1>11, <1>14, ViewMaySet
<1>16. Typed(b)
  BY DEF Typed
<1>17. Open(b) = kept /\ Open(a) = v
  BY <1>2, <1>3, <1>15 DEF ViewSet, Open
<1>18. SameFrame(a, b)
  BY <1>14, <1>15, <1>17 DEF SameFrame, ShapeOf, ViewSet
<1>19. Rows(b) = rows /\ RowCapacity(b) = capacity
  BY <1>4, <1>6, <1>18, SameFrames
<1>20. b.focused = a.focused
  BY <1>15 DEF ViewSet
<1>21. (holds /\ ~v.center) \/ Shown(b)
  <2>1. at = RowsOwning(Rows(b), b.focused)
    BY <1>7, <1>19, <1>20
  <2>2. \A i \in at : InRange(offset, i, capacity) => InWindow(b, i)
    BY <1>14, <1>17, <1>19 DEF InWindow, InRange
  <2>3. QED
    BY <1>13, <2>1, <2>2, Zenon DEF Shown
<1>22. InView(b)
  <2>1. Open(b).offset <= Len(Rows(b))
    BY <1>5, <1>13, <1>14, <1>17, <1>19
  <2>2. holds => Open(b).scrolledAt = b.focused
    BY <1>8, <1>14, <1>17, <1>20
  <2>3. QED
    BY <1>21, <2>1, <2>2, Zenon DEF InView
<1>23. QED
  BY <1>15, <1>16, <1>17, <1>18, <1>20, <1>21, <1>22

-----------------------------------------------------------------------------
(* What a frame registers.                                                 *)

\* A sequence that starts with x
StartsWith(s, x) == Len(s) \in Nat /\ Len(s) >= 1 /\ s[1] = x

\* One element and more start with that element.
LEMMA StartOfJoined ==
    ASSUME NEW D, NEW x \in D, NEW s \in Seq(D)
    PROVE  StartsWith(<<x>> \o s, x)
<1>1. PICK a \in Seq(D) : a = <<x>>
  BY SingletonSeq
<1>2. Len(a) = 1 /\ a[1] = x
  BY <1>1
<1>3. PICK c : c = a \o s
  OBVIOUS
<1>4. c \in Seq(D) /\ Joins(c, a, s)
  BY <1>3, JoinedSeqs, Zenon
<1>5. Len(c) = Len(a) + Len(s) /\ Len(s) \in Nat /\ c[1] = a[1]
  BY <1>2, <1>4 DEF Joins
<1>6. QED
  BY <1>1, <1>2, <1>3, <1>5 DEF StartsWith

\* Radios, one to a row
RadioRows(ids) == [i \in DOMAIN ids |-> Row(<<ids[i]>>, "SelectOption")]

\* Each radio has a row of its own.
HasRows(tree, rows) ==
    \A i \in DOMAIN rows :
       widget_for_row(rows, i) # NoWidget =>
          \E j \in 1 .. Len(tree) : tree[j] = Row(<<widget_for_row(rows, i)>>, "SelectOption")

\* The registry has a row for each row of the page that has a radio.
LEMMA RegisteredRows ==
    ASSUME NEW a, Typed(a)
    PROVE  /\ \E D : TreeRegistered(Rows(a)) \in Seq(D)
           /\ HasRows(TreeRegistered(Rows(a)), Rows(a))
<1>1. PICK rows \in Seq(TreeRows) : rows = Rows(a)
  BY FrameRows
<1>2. PICK all : all = [i \in DOMAIN rows |-> widget_for_row(rows, i)]
  OBVIOUS
<1>3. PICK W : W = {widget_for_row(rows, i) : i \in DOMAIN rows}
  OBVIOUS
<1>4. all \in Seq(W)
  <2>1. DOMAIN rows = 1 .. Len(rows) /\ Len(rows) \in Nat
    OBVIOUS
  <2>2. \A i \in 1 .. Len(rows) : widget_for_row(rows, i) \in W
    BY <1>3, <2>1
  <2>3. QED
    BY <1>2, <2>1, <2>2
<1>5. PICK P : P = W \ {NoWidget}
  OBVIOUS
<1>6. PICK ids : ids = Kept(all, LAMBDA w : w # NoWidget)
  OBVIOUS
<1>7. \A i \in DOMAIN all : all[i] # NoWidget <=> all[i] \in P
  BY <1>4, <1>5
<1>8. ids = FlattenSeq([i \in DOMAIN all |-> IF all[i] # NoWidget THEN <<all[i]>> ELSE <<>>])
  BY <1>6, Zenon DEF Kept, FlatMapped, Mapped
<1>9. KeptOf(all, ids, P)
  BY <1>7, <1>8, Zenon DEF KeptOf
<1>10. ids \in Seq({x \in W : x \in P})
  BY <1>4, <1>9, KeptType
<1>11. Len(ids) \in Nat /\ DOMAIN ids = 1 .. Len(ids)
  BY <1>10
<1>12. TreeRegistered(rows) = RadioRows(ids)
  BY <1>2, <1>6, Zenon DEF TreeRegistered, Mapped, RadioRows
<1>13. PICK f : f = RadioRows(ids)
  OBVIOUS
<1>14. f = [i \in 1 .. Len(ids) |-> f[i]]
  BY <1>11, <1>13 DEF RadioRows
<1>15. f \in Seq({f[i] : i \in 1 .. Len(ids)})
  BY <1>11, <1>14
<1>16. ASSUME NEW i \in DOMAIN rows, widget_for_row(rows, i) # NoWidget
       PROVE  \E j \in 1 .. Len(f) : f[j] = Row(<<widget_for_row(rows, i)>>, "SelectOption")
  <2>1. i \in 1 .. Len(all) /\ all[i] = widget_for_row(rows, i)
    BY <1>2, <1>4
  <2>2. all[i] \in P
    BY <1>7, <1>16, <2>1
  <2>3. PICK j \in 1 .. Len(ids) : ids[j] = all[i]
    BY <1>4, <1>9, <2>1, <2>2, KeptHas
  <2>4. f[j] = Row(<<ids[j]>>, "SelectOption") /\ Len(f) = Len(ids)
    BY <1>11, <1>13, <1>14 DEF RadioRows
  <2>5. QED
    BY <2>1, <2>3, <2>4
<1>17. HasRows(f, rows)
  BY <1>16 DEF HasRows
<1>18. QED
  BY <1>1, <1>12, <1>13, <1>15, <1>17

\* The first row is one of the body.
FirstRow(a, ids, kind) ==
    /\ kind \notin Chrome /\ Len(ids) \in Nat /\ Len(ids) >= 1 /\ DOMAIN ids = 1 .. Len(ids)
    /\ StartsWith(Registry(a).rows, Row(ids, kind))

\* Every page registers a row to start with.
LEMMA FirstRowOfPage ==
    ASSUME NEW a, Typed(a)
    PROVE  \E ids, kind : FirstRow(a, ids, kind)
<1>a. "Button" \notin Chrome /\ "TextInput" \notin Chrome /\ "SelectOption" \notin Chrome
  BY DEF Chrome
<1>b. \A x, y : /\ Len(<<x>>) = 1 /\ DOMAIN <<x>> = 1 .. 1 /\ <<x>>[1] = x
                /\ Len(<<x, y>>) = 2 /\ DOMAIN <<x, y>> = 1 .. 2
  OBVIOUS
<1>c. "Status" # "SelectLocation" /\ "Status" # "SelectLocationFilter"
      /\ "SelectLocation" # "SelectLocationFilter"
  OBVIOUS
<1>1. CASE a.page = "Status"
  <2>1. Registry(a).rows = <<Row(<<"SwitchLocation">>, "Button")>>
    BY <1>1 DEF Registry
  <2>2. StartsWith(Registry(a).rows, Row(<<"SwitchLocation">>, "Button"))
    BY <2>1, <1>b DEF StartsWith
  <2>3. QED
    BY <2>2, <1>a, <1>b DEF FirstRow
<1>2. CASE a.page = "SelectLocationFilter"
  <2>1. Registry(a).rows = <<Row(<<"OwnershipAny">>, "SelectOption")>>
    BY <1>2, <1>c DEF Registry
  <2>2. StartsWith(Registry(a).rows, Row(<<"OwnershipAny">>, "SelectOption"))
    BY <2>1, <1>b DEF StartsWith
  <2>3. QED
    BY <2>2, <1>a, <1>b DEF FirstRow
<1> DEFINE bar == Row(<<Tabs["Entry"], Tabs["Exit"]>>, "Button")
           field == Row(<<"SearchAnchor", "FilterButton">>, "TextInput")
<1>3. CASE a.page = "SelectLocation" /\ HiddenEntry(a, a.node_mode)
  <2>1. is_multihop_enabled(a)
    BY <1>3 DEF HiddenEntry, daita_overrides_entry, is_multihop_enabled
  <2>2. Registry(a).rows = <<bar>>
    BY <1>3, <1>c, <2>1 DEF Registry
  <2>3. StartsWith(Registry(a).rows, bar)
    BY <2>2, <1>b DEF StartsWith
  <2>4. QED
    BY <2>3, <1>a, <1>b DEF FirstRow
<1>4. CASE a.page = "SelectLocation" /\ ~HiddenEntry(a, a.node_mode)
  <2>1. PICK tree, D : tree = TreeRegistered(Rows(a)) /\ tree \in Seq(D)
    BY RegisteredRows
  <2>2. PICK tabs : tabs = IF is_multihop_enabled(a) THEN <<bar>> ELSE <<>>
    OBVIOUS
  <2>3. Registry(a).rows = tabs \o <<field>> \o tree
    BY <1>4, <1>c, <2>1, <2>2, Zenon DEF Registry
  <2>4. PICK E : E = D \cup {bar, field}
    OBVIOUS
  <2>5. tree \in Seq(E) /\ bar \in E /\ field \in E
    BY <2>1, <2>4
  <2>6. <<field>> \in Seq(E)
    BY <2>5, SingletonSeq
  <2>7. CASE is_multihop_enabled(a)
    <3>1. Registry(a).rows = <<bar>> \o (<<field>> \o tree)
      BY <2>2, <2>3, <2>7
    <3>2. <<field>> \o tree \in Seq(E)
      BY <2>5, <2>6, JoinedSeqs, Zenon
    <3>3. StartsWith(Registry(a).rows, bar)
      BY <2>5, <3>1, <3>2, StartOfJoined, Zenon
    <3>4. QED
      BY <3>3, <1>a, <1>b DEF FirstRow
  <2>8. CASE ~is_multihop_enabled(a)
    <3>1. Registry(a).rows = <<field>> \o tree
      BY <2>2, <2>3, <2>8
    <3>2. StartsWith(Registry(a).rows, field)
      BY <2>5, <3>1, StartOfJoined, Zenon
    <3>3. QED
      BY <3>2, <1>a, <1>b DEF FirstRow
  <2>9. QED
    BY <2>7, <2>8
<1>5. QED
  BY <1>1, <1>2, <1>3, <1>4, TypedFacts

\* The widget that a lost focus snaps to is on the frame: its first body row
\* has one.
LEMMA SomewhereToGo ==
    ASSUME NEW a, Typed(a)
    PROVE  contains(Registry(a), first_body_widget(Registry(a)))
<1>1. PICK reg : reg = Registry(a)
  OBVIOUS
<1>2. PICK ids, kind : FirstRow(a, ids, kind)
  BY FirstRowOfPage
<1>3. PICK row : row = Row(ids, kind)
  OBVIOUS
<1>4. /\ Len(reg.rows) \in Nat /\ Len(reg.rows) >= 1 /\ reg.rows[1] = row
      /\ DOMAIN row = 1 .. Len(ids) /\ Len(ids) \in Nat /\ Len(ids) >= 1
      /\ row[1] = Widget(ids[1], kind, 1) /\ kind \notin Chrome
      /\ row \in Seq({row[c] : c \in 1 .. Len(ids)})
  BY <1>1, <1>2, <1>3 DEF FirstRow, StartsWith, Row
<1>5. Len(row) = Len(ids) /\ row[1].kind \notin Chrome
  BY <1>4 DEF Widget
<1>6. PICK body : body = {r \in RowNumbers(reg) : ~Only(Chrome, reg.rows[r])}
  OBVIOUS
<1>7. 1 \in body /\ \A r \in body : r \in Nat /\ 1 <= r
  BY <1>4, <1>5, <1>6 DEF RowNumbers, Only
<1>8. Lowest(body) = 1
  BY <1>7 DEF Lowest
<1>9. first_body_widget(reg) = row[1].id
  BY <1>4, <1>6, <1>7, <1>8 DEF first_body_widget
<1>10. 1 \in RowNumbers(reg) /\ 1 \in DOMAIN reg.rows[1]
  BY <1>4 DEF RowNumbers
<1>11. IsAt(reg, first_body_widget(reg), 1, 1)
  BY <1>4, <1>9 DEF IsAt
<1>12. QED
  BY <1>1, <1>10, <1>11 DEF contains

\* A radio that a row of the page has is registered.
LEMMA RadioIsRegistered ==
    ASSUME NEW a, Typed(a), a.page = "SelectLocation", ~HiddenEntry(a, a.node_mode),
           NEW i \in DOMAIN Rows(a), widget_for_row(Rows(a), i) # NoWidget
    PROVE  contains(Registry(a), widget_for_row(Rows(a), i))
<1> DEFINE bar == Row(<<Tabs["Entry"], Tabs["Exit"]>>, "Button")
           field == Row(<<"SearchAnchor", "FilterButton">>, "TextInput")
<1>1. PICK tree, D : tree = TreeRegistered(Rows(a)) /\ tree \in Seq(D)
  BY RegisteredRows
<1>2. PICK w : w = widget_for_row(Rows(a), i)
  OBVIOUS
<1>3. PICK j \in 1 .. Len(tree) : tree[j] = Row(<<w>>, "SelectOption")
  BY <1>1, <1>2, RegisteredRows, Zenon DEF HasRows
<1>4. PICK E : E = D \cup {bar, field}
  OBVIOUS
<1>5. tree \in Seq(E) /\ bar \in E /\ field \in E
  BY <1>1, <1>4
<1>6. PICK search \in Seq(E) : search = <<field>>
  BY <1>5, SingletonSeq
<1>7. PICK tabs \in Seq(E) : tabs = IF is_multihop_enabled(a) THEN <<bar>> ELSE <<>>
  BY <1>5, SingletonSeq, NothingIsASeq, Zenon
<1>8. PICK above \in Seq(E) : above = tabs \o search
  BY JoinedSeqs, Zenon
<1>9. PICK reg : reg = Registry(a)
  OBVIOUS
<1>10. reg.rows = above \o tree
  <2>1. "SelectLocation" # "Status" /\ "SelectLocation" # "SelectLocationFilter"
    OBVIOUS
  <2>2. reg.rows = tabs \o search \o tree
    BY <1>1, <1>6, <1>7, <1>9, <2>1, Zenon DEF Registry
  <2>3. QED
    BY <1>8, <2>2
<1>11. PICK rows \in Seq(E) : rows = reg.rows /\ Joins(rows, above, tree)
  BY <1>5, <1>10, JoinedSeqs, Zenon
<1>12. PICK p \in Nat, q \in Nat : p = Len(above) /\ q = Len(tree)
  BY <1>1
<1>13. Len(rows) = p + q
       /\ \A r \in 1 .. p + q : rows[r] = IF r <= p THEN above[r] ELSE tree[r - p]
  BY <1>11, <1>12, Zenon DEF Joins
<1>14. p + j \in 1 .. p + q /\ ~(p + j <= p) /\ (p + j) - p = j
  BY <1>12
<1>15. p + j \in RowNumbers(reg) /\ reg.rows[p + j] = tree[j]
  BY <1>11, <1>13, <1>14 DEF RowNumbers
<1>16. PICK row : row = Row(<<w>>, "SelectOption")
  OBVIOUS
<1>17. 1 \in DOMAIN row /\ row[1].id = w
  BY <1>16 DEF Row, Widget
<1>18. IsAt(reg, w, p + j, 1) /\ 1 \in DOMAIN reg.rows[p + j]
  BY <1>3, <1>15, <1>16, <1>17 DEF IsAt
<1>19. QED
  BY <1>2, <1>9, <1>15, <1>18 DEF contains

-----------------------------------------------------------------------------
(* A step draws: what it shows keeps the invariant.                        *)

\* A frame of the page has the mode that is in effect.
Settled(a) == a.page = "SelectLocation" => a.node_mode = effective_mode(a)

\* The same where the page shows the list
InViewIfShown(a) ==
    a.page = "SelectLocation" /\ ~HiddenEntry(a, a.node_mode) => InView(a)

\* The frame's mode is the one in effect.
LEMMA SyncedKeeps ==
    ASSUME NEW a, Typed(a), NEW b, b = [a EXCEPT !.node_mode = effective_mode(a)]
    PROVE  /\ Typed(b) /\ b.page = a.page /\ b.focused = a.focused
           /\ b.settings = a.settings /\ Settled(b) /\ Open(b) = b.view[b.node_mode] /\ b.view = a.view
           /\ (a.node_mode = effective_mode(a) => b = a)
<1>1. PICK W : a \in Apps(W)
  BY DEF Typed
<1>2. PICK V : V = Views(W)
  OBVIOUS
<1>3. effective_mode(a) \in NodeKind
  BY TypedFacts DEF effective_mode, NodeKind
<1>4. PICK mode \in NodeKind : mode = effective_mode(a)
  BY <1>3
<1>5. b = [a EXCEPT !.node_mode = mode]
  BY <1>4
<1>6. b \in Apps(W)
  BY <1>1, <1>2, <1>5 DEF Apps
<1>7. /\ b.page = a.page /\ b.focused = a.focused /\ b.settings = a.settings
      /\ b.node_mode = mode /\ b.view = a.view
  BY <1>1, <1>2, <1>5 DEF Apps
<1>8. is_multihop_enabled(b) = is_multihop_enabled(a)
  BY <1>7 DEF is_multihop_enabled
<1>9. effective_mode(b) = mode
  BY <1>4, <1>7, <1>8 DEF effective_mode
<1>10. a.node_mode = mode => b = a
  BY <1>1, <1>2, <1>5 DEF Apps
<1>11. Typed(b)
  BY <1>6 DEF Typed
<1>12. QED
  BY <1>4, <1>7, <1>9, <1>10, <1>11 DEF Settled, Open

\* Rendering settles the mode and the window, and leaves the focus.
LEMMA RenderedKeeps ==
    ASSUME NEW a, Typed(a)
    PROVE  /\ Typed(Rendered(a)) /\ Rendered(a).focused = a.focused
           /\ InViewIfShown(Rendered(a)) /\ Settled(Rendered(a))
           /\ Rendered(a).page = a.page /\ Rendered(a).settings = a.settings
           /\ Settled(a) => SameFrame(a, Rendered(a))
           /\ Settled(a) /\ a.page = "SelectLocation" /\ ~HiddenEntry(a, a.node_mode)
                /\ Open(a).center => Shown(Rendered(a))
<1>1. CASE a.page # "SelectLocation"
  <2>1. Rendered(a) = a
    BY <1>1 DEF Rendered
  <2>2. QED
    BY <1>1, <2>1 DEF InViewIfShown, Settled, SameFrame
<1>2. CASE a.page = "SelectLocation"
  <2>1. PICK b : b = [a EXCEPT !.node_mode = effective_mode(a)]
    OBVIOUS
  <2>2. /\ Typed(b) /\ b.page = a.page /\ b.focused = a.focused /\ Settled(b)
        /\ b.settings = a.settings
        /\ (a.node_mode = effective_mode(a) => b = a)
    BY <2>1, SyncedKeeps
  <2>3. Settled(a) => b = a
    BY <1>2, <2>2 DEF Settled
  <2>4. CASE HiddenEntry(b, b.node_mode)
    <3>1. Rendered(a) = b
      BY <1>2, <2>1, <2>4 DEF Rendered
    <3>2. QED
      BY <2>2, <2>3, <2>4, <3>1 DEF InViewIfShown, SameFrame
  <2>5. CASE ~HiddenEntry(b, b.node_mode)
    <3>1. Rendered(a) = Scrolled(b)
      BY <1>2, <2>1, <2>5 DEF Rendered
    <3>2. /\ Typed(Scrolled(b)) /\ SameFrame(b, Scrolled(b))
          /\ Scrolled(b).focused = b.focused /\ InView(Scrolled(b))
          /\ Open(b).center => Shown(Scrolled(b))
      BY <2>2, ScrolledKeeps
    <3>3. Settled(Scrolled(b))
      BY <2>2, <3>2, SameFrames DEF Settled, SameFrame
    <3>4. Scrolled(b).page = b.page /\ Scrolled(b).settings = b.settings
      BY <3>2 DEF SameFrame
    <3>5. QED
      BY <2>2, <2>3, <3>1, <3>2, <3>3, <3>4 DEF InViewIfShown
  <2>6. QED
    BY <2>4, <2>5
<1>3. QED
  BY <1>1, <1>2

\* The focus may move to any widget.
LEMMA FocusedKeeps ==
    ASSUME NEW a, Typed(a), NEW w, NEW b, b = [a EXCEPT !.focused = w]
    PROVE  Typed(b) /\ SameFrame(a, b) /\ b.focused = w /\ Open(b) = Open(a)
<1>1. PICK W : w \in W /\ a \in Apps(W)
  BY TypedWith
<1>2. PICK V : V = Views(W)
  OBVIOUS
<1>3. b \in Apps(W)
  BY <1>1, <1>2 DEF Apps
<1>4. /\ b.page = a.page /\ b.focused = w /\ b.settings = a.settings
      /\ b.node_mode = a.node_mode /\ b.view = a.view /\ b.query = a.query
      /\ b.relay_locations = a.relay_locations
  BY <1>1, <1>2 DEF Apps
<1>5. Open(b) = Open(a)
  BY <1>4 DEF Open
<1>6. ShapeOf(b) = ShapeOf(a)
  BY <1>4, <1>5 DEF ShapeOf
<1>7. QED
  BY <1>3, <1>4, <1>5, <1>6 DEF Typed, SameFrame

\* The inductive invariant of the page
PageInv(a) ==
    /\ Typed(a) /\ Settled(a)
    /\ contains(Registry(a), a.focused)
    /\ InViewIfShown(a)

\* Snapping puts the focus on the frame, and renders it again when it had to
\* move.
LEMMA SnappedKeeps ==
    ASSUME NEW frame, Typed(frame), InViewIfShown(frame), Settled(frame)
    PROVE  /\ PageInv(Snapped(frame, Registry(frame)))
           /\ SameFrame(frame, Snapped(frame, Registry(frame)))
           /\ contains(Registry(frame), frame.focused)
                => Snapped(frame, Registry(frame)) = frame
<1>1. CASE contains(Registry(frame), frame.focused)
  BY <1>1 DEF Snapped, PageInv, SameFrame
<1>2. CASE ~contains(Registry(frame), frame.focused)
  <2>1. PICK w : w = first_body_widget(Registry(frame))
    OBVIOUS
  <2>2. PICK a : a = [frame EXCEPT !.focused = w]
    OBVIOUS
  <2>3. Typed(a) /\ SameFrame(frame, a) /\ a.focused = w
    BY <2>2, FocusedKeeps
  <2>4. Settled(a)
    BY <2>3, SameFrames DEF Settled, SameFrame
  <2>5. /\ Typed(Rendered(a)) /\ Rendered(a).focused = w
        /\ InViewIfShown(Rendered(a)) /\ SameFrame(a, Rendered(a))
        /\ Settled(Rendered(a))
    BY <2>3, <2>4, RenderedKeeps
  <2>6. Registry(Rendered(a)) = Registry(frame)
    BY <2>3, <2>5, SameFrames
  <2>7. contains(Registry(Rendered(a)), Rendered(a).focused)
    BY <2>1, <2>5, <2>6, SomewhereToGo
  <2>8. Snapped(frame, Registry(frame)) = Rendered(a)
    BY <1>2, <2>1, <2>2 DEF Snapped
  <2>9. SameFrame(frame, Rendered(a))
    BY <2>3, <2>5 DEF SameFrame
  <2>10. QED
    BY <1>2, <2>5, <2>7, <2>8, <2>9 DEF PageInv
<1>3. QED
  BY <1>1, <1>2

\* What is drawn is the app that the handler left.
LEMMA ShowsKeeps ==
    ASSUME NEW a, Typed(a), Shows(a)
    PROVE  /\ PageInv(app') /\ app'.page = a.page /\ app'.settings = a.settings
           /\ Settled(a) => SameFrame(a, app')
<1>1. PICK frame : frame = Rendered(a)
  OBVIOUS
<1>2. app' = Snapped(frame, Registry(frame))
  BY <1>1 DEF Shows
<1>3. /\ Typed(frame) /\ InViewIfShown(frame) /\ Settled(frame)
      /\ frame.page = a.page /\ frame.settings = a.settings
      /\ Settled(a) => SameFrame(a, frame)
  BY <1>1, RenderedKeeps
<1>4. PageInv(app') /\ SameFrame(frame, app')
  BY <1>2, <1>3, SnappedKeeps
<1>5. QED
  BY <1>3, <1>4 DEF SameFrame

-----------------------------------------------------------------------------
(* What the handlers leave.                                                *)

\* A handler that leaves the mode and the settings alone
Quiet(b, a) == Typed(b) /\ b.settings = a.settings /\ b.node_mode = a.node_mode

\* Focus moves the focus only.
LEMMA FocusQuiet ==
    ASSUME NEW a, Typed(a), NEW w
    PROVE  Quiet(Focus(a, w), a)
BY FocusedKeeps DEF Focus, Quiet, SameFrame

\* A query may be replaced by a query.
LEMMA QueryQuiet ==
    ASSUME NEW a, Typed(a), NEW q \in Queries
    PROVE  Quiet([a EXCEPT !.query = q], a)
<1>1. PICK W : a \in Apps(W)
  BY DEF Typed
<1>2. PICK V : V = Views(W)
  OBVIOUS
<1>3. PICK b : b = [a EXCEPT !.query = q]
  OBVIOUS
<1>4. b \in Apps(W) /\ b.settings = a.settings /\ b.node_mode = a.node_mode
  BY <1>1, <1>2, <1>3 DEF Apps
<1>5. QED
  BY <1>3, <1>4 DEF Typed, Quiet

\* The page may be left, with the focus on some widget.
LEMMA PageQuiet ==
    ASSUME NEW a, Typed(a),
           NEW page \in {"Status", "SelectLocation", "SelectLocationFilter"}, NEW w
    PROVE  Quiet([a EXCEPT !.page = page, !.focused = w], a)
<1>1. PICK W : w \in W /\ a \in Apps(W)
  BY TypedWith
<1>2. PICK V : V = Views(W)
  OBVIOUS
<1>3. PICK b : b = [a EXCEPT !.page = page, !.focused = w]
  OBVIOUS
<1>4. b \in Apps(W) /\ b.settings = a.settings /\ b.node_mode = a.node_mode
  BY <1>1, <1>2, <1>3 DEF Apps
<1>5. QED
  BY <1>3, <1>4 DEF Typed, Quiet

\* The page may be opened.
LEMMA PageOpened ==
    ASSUME NEW a, Typed(a), NEW b, b = [a EXCEPT !.page = "SelectLocation"]
    PROVE  /\ Typed(b) /\ b.page = "SelectLocation" /\ b.settings = a.settings
           /\ b.query = a.query /\ b.relay_locations = a.relay_locations
<1>1. PICK W : a \in Apps(W)
  BY DEF Typed
<1>2. PICK V : V = Views(W)
  OBVIOUS
<1>3. b \in Apps(W)
  BY <1>1, <1>2 DEF Apps
<1>4. QED
  BY <1>1, <1>2, <1>3 DEF Typed, Apps

\* The relay list and the settings are replaced by what the daemon pushes.
LEMMA PushTyped ==
    ASSUME NEW a, Typed(a)
    PROVE  /\ \A list \in RelayLists :
                /\ Quiet([a EXCEPT !.relay_locations = list], a)
                /\ [a EXCEPT !.relay_locations = list].page = a.page
           /\ \A value \in SettingsValues :
                /\ Typed([a EXCEPT !.settings = value])
                /\ [a EXCEPT !.settings = value].page = a.page
                /\ [a EXCEPT !.settings = value].settings = value
                /\ [a EXCEPT !.settings = value].node_mode = a.node_mode
<1>1. PICK W : a \in Apps(W)
  BY DEF Typed
<1>2. PICK V : V = Views(W)
  OBVIOUS
<1>3. ASSUME NEW list \in RelayLists
      PROVE  /\ Quiet([a EXCEPT !.relay_locations = list], a)
             /\ [a EXCEPT !.relay_locations = list].page = a.page
  <2>1. PICK b : b = [a EXCEPT !.relay_locations = list]
    OBVIOUS
  <2>2. b \in Apps(W) /\ b.settings = a.settings /\ b.node_mode = a.node_mode
        /\ b.page = a.page
    BY <1>1, <1>2, <2>1 DEF Apps
  <2>3. QED
    BY <2>1, <2>2 DEF Typed, Quiet
<1>4. ASSUME NEW value \in SettingsValues
      PROVE  /\ Typed([a EXCEPT !.settings = value])
             /\ [a EXCEPT !.settings = value].page = a.page
             /\ [a EXCEPT !.settings = value].settings = value
             /\ [a EXCEPT !.settings = value].node_mode = a.node_mode
  <2>1. PICK b : b = [a EXCEPT !.settings = value]
    OBVIOUS
  <2>2. b \in Apps(W) /\ b.page = a.page /\ b.settings = value /\ b.node_mode = a.node_mode
    BY <1>1, <1>2, <2>1 DEF Apps
  <2>3. QED
    BY <2>1, <2>2 DEF Typed
<1>5. QED
  BY <1>3, <1>4

\* leave_sub_page goes to another page.
LEMMA LeaveQuiet ==
    ASSUME NEW a, Typed(a)
    PROVE  Quiet(leave_sub_page(a), a)
BY PageQuiet DEF leave_sub_page

\* What is above a location of the list is open.
OpenAbove(v, r, target) ==
    /\ target = OfCity(r.country, r.city) => r.country \in v.countries
    /\ target = OfRelay(r.host) => r.country \in v.countries /\ <<r.country, r.city>> \in v.cities

\* Unfolding opens what is above the target, if the list has it.
LEMMA UnfoldedType ==
    ASSUME NEW a, Typed(a), NEW W, NEW v \in Views(W), NEW target \in Selectable
    PROVE  /\ Unfolded(a, v, target) \in Views(W)
           /\ \A r \in ToSet(a.relay_locations) : OpenAbove(Unfolded(a, v, target), r, target)
<1> DEFINE homes == {r \in ToSet(a.relay_locations) : r.host = target.host}
<1>1. ToSet(a.relay_locations) \subseteq RelayLocation
  BY TypedFacts, PageAssumption, ValuesAreFinite
<1>2. \A r \in homes : r.country \in DOMAIN CountryTexts /\ <<r.country, r.city>> \in DOMAIN CityTexts
  BY <1>1, RelayFacts
<1>3. PICK countries \in SUBSET DOMAIN CountryTexts : countries = {r.country : r \in homes}
  BY <1>2
<1>4. PICK cities \in SUBSET DOMAIN CityTexts : cities = {<<r.country, r.city>> : r \in homes}
  BY <1>2
<1>5. v.countries \in SUBSET DOMAIN CountryTexts /\ v.cities \in SUBSET DOMAIN CityTexts
  BY DEF Views
<1> HIDE DEF homes
<1>6. CASE target.kind = "City"
  <2>1. target.country \in DOMAIN CountryTexts
    BY <1>6 DEF Selectable
  <2>2. PICK c \in SUBSET DOMAIN CountryTexts : c = v.countries \cup {target.country}
    BY <1>5, <2>1
  <2>3. [v EXCEPT !.countries = c] \in Views(W)
    BY DEF Views
  <2>4. Unfolded(a, v, target) = [v EXCEPT !.countries = c]
    BY <1>6, <2>2 DEF Unfolded
  <2>5. Unfolded(a, v, target) \in Views(W) /\ Unfolded(a, v, target).countries = c
    BY <2>3, <2>4 DEF Views
  <2>6. QED
    BY <1>6, <2>2, <2>5, SMT DEF OpenAbove, OfCity, OfRelay, Location
<1>7. CASE target.kind = "Relay"
  <2>1. PICK c \in SUBSET DOMAIN CountryTexts : c = v.countries \cup countries
    BY <1>5
  <2>2. PICK d \in SUBSET DOMAIN CityTexts : d = v.cities \cup cities
    BY <1>5
  <2>3. [v EXCEPT !.countries = c, !.cities = d] \in Views(W)
    BY DEF Views
  <2>4. "Relay" # "City"
    OBVIOUS
  <2>5. Unfolded(a, v, target) = [v EXCEPT !.countries = c, !.cities = d]
    BY <1>3, <1>4, <1>7, <2>1, <2>2, <2>4, Zenon DEF Unfolded, homes
  <2>6. /\ Unfolded(a, v, target) \in Views(W)
        /\ Unfolded(a, v, target).countries = c /\ Unfolded(a, v, target).cities = d
    BY <2>3, <2>5 DEF Views
  <2>7. ASSUME NEW r \in ToSet(a.relay_locations), target = OfRelay(r.host)
        PROVE  r.country \in c /\ <<r.country, r.city>> \in d
    <3>1. r \in homes
      BY <2>7 DEF homes, OfRelay, Location
    <3>2. QED
      BY <1>3, <1>4, <2>1, <2>2, <3>1
  <2>8. ASSUME NEW r, target = OfCity(r.country, r.city) PROVE FALSE
    BY <1>7, <2>4, <2>8 DEF OfCity, Location
  <2>9. QED
    BY <2>6, <2>7, <2>8 DEF OpenAbove
<1>8. CASE target.kind # "City" /\ target.kind # "Relay"
  <2>1. Unfolded(a, v, target) = v
    BY <1>8 DEF Unfolded
  <2>2. \A r : target # OfCity(r.country, r.city) /\ target # OfRelay(r.host)
    BY <1>8 DEF OfCity, OfRelay, Location
  <2>3. QED
    BY <2>1, <2>2 DEF OpenAbove
<1>9. QED
  BY <1>6, <1>7, <1>8

\* The current selection is one of the locations that may be set.
LEMMA SelectionType ==
    ASSUME NEW a, Typed(a), NEW mode
    PROVE  Selection(a, mode) \in Selectable
<1>1. a.settings.entry \in Selectable /\ a.settings.exit \in Selectable
  BY TypedFacts, PageAssumption
<1>2. QED
  BY <1>1, Zenon DEF Selection

\* The widget that focus_current_selection finds
CurrentWidget(a, mode) ==
    focus_widget_for_target(Tree(a), Unfolded(a, a.view[mode], Selection(a, mode)),
                            filter_active(a), Selection(a, mode))

\* What focus_current_selection leaves
IsCurrent(b, a, mode, fallback) ==
    /\ Typed(b) /\ b.page = a.page /\ b.query = a.query /\ b.settings = a.settings
    /\ b.relay_locations = a.relay_locations /\ b.node_mode = mode
    /\ b.focused = IF CurrentWidget(a, mode) = NoWidget THEN fallback ELSE CurrentWidget(a, mode)
    /\ CurrentWidget(a, mode) # NoWidget => Open(b).center
    /\ Open(b).countries = Unfolded(a, a.view[mode], Selection(a, mode)).countries
    /\ Open(b).cities = Unfolded(a, a.view[mode], Selection(a, mode)).cities

\* focus_current_selection does that.
LEMMA CurrentLeaves ==
    ASSUME NEW a, Typed(a), NEW mode \in NodeKind, NEW fallback
    PROVE  IsCurrent(FocusCurrentSelection(a, mode, fallback), a, mode, fallback)
<1>1. PICK target \in Selectable : target = Selection(a, mode)
  BY SelectionType
<1>2. PICK widget : widget = focus_widget_for_target(Tree(a), Unfolded(a, a.view[mode], target),
                                                     filter_active(a), target)
  OBVIOUS
<1>3. PICK focus : focus = IF widget = NoWidget THEN fallback ELSE widget
  OBVIOUS
<1>4. PICK W : focus \in W /\ a \in Apps(W)
  BY TypedWith
<1>5. PICK V : V = Views(W)
  OBVIOUS
<1>6. a.view[mode] \in V
  BY <1>4, <1>5 DEF Apps
<1>7. PICK v \in V : v = Unfolded(a, a.view[mode], target)
  BY <1>5, <1>6, UnfoldedType
<1>8. PICK center \in BOOLEAN : center <=> v.center \/ widget # NoWidget
  OBVIOUS
<1>9. v.center \in BOOLEAN
  BY <1>5 DEF Views
<1>10. PICK u : u = [v EXCEPT !.center = v.center \/ widget # NoWidget]
  OBVIOUS
<1>11. u \in V
  <2>1. PICK c \in BOOLEAN : c = (v.center \/ widget # NoWidget)
    BY <1>9
  <2>2. QED
    BY <1>5, <1>10, <2>1 DEF Views
<1>12. PICK views \in [NodeKind -> V] : views = [a.view EXCEPT ![mode] = u]
  BY <1>4, <1>5, <1>11 DEF Apps
<1>13. FocusCurrentSelection(a, mode, fallback) =
         [a EXCEPT !.node_mode = mode, !.view = views, !.focused = focus]
  <2>1. FocusCurrentSelection(a, mode, fallback) =
          [a EXCEPT !.node_mode = mode, !.view[mode] = u, !.focused = focus]
    BY <1>1, <1>2, <1>3, <1>7, <1>10, Zenon DEF FocusCurrentSelection
  <2>2. QED
    BY <1>12, <2>1
<1>14. PICK b : b = [a EXCEPT !.node_mode = mode, !.view = views, !.focused = focus]
  OBVIOUS
<1>15. /\ b \in Apps(W) /\ b.page = a.page /\ b.query = a.query /\ b.settings = a.settings
       /\ b.relay_locations = a.relay_locations /\ b.node_mode = mode /\ b.focused = focus
       /\ b.view = views
  BY <1>4, <1>5, <1>12, <1>14 DEF Apps
<1>16. views[mode] = u
  BY <1>4, <1>5, <1>12 DEF Apps
<1>17. Open(b) = u
  BY <1>15, <1>16 DEF Open
<1>18. u.countries = v.countries /\ u.cities = v.cities /\ (widget # NoWidget => u.center)
  BY <1>5, <1>9, <1>10 DEF Views
<1>19. widget = CurrentWidget(a, mode)
  BY <1>1, <1>2 DEF CurrentWidget
<1>20. Typed(b)
  BY <1>15 DEF Typed
<1>21. v = Unfolded(a, a.view[mode], Selection(a, mode))
  BY <1>1, <1>7
<1>22. IsCurrent(b, a, mode, fallback)
  BY <1>3, <1>15, <1>17, <1>18, <1>19, <1>20, <1>21 DEF IsCurrent
<1>23. QED
  BY <1>13, <1>14, <1>22

\* The rows that have an expansion name what the user may open.
Opens(row) ==
    /\ row.country \in DOMAIN CountryTexts
    /\ KindOfRow(row) # "Country" => <<row.country, row.location.city>> \in DOMAIN CityTexts

\* Opening and closing a row
LEMMA WithRowQuiet ==
    ASSUME NEW a, Typed(a), NEW row, NEW open \in BOOLEAN, open => Opens(row)
    PROVE  Quiet(WithRow(a, row, open), a)
<1>1. PICK W : a \in Apps(W)
  BY DEF Typed
<1>2. PICK m \in NodeKind : m = a.node_mode
  BY TypedFacts
<1>3. PICK v \in Views(W) : v = a.view[m]
  BY <1>1 DEF Apps
<1>4. v.countries \in SUBSET DOMAIN CountryTexts /\ v.cities \in SUBSET DOMAIN CityTexts
  BY DEF Views
<1>5. CASE open /\ ~MayExpand(a)
  BY <1>5 DEF WithRow, Quiet
<1>6. CASE ~(open /\ ~MayExpand(a)) /\ KindOfRow(row) = "Country"
  <2>1. PICK c \in SUBSET DOMAIN CountryTexts :
          c = IF open THEN v.countries \cup {row.country} ELSE v.countries \ {row.country}
    BY <1>4 DEF Opens
  <2>2. PICK u : u = [v EXCEPT !.countries = c]
    OBVIOUS
  <2>3. u \in Views(W)
    BY <2>2 DEF Views
  <2>4. WithRow(a, row, open) = [a EXCEPT !.view[m].countries = c]
    BY <1>2, <1>3, <1>6, <2>1, Zenon DEF WithRow
  <2>5. [a EXCEPT !.view[m].countries = c] = [a EXCEPT !.view[m] = u]
    BY <1>3, <2>2, Zenon
  <2>6. [a EXCEPT !.view[m] = u] \in Apps(W) /\ ViewSet([a EXCEPT !.view[m] = u], a, m, u)
    BY <1>1, <2>3, ViewMaySet
  <2>7. QED
    BY <2>4, <2>5, <2>6 DEF Typed, Quiet, ViewSet
<1>7. CASE ~(open /\ ~MayExpand(a)) /\ KindOfRow(row) # "Country"
  <2>1. PICK c \in SUBSET DOMAIN CityTexts :
          c = IF open THEN v.cities \cup {<<row.country, row.location.city>>}
              ELSE v.cities \ {<<row.country, row.location.city>>}
    BY <1>4, <1>7 DEF Opens
  <2>2. PICK u : u = [v EXCEPT !.cities = c]
    OBVIOUS
  <2>3. u \in Views(W)
    BY <2>2 DEF Views
  <2>4. WithRow(a, row, open) = [a EXCEPT !.view[m].cities = c]
    BY <1>2, <1>3, <1>7, <2>1, Zenon DEF WithRow
  <2>5. [a EXCEPT !.view[m].cities = c] = [a EXCEPT !.view[m] = u]
    BY <1>3, <2>2, Zenon
  <2>6. [a EXCEPT !.view[m] = u] \in Apps(W) /\ ViewSet([a EXCEPT !.view[m] = u], a, m, u)
    BY <1>1, <2>3, ViewMaySet
  <2>7. QED
    BY <2>4, <2>5, <2>6 DEF Typed, Quiet, ViewSet
<1>8. QED
  BY <1>5, <1>6, <1>7

\* A row with an expansion names a country or a city of the tables.
LEMMA RowsOpen ==
    ASSUME NEW a, Typed(a), NEW i \in DOMAIN Rows(a), KindOfRow(Rows(a)[i]) # "Relay"
    PROVE  Opens(Rows(a)[i])
<1>1. Rows(a)[i] \in TreeRows
  BY FrameRows
<1>2. QED
  BY <1>1 DEF Opens, TreeRows, Locations, KindOfRow, Kinds

\* Going to a row
LEMMA FocusRowQuiet ==
    ASSUME NEW a, Typed(a), NEW targets
    PROVE  Quiet(FocusRow(a, targets), a)
BY FocusQuiet DEF FocusRow, Quiet

\* Left and Right in the tree
LEMMA TreeArrowQuiet ==
    ASSUME NEW a, Typed(a), NEW i \in DOMAIN Rows(a), NEW dir,
           ~(dir = "Right" /\ KindOfRow(Rows(a)[i]) = "Relay")
    PROVE  Quiet(handle_tree_arrow(a, i, dir), a)
<1>1. PICK row : row = Rows(a)[i]
  OBVIOUS
<1>2. "Right" # "Left"
  OBVIOUS
<1>3. CASE dir = "Right" /\ row.expanded
  <2>1. handle_tree_arrow(a, i, dir) = FocusRow(a, FirstChildRows(Rows(a), i))
    BY <1>1, <1>2, <1>3 DEF handle_tree_arrow
  <2>2. QED
    BY <2>1, FocusRowQuiet
<1>4. CASE dir = "Right" /\ ~row.expanded
  <2>1. handle_tree_arrow(a, i, dir) = WithRow(a, row, TRUE)
    BY <1>1, <1>2, <1>4 DEF handle_tree_arrow
  <2>2. Opens(row)
    BY <1>1, <1>4, RowsOpen
  <2>3. QED
    BY <2>1, <2>2, WithRowQuiet
<1>5. CASE dir = "Left" /\ row.expanded /\ ~HeldOpen(a, row)
  <2>1. handle_tree_arrow(a, i, dir) = WithRow(a, row, FALSE)
    BY <1>1, <1>2, <1>5 DEF handle_tree_arrow
  <2>2. QED
    BY <2>1, WithRowQuiet
<1>6. CASE dir # "Right" /\ ~(dir = "Left" /\ row.expanded /\ ~HeldOpen(a, row))
  <2>1. handle_tree_arrow(a, i, dir) = FocusRow(a, ParentRows(Rows(a), i))
    BY <1>1, <1>2, <1>6 DEF handle_tree_arrow
  <2>2. QED
    BY <2>1, FocusRowQuiet
<1>7. QED
  BY <1>3, <1>4, <1>5, <1>6

\* The arrows
LEMMA ArrowQuiet ==
    ASSUME NEW a, Typed(a), NEW registry, NEW dir
    PROVE  Quiet(Arrow(a, registry, dir), a)
<1>1. PICK at : at = IF dir \in {"Left", "Right"} THEN RowsOwning(Rows(a), a.focused) ELSE {}
  OBVIOUS
<1>2. PICK taken : taken = {i \in at : ~(dir = "Right" /\ KindOfRow(Rows(a)[i]) = "Relay")}
  OBVIOUS
<1>3. CASE taken = {}
  <2>1. Arrow(a, registry, dir) = Focus(a, navigate(registry, a.focused, dir))
    BY <1>1, <1>2, <1>3 DEF Arrow
  <2>2. QED
    BY <2>1, FocusQuiet
<1>4. CASE taken # {}
  <2>1. PICK i \in taken : taken = {i} /\ i \in 1 .. Len(Rows(a))
    BY <1>1, <1>2, <1>4, OwnerIsOne
  <2>2. Lowest(taken) = i
    BY <2>1, OneIsLowest
  <2>3. Arrow(a, registry, dir) = handle_tree_arrow(a, i, dir)
    BY <1>1, <1>2, <1>4, <2>2 DEF Arrow
  <2>4. i \in DOMAIN Rows(a)
    BY <2>1, FrameRows
  <2>5. QED
    BY <1>2, <2>3, <2>4, TreeArrowQuiet
<1>5. QED
  BY <1>3, <1>4

\* The other keys
LEMMA KeysQuiet ==
    ASSUME NEW a, Typed(a)
    PROVE  /\ \A registry, key : Quiet(PageKey(a, registry, key), a)
           /\ \A letter : Quiet(push_query_char(a, letter), a)
           /\ Quiet(pop_query_char(a), a) /\ Quiet(EscKey(a), a) /\ Quiet(SlashKey(a), a)
<1>1. ASSUME NEW registry, NEW key PROVE Quiet(PageKey(a, registry, key), a)
  BY FocusQuiet DEF PageKey
<1>2. a.query \in Queries
  BY TypedFacts
<1>3. ASSUME NEW letter PROVE Quiet(push_query_char(a, letter), a)
  <2>1. CASE InSearch(a) /\ Append(a.query, letter) \in Queries
    <3>1. push_query_char(a, letter) = [a EXCEPT !.query = Append(a.query, letter)]
      BY <2>1 DEF push_query_char
    <3>2. QED
      BY <2>1, <3>1, QueryQuiet
  <2>2. CASE ~(InSearch(a) /\ Append(a.query, letter) \in Queries)
    BY <2>2 DEF push_query_char, Quiet
  <2>3. QED
    BY <2>1, <2>2
<1>4. Quiet(pop_query_char(a), a)
  <2>1. CASE InSearch(a) /\ filter_active(a)
    <3>1. pop_query_char(a) = [a EXCEPT !.query = Front(a.query)]
      BY <2>1 DEF pop_query_char
    <3>2. Front(a.query) \in Queries
      BY <1>2, <2>1, PageAssumption DEF filter_active
    <3>3. QED
      BY <3>1, <3>2, QueryQuiet
  <2>2. CASE ~(InSearch(a) /\ filter_active(a))
    BY <2>2 DEF pop_query_char, Quiet
  <2>3. QED
    BY <2>1, <2>2
<1>5. Quiet(EscKey(a), a)
  <2>1. CASE InSearch(a) /\ filter_active(a)
    <3>1. EscKey(a) = [a EXCEPT !.query = <<>>]
      BY <2>1 DEF EscKey
    <3>2. <<>> \in Queries
      BY PageAssumption
    <3>3. QED
      BY <3>1, <3>2, QueryQuiet
  <2>2. CASE ~(InSearch(a) /\ filter_active(a))
    BY <2>2, LeaveQuiet DEF EscKey
  <2>3. QED
    BY <2>1, <2>2
<1>6. Quiet(SlashKey(a), a)
  BY FocusQuiet DEF SlashKey
<1>7. QED
  BY <1>1, <1>3, <1>4, <1>5, <1>6

\* A click on a chevron
LEMMA ChevronQuiet ==
    ASSUME NEW a, Typed(a), NEW i \in DOMAIN Rows(a), chevron_for_row(Rows(a), i) # NoWidget
    PROVE  Quiet(ClickChevron(a, i), a)
<1>1. PICK row : row = Rows(a)[i]
  OBVIOUS
<1>2. KindOfRow(row) \in DOMAIN Chevron
  BY <1>1 DEF chevron_for_row
<1>3. KindOfRow(row) # "Relay"
  BY <1>2, TreeAssumption
<1>4. Opens(row)
  BY <1>1, <1>3, RowsOpen
<1>5. PICK focus : focus = Focus(a, widget_for_row(Rows(a), i))
  OBVIOUS
<1>6. Typed(focus) /\ Quiet(focus, a)
  BY <1>5, FocusQuiet DEF Quiet
<1>7. PICK open \in BOOLEAN : open = ~IsExpanded(a, row)
  OBVIOUS
<1>8. Quiet(WithRow(focus, row, open), a)
  BY <1>4, <1>6, WithRowQuiet DEF Quiet
<1>9. ClickChevron(a, i) = IF HeldOpen(a, row) THEN focus ELSE WithRow(focus, row, open)
  BY <1>1, <1>5, <1>7, Zenon DEF ClickChevron
<1>10. QED
  BY <1>6, <1>8, <1>9

\* The wheel
LEMMA ScrollQuiet ==
    ASSUME NEW a, Typed(a), NEW delta \in Int
    PROVE  Quiet(scroll_by(a, delta), a)
<1>1. PICK most \in Int : most = Len(Rows(a)) - RowCapacity(a)
  BY FrameRows, RowCapacityType
<1>2. PICK w : w = IF RowsOwning(Rows(a), a.focused) = {} THEN NoWidget ELSE a.focused
  OBVIOUS
<1>3. PICK W : w \in W /\ a \in Apps(W)
  BY TypedWith
<1>4. PICK m \in NodeKind : m = a.node_mode
  BY TypedFacts
<1>5. PICK v \in Views(W) : v = a.view[m]
  BY <1>3 DEF Apps
<1>6. PICK offset : offset = Clamp(v.offset + delta, 0, most)
  OBVIOUS
<1>7. scroll_by(a, delta) =
        IF most <= 0 \/ offset = v.offset THEN a
        ELSE [a EXCEPT !.view[m].offset = offset, !.view[m].scrolledAt = w]
  BY <1>1, <1>2, <1>4, <1>5, <1>6, Zenon DEF scroll_by, Open
<1>8. CASE most <= 0 \/ offset = v.offset
  BY <1>7, <1>8 DEF Quiet
<1>9. CASE ~(most <= 0 \/ offset = v.offset)
  <2>1. v.offset \in Nat
    BY DEF Views
  <2>2. offset \in Nat
    BY <1>6, <1>9, <2>1 DEF Clamp, Smaller
  <2>3. PICK u : u = [v EXCEPT !.offset = offset]
    OBVIOUS
  <2>4. u \in Views(W)
    BY <2>2, <2>3 DEF Views
  <2>5. PICK b \in Apps(W) : b = [a EXCEPT !.view[m] = u] /\ b.view[m] = u /\ Quiet(b, a)
    <3>1. PICK b : b = [a EXCEPT !.view[m] = u]
      OBVIOUS
    <3>2. b \in Apps(W) /\ ViewSet(b, a, m, u)
      BY <1>3, <2>4, <3>1, ViewMaySet
    <3>3. QED
      BY <3>1, <3>2 DEF ViewSet, Quiet, Typed
  <2>6. PICK t : t = [u EXCEPT !.scrolledAt = w]
    OBVIOUS
  <2>7. t \in Views(W)
    BY <1>3, <2>4, <2>6 DEF Views
  <2>8. [b EXCEPT !.view[m] = t] \in Apps(W) /\ ViewSet([b EXCEPT !.view[m] = t], b, m, t)
    BY <2>5, <2>7, ViewMaySet
  <2>9. scroll_by(a, delta) = [b EXCEPT !.view[m] = t]
    <3>1. scroll_by(a, delta) =
            [[a EXCEPT !.view[m].offset = offset] EXCEPT !.view[m].scrolledAt = w]
      BY <1>7, <1>9
    <3>2. [a EXCEPT !.view[m].offset = offset] = b
      BY <1>5, <2>3, <2>5, Zenon
    <3>3. [b EXCEPT !.view[m].scrolledAt = w] = [b EXCEPT !.view[m] = t]
      BY <2>5, <2>6, Zenon
    <3>4. QED
      BY <3>1, <3>2, <3>3, Zenon
  <2>10. QED
    BY <2>5, <2>8, <2>9 DEF Typed, Quiet, ViewSet
<1>10. QED
  BY <1>8, <1>9

\* The tab of the hidden entry list is switched to without a selection.
LEMMA HiddenTab ==
    ASSUME NEW a, Typed(a), NEW mode \in NodeKind, HiddenEntry(a, mode)
    PROVE  /\ Typed(SwitchTab(a, mode)) /\ SwitchTab(a, mode).settings = a.settings
           /\ SwitchTab(a, mode).node_mode = mode
<1>1. PICK w : w = Tabs[mode]
  OBVIOUS
<1>2. PICK W : w \in W /\ a \in Apps(W)
  BY TypedWith
<1>3. PICK V : V = Views(W)
  OBVIOUS
<1>4. PICK b : b = [a EXCEPT !.node_mode = mode, !.focused = w]
  OBVIOUS
<1>5. b \in Apps(W) /\ b.settings = a.settings /\ b.node_mode = mode
  BY <1>2, <1>3, <1>4 DEF Apps
<1>6. SwitchTab(a, mode) = b
  BY <1>1, <1>4 DEF SwitchTab
<1>7. QED
  BY <1>5, <1>6 DEF Typed

\* An exit pick only leaves the page.
LEMMA ExitPick ==
    ASSUME NEW a, Typed(a), a.node_mode = "Exit"
    PROVE  Quiet(after_select_success(a), a)
BY LeaveQuiet DEF after_select_success

-----------------------------------------------------------------------------
(* The theorems.                                                           *)

\* The App starts on the Status page, with its focus on the frame.
LEMMA PageInit ==
    LocationInit => PageInv(app)
<1> SUFFICES ASSUME LocationInit PROVE PageInv(app)
  OBVIOUS
<1>1. PICK v : v = [countries |-> {}, cities |-> {}, offset |-> 0, center |-> FALSE,
                    scrolledAt |-> NoWidget]
  OBVIOUS
<1>2. PICK W : W = {NoWidget, "SwitchLocation"}
  OBVIOUS
<1>3. v \in Views(W)
  BY <1>1, <1>2 DEF Views
<1>4. PICK B : B = [countries : {{}}, cities : {{}}, offset : {0},
                    center : {FALSE}, scrolledAt : {NoWidget}]
  OBVIOUS
<1>5. B \subseteq Views(W)
  <2>1. ASSUME NEW x \in B PROVE x = v
    BY <1>1, <1>4
  <2>2. QED
    BY <1>3, <2>1
<1>6. app \in [page : {"Status"}, node_mode : {"Exit"}, query : {<<>>}, view : [NodeKind -> B],
               focused : {"SwitchLocation"}, relay_locations : RelayLists,
               settings : SettingsValues]
  BY <1>4 DEF LocationInit
<1>7. PICK V : V = Views(W)
  OBVIOUS
<1>8. /\ app.page = "Status" /\ app.node_mode = "Exit" /\ app.query = <<>>
      /\ app.view \in [NodeKind -> V] /\ app.focused = "SwitchLocation"
      /\ app.relay_locations \in RelayLists /\ app.settings \in SettingsValues
      /\ app = [page |-> app.page, node_mode |-> app.node_mode, query |-> app.query,
                view |-> app.view, focused |-> app.focused,
                relay_locations |-> app.relay_locations, settings |-> app.settings]
  BY <1>5, <1>6, <1>7
<1>9. app \in Apps(W)
  <2>1. app.query \in Queries /\ app.node_mode \in NodeKind /\ app.focused \in W
    BY <1>2, <1>8, PageAssumption DEF NodeKind
  <2>2. app.page \in {"Status", "SelectLocation", "SelectLocationFilter"}
    BY <1>8
  <2>3. QED
    BY <1>7, <1>8, <2>1, <2>2 DEF Apps
<1>10. contains(Registry(app), app.focused)
  <2>1. PICK row : row = Row(<<"SwitchLocation">>, "Button")
    OBVIOUS
  <2>2. 1 \in DOMAIN row /\ row[1].id = "SwitchLocation"
    BY <2>1 DEF Row, Widget
  <2>3. PICK reg : reg = Registry(app)
    OBVIOUS
  <2>4. reg.rows = <<row>>
    BY <1>8, <2>1, <2>3 DEF Registry
  <2>5. 1 \in RowNumbers(reg) /\ reg.rows[1] = row
    BY <2>4 DEF RowNumbers
  <2>6. IsAt(reg, app.focused, 1, 1)
    BY <1>8, <2>2, <2>5 DEF IsAt
  <2>7. QED
    BY <2>2, <2>3, <2>5, <2>6 DEF contains
<1>11. QED
  BY <1>8, <1>9, <1>10 DEF PageInv, Typed, InViewIfShown, Settled

\* Switching the tab keeps the types.
LEMMA TabTyped ==
    ASSUME NEW a, Typed(a), NEW mode \in NodeKind
    PROVE  Typed(SwitchTab(a, mode))
BY HiddenTab, CurrentLeaves DEF SwitchTab, IsCurrent

\* What follows a pick keeps the types.
LEMMA PickTyped ==
    ASSUME NEW a, Typed(a)
    PROVE  Typed(after_select_success(a))
BY ExitPick, CurrentLeaves DEF after_select_success, IsCurrent, Quiet, NodeKind

\* Every step of the page keeps the invariant: the handler leaves a typed App,
\* and what it shows is settled, snapped and scrolled.
LEMMA PageStep ==
    PageInv(app) /\ [LocationNext]_app => PageInv(app')
<1> SUFFICES ASSUME PageInv(app), [LocationNext]_app PROVE PageInv(app')
  OBVIOUS
<1>0. Typed(app)
  BY DEF PageInv
<1>1. CASE OpenPage
  <2>1. PICK a : a = [app EXCEPT !.page = "SelectLocation"]
    OBVIOUS
  <2>2. Typed(a)
    BY <1>0, <2>1, PageOpened
  <2>3. Typed(enter_with_current_selection_focused(app))
    BY <2>1, <2>2, CurrentLeaves DEF enter_with_current_selection_focused, NodeKind, IsCurrent
  <2>4. QED
    BY <1>1, <2>3, ShowsKeeps DEF OpenPage
<1>2. CASE PressKey
  <2>1. PICK a : /\ Shows(a)
                 /\ \/ \E dir \in Arrows : a = Arrow(app, Registry(app), dir)
                    \/ \E key \in PageKeys : a = PageKey(app, Registry(app), key)
                    \/ \E letter \in Letters : a = push_query_char(app, letter)
                    \/ a \in {pop_query_char(app), EscKey(app), SlashKey(app)}
    BY <1>2, Zenon DEF PressKey
  <2>2. Typed(a)
    BY <1>0, <2>1, ArrowQuiet, KeysQuiet, Zenon DEF Quiet
  <2>3. QED
    BY <2>1, <2>2, ShowsKeeps
<1>3. CASE ToggleByChevron
  <2>1. PICK i \in DOMAIN Rows(app) :
          chevron_for_row(Rows(app), i) # NoWidget /\ Shows(ClickChevron(app, i))
    BY <1>3 DEF ToggleByChevron
  <2>2. QED
    BY <1>0, <2>1, ChevronQuiet, ShowsKeeps DEF Quiet
<1>4. CASE Wheel
  <2>1. PICK delta \in {-LINES_PER_NOTCH, LINES_PER_NOTCH} : Shows(scroll_by(app, delta))
    BY <1>4 DEF Wheel
  <2>2. delta \in Int
    BY DEF LINES_PER_NOTCH
  <2>3. QED
    BY <1>0, <2>1, <2>2, ScrollQuiet, ShowsKeeps DEF Quiet
<1>5. ASSUME NEW mode \in NodeKind, ActivateTab(mode) PROVE PageInv(app')
  BY <1>0, <1>5, TabTyped, ShowsKeeps DEF ActivateTab
<1>6. CASE ActivateSearchRow
  <2>1. PICK a : /\ Shows(a)
                 /\ \/ a = Focus(app, "SearchAnchor")
                    \/ a = [app EXCEPT !.page = "SelectLocationFilter",
                                       !.focused = "FilterButton"]
    BY <1>6 DEF ActivateSearchRow
  <2>2. Typed(Focus(app, "SearchAnchor"))
        /\ Typed([app EXCEPT !.page = "SelectLocationFilter", !.focused = "FilterButton"])
    BY <1>0, FocusQuiet, PageQuiet DEF Quiet
  <2>3. Typed(a)
    BY <2>1, <2>2, Zenon
  <2>4. QED
    BY <2>1, <2>3, ShowsKeeps
<1>7. ASSUME NEW widget \in RadioIds, ActivateRow(widget) PROVE PageInv(app')
  <2>1. Shows(Focus(app, widget)) \/ Shows(after_select_success(app))
    BY <1>7 DEF ActivateRow
  <2>2. Typed(Focus(app, widget)) /\ Typed(after_select_success(app))
    BY <1>0, FocusQuiet, PickTyped DEF Quiet
  <2>3. QED
    BY <2>1, <2>2, ShowsKeeps
<1>8. CASE LeaveFilterPage
  BY <1>0, <1>8, LeaveQuiet, ShowsKeeps DEF LeaveFilterPage, Quiet
<1>9. ASSUME NEW list \in RelayLists, RelayListChanged(list) PROVE PageInv(app')
  BY <1>0, <1>9, PushTyped, ShowsKeeps DEF RelayListChanged, Quiet
<1>10. ASSUME NEW value \in SettingsValues, SettingsChanged(value) PROVE PageInv(app')
  BY <1>0, <1>10, PushTyped, ShowsKeeps DEF SettingsChanged
<1>11. CASE UNCHANGED app
  BY <1>11
<1>12. QED
  BY <1>1, <1>2, <1>3, <1>4, <1>5, <1>6, <1>7, <1>8, <1>9, <1>10, <1>11 DEF LocationNext

\* The invariants that the run checks follow from it.
LEMMA PageInvTells ==
    PageInv(app) => LocationTypeOK /\ RadioStandsForItsRow /\ FocusStaysInView
<1> SUFFICES ASSUME PageInv(app)
             PROVE  LocationTypeOK /\ RadioStandsForItsRow /\ FocusStaysInView
  OBVIOUS
<1>1. Typed(app) /\ contains(Registry(app), app.focused) /\ InViewIfShown(app)
  BY DEF PageInv
<1>2. LocationTypeOK
  BY <1>1, TypedFacts DEF LocationTypeOK
<1>3. RadioStandsForItsRow
  BY <1>1, RadiosFit DEF RadioStandsForItsRow, RadioFits
<1>4. FocusStaysInView
  BY <1>1 DEF FocusStaysInView, OnPage, InViewIfShown, InView, Shown
<1>5. QED
  BY <1>2, <1>3, <1>4

\* Whatever lists and settings the daemon pushes and whatever the user does,
\* each frame of the page has its types, the mode in effect, its focus on a
\* widget of the frame, and its window where the focus is.
THEOREM PageIsDrawn == LocationSpec => []PageInv(app)
<1>1. LocationInit => PageInv(app)
  BY PageInit
<1>2. PageInv(app) /\ [LocationNext]_app => PageInv(app)'
  BY PageStep
<1>3. QED
  BY <1>1, <1>2, PTL DEF LocationSpec

\* Every field of the App keeps its type, and the focus of a frame is on a
\* widget that the frame registers.
THEOREM PageTypes == LocationSpec => []LocationTypeOK
<1>1. PageInv(app) => LocationTypeOK
  BY PageInvTells
<1>2. QED
  BY <1>1, PageIsDrawn, PTL

\* A radio of the frame, in the window or not, is activated as the location its
\* row shows, although the activation handler walks the tree on its own: for
\* every relay list, query and expansion, and whatever the caps of the widget
\* tables.
THEOREM RadiosStandForTheirRows == LocationSpec => []RadioStandsForItsRow
<1>1. PageInv(app) => RadioStandsForItsRow
  BY PageInvTells
<1>2. QED
  BY <1>1, PageIsDrawn, PTL

\* The renderer's window never reaches beyond the list, and the focused row is
\* in it unless the wheel has moved the window since.
THEOREM FocusIsInView == LocationSpec => []FocusStaysInView
<1>1. PageInv(app) => FocusStaysInView
  BY PageInvTells
<1>2. QED
  BY <1>1, PageIsDrawn, PTL

-----------------------------------------------------------------------------
(* The walks reach what the relay list has.                                *)

\* Sorting loses nothing.
LEMMA SortedCovers ==
    ASSUME NEW S \in SUBSET Nat, IsFiniteSet(S), NEW s \in S
    PROVE  \E n \in 1 .. Len(Sorted(S)) : Sorted(S)[n] = s
<1> DEFINE upto(x) == {t \in S : t <= x}
<1>1. ASSUME NEW x \in S
      PROVE  IsFiniteSet(upto(x)) /\ Cardinality(upto(x)) \in 1 .. Cardinality(S)
             /\ Cardinality(S) \in Nat
  <2>1. upto(x) \in SUBSET S /\ x \in upto(x)
    OBVIOUS
  <2>2. IsFiniteSet(upto(x)) /\ Cardinality(upto(x)) <= Cardinality(S)
        /\ Cardinality(upto(x)) \in Nat /\ Cardinality(S) \in Nat
    BY <2>1, FS_Subset, FS_CardinalityType
  <2>3. Cardinality(upto(x)) # 0
    BY <2>1, <2>2, FS_EmptySet
  <2>4. QED
    BY <2>2, <2>3
<1>2. ASSUME NEW x \in S, NEW y \in S, x < y, Cardinality(upto(x)) = Cardinality(upto(y))
      PROVE  FALSE
  <2>0. x \in Nat /\ y \in Nat /\ \A t \in S : t \in Nat
    OBVIOUS
  <2>a. y <= y /\ ~(y <= x) /\ \A t \in S : t <= x => t <= y
    BY <1>2, <2>0
  <2>1. upto(x) \in SUBSET upto(y) /\ y \in upto(y) /\ y \notin upto(x)
    BY <2>a, Zenon
  <2>2. QED
    BY <1>1, <1>2, <2>1, FS_Subset
<1>3. PICK n \in 1 .. Cardinality(S) : n = Cardinality(upto(s))
  BY <1>1
<1>4. \A x \in S : Cardinality(upto(x)) = n => x = s
  <2>1. \A x \in S : x \in Nat
    OBVIOUS
  <2> HIDE DEF upto
  <2>2. QED
    BY <1>2, <1>3, <2>1
<1>5. NthLowest(S, n) = s
  BY <1>3, <1>4 DEF NthLowest
<1>6. Len(Sorted(S)) = Cardinality(S) /\ Sorted(S)[n] = NthLowest(S, n)
  BY <1>1, <1>3 DEF Sorted
<1>7. QED
  BY <1>3, <1>5, <1>6

\* A city, a country and a tree that have relay r
CityHas(t, r) ==
    t.code = r.city /\ \E m \in 1 .. Len(t.relays) : t.relays[m] = r

CountryHas(n, r) ==
    n.code = r.country /\ \E j \in 1 .. Len(n.cities) : CityHas(n.cities[j], r)

TreeHas(tree, r) == \E i \in 1 .. Len(tree) : CountryHas(tree[i], r)

\* project_tree loses no relay of the list.
LEMMA ProjectedHas ==
    ASSUME NEW relays \in Seq(RelayLocation), NEW r \in ToSet(relays)
    PROVE  TreeHas(project_tree(relays), r)
<1> DEFINE Of(c) == Kept(relays, LAMBDA x : x.country = c)
           In(s, t) == Kept(s, LAMBDA x : x.city = t)
           Towns(c) == {x.city : x \in ToSet(Of(c))}
           City(c, t) == CityNode(t, FALSE, In(Of(c), t))
           Country(c) == [code |-> c, cities |-> Mapped(Sorted(Towns(c)), LAMBDA t : City(c, t))]
           Countries == {x.country : x \in ToSet(relays)}
<1>1. project_tree(relays) = Mapped(Sorted(Countries), Country)
  BY DEF project_tree
<1>2. PICK i \in 1 .. Len(relays) : relays[i] = r
  BY DEF ToSet
<1>3. r \in RelayLocation
  BY <1>2
<1>4. PICK c \in Nat, t \in Nat : c = r.country /\ t = r.city
  BY <1>3, RelayFacts
<1>5. PICK P : P = {x \in RelayLocation : x.country = c}
  OBVIOUS
<1>6. PICK of : of = Of(c)
  OBVIOUS
<1>7. of \in Seq(P) /\ \E j \in 1 .. Len(of) : of[j] = r
  <2>1. \A j \in DOMAIN relays : relays[j] \in P <=> relays[j].country = c
    BY <1>5
  <2>2. KeptOf(relays, of, P)
    BY <1>6, <2>1 DEF KeptOf, Kept, FlatMapped, Mapped
  <2> HIDE DEF Of
  <2>3. of \in Seq({x \in RelayLocation : x \in P})
    BY <2>2, KeptType
  <2>4. {x \in RelayLocation : x \in P} = P
    BY <1>5
  <2>5. relays[i] \in P
    BY <1>2, <1>3, <1>4, <1>5
  <2>6. \E j \in 1 .. Len(of) : of[j] = relays[i]
    BY <2>2, <2>5, KeptHas
  <2>7. QED
    BY <1>2, <2>3, <2>4, <2>6
<1> HIDE DEF Of
<1>8. PICK Q : Q = {x \in P : x.city = t}
  OBVIOUS
<1>9. PICK in : in = In(of, t)
  OBVIOUS
<1>10. \E m \in 1 .. Len(in) : in[m] = r
  <2>1. \A j \in DOMAIN of : of[j] \in Q <=> of[j].city = t
    BY <1>7, <1>8
  <2>2. KeptOf(of, in, Q)
    BY <1>9, <2>1 DEF KeptOf, Kept, FlatMapped, Mapped
  <2> HIDE DEF In
  <2>3. PICK j \in 1 .. Len(of) : of[j] = r
    BY <1>7
  <2>4. of[j] \in Q
    BY <1>4, <1>7, <1>8, <2>3
  <2>5. \E m \in 1 .. Len(in) : in[m] = of[j]
    BY <1>7, <2>2, <2>4, KeptHas
  <2>6. QED
    BY <2>3, <2>5
<1> HIDE DEF In
<1>11. CityHas(City(c, t), r)
  BY <1>4, <1>6, <1>9, <1>10 DEF CityHas, CityNode
<1> HIDE DEF City
<1>12. CountryHas(Country(c), r)
  <2>1. ToSet(of) \subseteq P /\ IsFiniteSet(ToSet(of)) /\ r \in ToSet(of)
    BY <1>7, ValuesAreFinite DEF ToSet
  <2>2. PICK S : S = Towns(c)
    OBVIOUS
  <2>3. S = {x.city : x \in ToSet(of)}
    BY <1>6, <2>2
  <2>4. S \in SUBSET Nat /\ t \in S
    BY <1>4, <1>5, <2>1, <2>3, RelayFacts
  <2>5. IsFiniteSet(S)
    <3>1. PICK f : f = [x \in ToSet(of) |-> x.city]
      OBVIOUS
    <3>2. S = {f[x] : x \in ToSet(of)} /\ DOMAIN f = ToSet(of)
      BY <2>3, <3>1
    <3>3. QED
      BY <2>1, <3>2, ImageIsFinite
  <2>6. PICK j \in 1 .. Len(Sorted(S)) : Sorted(S)[j] = t
    BY <2>4, <2>5, SortedCovers
  <2>7. PICK towns \in Seq(S) : towns = Sorted(S)
    BY <2>4, <2>5, SortedType
  <2>8. PICK cities : cities = Mapped(towns, LAMBDA x : City(c, x))
    OBVIOUS
  <2>9. cities = [k \in 1 .. Len(towns) |-> City(c, towns[k])] /\ Len(towns) \in Nat
    BY <2>7, <2>8 DEF Mapped
  <2>10. Len(cities) = Len(towns) /\ cities[j] = City(c, t)
    BY <2>6, <2>7, <2>9
  <2>11. Country(c) = [code |-> c, cities |-> cities]
    BY <2>2, <2>7, <2>8
  <2>12. CityHas(cities[j], r)
    BY <1>11, <2>10
  <2>13. QED
    BY <1>4, <2>6, <2>7, <2>10, <2>11, <2>12 DEF CountryHas
<1>13. PICK S : S = Countries
  OBVIOUS
<1>14. S \in SUBSET Nat /\ IsFiniteSet(S) /\ c \in S
  <2>1. ToSet(relays) \subseteq RelayLocation /\ IsFiniteSet(ToSet(relays))
    BY ValuesAreFinite
  <2>2. PICK f : f = [x \in ToSet(relays) |-> x.country]
    OBVIOUS
  <2>3. S = {f[x] : x \in ToSet(relays)} /\ DOMAIN f = ToSet(relays)
    BY <1>13, <2>2
  <2>4. IsFiniteSet(S)
    BY <2>1, <2>3, ImageIsFinite
  <2>5. QED
    BY <1>4, <1>13, <2>1, <2>4, RelayFacts
<1> HIDE DEF Countries, Country, Towns
<1>15. PICK n \in 1 .. Len(Sorted(S)) : Sorted(S)[n] = c
  BY <1>14, SortedCovers
<1>16. PICK codes \in Seq(S) : codes = Sorted(S)
  BY <1>14, SortedType
<1>17. PICK tree : tree = Mapped(codes, Country)
  OBVIOUS
<1>18. tree = [k \in 1 .. Len(codes) |-> Country(codes[k])] /\ Len(codes) \in Nat
  BY <1>16, <1>17 DEF Mapped
<1>19. Len(tree) = Len(codes) /\ tree[n] = Country(c)
  BY <1>15, <1>16, <1>18
<1>20. project_tree(relays) = tree
  BY <1>1, <1>13, <1>16, <1>17
<1>21. QED
  BY <1>12, <1>15, <1>16, <1>19, <1>20 DEF TreeHas

\* The walks depend on what is open only.
LEMMA SameWalks ==
    ASSUME NEW tree \in Seq(CountryNodes), NEW open, NEW other, NEW force,
           open.countries = other.countries, open.cities = other.cities
    PROVE  /\ CitiesShown(tree, open, force) = CitiesShown(tree, other, force)
           /\ RelaysShown(tree, open, force) = RelaysShown(tree, other, force)
<1>1. \A n \in CountryNodes : CountryOpen(open, force, n) <=> CountryOpen(other, force, n)
  BY DEF CountryOpen
<1>2. OpenCountries(open, force) = OpenCountries(other, force)
  BY <1>1, Zenon DEF OpenCountries
<1>3. \A x \in ShownCities : CityOpen(open, x.country, x) <=> CityOpen(other, x.country, x)
  BY DEF CityOpen
<1>4. OpenCities(open) = OpenCities(other)
  BY <1>3, Zenon DEF OpenCities
<1>5. CitiesShown(tree, open, force) = CitiesShown(tree, other, force)
  BY <1>2, CitiesShownAre, Zenon DEF CitiesIfOpen
<1>6. QED
  BY <1>4, <1>5, RelaysShownAre, Zenon DEF RelaysIfOpen

\* What is named is among what the walk for its kind names.
Named(k, tree, open, force, target) ==
    \E n \in 1 .. Len(Walk(k, tree, open, force)) : Walk(k, tree, open, force)[n] = target

\* What the tree has and the user has opened is reached by the walks.
LEMMA WalksReach ==
    ASSUME NEW tree \in Seq(CountryNodes), NEW open, NEW force, NEW r, TreeHas(tree, r)
    PROVE  /\ Named("Country", tree, open, force, OfCountry(r.country))
           /\ r.country \in open.countries =>
                Named("City", tree, open, force, OfCity(r.country, r.city))
           /\ r.country \in open.countries /\ <<r.country, r.city>> \in open.cities =>
                Named("Relay", tree, open, force, OfRelay(r.host))
<1>0. "Country" # "City" /\ "City" # "Relay" /\ "Country" # "Relay"
  OBVIOUS
<1>1. PICK i \in 1 .. Len(tree) : CountryHas(tree[i], r)
  BY DEF TreeHas
<1>2. PICK node \in CountryNodes : node = tree[i]
  OBVIOUS
<1>3. PICK c \in DOMAIN CountryTexts : c = node.code /\ c = r.country
  BY <1>1, <1>2, CountryFacts DEF CountryHas
<1>4. PICK towns \in Seq(CityNodes(c)) : towns = node.cities
  BY <1>3, CountryFacts
<1>5. PICK j \in 1 .. Len(towns) : CityHas(towns[j], r)
  BY <1>1, <1>2, <1>4 DEF CountryHas
<1>6. PICK t \in CityNodes(c) : t = towns[j]
  OBVIOUS
<1>7. Named("Country", tree, open, force, OfCountry(r.country))
  <2>1. Walk("Country", tree, open, force) = [n \in 1 .. Len(tree) |-> CountryNames[tree[n]]]
    BY DEF Walk, Images
  <2>2. Len(Walk("Country", tree, open, force)) = Len(tree)
    BY <2>1
  <2>3. CountryNames[node] = OfCountry(r.country)
    BY <1>3 DEF CountryNames
  <2>4. QED
    BY <1>2, <2>1, <2>2, <2>3 DEF Named
<1>8. ASSUME r.country \in open.countries
      PROVE  \E k \in 1 .. Len(CitiesShown(tree, open, force)) :
                CitiesShown(tree, open, force)[k] = ShownCity(c)[t]
  <2>1. PICK f : f = CitiesIfOpen(open, force)
    OBVIOUS
  <2>2. f \in [CountryNodes -> Seq(ShownCities)]
    BY <2>1, IfOpenTypes
  <2>3. node \in OpenCountries(open, force)
    BY <1>3, <1>8 DEF OpenCountries, CountryOpen
  <2>4. f[node] = CitiesOf[node]
    BY <2>1, <2>3 DEF CitiesIfOpen, OnlyOn
  <2>5. CitiesOf[node] = [k \in 1 .. Len(towns) |-> ShownCity(c)[towns[k]]]
    BY <1>3, <1>4, Zenon DEF CitiesOf, Images
  <2>6. Len(CitiesOf[node]) = Len(towns) /\ CitiesOf[node][j] = ShownCity(c)[t]
    BY <1>6, <2>5
  <2>7. j \in 1 .. Len(f[tree[i]])
    BY <1>2, <2>4, <2>6
  <2>8. FlatMapHas(f, tree, i, j)
    BY <2>2, <2>7, FlatMapKeeps, Zenon
  <2>9. QED
    BY <1>2, <2>1, <2>4, <2>6, <2>8, CitiesShownAre, Zenon DEF FlatMapHas
<1>9. PICK x \in ShownCities : x = ShownCity(c)[t] /\ x.country = c /\ x.code = t.code
                              /\ x.relays = t.relays
  <2>1. ShownCity(c)[t] \in ShownCities
    BY CitiesOfType
  <2>2. QED
    BY <2>1 DEF ShownCity
<1>10. ASSUME r.country \in open.countries
       PROVE  Named("City", tree, open, force, OfCity(r.country, r.city))
  <2>1. PICK cities \in Seq(ShownCities) : cities = CitiesShown(tree, open, force)
    BY CitiesShownAre
  <2>2. PICK k \in 1 .. Len(cities) : cities[k] = x
    BY <1>8, <1>9, <1>10, <2>1
  <2>3. Walk("City", tree, open, force) = [n \in 1 .. Len(cities) |-> CityNames[cities[n]]]
    BY <1>0, <2>1, Zenon DEF Walk, Images
  <2>4. Len(Walk("City", tree, open, force)) = Len(cities)
    BY <2>3
  <2>5. CityNames[x] = OfCity(r.country, r.city)
    BY <1>3, <1>5, <1>6, <1>9 DEF CityNames, CityHas
  <2>6. QED
    BY <2>2, <2>3, <2>4, <2>5 DEF Named
<1>11. ASSUME r.country \in open.countries, <<r.country, r.city>> \in open.cities
       PROVE  Named("Relay", tree, open, force, OfRelay(r.host))
  <2>1. PICK cities \in Seq(ShownCities) : cities = CitiesShown(tree, open, force)
    BY CitiesShownAre
  <2>2. PICK k \in 1 .. Len(cities) : cities[k] = x
    BY <1>8, <1>9, <1>11, <2>1
  <2>3. PICK f : f = RelaysIfOpen(open)
    OBVIOUS
  <2>4. f \in [ShownCities -> Seq(RelayLocation)]
    BY <2>3, IfOpenTypes
  <2>5. x \in OpenCities(open)
    BY <1>3, <1>5, <1>6, <1>9, <1>11 DEF OpenCities, CityOpen, CityHas
  <2>6. f[x] = t.relays
    BY <1>9, <2>3, <2>5 DEF RelaysIfOpen, OnlyOn, RelaysOf
  <2>7. PICK m \in 1 .. Len(t.relays) : t.relays[m] = r
    BY <1>5, <1>6 DEF CityHas
  <2>8. m \in 1 .. Len(f[cities[k]])
    BY <2>2, <2>6, <2>7
  <2>9. FlatMapHas(f, cities, k, m)
    BY <2>4, <2>8, FlatMapKeeps, Zenon
  <2>10. PICK relays \in Seq(RelayLocation) : relays = RelaysShown(tree, open, force)
    BY RelaysShownAre
  <2>11. PICK p \in 1 .. Len(relays) : relays[p] = r
    BY <2>1, <2>2, <2>3, <2>6, <2>7, <2>9, <2>10, RelaysShownAre, Zenon DEF FlatMapHas
  <2>12. Walk("Relay", tree, open, force) = [n \in 1 .. Len(relays) |-> RelayNames[relays[n]]]
    BY <1>0, <2>10, Zenon DEF Walk, Images
  <2>13. Len(Walk("Relay", tree, open, force)) = Len(relays)
    BY <2>12
  <2>14. RelayNames[r] = OfRelay(r.host)
    BY <2>11 DEF RelayNames
  <2>15. QED
    BY <2>11, <2>12, <2>13, <2>14 DEF Named
<1>12. QED
  BY <1>7, <1>10, <1>11

-----------------------------------------------------------------------------
(* Going to the selection.                                                 *)

\* The place of the first that is named, in the walk for its kind
FirstNamed(k, tree, open, force, target, n) ==
    /\ n \in 1 .. Len(Walk(k, tree, open, force))
    /\ Walk(k, tree, open, force)[n] = target
    /\ focus_widget_for_target(tree, open, force, target) = row_id_or_none(n, Radio[k])

\* The kinds of the locations
LEMMA KindsOfNames ==
    /\ \A c : OfCountry(c).kind = "Country" /\ OfCountry(c).country = c
    /\ \A c, t : /\ OfCity(c, t).kind = "City" /\ OfCity(c, t).country = c
                 /\ OfCity(c, t).city = t
    /\ \A h : OfRelay(h).kind = "Relay" /\ OfRelay(h).host = h
    /\ "Country" # "City" /\ "City" # "Relay" /\ "Country" # "Relay"
BY DEF OfCountry, OfCity, OfRelay, Location

\* focus_widget_for_target finds what is named: the first of that name.
LEMMA WidgetOfTarget ==
    ASSUME NEW tree \in Seq(CountryNodes), NEW open, NEW force, NEW k \in Kinds, NEW target,
           Named(k, tree, open, force, target)
    PROVE  \E n : FirstNamed(k, tree, open, force, target, n)
<1>1. PICK m \in 1 .. Len(Walk(k, tree, open, force)) : Walk(k, tree, open, force)[m] = target
  BY DEF Named
<1>2. ASSUME NEW at \in SUBSET Nat, at # {},
             \A n \in at : n \in 1 .. Len(Walk(k, tree, open, force))
                           /\ Walk(k, tree, open, force)[n] = target,
             focus_widget_for_target(tree, open, force, target)
               = IF at = {} THEN NoWidget ELSE row_id_or_none(Lowest(at), Radio[k])
      PROVE  \E n : FirstNamed(k, tree, open, force, target, n)
  <2>1. Lowest(at) \in at
    BY <1>2, LeastExists DEF Lowest
  <2>2. FirstNamed(k, tree, open, force, target, Lowest(at))
    BY <1>2, <2>1 DEF FirstNamed
  <2>3. QED
    BY <2>2
<1>3. CASE k = "Country"
  <2>1. PICK at : at = {i \in DOMAIN tree : tree[i].code = target.country}
    OBVIOUS
  <2>2. Walk(k, tree, open, force) = [n \in 1 .. Len(tree) |-> CountryNames[tree[n]]]
    BY <1>3 DEF Walk, Images
  <2>3. /\ Len(Walk(k, tree, open, force)) = Len(tree) /\ DOMAIN tree = 1 .. Len(tree)
        /\ \A n \in 1 .. Len(tree) : Walk(k, tree, open, force)[n] = OfCountry(tree[n].code)
    BY <2>2 DEF CountryNames
  <2>4. target = OfCountry(tree[m].code) /\ m \in 1 .. Len(tree)
    BY <1>1, <2>3
  <2>5. target.kind = k /\ target.country = tree[m].code
    BY <1>3, <2>4, KindsOfNames
  <2>6. at # {} /\ at \in SUBSET Nat
    BY <2>1, <2>3, <2>4, <2>5
  <2>7. \A n \in at : n \in 1 .. Len(Walk(k, tree, open, force))
                      /\ Walk(k, tree, open, force)[n] = target
    BY <2>1, <2>3, <2>4, <2>5
  <2>8. focus_widget_for_target(tree, open, force, target)
          = IF at = {} THEN NoWidget ELSE row_id_or_none(Lowest(at), Radio[k])
    BY <1>3, <2>1, <2>5, KindsOfNames DEF focus_widget_for_target
  <2>9. QED
    BY <1>2, <2>6, <2>7, <2>8
<1>4. CASE k = "City"
  <2>0. PICK cities \in Seq(ShownCities) : cities = CitiesShown(tree, open, force)
    BY CitiesShownAre
  <2>1. PICK at : at = {i \in DOMAIN cities : cities[i].country = target.country
                                              /\ cities[i].code = target.city}
    OBVIOUS
  <2>2. Walk(k, tree, open, force) = [n \in 1 .. Len(cities) |-> CityNames[cities[n]]]
    BY <1>4, <2>0, KindsOfNames, Zenon DEF Walk, Images
  <2>3. /\ Len(Walk(k, tree, open, force)) = Len(cities) /\ DOMAIN cities = 1 .. Len(cities)
        /\ \A n \in 1 .. Len(cities) :
              Walk(k, tree, open, force)[n] = OfCity(cities[n].country, cities[n].code)
    BY <2>2 DEF CityNames
  <2>4. target = OfCity(cities[m].country, cities[m].code) /\ m \in 1 .. Len(cities)
    BY <1>1, <2>3
  <2>5. target.kind = k /\ target.country = cities[m].country /\ target.city = cities[m].code
    BY <1>4, <2>4, KindsOfNames
  <2>6. at # {} /\ at \in SUBSET Nat
    BY <2>1, <2>3, <2>4, <2>5
  <2>7. \A n \in at : n \in 1 .. Len(Walk(k, tree, open, force))
                      /\ Walk(k, tree, open, force)[n] = target
    BY <2>1, <2>3, <2>4, <2>5
  <2>8. focus_widget_for_target(tree, open, force, target)
          = IF at = {} THEN NoWidget ELSE row_id_or_none(Lowest(at), Radio[k])
    BY <1>4, <2>0, <2>1, <2>5, KindsOfNames DEF focus_widget_for_target
  <2>9. QED
    BY <1>2, <2>6, <2>7, <2>8
<1>5. CASE k = "Relay"
  <2>0. PICK relays \in Seq(RelayLocation) : relays = RelaysShown(tree, open, force)
    BY RelaysShownAre
  <2>1. PICK at : at = {i \in DOMAIN relays : relays[i].host = target.host}
    OBVIOUS
  <2>2. Walk(k, tree, open, force) = [n \in 1 .. Len(relays) |-> RelayNames[relays[n]]]
    BY <1>5, <2>0, KindsOfNames, Zenon DEF Walk, Images
  <2>3. /\ Len(Walk(k, tree, open, force)) = Len(relays) /\ DOMAIN relays = 1 .. Len(relays)
        /\ \A n \in 1 .. Len(relays) :
              Walk(k, tree, open, force)[n] = OfRelay(relays[n].host)
    BY <2>2 DEF RelayNames
  <2>4. target = OfRelay(relays[m].host) /\ m \in 1 .. Len(relays)
    BY <1>1, <2>3
  <2>5. target.kind = k /\ target.host = relays[m].host
    BY <1>5, <2>4, KindsOfNames
  <2>6. at # {} /\ at \in SUBSET Nat
    BY <2>1, <2>3, <2>4, <2>5
  <2>7. \A n \in at : n \in 1 .. Len(Walk(k, tree, open, force))
                      /\ Walk(k, tree, open, force)[n] = target
    BY <2>1, <2>3, <2>4, <2>5
  <2>8. focus_widget_for_target(tree, open, force, target)
          = IF at = {} THEN NoWidget ELSE row_id_or_none(Lowest(at), Radio[k])
    BY <1>5, <2>0, <2>1, <2>5, KindsOfNames DEF focus_widget_for_target
  <2>9. QED
    BY <1>2, <2>6, <2>7, <2>8
<1>6. QED
  BY <1>3, <1>4, <1>5 DEF Kinds

\* A row has the target, and the widget that the walk gives.
HasRow(rows, tree, open, force, target) ==
    \E i \in DOMAIN rows :
      /\ rows[i].location = target
      /\ widget_for_row(rows, i) = focus_widget_for_target(tree, open, force, target)

\* The row of the n-th that is named
LEMMA RowOfTarget ==
    ASSUME NEW tree \in Seq(CountryNodes), NEW open, NEW force, NEW k \in Kinds, NEW target,
           NEW n, FirstNamed(k, tree, open, force, target, n)
    PROVE  HasRow(collect_visible_rows(tree, open, force), tree, open, force, target)
<1>0. PICK rows : rows = collect_visible_rows(tree, open, force)
  OBVIOUS
<1>1. PICK flat \in Seq(TreeRows) : flat = FlatRows(tree, open, force)
  BY FlatRowsType
<1>2. rows = Indexed(flat) /\ DOMAIN rows = 1 .. Len(flat)
  BY <1>0, <1>1, VisibleRowsAre, IndexedRows
<1>3. PICK walk : walk = Walk(k, tree, open, force)
  OBVIOUS
<1>4. walk = FlatMap(Told(k), flat)
  BY <1>1, <1>3, WalksTell, Zenon DEF WalkTells
<1>5. n \in 1 .. Len(walk) /\ walk[n] = target
  BY <1>3, Zenon DEF FirstNamed
<1>6. PICK P : P = RowsOfKind(k)
  OBVIOUS
<1>7. LocationOf \in [TreeRows -> Locations]
  BY ToldType
<1>8. walk = FlatMap(Telling(P, LocationOf), flat)
  BY <1>4, <1>6, Zenon DEF Told
<1>9. PICK i \in 1 .. Len(flat) : flat[i] \in P /\ Cardinality(UpTo(flat, P, i)) = n
  <2>1. n \in 1 .. Len(FlatMap(Telling(P, LocationOf), flat))
    BY <1>5, <1>8
  <2>2. ToldOf(P, flat, n)
    BY <1>7, <2>1, WasTold, Zenon
  <2>3. QED
    BY <2>2 DEF ToldOf
<1>10. TellsNth(P, LocationOf, flat, i)
  BY <1>7, <1>9, NthTold, Zenon
<1>11. walk[n] = LocationOf[flat[i]]
  BY <1>8, <1>9, <1>10, Zenon DEF TellsNth
<1>12. flat[i] \in TreeRows /\ KindOfRow(flat[i]) = k
  BY <1>6, <1>9 DEF RowsOfKind, KindOfRow
<1>13. LocationOf[flat[i]] = flat[i].location
  BY <1>12 DEF LocationOf
<1>14. /\ rows[i].location = flat[i].location /\ KindOfRow(rows[i]) = k
       /\ rows[i].index = RankInKind(flat, i)
  BY <1>2, <1>9, <1>12, IndexedRows
<1>15. RankInKind(flat, i) = n
  BY <1>6, <1>9, <1>12, Zenon DEF RankInKind
<1>16. widget_for_row(rows, i) = row_id_or_none(n, Radio[k])
  BY <1>14, <1>15, Zenon DEF widget_for_row
<1>17. focus_widget_for_target(tree, open, force, target) = row_id_or_none(n, Radio[k])
  BY Zenon DEF FirstNamed
<1>18. QED
  <2>1. i \in DOMAIN rows /\ rows[i].location = target
    BY <1>2, <1>5, <1>9, <1>11, <1>13, <1>14
  <2>2. widget_for_row(rows, i) = focus_widget_for_target(tree, open, force, target)
    BY <1>16, <1>17, Zenon
  <2>3. QED
    BY <1>0, <2>1, <2>2, Zenon DEF HasRow

\* A row that is focused in a handler is on the frame, in the window.
LEMMA Landing ==
    ASSUME NEW b, Typed(b), b.page = "SelectLocation", Settled(b),
           ~HiddenEntry(b, b.node_mode), Shows(b),
           NEW i \in DOMAIN Rows(b),
           widget_for_row(Rows(b), i) # NoWidget =>
             b.focused = widget_for_row(Rows(b), i) /\ Open(b).center
    PROVE  LandedOn(app', Rows(b)[i].location)
<1>1. PICK w : w = widget_for_row(Rows(b), i)
  OBVIOUS
<1>2. PICK frame : frame = Rendered(b)
  OBVIOUS
<1>3. app' = Snapped(frame, Registry(frame))
  BY <1>2 DEF Shows
<1>4. /\ Typed(frame) /\ InViewIfShown(frame) /\ Settled(frame)
      /\ frame.focused = b.focused /\ SameFrame(b, frame)
      /\ Open(b).center => Shown(frame)
  BY <1>2, RenderedKeeps
<1>5. SameFrame(frame, app')
      /\ (contains(Registry(frame), frame.focused) => app' = frame)
  BY <1>3, <1>4, SnappedKeeps
<1>6. Rows(frame) = Rows(b) /\ Registry(frame) = Registry(b) /\ Rows(app') = Rows(frame)
  BY <1>4, <1>5, SameFrames
<1>7. CASE w = NoWidget
  BY <1>1, <1>6, <1>7 DEF LandedOn
<1>8. CASE w # NoWidget
  <2>1. b.focused = w /\ Open(b).center
    BY <1>1, <1>8
  <2>2. contains(Registry(b), w)
    BY <1>1, <1>8, RadioIsRegistered
  <2>3. app' = frame
    BY <1>4, <1>5, <1>6, <2>1, <2>2
  <2>4. i \in RowsOwning(Rows(frame), frame.focused)
    BY <1>1, <1>4, <1>6, <1>8, <2>1 DEF RowsOwning
  <2>5. InWindow(frame, i)
    BY <1>4, <2>1, <2>4 DEF Shown
  <2>6. QED
    BY <1>1, <1>4, <1>6, <2>1, <2>3, <2>5 DEF LandedOn
<1>9. QED
  BY <1>7, <1>8

\* The row of the current selection, when the list has it
LEMMA CurrentRow ==
    ASSUME NEW a, Typed(a), a.query = <<>>, NEW mode \in NodeKind, NEW fallback, NEW b,
           IsCurrent(b, a, mode, fallback), Listed(a, Selection(a, mode))
    PROVE  \E i \in DOMAIN Rows(b) :
             /\ Rows(b)[i].location = Selection(a, mode)
             /\ widget_for_row(Rows(b), i) = CurrentWidget(a, mode)
<1>1. PICK target \in Selectable : target = Selection(a, mode)
  BY SelectionType
<1>2. PICK W : a \in Apps(W)
  BY DEF Typed
<1>3. a.view[mode] \in Views(W)
  BY <1>2 DEF Apps
<1>4. PICK v : v = Unfolded(a, a.view[mode], target)
  OBVIOUS
<1>5. \A r \in ToSet(a.relay_locations) : OpenAbove(v, r, target)
  BY <1>3, <1>4, UnfoldedType
<1>6. PICK relays \in Seq(RelayLocation) : relays = a.relay_locations
  BY TypedFacts, PageAssumption
<1>7. /\ Typed(b) /\ b.relay_locations = relays /\ b.query = <<>>
      /\ Open(b).countries = v.countries /\ Open(b).cities = v.cities
  BY <1>1, <1>4, <1>6 DEF IsCurrent
<1>8. PICK tree \in Seq(CountryNodes) : tree = Tree(b)
  BY <1>7, FrameRows
<1>9. tree = project_tree(relays) /\ tree = Tree(a)
  BY <1>6, <1>7, <1>8, FrameRows DEF project_filtered_tree, filter_tree
<1>10. PICK open : open = ShapeOf(b)
  OBVIOUS
<1>11. open.countries = v.countries /\ open.cities = v.cities
  BY <1>7, <1>10, ShapeFacts
<1>12. PICK r \in ToSet(relays) :
          target \in {OfCountry(r.country), OfCity(r.country, r.city), OfRelay(r.host)}
  BY <1>1, <1>6 DEF Listed
<1>13. TreeHas(tree, r)
  BY <1>9, ProjectedHas
<1>14. \E k \in Kinds : Named(k, tree, open, FALSE, target)
  <2>1. "Country" \in Kinds /\ "City" \in Kinds /\ "Relay" \in Kinds
    BY DEF Kinds
  <2>2. OpenAbove(v, r, target)
    BY <1>5, <1>6, <1>12
  <2>3. CASE target = OfCountry(r.country)
    BY <1>13, <2>1, <2>3, WalksReach
  <2>4. CASE target = OfCity(r.country, r.city)
    <3>1. r.country \in open.countries
      BY <1>11, <2>2, <2>4 DEF OpenAbove
    <3>2. QED
      BY <1>13, <2>1, <2>4, <3>1, WalksReach
  <2>5. CASE target = OfRelay(r.host)
    <3>1. r.country \in open.countries /\ <<r.country, r.city>> \in open.cities
      BY <1>11, <2>2, <2>5 DEF OpenAbove
    <3>2. QED
      BY <1>13, <2>1, <2>5, <3>1, WalksReach
  <2>6. QED
    BY <1>12, <2>3, <2>4, <2>5
<1>15. PICK k \in Kinds : Named(k, tree, open, FALSE, target)
  BY <1>14
<1>16. PICK n : FirstNamed(k, tree, open, FALSE, target, n)
  BY <1>15, WidgetOfTarget
<1>17. PICK rows : rows = collect_visible_rows(tree, open, FALSE)
  OBVIOUS
<1>a. HasRow(rows, tree, open, FALSE, target)
  <2>1. FirstNamed(k, tree, open, FALSE, target, n)
    BY <1>16
  <2>2. HasRow(collect_visible_rows(tree, open, FALSE), tree, open, FALSE, target)
    BY <2>1, RowOfTarget, Zenon
  <2>3. QED
    BY <1>17, <2>2
<1>18. PICK i \in DOMAIN rows :
         /\ rows[i].location = target
         /\ widget_for_row(rows, i) = focus_widget_for_target(tree, open, FALSE, target)
  BY <1>17, <1>a DEF HasRow
<1>19. Rows(b) = rows
  BY <1>7, <1>8, <1>10, <1>17, FrameRows
<1>20. focus_widget_for_target(tree, open, FALSE, target)
         = focus_widget_for_target(tree, v, FALSE, target)
  <2>1. /\ CitiesShown(tree, open, FALSE) = CitiesShown(tree, v, FALSE)
        /\ RelaysShown(tree, open, FALSE) = RelaysShown(tree, v, FALSE)
    BY <1>11, SameWalks
  <2>2. QED
    BY <2>1, Zenon DEF focus_widget_for_target
<1>21. CurrentWidget(a, mode) = focus_widget_for_target(tree, v, FALSE, target)
  <2>1. filter_active(a) = FALSE
    BY DEF filter_active
  <2>2. QED
    BY <1>1, <1>4, <1>9, <2>1 DEF CurrentWidget
<1>22. QED
  BY <1>1, <1>18, <1>19, <1>20, <1>21

\* A handler that goes to the current selection lands on it.
LEMMA CurrentLands ==
    ASSUME NEW a, Typed(a), a.page = "SelectLocation", a.query = <<>>, NEW mode \in NodeKind,
           mode = "Exit" \/ is_multihop_enabled(a), ~HiddenEntry(a, mode), NEW fallback,
           Shows(FocusCurrentSelection(a, mode, fallback)),
           Listed(app', Selection(app', app'.node_mode))
    PROVE  LandedOn(app', Selection(app', app'.node_mode))
<1>1. PICK b : b = FocusCurrentSelection(a, mode, fallback)
  OBVIOUS
<1>2. IsCurrent(b, a, mode, fallback)
  BY <1>1, CurrentLeaves
<1>3. /\ Typed(b) /\ b.page = "SelectLocation" /\ b.settings = a.settings
      /\ b.node_mode = mode /\ b.relay_locations = a.relay_locations
  BY <1>2 DEF IsCurrent
<1>4. is_multihop_enabled(b) = is_multihop_enabled(a)
      /\ daita_overrides_entry(b) = daita_overrides_entry(a)
  BY <1>3 DEF is_multihop_enabled, daita_overrides_entry
<1>5. Settled(b)
  BY <1>3, <1>4 DEF Settled, effective_mode
<1>6. ~HiddenEntry(b, b.node_mode)
  BY <1>3, <1>4 DEF HiddenEntry
<1>7. SameFrame(b, app')
  BY <1>1, <1>3, <1>5, ShowsKeeps
<1>8. app'.settings = a.settings /\ app'.node_mode = mode
      /\ app'.relay_locations = a.relay_locations
  BY <1>3, <1>7 DEF SameFrame, ShapeOf
<1>9. Selection(app', app'.node_mode) = Selection(a, mode)
  BY <1>8 DEF Selection
<1>10. Listed(a, Selection(a, mode))
  BY <1>8, <1>9 DEF Listed
<1>11. PICK i \in DOMAIN Rows(b) :
          /\ Rows(b)[i].location = Selection(a, mode)
          /\ widget_for_row(Rows(b), i) = CurrentWidget(a, mode)
  BY <1>2, <1>10, CurrentRow
<1>12. widget_for_row(Rows(b), i) # NoWidget =>
          b.focused = widget_for_row(Rows(b), i) /\ Open(b).center
  BY <1>2, <1>11 DEF IsCurrent
<1>13. LandedOn(app', Rows(b)[i].location)
  BY <1>1, <1>3, <1>5, <1>6, <1>12, Landing
<1>14. QED
  BY <1>9, <1>11, <1>13

\* A handler that leaves the mode alone does not switch the tab.
LEMMA QuietStays ==
    ASSUME PageInv(app), OnPage, NEW a, Quiet(a, app), Shows(a), app'.page = "SelectLocation"
    PROVE  app'.node_mode = app.node_mode
<1>1. Typed(a) /\ a.settings = app.settings /\ a.node_mode = app.node_mode
  BY DEF Quiet
<1>2. app.node_mode = effective_mode(app)
  BY DEF PageInv, Settled, OnPage
<1>3. effective_mode(a) = effective_mode(app)
  BY <1>1 DEF effective_mode, is_multihop_enabled
<1>4. SameFrame(a, app')
  BY <1>1, <1>2, <1>3, ShowsKeeps DEF Settled
<1>5. QED
  BY <1>1, <1>4 DEF SameFrame

\* The statement of LandsOnTheSelection for one step
Lands ==
    /\ app'.page = "SelectLocation" /\ app'.settings = app.settings
    /\ \/ app.page = "Status"
       \/ OnPage /\ app'.node_mode # app.node_mode
    /\ app.query = <<>> /\ ~HiddenEntry(app', app'.node_mode)
    /\ Listed(app', Selection(app', app'.node_mode))
    => LandedOn(app', Selection(app', app'.node_mode))

\* Of the steps, those that open the page, switch the tab or go on from an
\* entry pick go to the current selection; the others leave the mode alone.
LEMMA LandsStep ==
    PageInv(app) /\ [LocationNext]_app => [Lands]_app
<1> SUFFICES ASSUME PageInv(app), LocationNext,
                    app'.page = "SelectLocation", app'.settings = app.settings,
                    app.page = "Status" \/ (OnPage /\ app'.node_mode # app.node_mode),
                    app.query = <<>>, ~HiddenEntry(app', app'.node_mode),
                    Listed(app', Selection(app', app'.node_mode))
             PROVE  LandedOn(app', Selection(app', app'.node_mode))
  BY DEF Lands
<1>0. Typed(app) /\ "Exit" \in NodeKind /\ "Entry" # "Exit"
  BY DEF PageInv, NodeKind
<1>a. "Status" # "SelectLocation" /\ "SelectLocationFilter" # "SelectLocation"
      /\ "SelectLocationFilter" # "Status"
  OBVIOUS
<1>b. ASSUME NEW a, Quiet(a, app), Shows(a), OnPage PROVE FALSE
  BY <1>a, <1>b, QuietStays DEF OnPage
<1>1. CASE OpenPage
  <2>1. PICK a : a = [app EXCEPT !.page = "SelectLocation"]
    OBVIOUS
  <2>2. /\ Typed(a) /\ a.page = "SelectLocation" /\ a.settings = app.settings
        /\ a.query = <<>> /\ a.relay_locations = app.relay_locations
    BY <1>0, <2>1, PageOpened
  <2>3. Shows(FocusCurrentSelection(a, "Exit", app.focused))
    BY <1>1, <2>1 DEF OpenPage, enter_with_current_selection_focused
  <2>4. ~HiddenEntry(a, "Exit")
    BY <1>0 DEF HiddenEntry
  <2>5. QED
    BY <1>0, <2>2, <2>3, <2>4, CurrentLands
<1>2. CASE PressKey
  <2>1. PICK a : /\ Shows(a)
                 /\ \/ \E dir \in Arrows : a = Arrow(app, Registry(app), dir)
                    \/ \E key \in PageKeys : a = PageKey(app, Registry(app), key)
                    \/ \E letter \in Letters : a = push_query_char(app, letter)
                    \/ a \in {pop_query_char(app), EscKey(app), SlashKey(app)}
    BY <1>2, Zenon DEF PressKey
  <2>2. Quiet(a, app)
    BY <1>0, <2>1, ArrowQuiet, KeysQuiet, Zenon
  <2>3. QED
    BY <1>2, <1>b, <2>1, <2>2 DEF PressKey
<1>3. CASE ToggleByChevron
  <2>1. PICK i \in DOMAIN Rows(app) :
          chevron_for_row(Rows(app), i) # NoWidget /\ Shows(ClickChevron(app, i))
    BY <1>3 DEF ToggleByChevron
  <2>2. QED
    BY <1>0, <1>3, <1>b, <2>1, ChevronQuiet DEF ToggleByChevron
<1>4. CASE Wheel
  <2>1. PICK delta \in {-LINES_PER_NOTCH, LINES_PER_NOTCH} : Shows(scroll_by(app, delta))
    BY <1>4 DEF Wheel
  <2>2. delta \in Int
    BY DEF LINES_PER_NOTCH
  <2>3. QED
    BY <1>0, <1>4, <1>b, <2>1, <2>2, ScrollQuiet DEF Wheel
<1>5. ASSUME NEW mode \in NodeKind, ActivateTab(mode)
      PROVE  LandedOn(app', Selection(app', app'.node_mode))
  <2>1. OnPage /\ is_multihop_enabled(app) /\ Shows(SwitchTab(app, mode))
    BY <1>5 DEF ActivateTab
  <2>2. CASE HiddenEntry(app, mode)
    <3>1. PICK a : a = SwitchTab(app, mode)
      OBVIOUS
    <3>2. Typed(a) /\ a.settings = app.settings /\ a.node_mode = mode
      BY <1>0, <2>2, <3>1, HiddenTab
    <3>3. is_multihop_enabled(a)
      BY <2>1, <3>2 DEF is_multihop_enabled
    <3>4. SameFrame(a, app')
      BY <2>1, <3>1, <3>2, <3>3, ShowsKeeps DEF Settled, effective_mode
    <3>5. app'.node_mode = mode
      BY <3>2, <3>4 DEF SameFrame
    <3>6. HiddenEntry(app', mode)
      BY <2>2 DEF HiddenEntry, daita_overrides_entry
    <3>7. QED
      BY <3>5, <3>6
  <2>3. CASE ~HiddenEntry(app, mode)
    <3>1. Shows(FocusCurrentSelection(app, mode, Tabs[mode]))
      BY <2>1, <2>3 DEF SwitchTab
    <3>2. QED
      BY <1>0, <2>1, <2>3, <3>1, CurrentLands DEF OnPage
  <2>4. QED
    BY <2>2, <2>3
<1>6. CASE ActivateSearchRow
  <2>1. PICK a : /\ Shows(a)
                 /\ \/ a = Focus(app, "SearchAnchor")
                    \/ a = [app EXCEPT !.page = "SelectLocationFilter",
                                       !.focused = "FilterButton"]
    BY <1>6 DEF ActivateSearchRow
  <2>2. Quiet(Focus(app, "SearchAnchor"), app)
        /\ Quiet([app EXCEPT !.page = "SelectLocationFilter", !.focused = "FilterButton"], app)
    BY <1>0, FocusQuiet, PageQuiet
  <2>3. Quiet(a, app)
    BY <2>1, <2>2, Zenon
  <2>4. QED
    BY <1>6, <1>b, <2>1, <2>3 DEF ActivateSearchRow
<1>7. ASSUME NEW widget \in RadioIds, ActivateRow(widget)
      PROVE  LandedOn(app', Selection(app', app'.node_mode))
  <2>1. OnPage /\ (Shows(Focus(app, widget)) \/ Shows(after_select_success(app)))
    BY <1>7 DEF ActivateRow
  <2>2. CASE Shows(Focus(app, widget))
    BY <1>0, <1>b, <2>1, <2>2, FocusQuiet
  <2>3. CASE Shows(after_select_success(app)) /\ app.node_mode = "Exit"
    BY <1>0, <1>b, <2>1, <2>3, ExitPick
  <2>4. CASE Shows(after_select_success(app)) /\ app.node_mode # "Exit"
    <3>1. Shows(FocusCurrentSelection(app, "Exit", Tabs["Exit"]))
      BY <2>4 DEF after_select_success
    <3>2. ~HiddenEntry(app, "Exit")
      BY <1>0 DEF HiddenEntry
    <3>3. QED
      BY <1>0, <2>1, <3>1, <3>2, CurrentLands DEF OnPage
  <2>5. QED
    BY <2>1, <2>2, <2>3, <2>4
<1>8. CASE LeaveFilterPage
  BY <1>8, <1>a DEF LeaveFilterPage, OnPage
<1>9. ASSUME NEW list \in RelayLists, RelayListChanged(list) PROVE FALSE
  <2>1. PICK a : a = [app EXCEPT !.relay_locations = list]
    OBVIOUS
  <2>2. Quiet(a, app) /\ a.page = app.page /\ Shows(a)
    BY <1>0, <1>9, <2>1, PushTyped DEF RelayListChanged
  <2>3. app'.page = a.page
    BY <2>2, ShowsKeeps DEF Quiet
  <2>4. OnPage
    BY <1>a, <2>2, <2>3 DEF OnPage
  <2>5. QED
    BY <1>b, <2>2, <2>4
<1>10. ASSUME NEW value \in SettingsValues, SettingsChanged(value) PROVE FALSE
  <2>1. PICK a : a = [app EXCEPT !.settings = value]
    OBVIOUS
  <2>2. /\ Typed(a) /\ a.page = app.page /\ a.settings = value
        /\ a.node_mode = app.node_mode /\ Shows(a)
    BY <1>0, <1>10, <2>1, PushTyped DEF SettingsChanged
  <2>3. app'.page = a.page /\ app'.settings = value
    BY <2>2, ShowsKeeps
  <2>4. Quiet(a, app) /\ OnPage
    BY <1>a, <2>2, <2>3 DEF Quiet, OnPage
  <2>5. QED
    BY <1>b, <2>2, <2>4
<1>11. QED
  BY <1>1, <1>2, <1>3, <1>4, <1>5, <1>6, <1>7, <1>8, <1>9, <1>10 DEF LocationNext

\* Opening the page, switching the tab and going on from an entry pick end,
\* without a query, on the current selection of the node if the relay list has
\* it: its row is unfolded, focused if it has a radio, and in the window.
THEOREM SelectionIsLandedOn == LocationSpec => LandsOnTheSelection
<1>1. PageInv(app) /\ [LocationNext]_app => [Lands]_app
  BY LandsStep
<1>2. QED
  BY <1>1, PageIsDrawn, PTL DEF LocationSpec, LandsOnTheSelection, Lands
=============================================================================
