---------------------------- MODULE EventListener ----------------------------
(***************************************************************************)
(* The task spawned by RpcMullvadService::spawn_event_listener             *)
(* (integration/rpc.rs): it opens events_listen on a connection of its own, *)
(* translates what arrives and forwards it into a bounded channel that the *)
(* run loop receives from; when the stream ends it reconnects with an      *)
(* exponential backoff and subscribes again.                               *)
(*                                                                         *)
(* Daemon events are numbered in the order the daemon publishes them.      *)
(* Those in Ignored are the ones translate_daemon_event maps to None.      *)
(***************************************************************************)
EXTENDS Naturals, Sequences, SequencesExt

CONSTANTS
    Capacity,       \* of the mpsc channel: 64 in the code
    BackoffInitial, \* RECONNECT_BACKOFF_INITIAL, in seconds
    BackoffMax,     \* RECONNECT_BACKOFF_MAX
    Ignored,        \* numbers of the events the App has no use for
    MaxEvents       \* bound on the events the daemon publishes

ASSUME ListenerAssumption ==
    /\ Capacity \in Nat \ {0}
    /\ BackoffInitial \in Nat \ {0}
    /\ BackoffMax \in Nat /\ BackoffInitial <= BackoffMax
    /\ MaxEvents \in Nat
    /\ Ignored \subseteq 1 .. MaxEvents

VARIABLES
    daemonUp,       \* the daemon process accepts connections
    published,      \* events published so far
    task,           \* where the listener task stands
    backoff,        \* the wait of its current reconnect loop
    live,           \* the daemon has the stream open and writes into it
    stream,         \* written to the stream, not yet read by the task
    held,           \* read and translated, its send not completed
    channel,        \* in the channel
    receiver,       \* the run loop still owns the receiving end
    received        \* number of the last event the App received

vars == <<daemonUp, published, task, backoff, live, stream, held, channel,
          receiver, received>>

\* "connected": holds a client, about to call events_listen;
\* "reading": in the stream loop; "sleeping": in reconnect_with_backoff.
TaskState == {"connected", "reading", "sleeping", "returned"}

Number == 1 .. MaxEvents

TypeOK ==
    /\ daemonUp \in BOOLEAN
    /\ published \in 0 .. MaxEvents
    /\ task \in TaskState
    /\ backoff \in BackoffInitial .. BackoffMax
    /\ live \in BOOLEAN
    /\ stream \in Seq(Number)
    /\ held \in Seq(Number) /\ Len(held) <= 1
    /\ channel \in Seq(Number) /\ Len(channel) <= Capacity
    /\ receiver \in BOOLEAN
    /\ received \in 0 .. MaxEvents

\* spawn_event_listener returns once its first client is connected.
Init ==
    /\ daemonUp = TRUE
    /\ published = 0
    /\ task = "connected"
    /\ backoff = BackoffInitial
    /\ live = FALSE
    /\ stream = <<>>
    /\ held = <<>>
    /\ channel = <<>>
    /\ receiver = TRUE
    /\ received = 0

-----------------------------------------------------------------------------
(* The daemon and the connection to it.                                    *)

DaemonPublishes ==
    /\ daemonUp
    /\ published < MaxEvents
    /\ published' = published + 1
    /\ stream' = IF live THEN Append(stream, published + 1) ELSE stream
    /\ UNCHANGED <<daemonUp, task, backoff, live, held, channel, receiver, received>>

\* A live stream breaks; bytes already at the client can still be read.
BreakStream ==
    /\ live' = FALSE
    /\ \E n \in 0 .. Len(stream) : stream' = SubSeq(stream, 1, n)

StreamFails ==
    /\ live
    /\ BreakStream
    /\ UNCHANGED <<daemonUp, published, task, backoff, held, channel, receiver, received>>

DaemonStops ==
    /\ daemonUp
    /\ daemonUp' = FALSE
    /\ \/ live /\ BreakStream
       \/ ~live /\ UNCHANGED <<live, stream>>
    /\ UNCHANGED <<published, task, backoff, held, channel, receiver, received>>

DaemonStarts ==
    /\ ~daemonUp
    /\ daemonUp' = TRUE
    /\ UNCHANGED <<published, task, backoff, live, stream, held, channel,
                   receiver, received>>

-----------------------------------------------------------------------------
(* The listener task.                                                      *)

\* EventLoopOutcome::Disconnected: enter reconnect_with_backoff, which starts
\* from the initial wait every time.
Disconnected ==
    /\ task' = "sleeping"
    /\ backoff' = BackoffInitial

drain_events_listen ==
    /\ task = "connected"
    /\ \/ /\ daemonUp
          /\ live' = TRUE
          /\ task' = "reading"
          /\ UNCHANGED backoff
       \/ ~daemonUp /\ Disconnected /\ UNCHANGED live
    /\ stream' = <<>>
    /\ UNCHANGED <<daemonUp, published, held, channel, receiver, received>>

translate_daemon_event(e) == IF e \in Ignored THEN <<>> ELSE <<e>>

drain_events_next ==
    /\ task = "reading"
    /\ held = <<>>
    /\ stream # <<>>
    /\ held' = translate_daemon_event(Head(stream))
    /\ stream' = Tail(stream)
    /\ UNCHANGED <<daemonUp, published, task, backoff, live, channel, receiver, received>>

\* Mutants: a full channel drops the event; a send that failed is passed over.
drain_events_try_send ==
    /\ held # <<>>
    /\ held' = <<>>
    /\ channel' = IF Len(channel) < Capacity THEN channel \o held ELSE channel
    /\ UNCHANGED <<daemonUp, published, task, backoff, live, stream, receiver, received>>

drain_events_send_to_nobody ==
    /\ held # <<>>
    /\ held' = <<>>
    /\ \/ receiver /\ Len(channel) < Capacity /\ channel' = channel \o held
       \/ ~receiver /\ UNCHANGED channel
    /\ UNCHANGED <<daemonUp, published, task, backoff, live, stream, receiver, received>>

\* tx.send(..).await: waits for room, fails when the receiver is gone.
drain_events_send ==
    /\ held # <<>>
    /\ held' = <<>>
    /\ \/ /\ receiver
          /\ Len(channel) < Capacity
          /\ channel' = channel \o held
          /\ UNCHANGED <<task, live, stream>>
       \/ /\ ~receiver
          /\ task' = "returned"
          /\ live' = FALSE
          /\ stream' = <<>>
          /\ UNCHANGED channel
    /\ UNCHANGED <<daemonUp, published, backoff, receiver, received>>

drain_events_end ==
    /\ task = "reading"
    /\ held = <<>>
    /\ stream = <<>>
    /\ ~live
    /\ Disconnected
    /\ UNCHANGED <<daemonUp, published, live, stream, held, channel, receiver, received>>

\* Mutants: the wait grows without its cap; the first failure is final.
reconnect_without_cap ==
    /\ task = "sleeping"
    /\ \/ daemonUp /\ task' = "connected" /\ UNCHANGED backoff
       \/ ~daemonUp /\ backoff' = backoff * 2 /\ UNCHANGED task
    /\ UNCHANGED <<daemonUp, published, live, stream, held, channel, receiver, received>>

reconnect_once ==
    /\ task = "sleeping"
    /\ task' = IF daemonUp THEN "connected" ELSE "returned"
    /\ UNCHANGED <<daemonUp, published, backoff, live, stream, held, channel,
                   receiver, received>>

reconnect_with_backoff ==
    /\ task = "sleeping"
    /\ \/ daemonUp /\ task' = "connected" /\ UNCHANGED backoff
       \/ /\ ~daemonUp
          /\ backoff' = IF backoff * 2 < BackoffMax THEN backoff * 2 ELSE BackoffMax
          /\ UNCHANGED task
    /\ UNCHANGED <<daemonUp, published, live, stream, held, channel, receiver, received>>

Listener ==
    \/ drain_events_listen
    \/ drain_events_next
    \/ drain_events_send
    \/ drain_events_end
    \/ reconnect_with_backoff

-----------------------------------------------------------------------------
(* The run loop's end of the channel.                                      *)

recv_app_event ==
    /\ receiver
    /\ channel # <<>>
    /\ received' = Head(channel)
    /\ channel' = Tail(channel)
    /\ UNCHANGED <<daemonUp, published, task, backoff, live, stream, held, receiver>>

\* run_loop returns: the receiver and what is in the channel are dropped.
Quit ==
    /\ receiver
    /\ receiver' = FALSE
    /\ channel' = <<>>
    /\ UNCHANGED <<daemonUp, published, task, backoff, live, stream, held, received>>

Next ==
    \/ DaemonPublishes
    \/ StreamFails
    \/ DaemonStops
    \/ DaemonStarts
    \/ Listener
    \/ recv_app_event
    \/ Quit

\* The runtime keeps polling the task and the run loop keeps receiving;
\* nothing is assumed of the daemon, the connection or the user.
Fairness ==
    /\ WF_vars(Listener)
    /\ WF_vars(recv_app_event)

Spec == Init /\ [][Next]_vars /\ Fairness

-----------------------------------------------------------------------------
(***************************************************************************)
(* Properties.                                                             *)
(***************************************************************************)

\* What the task makes of the events of a stream.
Translated(events) ==
    FlattenSeq([i \in 1 .. Len(events) |-> translate_daemon_event(events[i])])

InFlight == channel \o held \o Translated(stream)

\* A subscription that lives belongs to a task that reads it: a part of what
\* makes the listener implement the feed, and proved in AppProofs.
NoOrphanSubscription == live => task = "reading"

\* The listener implements the feed the App is modelled on.
Feed == INSTANCE EventFeed WITH
            Event      <- Number \ Ignored,
            subscribed <- live /\ receiver,
            events     <- IF receiver THEN InFlight ELSE <<>>

FeedImplemented == Feed!FeedSpec

\* With the daemon up for good and a stream that stops failing, the task
\* subscribes again: the backoff delays a reconnection and never gives up.
Reconnects == (<>[](daemonUp /\ receiver) /\ <>[][~StreamFails]_vars) => <>[]live

\* An event the daemon wrote into the stream reaches the App unless the
\* stream breaks or the App quits: a full channel delays it only.
Delivers ==
    \A e \in Number \ Ignored :
        (e \in Range(InFlight)) ~> (received >= e \/ ~live \/ ~receiver)

\* The listener outlives the App by one event: what it holds by the time the
\* receiver is dropped ends it, be it in a send that waits for room, and an
\* event the App would have had that is written into the stream after that
\* ends the subscription, if the stream itself does not break first.
EndsWithTheApp ==
    /\ (~receiver /\ held # <<>>) ~> (task = "returned")
    /\ (~receiver /\ Translated(stream) # <<>>) ~> ~live
=============================================================================
