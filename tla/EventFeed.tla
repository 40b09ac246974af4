------------------------------ MODULE EventFeed ------------------------------
(***************************************************************************)
(* What the App may rely on of the stream of daemon events: a first-in     *)
(* first-out feed that can break.  Events published while the feed is      *)
(* subscribed arrive once each and in order, unless the feed breaks, which *)
(* loses some of the youngest; events published while it is broken are     *)
(* never seen.  EventListener shows that the listener task of              *)
(* integration/rpc.rs provides this and no more; Connection, Session and   *)
(* SettingsSync put the App on top of it.                                  *)
(***************************************************************************)
EXTENDS Sequences, Naturals

CONSTANT Event      \* what the daemon publishes

VARIABLES
    subscribed,     \* the daemon holds a live subscription of this client
    events          \* published to it and not yet received by the App

feedVars == <<subscribed, events>>

FeedTypeOK ==
    /\ subscribed \in BOOLEAN
    /\ events \in Seq(Event)

\* spawn_event_listener either subscribed, or failed and left the App without
\* a receiver (poll-only mode).
FeedInit ==
    /\ subscribed \in BOOLEAN
    /\ events = <<>>

Publish(e) ==
    /\ events' = IF subscribed THEN Append(events, e) ELSE events
    /\ UNCHANGED subscribed

Receive ==
    /\ events # <<>>
    /\ events' = Tail(events)
    /\ UNCHANGED subscribed

\* Only what had not reached the client is lost: a prefix survives.
Break ==
    /\ subscribed
    /\ subscribed' = FALSE
    /\ \E n \in 0 .. Len(events) : events' = SubSeq(events, 1, n)

Resubscribe ==
    /\ ~subscribed
    /\ subscribed' = TRUE
    /\ UNCHANGED events

\* The App has quit and dropped its receiver.
Close ==
    /\ subscribed' = FALSE
    /\ events' = <<>>

FeedNext ==
    \/ \E e \in Event : Publish(e)
    \/ Receive
    \/ Break
    \/ Resubscribe
    \/ Close

FeedSpec == FeedInit /\ [][FeedNext]_feedVars
=============================================================================
