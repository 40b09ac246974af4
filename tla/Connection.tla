----------------------------- MODULE Connection -----------------------------
(***************************************************************************)
(* The tunnel as the App drives and shows it: connect, disconnect and      *)
(* reconnect (app/connection.rs) from the buttons of the Status page       *)
(* (tui/pages/status.rs), and the StatusChanged arm of apply_app_event     *)
(* (tui/mod.rs).                                                           *)
(*                                                                         *)
(* The daemon is external.  Its tunnel goes through Connecting and         *)
(* Disconnecting, and every state it enters is pushed.  An RPC answers     *)
(* TRUE when it set the tunnel in motion and FALSE when there was nothing  *)
(* to do, as integration/mod.rs says of connect, disconnect and reconnect. *)
(***************************************************************************)
EXTENDS Naturals, Sequences, SequencesExt

CONSTANTS
    NoStatus,       \* App.connection_status = None
    Faults,         \* the resync can fail and the event stream can break
    Retries,        \* the transport of a call can fail, which retries it once
    OthersAct,      \* other clients connect and disconnect, the network fails
    MaxQueue        \* bound on the pushes under way

VARIABLES
    operation_status, pending_push_confirmation, awaiting,  \* see Operations
    subscribed, events,                                     \* see EventFeed
    daemon,             \* the daemon's tunnel state
    after,              \* the state that Disconnecting leads to
    connection_status,  \* App.connection_status
    confirming,         \* the overlay that asks to disconnect is open
    attempt,            \* with_client: first or second run of the call
    reply,              \* the daemon's answer to that run
    clean,              \* history: no push was under way when the call ran
    arrived,            \* history: a target or Error was entered since
    alone,              \* history: nobody else acted and no push was lost
    missed              \* history: a newer state than any seen or under way

opVars   == <<operation_status, pending_push_confirmation, awaiting>>
feedVars == <<subscribed, events>>
tunnelVars == <<daemon, after>>
rpcVars  == <<attempt, reply>>
histVars == <<clean, arrived, alone, missed>>
vars == <<opVars, feedVars, tunnelVars, connection_status, confirming, rpcVars, histVars>>

-----------------------------------------------------------------------------
Operations == INSTANCE Operations WITH Ops <- {"Connect", "Disconnect", "Reconnect"}

NoOp        == Operations!NoOp
TunnelOps   == Operations!TunnelOps
TunnelState == Operations!TunnelState

Feed == INSTANCE EventFeed WITH Event <- TunnelState

Reply == {"none", "moved", "nothing to do"}

ASSUME ConnectionAssumption ==
    /\ NoStatus \notin TunnelState
    /\ Faults \in BOOLEAN
    /\ Retries \in BOOLEAN
    /\ OthersAct \in BOOLEAN
    /\ MaxQueue \in Nat

TypeOK ==
    /\ Operations!OpTypeOK
    /\ Feed!FeedTypeOK
    /\ daemon \in TunnelState
    /\ after \in {"Connecting", "Disconnected"}
    /\ connection_status \in TunnelState \union {NoStatus}
    /\ confirming \in BOOLEAN
    /\ attempt \in 1 .. 2
    /\ reply \in Reply
    /\ clean \in BOOLEAN
    /\ arrived \in BOOLEAN
    /\ alone \in BOOLEAN
    /\ missed \in BOOLEAN

-----------------------------------------------------------------------------
(* The user.                                                               *)

Begin(op) ==
    /\ Operations!Start(op)
    /\ attempt' = 1
    /\ reply' = "none"
    /\ UNCHANGED <<feedVars, tunnelVars, connection_status, histVars>>

connect_button_is_disconnect ==
    connection_status \in {"Connected", "Connecting", "Error"}

connect ==
    /\ ~confirming
    /\ ~connect_button_is_disconnect
    /\ Begin("Connect")
    /\ UNCHANGED confirming

OpenConfirm ==
    /\ awaiting = NoOp
    /\ ~confirming
    /\ connect_button_is_disconnect
    /\ confirming' = TRUE
    /\ UNCHANGED <<opVars, feedVars, tunnelVars, connection_status, rpcVars, histVars>>

CloseConfirm ==
    /\ awaiting = NoOp
    /\ confirming
    /\ confirming' = FALSE
    /\ UNCHANGED <<opVars, feedVars, tunnelVars, connection_status, rpcVars, histVars>>

disconnect ==
    /\ confirming
    /\ Begin("Disconnect")
    /\ confirming' = FALSE

\* [Reconnect] stays on screen, with a spinner, while a reconnect runs.
show_reconnect ==
    \/ connection_status \in {"Connected", "Error"}
    \/ operation_status = Operations!Status("Running", "Reconnect")

reconnect ==
    /\ ~confirming
    /\ show_reconnect
    /\ Begin("Reconnect")
    /\ UNCHANGED confirming

User == connect \/ OpenConfirm \/ CloseConfirm \/ disconnect \/ reconnect

-----------------------------------------------------------------------------
(* The daemon.                                                             *)

\* Ends the wait for op, in one way or the other
Decides(op, state) ==
    op \in TunnelOps /\ state \in {Operations!Target(op), "Error"}

\* The operation that is waiting for the tunnel, or about to
Current == IF awaiting # NoOp THEN awaiting ELSE pending_push_confirmation

Enters(state) ==
    /\ Len(events) < MaxQueue
    /\ daemon' = state
    /\ Feed!Publish(state)
    /\ missed' = ~subscribed

TunnelMoves ==
    /\ \/ daemon = "Connecting" /\ (Enters("Connected") \/ Enters("Error"))
       \/ daemon = "Disconnecting" /\ Enters(after)
    /\ arrived' = (arrived \/ Decides(Current, daemon'))
    /\ UNCHANGED <<after, opVars, connection_status, confirming, rpcVars, clean, alone>>

ConnectTunnel ==
    \/ daemon \in {"Disconnected", "Error"} /\ Enters("Connecting") /\ UNCHANGED after
    \/ /\ daemon = "Disconnecting" /\ after = "Disconnected"
       /\ after' = "Connecting"
       /\ UNCHANGED <<daemon, feedVars, missed>>

DisconnectTunnel ==
    \/ /\ daemon \in {"Connecting", "Connected"}
       /\ Enters("Disconnecting")
       /\ after' = "Disconnected"
    \/ daemon = "Error" /\ Enters("Disconnected") /\ UNCHANGED after
    \/ /\ daemon = "Disconnecting" /\ after = "Connecting"
       /\ after' = "Disconnected"
       /\ UNCHANGED <<daemon, feedVars, missed>>

ReconnectTunnel ==
    \/ /\ daemon \in {"Connecting", "Connected"}
       /\ Enters("Disconnecting")
       /\ after' = "Connecting"
    \/ daemon = "Error" /\ Enters("Connecting") /\ UNCHANGED after
    \/ /\ daemon = "Disconnecting" /\ after = "Connecting"
       /\ UNCHANGED <<tunnelVars, feedVars, missed>>

\* Other clients, and a connection that is lost or reported anew
SomebodyElseActs ==
    /\ OthersAct
    /\ \/ ConnectTunnel \/ DisconnectTunnel \/ ReconnectTunnel
       \/ daemon = "Connected" /\ (Enters("Connecting") \/ Enters("Connected"))
             /\ UNCHANGED after
    /\ arrived' = (arrived \/ Decides(Current, daemon'))
    /\ alone' = FALSE
    /\ UNCHANGED <<opVars, connection_status, confirming, rpcVars, clean>>

-----------------------------------------------------------------------------
(* The awaited call.                                                       *)

Execute ==
    /\ awaiting # NoOp
    /\ reply = "none"
    /\ clean' = (events = <<>>)
    /\ \/ /\ reply' = "moved"
          /\ \/ awaiting = "Connect" /\ ConnectTunnel
             \/ awaiting = "Disconnect" /\ DisconnectTunnel
             \/ awaiting = "Reconnect" /\ ReconnectTunnel
       \/ /\ reply' = "nothing to do"
          /\ \/ awaiting = "Connect" /\ daemon \in {"Connecting", "Connected"}
             \/ awaiting = "Connect" /\ daemon = "Disconnecting" /\ after = "Connecting"
             \/ awaiting = "Disconnect" /\ daemon = "Disconnected"
             \/ awaiting = "Disconnect" /\ daemon = "Disconnecting" /\ after = "Disconnected"
             \/ awaiting = "Reconnect" /\ daemon = "Disconnected"
             \/ awaiting = "Reconnect" /\ daemon = "Disconnecting" /\ after = "Disconnected"
          /\ UNCHANGED <<feedVars, tunnelVars, missed>>
    /\ arrived' = Decides(awaiting, daemon')
    /\ UNCHANGED <<opVars, connection_status, confirming, attempt, alone>>

CallReturns ==
    /\ \/ reply = "moved" /\ Operations!Accepted(awaiting)
       \/ reply = "nothing to do" /\ Operations!AlreadyThere(awaiting)
    /\ reply' = "none"
    /\ UNCHANGED <<feedVars, tunnelVars, connection_status, confirming, attempt, histVars>>

\* A transport error of the first run: reconnect and run the call again.
with_client_retry ==
    /\ Retries
    /\ awaiting # NoOp
    /\ attempt = 1
    /\ attempt' = 2
    /\ reply' = "none"
    /\ UNCHANGED <<opVars, feedVars, tunnelVars, connection_status, confirming, histVars>>

CallFails ==
    /\ awaiting # NoOp
    /\ Operations!Failed(awaiting)
    /\ reply' = "none"
    /\ UNCHANGED <<feedVars, tunnelVars, connection_status, confirming, attempt, histVars>>

Call == Execute \/ CallReturns \/ with_client_retry \/ CallFails

-----------------------------------------------------------------------------
(* The event feed.                                                         *)

\* Mutant: only the end states are cached.
set_connection_status_at_rest ==
    /\ awaiting = NoOp
    /\ Feed!Receive
    /\ Operations!resolve_pending_for_tunnel(Head(events))
    /\ connection_status' = IF Head(events) \in {"Connecting", "Disconnecting"}
                            THEN connection_status ELSE Head(events)
    /\ UNCHANGED <<awaiting, tunnelVars, confirming, rpcVars, histVars>>

set_connection_status ==
    /\ awaiting = NoOp
    /\ Feed!Receive
    /\ Operations!resolve_pending_for_tunnel(Head(events))
    /\ connection_status' = Head(events)
    /\ UNCHANGED <<awaiting, tunnelVars, confirming, rpcVars, histVars>>

FeedBreaks ==
    /\ Faults
    /\ Feed!Break
    /\ missed' = (missed \/ events' # events)
    /\ alone' = FALSE
    /\ UNCHANGED <<opVars, tunnelVars, connection_status, confirming, rpcVars, clean, arrived>>

FeedResumes ==
    /\ Feed!Resubscribe
    /\ UNCHANGED <<opVars, tunnelVars, connection_status, confirming, rpcVars, histVars>>

-----------------------------------------------------------------------------
\* The startup resync read the status or failed; the listener then subscribed
\* or failed.
Init ==
    /\ Operations!OpInit
    /\ Feed!FeedInit
    /\ daemon \in TunnelState
    /\ after = "Disconnected"
    /\ connection_status \in {daemon, NoStatus}
    /\ ~Faults => subscribed /\ connection_status = daemon
    /\ confirming = FALSE
    /\ attempt = 1
    /\ reply = "none"
    /\ clean = FALSE
    /\ arrived = FALSE
    /\ alone = (subscribed /\ connection_status = daemon)
    /\ missed = (connection_status # daemon)

Next ==
    \/ User
    \/ TunnelMoves
    \/ SomebodyElseActs
    \/ Call
    \/ set_connection_status
    \/ FeedBreaks
    \/ FeedResumes

\* Calls return, the idle run loop takes what the feed holds, and the daemon
\* does not stay in a transitional state for ever.
Fairness ==
    /\ WF_vars(Call)
    /\ WF_vars(set_connection_status)
    /\ WF_vars(TunnelMoves)

Spec == Init /\ [][Next]_vars /\ Fairness

-----------------------------------------------------------------------------
(***************************************************************************)
(* Properties.                                                             *)
(***************************************************************************)

Newest == IF events = <<>> THEN connection_status ELSE Last(events)

\* Draining the feed makes the status on screen the daemon's, unless the loss
\* of a push is known.
FeedCatchesUp == ~missed => Newest = daemon

\* An operation cannot wait past its moment: while the tunnel is where the
\* pending operation wanted it, or in Error, a push that decides it is under
\* way, or one is known to be lost.
ArrivalStillComing ==
    (Decides(pending_push_confirmation, daemon) /\ ~missed) =>
        \E i \in DOMAIN events : Decides(pending_push_confirmation, events[i])

PushDecides(verdict) ==
    /\ pending_push_confirmation # NoOp
    /\ awaiting' = NoOp
    /\ pending_push_confirmation' = NoOp
    /\ operation_status'.state = verdict

\* A verdict is earned: when nothing was under way as the daemon took the
\* call, the tunnel has since been where the operation wanted it, or in Error.
VerdictIsEarned ==
    [][(clean /\ (PushDecides("Success") \/ PushDecides("Failed"))) => arrived]_vars

\* Left alone by the user and by others, the status shown is the daemon's and
\* an operation is still pending only if the tunnel came to rest elsewhere,
\* where another client left it.
SettlesOrMissed ==
    (<>[](awaiting = NoOp) /\ <>[][~SomebodyElseActs]_vars) =>
        <>[](missed \/ (/\ connection_status = daemon
                        /\ ~Decides(pending_push_confirmation, daemon)))

\* Without other clients, losses or a user who keeps pressing buttons, no
\* operation runs for ever: reaching the other end state than the wanted one
\* takes somebody else.
OperationEnds ==
    (<>[](awaiting = NoOp) /\ []alone) => <>[](operation_status.state # "Running")
=============================================================================
