------------------------------ MODULE RelaySync ------------------------------
(***************************************************************************)
(* The relay and anti-censorship settings: the methods of app/relay.rs,    *)
(* the picks of tui/pages/select_location.rs that lead to them, and the    *)
(* calls of integration/rpc.rs that carry them out.                        *)
(*                                                                         *)
(* Three kinds of write meet here.  The obfuscation settings are computed  *)
(* from the cache, like everything in SettingsSync.  The relay constraints *)
(* are computed by the RPC service, which reads the daemon's settings and  *)
(* writes all the constraints back in a second call, with other clients in *)
(* between and the whole of it repeated when the transport fails.  The     *)
(* overrides name the one thing they change.                               *)
(*                                                                         *)
(* A location is the sequence of its codes, <<country>>, <<country, city>> *)
(* or <<country, city, hostname>>; <<>> stands for Constraint::Any, and    *)
(* for a custom list, which no method here sets or compares.  Losses of    *)
(* the feed are the business of SettingsSync.                              *)
(***************************************************************************)
EXTENDS Naturals, Sequences, SequencesExt

CONSTANTS
    Locations,      \* what the relay list offers to pick
    IpVersions,     \* IpVersion, and AnyIp for the unset constraint
    AnyIp,
    Modes,          \* SelectedObfuscation
    PortModes,      \* those of mode_has_configurable_port
    Ports,          \* ANTI_CENSORSHIP_PORT_RANGE, and AnyPort
    AnyPort,
    DefaultMode,    \* SelectedObfuscation::default()
    Hosts,          \* hostnames the user types or finds in the overrides
    CustomTunnel,   \* RelaySettings::CustomTunnelEndpoint
    NoSettings,     \* App.settings = None
    InitialConstraints,  \* the daemon's relay constraints at the start
    OthersWrite,    \* other clients write
    MaxRev          \* bound on the daemon's writes

VARIABLES
    operation_status, pending_push_confirmation, awaiting,  \* see Operations
    subscribed, events,                                     \* see EventFeed
    daemon,         \* the daemon's settings, with their revision
    settings,       \* App.settings
    port_mode,      \* PortInputState.mode while its popup is open, or NoMode
    request,        \* the write of the latest setter
    attempt,        \* with_client: first or second run of its call
    read,           \* the constraints that run has fetched, or NoRead
    reply,          \* that run was executed, its reply is on its way
    current,        \* history: the write was computed from a cache that equalled
                    \* the daemon's settings, and nobody else wrote since
    fresh           \* history: nobody else wrote since this run began

opVars   == <<operation_status, pending_push_confirmation, awaiting>>
feedVars == <<subscribed, events>>
rpcVars  == <<request, attempt, read, reply>>
histVars == <<current, fresh>>
vars == <<opVars, feedVars, daemon, settings, port_mode, rpcVars, histVars>>

-----------------------------------------------------------------------------
AnyLocation == <<>>
NoMode == "NoMode"
NoRead == [exit |-> "unread"]

Constraints ==
    [exit : Locations \union {AnyLocation}, entry : Locations \union {AnyLocation},
     multihop : BOOLEAN, ip : IpVersions]

Obfuscation == [mode : Modes, ports : [PortModes -> Ports]]

\* The addresses of an override: the values are not told apart, only which of
\* the two there are; a host without any has no override.
Addresses == SUBSET {"v4", "v6"}

Settings ==
    [relay : Constraints \union {CustomTunnel}, obfuscation : Obfuscation,
     overrides : [Hosts -> Addresses], rev : Nat]

\* What the user asked for; `sent' is all that an obfuscation write carries.
Request ==
         [part : {"exit", "entry"}, value : Locations]
    \union [part : {"multihop"}, value : BOOLEAN]
    \union [part : {"ip"}, value : IpVersions]
    \union [part : {"mode"}, value : Modes, sent : Obfuscation]
    \union [part : {"port"}, mode : PortModes, value : Ports, sent : Obfuscation]
    \union [part : {"override"}, host : Hosts, value : Addresses]
    \union [part : {"clear", "none"}]

RelayParts == {"exit", "entry", "multihop", "ip"}

Operations == INSTANCE Operations WITH
    Ops <- {"SelectRelay", "SelectRelayCountry", "SelectRelayCity", "SelectEntryRelay",
            "SelectEntryRelayCountry", "SelectEntryRelayCity", "ToggleMultihop",
            "SetIpVersionPreference", "SetAntiCensorshipMode", "SetAntiCensorshipPort",
            "SetRelayOverride", "ClearRelayOverrides"}

Feed == INSTANCE EventFeed WITH Event <- Settings

NoOp == Operations!NoOp

ASSUME RelayAssumption ==
    /\ \A l \in Locations : l \in Seq(STRING) /\ Len(l) \in 1 .. 3
    /\ AnyIp \in IpVersions
    /\ PortModes \subseteq Modes
    /\ NoMode \notin Modes
    /\ DefaultMode \in Modes
    /\ AnyPort \in Ports
    /\ CustomTunnel \notin Constraints
    /\ NoSettings \notin Settings
    /\ NoRead \notin Constraints
    /\ InitialConstraints \subseteq Constraints
    /\ OthersWrite \in BOOLEAN
    /\ MaxRev \in Nat

TypeOK ==
    /\ Operations!OpTypeOK
    /\ Feed!FeedTypeOK
    /\ daemon \in Settings
    /\ settings \in Settings \union {NoSettings}
    /\ port_mode \in PortModes \union {NoMode}
    /\ request \in Request
    /\ attempt \in 1 .. 2
    /\ read \in Constraints \union {NoRead}
    /\ reply \in BOOLEAN
    /\ current \in BOOLEAN
    /\ fresh \in BOOLEAN

-----------------------------------------------------------------------------
(* Projections of the cache.                                               *)

Loaded == settings # NoSettings

HasConstraints == Loaded /\ settings.relay # CustomTunnel

\* Neither Unknown nor CustomTunnel compares equal to a location.
current_relay_selection == IF HasConstraints THEN settings.relay.exit ELSE AnyLocation

current_entry_relay_selection == IF HasConstraints THEN settings.relay.entry ELSE AnyLocation

is_multihop_enabled == HasConstraints /\ settings.relay.multihop

\* ObfuscationSettings::default() until the settings are loaded
cached_obfuscation ==
    IF Loaded
    THEN settings.obfuscation
    ELSE [mode |-> DefaultMode, ports |-> [m \in PortModes |-> AnyPort]]

-----------------------------------------------------------------------------
(* The setters, up to their await.                                         *)

Send(op, write) ==
    /\ Operations!Start(op)
    /\ request' = write
    /\ attempt' = 1
    /\ read' = NoRead
    /\ reply' = FALSE
    /\ current' = (settings = daemon)
    /\ fresh' = TRUE
    /\ UNCHANGED <<feedVars, daemon, settings>>

\* Countries, cities and relays are compared by their own code alone.
SameLocation(a, b) == a # AnyLocation /\ Len(a) = Len(b) /\ Last(a) = Last(b)

\* Mutant: a pick is compared with its own node's selection.
other_node_selection_own(node) ==
    IF node = "entry" THEN current_entry_relay_selection ELSE current_relay_selection

other_node_selection(node) ==
    IF node = "entry" THEN current_relay_selection ELSE current_entry_relay_selection

Blocked(node, location) ==
    is_multihop_enabled /\ SameLocation(location, other_node_selection(node))

ExitOp == <<"SelectRelayCountry", "SelectRelayCity", "SelectRelay">>
EntryOp == <<"SelectEntryRelayCountry", "SelectEntryRelayCity", "SelectEntryRelay">>

select_relay(location) ==
    /\ ~Blocked("exit", location)
    /\ Send(ExitOp[Len(location)], [part |-> "exit", value |-> location])

\* The entry tab is there only while the cache shows multihop.
select_entry_relay(location) ==
    /\ is_multihop_enabled
    /\ ~Blocked("entry", location)
    /\ Send(EntryOp[Len(location)], [part |-> "entry", value |-> location])

toggle_multihop ==
    Send("ToggleMultihop", [part |-> "multihop", value |-> ~is_multihop_enabled])

set_ip_version_preference(version) ==
    Send("SetIpVersionPreference", [part |-> "ip", value |-> version])

\* Both obfuscation setters send the whole of ObfuscationSettings.
set_anti_censorship_mode(mode) ==
    Send("SetAntiCensorshipMode",
         [part |-> "mode", value |-> mode,
          sent |-> [cached_obfuscation EXCEPT !.mode = mode]])

set_anti_censorship_port(mode, port) ==
    Send("SetAntiCensorshipPort",
         [part |-> "port", mode |-> mode, value |-> port,
          sent |-> [cached_obfuscation EXCEPT !.ports[mode] = port]])

\* An empty override removes the one the host has.
set_relay_override(host, addresses) ==
    Send("SetRelayOverride", [part |-> "override", host |-> host, value |-> addresses])

\* The popup of Add override needs one address; Remove, behind its
\* confirmation, is on the rows of the cached overrides.
add_relay_override(host) ==
    \E addresses \in Addresses \ {{}} : set_relay_override(host, addresses)

remove_relay_override(host) ==
    /\ Loaded
    /\ settings.overrides[host] # {}
    /\ set_relay_override(host, {})

clear_relay_overrides == Send("ClearRelayOverrides", [part |-> "clear"])

\* Mutant: the popup opens for any mode.
edit_port_of_any_mode ==
    /\ awaiting = NoOp
    /\ port_mode' = cached_obfuscation.mode
    /\ UNCHANGED <<opVars, feedVars, daemon, settings, rpcVars, histVars>>

\* The port row is drawn for a mode with a port; the popup keeps that mode ...
edit_port ==
    /\ awaiting = NoOp
    /\ Loaded
    /\ settings.obfuscation.mode \in PortModes
    /\ port_mode' = settings.obfuscation.mode
    /\ UNCHANGED <<opVars, feedVars, daemon, settings, rpcVars, histVars>>

\* ... for its submit, whatever the pushes brought in between.
submit_port ==
    /\ port_mode # NoMode
    /\ \E port \in Ports : set_anti_censorship_port(port_mode, port)
    /\ port_mode' = NoMode

\* Esc, or a number out of range: the popup is gone, nothing is sent.
close_port ==
    /\ awaiting = NoOp
    /\ port_mode # NoMode
    /\ port_mode' = NoMode
    /\ UNCHANGED <<opVars, feedVars, daemon, settings, rpcVars, histVars>>

\* An open popup takes every key and click.
UserWrites ==
    \/ /\ port_mode = NoMode
       /\ \/ \E l \in Locations : select_relay(l) \/ select_entry_relay(l)
          \/ toggle_multihop
          \/ \E v \in IpVersions : set_ip_version_preference(v)
          \/ \E m \in Modes : set_anti_censorship_mode(m)
          \/ \E h \in Hosts : add_relay_override(h) \/ remove_relay_override(h)
          \/ clear_relay_overrides
       /\ UNCHANGED port_mode
    \/ port_mode = NoMode /\ edit_port
    \/ submit_port
    \/ close_port

-----------------------------------------------------------------------------
(* The daemon.                                                             *)

\* The settings after the write of a run that read these constraints
Written(write, constraints) ==
    CASE write.part \in RelayParts ->
            [daemon EXCEPT !.rev = @ + 1, !.relay = [constraints EXCEPT ![write.part] = write.value]]
      [] write.part \in {"mode", "port"} ->
            [daemon EXCEPT !.rev = @ + 1, !.obfuscation = write.sent]
      [] write.part = "override" ->
            [daemon EXCEPT !.rev = @ + 1, !.overrides[write.host] = write.value]
      [] write.part = "clear" ->
            [daemon EXCEPT !.rev = @ + 1, !.overrides = [h \in Hosts |-> {}]]

DaemonWrites(new) ==
    /\ daemon.rev < MaxRev
    /\ daemon' = new
    /\ Feed!Publish(new)

\* Another client changes one thing, or puts a custom tunnel endpoint in the
\* place of the constraints or constraints in its place.
RelayEdits ==
    IF daemon.relay = CustomTunnel
    THEN Constraints
    ELSE {CustomTunnel}
         \union {c \in Constraints : \E part \in RelayParts :
                    c = [daemon.relay EXCEPT ![part] = c[part]]}

OtherClientWrites ==
    /\ OthersWrite
    /\ \/ \E relay \in RelayEdits :
             DaemonWrites([daemon EXCEPT !.rev = @ + 1, !.relay = relay])
       \/ \E m \in Modes :
             DaemonWrites([daemon EXCEPT !.rev = @ + 1, !.obfuscation.mode = m])
       \/ \E m \in PortModes, p \in Ports :
             DaemonWrites([daemon EXCEPT !.rev = @ + 1, !.obfuscation.ports[m] = p])
       \/ \E h \in Hosts, a \in Addresses :
             DaemonWrites([daemon EXCEPT !.rev = @ + 1, !.overrides[h] = a])
    /\ current' = FALSE
    /\ fresh' = FALSE
    /\ UNCHANGED <<opVars, settings, port_mode, rpcVars>>

-----------------------------------------------------------------------------
(* The awaited call.                                                       *)

\* A relay setter first fetches the constraints, unless a custom tunnel
\* endpoint is configured: then it is refused (CallFails), as it is when
\* resolve_active_hostname finds no active relay of that name.
current_normal_constraints ==
    /\ awaiting # NoOp
    /\ request.part \in RelayParts
    /\ ~reply
    /\ read = NoRead
    /\ daemon.relay # CustomTunnel
    /\ read' = daemon.relay
    /\ UNCHANGED <<opVars, feedVars, daemon, settings, port_mode, request, attempt,
                   reply, histVars>>

Execute ==
    /\ awaiting # NoOp
    /\ ~reply
    /\ request.part \in RelayParts => read # NoRead
    /\ DaemonWrites(Written(request, read))
    /\ reply' = TRUE
    /\ UNCHANGED <<opVars, settings, port_mode, request, attempt, read, histVars>>

\* Mutant: the second run takes up where the first one failed.
with_client_retry_resumes ==
    /\ awaiting # NoOp
    /\ attempt = 1
    /\ attempt' = 2
    /\ reply' = FALSE
    /\ fresh' = TRUE
    /\ UNCHANGED <<opVars, feedVars, daemon, settings, port_mode, request, read, current>>

\* A transport error of the first run: reconnect and run the whole again.
with_client_retry ==
    /\ awaiting # NoOp
    /\ attempt = 1
    /\ attempt' = 2
    /\ read' = NoRead
    /\ reply' = FALSE
    /\ fresh' = TRUE
    /\ UNCHANGED <<opVars, feedVars, daemon, settings, port_mode, request, current>>

CallReturns ==
    /\ awaiting # NoOp
    /\ reply
    /\ Operations!Accepted(awaiting)
    /\ reply' = FALSE
    /\ read' = NoRead
    /\ UNCHANGED <<feedVars, daemon, settings, port_mode, request, attempt, histVars>>

\* Refused, or the transport failed for good, before the write or after.
CallFails ==
    /\ awaiting # NoOp
    /\ Operations!Failed(awaiting)
    /\ reply' = FALSE
    /\ read' = NoRead
    /\ UNCHANGED <<feedVars, daemon, settings, port_mode, request, attempt, histVars>>

Call ==
    current_normal_constraints \/ Execute \/ with_client_retry \/ CallReturns \/ CallFails

set_settings ==
    /\ awaiting = NoOp
    /\ Feed!Receive
    /\ settings' = Head(events)
    /\ Operations!resolve_pending_for_settings
    /\ UNCHANGED <<awaiting, daemon, port_mode, rpcVars, histVars>>

-----------------------------------------------------------------------------
Init ==
    /\ Operations!OpInit
    /\ subscribed = TRUE
    /\ events = <<>>
    /\ daemon \in [relay : InitialConstraints, rev : {1}, overrides : {[h \in Hosts |-> {}]},
                   obfuscation : [mode : Modes,
                                  ports : {[m \in PortModes |-> AnyPort]}]]
    /\ settings \in {daemon, NoSettings}
    /\ port_mode = NoMode
    /\ request = [part |-> "none"]
    /\ attempt = 1
    /\ read = NoRead
    /\ reply = FALSE
    /\ current = FALSE
    /\ fresh = FALSE

Next ==
    \/ UserWrites
    \/ OtherClientWrites
    \/ Call
    \/ set_settings

\* Calls return and the run loop takes the events that wait, as in SettingsSync.
Fairness == WF_vars(Call) /\ WF_vars(set_settings)

Spec == Init /\ [][Next]_vars /\ Fairness

-----------------------------------------------------------------------------
(***************************************************************************)
(* Properties.                                                             *)
(***************************************************************************)

Executed == awaiting # NoOp /\ ~reply /\ reply'

\* The one thing that was asked for, done to the settings at that instant; a
\* custom tunnel has no part to edit.
Asked ==
    CASE request.part \in RelayParts /\ daemon.relay = CustomTunnel -> daemon
      [] request.part \in RelayParts /\ daemon.relay # CustomTunnel ->
            [daemon EXCEPT !.rev = @ + 1, !.relay[request.part] = request.value]
      [] request.part = "mode" ->
            [daemon EXCEPT !.rev = @ + 1, !.obfuscation.mode = request.value]
      [] request.part = "port" ->
            [daemon EXCEPT !.rev = @ + 1, !.obfuscation.ports[request.mode] = request.value]
      [] OTHER -> Written(request, read)

\* Each write is the single edit the user asked for, as if it were atomic:
\* a relay write whenever nobody else wrote since the latest run of its call
\* began, however stale the cache is and however often the call was run; an
\* obfuscation write when the cache was current and nobody wrote since.
WritesAreSingleEdits ==
    [][(Executed /\ (IF request.part \in RelayParts THEN fresh ELSE current)) =>
          daemon' = Asked]_vars

NodesApart(d) ==
    (d.relay # CustomTunnel /\ d.relay.multihop) => ~SameLocation(d.relay.entry, d.relay.exit)

\* A pick made on a current cache and with multihop on never brings the two
\* nodes to the same location, whatever else was going on while the call ran,
\* its own retry included.
PicksKeepNodesApart ==
    [][(/\ Executed /\ current
        /\ request.part \in {"exit", "entry"}
        /\ daemon.relay.multihop) =>
          NodesApart(daemon')]_vars
=============================================================================
