--------------------------- MODULE RelaySyncProofs ---------------------------
(***************************************************************************)
(* Proofs about module RelaySync, for any relay list, any other clients    *)
(* and any number of writes: each write is the single edit it was asked to *)
(* be, and a pick keeps the entry and the exit apart.                      *)
(***************************************************************************)
EXTENDS RelaySync, SequenceLemmas

-----------------------------------------------------------------------------
(* Types.                                                                  *)

\* What a request carries, by what it is about
LEMMA RequestFacts ==
    ASSUME NEW r \in Request
    PROVE  /\ r.part \in RelayParts \union {"mode", "port", "override", "clear", "none"}
           /\ r.part \in {"exit", "entry"} => r.value \in Locations
           /\ r.part = "multihop" => r.value \in BOOLEAN
           /\ r.part = "ip" => r.value \in IpVersions
           /\ r.part = "mode" => r.value \in Modes /\ r.sent \in Obfuscation
           /\ r.part = "port" => /\ r.mode \in PortModes /\ r.value \in Ports
                                 /\ r.sent \in Obfuscation
           /\ r.part = "override" => r.host \in Hosts /\ r.value \in Addresses
BY DEF Request, RelayParts

\* TypeOK but for the status line, and that a call is about something.
DataTypes ==
    /\ Feed!FeedTypeOK
    /\ daemon \in Settings
    /\ settings \in Settings \union {NoSettings}
    /\ port_mode \in PortModes \union {NoMode}
    /\ request \in Request
    /\ read \in Constraints \union {NoRead}
    /\ awaiting # NoOp => request.part # "none"

LEMMA ObfuscationTypes ==
    ASSUME NEW o \in Obfuscation
    PROVE  /\ \A m \in Modes : [o EXCEPT !.mode = m] \in Obfuscation
           /\ \A m \in PortModes, p \in Ports : [o EXCEPT !.ports[m] = p] \in Obfuscation
BY DEF Obfuscation

LEMMA CachedType ==
    ASSUME DataTypes
    PROVE  cached_obfuscation \in Obfuscation
BY RelayAssumption DEF DataTypes, cached_obfuscation, Loaded, Settings, Obfuscation

\* A setter changes nothing but the request.
LEMMA UserSteps ==
    ASSUME DataTypes, UserWrites
    PROVE  /\ awaiting = NoOp
           /\ port_mode' \in PortModes \union {NoMode}
           /\ UNCHANGED <<feedVars, daemon, settings>>
           /\ \/ UNCHANGED <<opVars, rpcVars, histVars>>
              \/ \E op, write : write \in Request /\ write.part # "none" /\ Send(op, write)
<1> USE DEF UserWrites
<1>1. CASE edit_port \/ close_port
  BY <1>1 DEF edit_port, close_port, DataTypes
<1>2. ASSUME NEW op, NEW write, Send(op, write)
      PROVE  awaiting = NoOp /\ UNCHANGED <<feedVars, daemon, settings>>
  BY <1>2 DEF Send, Operations!Start, NoOp
<1>3. ASSUME NEW l \in Locations, select_relay(l)
      PROVE  \E op, write : write \in Request /\ write.part # "none" /\ Send(op, write)
  <2>1. [part |-> "exit", value |-> l] \in Request
    BY DEF Request
  <2>2. QED
    BY <1>3, <2>1 DEF select_relay
<1>4. ASSUME NEW l \in Locations, select_entry_relay(l)
      PROVE  \E op, write : write \in Request /\ write.part # "none" /\ Send(op, write)
  <2>1. [part |-> "entry", value |-> l] \in Request
    BY DEF Request
  <2>2. QED
    BY <1>4, <2>1 DEF select_entry_relay
<1>5. ASSUME toggle_multihop
      PROVE  \E op, write : write \in Request /\ write.part # "none" /\ Send(op, write)
  <2>1. [part |-> "multihop", value |-> ~is_multihop_enabled] \in Request
    BY DEF Request
  <2>2. QED
    BY <1>5, <2>1 DEF toggle_multihop
<1>6. ASSUME NEW v \in IpVersions, set_ip_version_preference(v)
      PROVE  \E op, write : write \in Request /\ write.part # "none" /\ Send(op, write)
  <2>1. [part |-> "ip", value |-> v] \in Request
    BY DEF Request
  <2>2. QED
    BY <1>6, <2>1 DEF set_ip_version_preference
<1>7. ASSUME NEW m \in Modes, set_anti_censorship_mode(m)
      PROVE  \E op, write : write \in Request /\ write.part # "none" /\ Send(op, write)
  <2> DEFINE write == [part |-> "mode", value |-> m, sent |-> [cached_obfuscation EXCEPT !.mode = m]]
  <2>1. write \in Request /\ write.part # "none"
    BY CachedType, ObfuscationTypes DEF Request
  <2>2. Send("SetAntiCensorshipMode", write)
    BY <1>7 DEF set_anti_censorship_mode
  <2>3. QED
    BY <2>1, <2>2
<1>8. ASSUME NEW m \in PortModes, NEW p \in Ports, set_anti_censorship_port(m, p)
      PROVE  \E op, write : write \in Request /\ write.part # "none" /\ Send(op, write)
  <2> DEFINE write == [part |-> "port", mode |-> m, value |-> p,
                       sent |-> [cached_obfuscation EXCEPT !.ports[m] = p]]
  <2>1. write \in Request /\ write.part # "none"
    BY CachedType, ObfuscationTypes DEF Request
  <2>2. Send("SetAntiCensorshipPort", write)
    BY <1>8 DEF set_anti_censorship_port
  <2>3. QED
    BY <2>1, <2>2
<1>9. ASSUME NEW h \in Hosts, add_relay_override(h) \/ remove_relay_override(h)
      PROVE  \E op, write : write \in Request /\ write.part # "none" /\ Send(op, write)
  <2>1. PICK a \in Addresses : set_relay_override(h, a)
    BY <1>9 DEF add_relay_override, remove_relay_override, Addresses
  <2>2. [part |-> "override", host |-> h, value |-> a] \in Request
    BY DEF Request
  <2>3. QED
    BY <2>1, <2>2 DEF set_relay_override
<1>10. ASSUME clear_relay_overrides
       PROVE  \E op, write : write \in Request /\ write.part # "none" /\ Send(op, write)
  <2>1. [part |-> "clear"] \in Request
    BY DEF Request
  <2>2. QED
    BY <1>10, <2>1 DEF clear_relay_overrides
<1>11. CASE submit_port
  <2>1. port_mode \in PortModes /\ port_mode' = NoMode
    BY <1>11 DEF submit_port, DataTypes
  <2>2. \E op, write : write \in Request /\ write.part # "none" /\ Send(op, write)
    BY <1>8, <1>11, <2>1 DEF submit_port
  <2>3. QED
    BY <1>2, <2>1, <2>2
<1>12. CASE ~(edit_port \/ close_port \/ submit_port)
  <2>1. \E op, write : write \in Request /\ write.part # "none" /\ Send(op, write)
    BY <1>3, <1>4, <1>5, <1>6, <1>7, <1>9, <1>10, <1>12
  <2>2. port_mode' = port_mode
    BY <1>12
  <2>3. QED
    BY <1>2, <2>1, <2>2 DEF DataTypes
<1>13. QED
  BY <1>1, <1>11, <1>12

LEMMA SettingsFields ==
    ASSUME NEW s \in Settings
    PROVE  /\ s.rev + 1 \in Nat
           /\ s.overrides \in [Hosts -> Addresses]
           /\ s.relay \in Constraints \union {CustomTunnel}
           /\ s.obfuscation \in Obfuscation
BY DEF Settings

LEMMA SettingsUpdates ==
    ASSUME NEW s \in Settings,
           NEW c \in Constraints \union {CustomTunnel},
           NEW o \in Obfuscation, NEW v \in [Hosts -> Addresses]
    PROVE  /\ [s EXCEPT !.rev = s.rev + 1, !.relay = c] \in Settings
           /\ [s EXCEPT !.rev = s.rev + 1, !.obfuscation = o] \in Settings
           /\ [s EXCEPT !.rev = s.rev + 1, !.overrides = v] \in Settings
BY SettingsFields DEF Settings

LEMMA ConstraintsUpdates ==
    ASSUME NEW c \in Constraints
    PROVE  /\ \A l \in Locations : [c EXCEPT !.exit = l] \in Constraints
           /\ \A l \in Locations : [c EXCEPT !.entry = l] \in Constraints
           /\ \A b \in BOOLEAN : [c EXCEPT !.multihop = b] \in Constraints
           /\ \A v \in IpVersions : [c EXCEPT !.ip = v] \in Constraints
BY DEF Constraints

\* What a call writes, part by part
LEMMA WrittenParts ==
    ASSUME NEW c
    PROVE  /\ request.part \in RelayParts =>
                Written(request, c) =
                   [daemon EXCEPT !.rev = daemon.rev + 1,
                                  !.relay = [c EXCEPT ![request.part] = request.value]]
           /\ request.part \in {"mode", "port"} =>
                Written(request, c) =
                   [daemon EXCEPT !.rev = daemon.rev + 1, !.obfuscation = request.sent]
           /\ request.part = "override" =>
                Written(request, c) =
                   [daemon EXCEPT !.rev = daemon.rev + 1,
                                  !.overrides = [daemon.overrides EXCEPT ![request.host] = request.value]]
           /\ request.part = "clear" =>
                Written(request, c) =
                   [daemon EXCEPT !.rev = daemon.rev + 1, !.overrides = [h \in Hosts |-> {}]]
BY DEF Written, RelayParts

\* What a call writes is settings.
LEMMA WrittenType ==
    ASSUME DataTypes, request.part # "none", request.part \in RelayParts => read # NoRead
    PROVE  Written(request, read) \in Settings
<1>0. request \in Request /\ daemon \in Settings /\ read \in Constraints \union {NoRead}
  BY DEF DataTypes
<1>1. CASE request.part \in RelayParts
  <2>1. [read EXCEPT ![request.part] = request.value] \in Constraints
    <3>1. read \in Constraints
      BY <1>0, <1>1
    <3>2. CASE request.part = "exit"
      BY <1>0, <3>1, <3>2, RequestFacts, ConstraintsUpdates
    <3>3. CASE request.part = "entry"
      BY <1>0, <3>1, <3>3, RequestFacts, ConstraintsUpdates
    <3>4. CASE request.part = "multihop"
      BY <1>0, <3>1, <3>4, RequestFacts, ConstraintsUpdates
    <3>5. CASE request.part = "ip"
      BY <1>0, <3>1, <3>5, RequestFacts, ConstraintsUpdates
    <3>6. QED
      BY <1>1, <3>2, <3>3, <3>4, <3>5 DEF RelayParts
  <2>2. [daemon EXCEPT !.rev = daemon.rev + 1, !.relay = [read EXCEPT ![request.part] = request.value]] \in Settings
    BY <1>0, <2>1, SettingsFields, SettingsUpdates
  <2>3. QED
    BY <1>1, <2>2, WrittenParts
<1>2. CASE request.part \in {"mode", "port"}
  <2>1. request.sent \in Obfuscation
    BY <1>0, <1>2, RequestFacts
  <2>2. [daemon EXCEPT !.rev = daemon.rev + 1, !.obfuscation = request.sent] \in Settings
    BY <1>0, <2>1, SettingsFields, SettingsUpdates
  <2>3. QED
    BY <1>2, <2>2, WrittenParts
<1>3. CASE request.part = "override"
  <2>1. request.host \in Hosts /\ request.value \in Addresses
    BY <1>0, <1>3, RequestFacts
  <2>2. [daemon EXCEPT !.rev = daemon.rev + 1, !.overrides = [daemon.overrides EXCEPT ![request.host] = request.value]] \in Settings
    BY <1>0, <2>1, SettingsFields, SettingsUpdates
  <2>3. QED
    BY <1>3, <2>2, WrittenParts
<1>4. CASE request.part = "clear"
  <2>1. [h \in Hosts |-> {}] \in [Hosts -> Addresses]
    BY DEF Addresses
  <2>2. [daemon EXCEPT !.rev = daemon.rev + 1, !.overrides = [h \in Hosts |-> {}]] \in Settings
    BY <1>0, <2>1, SettingsFields, SettingsUpdates
  <2>3. QED
    BY <1>4, <2>2, WrittenParts
<1>5. QED
  BY <1>0, <1>1, <1>2, <1>3, <1>4, RequestFacts

\* The daemon's settings change and are pushed.
LEMMA WritesTypes ==
    ASSUME DataTypes, NEW new \in Settings, DaemonWrites(new)
    PROVE  Feed!FeedTypeOK' /\ daemon' \in Settings
BY PublishedFeed DEF DataTypes, DaemonWrites, Feed!Publish, Feed!FeedTypeOK

LEMMA OthersSteps ==
    ASSUME DataTypes, OtherClientWrites
    PROVE  \E new \in Settings : DaemonWrites(new)
<1>0. daemon \in Settings /\ daemon.obfuscation \in Obfuscation
      /\ daemon.relay \in Constraints \union {CustomTunnel}
      /\ daemon.overrides \in [Hosts -> Addresses]
  BY SettingsFields DEF DataTypes
<1>1. ASSUME NEW relay \in RelayEdits
      PROVE  [daemon EXCEPT !.rev = @ + 1, !.relay = relay] \in Settings
  <2>1. relay \in Constraints \union {CustomTunnel}
    BY <1>1 DEF RelayEdits
  <2>2. QED
    BY <1>0, <2>1, SettingsUpdates
<1>2. ASSUME NEW m \in Modes
      PROVE  [daemon EXCEPT !.rev = @ + 1, !.obfuscation.mode = m] \in Settings
  <2>1. PICK o \in Obfuscation : o = [daemon.obfuscation EXCEPT !.mode = m]
    BY <1>0, ObfuscationTypes
  <2>2. [daemon EXCEPT !.rev = @ + 1, !.obfuscation.mode = m]
           = [daemon EXCEPT !.rev = @ + 1, !.obfuscation = o]
    BY <2>1
  <2>3. QED
    BY <1>0, <2>2, SettingsUpdates
<1>3. ASSUME NEW m \in PortModes, NEW p \in Ports
      PROVE  [daemon EXCEPT !.rev = @ + 1, !.obfuscation.ports[m] = p] \in Settings
  <2>1. PICK o \in Obfuscation : o = [daemon.obfuscation EXCEPT !.ports[m] = p]
    BY <1>0, ObfuscationTypes
  <2>2. [daemon EXCEPT !.rev = @ + 1, !.obfuscation.ports[m] = p]
           = [daemon EXCEPT !.rev = @ + 1, !.obfuscation = o]
    BY <2>1
  <2>3. QED
    BY <1>0, <2>2, SettingsUpdates
<1>4. ASSUME NEW h \in Hosts, NEW a \in Addresses
      PROVE  [daemon EXCEPT !.rev = @ + 1, !.overrides[h] = a] \in Settings
  <2>1. PICK v \in [Hosts -> Addresses] : v = [daemon.overrides EXCEPT ![h] = a]
    BY <1>0
  <2>2. [daemon EXCEPT !.rev = @ + 1, !.overrides[h] = a]
           = [daemon EXCEPT !.rev = @ + 1, !.overrides = v]
    BY <2>1
  <2>3. QED
    BY <1>0, <2>2, SettingsUpdates
<1>5. QED
  BY <1>1, <1>2, <1>3, <1>4, Zenon DEF OtherClientWrites

LEMMA ExecuteSteps ==
    ASSUME DataTypes, Execute
    PROVE  /\ Written(request, read) \in Settings
           /\ DaemonWrites(Written(request, read))
           /\ daemon' = Written(request, read)
           /\ UNCHANGED <<awaiting, settings, port_mode, request, read, fresh, current>>
           /\ request.part \in RelayParts => read # NoRead
           /\ awaiting # NoOp /\ ~reply /\ reply'
<1>1. awaiting # NoOp /\ (request.part \in RelayParts => read # NoRead)
  BY DEF Execute
<1>2. Written(request, read) \in Settings
  BY <1>1, WrittenType DEF DataTypes
<1>3. QED
  BY <1>1, <1>2 DEF Execute, DaemonWrites, opVars, histVars

LEMMA DataTypesStep ==
    ASSUME DataTypes, [Next]_vars
    PROVE  DataTypes'
<1> USE DEF DataTypes
<1>1. CASE UserWrites
  <2>1. awaiting = NoOp /\ port_mode' \in PortModes \union {NoMode}
        /\ UNCHANGED <<feedVars, daemon, settings>>
    BY <1>1, UserSteps
  <2>2. \/ UNCHANGED <<opVars, rpcVars, histVars>>
        \/ \E op, write : write \in Request /\ write.part # "none" /\ Send(op, write)
    BY <1>1, UserSteps
  <2>3. \/ UNCHANGED <<awaiting, request, read>>
        \/ request' \in Request /\ request'.part # "none" /\ read' = NoRead
    BY <2>2 DEF opVars, rpcVars, Send
  <2>4. Feed!FeedTypeOK'
    BY <2>1 DEF Feed!FeedTypeOK, feedVars
  <2>5. QED
    BY <2>1, <2>3, <2>4
<1>2. CASE OtherClientWrites
  BY <1>2, OthersSteps, WritesTypes DEF OtherClientWrites, opVars, rpcVars
<1>3. CASE Execute
  BY <1>3, ExecuteSteps, WritesTypes
<1>4. CASE current_normal_constraints
  <2>1. read' \in Constraints
    BY <1>4, SettingsFields DEF current_normal_constraints
  <2>2. QED
    BY <1>4, <2>1 DEF current_normal_constraints, opVars, feedVars, Feed!FeedTypeOK
<1>5. CASE with_client_retry
  BY <1>5 DEF with_client_retry, opVars, feedVars, Feed!FeedTypeOK
<1>6. CASE CallReturns \/ CallFails
  BY <1>6 DEF CallReturns, CallFails, feedVars, Feed!FeedTypeOK, Operations!Accepted,
              Operations!Failed, NoOp
<1>7. CASE set_settings
  BY <1>7, ReceivedFeed DEF set_settings, rpcVars, Feed!Receive, Feed!FeedTypeOK
<1>8. CASE UNCHANGED vars
  BY <1>8 DEF vars, opVars, feedVars, rpcVars, Feed!FeedTypeOK
<1>9. QED
  BY <1>1, <1>2, <1>3, <1>4, <1>5, <1>6, <1>7, <1>8 DEF Next, Call

LEMMA TypesHold == Spec => []DataTypes
<1>1. Init => DataTypes
  <2> SUFFICES ASSUME Init PROVE DataTypes
    OBVIOUS
  <2>1. daemon \in Settings
    <3>1. [h \in Hosts |-> {}] \in [Hosts -> Addresses]
      BY DEF Addresses
    <3>2. [m \in PortModes |-> AnyPort] \in [PortModes -> Ports]
      BY RelayAssumption
    <3>3. daemon \in [relay : InitialConstraints, rev : {1}, overrides : {[h \in Hosts |-> {}]},
                      obfuscation : [mode : Modes, ports : {[m \in PortModes |-> AnyPort]}]]
      BY DEF Init
    <3>4. InitialConstraints \subseteq Constraints
      BY RelayAssumption
    <3>5. QED
      BY <3>1, <3>2, <3>3, <3>4 DEF Settings, Obfuscation
  <2>2. request \in Request /\ awaiting = NoOp
    BY DEF Init, Request, Operations!OpInit, NoOp
  <2>3. QED
    BY <2>1, <2>2 DEF Init, DataTypes, Feed!FeedTypeOK
<1>2. QED
  BY <1>1, DataTypesStep, PTL DEF Spec

\* The rest of TypeOK: the status line and the state of the call.
CallTypes ==
    /\ Operations!OpTypeOK
    /\ attempt \in 1 .. 2
    /\ reply \in BOOLEAN
    /\ current \in BOOLEAN
    /\ fresh \in BOOLEAN

LEMMA OperationFacts ==
    /\ Operations!SettingsOps \subseteq Operations!PushOps
    /\ Operations!PushOps \subseteq Operations!Operation
    /\ NoOp \notin Operations!Operation
BY DEF Operations!SettingsOps, Operations!PushOps, Operations!Operation, Operations!TunnelOps,
       Operations!DeviceOps, Operations!PullOps, NoOp, Operations!NoOp

LEMMA StatusType ==
    ASSUME NEW state \in {"Idle", "Running", "Success", "Failed"},
           NEW op \in Operations!Operation \union {NoOp}
    PROVE  Operations!Status(state, op) \in Operations!OperationStatus
BY DEF Operations!Status, Operations!OperationStatus, NoOp

LEMMA CallTypesStep ==
    ASSUME DataTypes, CallTypes, [Next]_vars
    PROVE  CallTypes'
<1> USE OperationFacts, StatusType
<1> USE DEF CallTypes
<1>a. UNCHANGED opVars => Operations!OpTypeOK'
  BY DEF Operations!OpTypeOK, opVars
<1>1. CASE UserWrites
  <2>1. CASE UNCHANGED <<opVars, rpcVars, histVars>>
    BY <2>1, <1>a DEF rpcVars, histVars
  <2>2. ASSUME NEW op, NEW write, Send(op, write)
        PROVE  CallTypes'
    <3>1. op \in Operations!Operation
      BY <2>2 DEF Send, Operations!Start, Operations!Operation, Operations!PushOps,
                  Operations!SettingsOps
    <3>2. Operations!OpTypeOK'
      BY <2>2, <3>1 DEF Send, Operations!Start, Operations!set_operation_running,
                        Operations!OpTypeOK, NoOp
    <3>3. attempt' \in 1 .. 2 /\ reply' = FALSE /\ fresh' = TRUE
      BY <2>2 DEF Send
    <3>4. current' \in BOOLEAN
      BY <2>2, Zenon DEF Send
    <3>5. QED
      BY <3>2, <3>3, <3>4
  <2>3. QED
    BY <1>1, <2>1, <2>2, UserSteps
<1>2. CASE OtherClientWrites
  BY <1>2, <1>a DEF OtherClientWrites, rpcVars
<1>3. CASE current_normal_constraints \/ Execute \/ with_client_retry
  <2>1. UNCHANGED opVars
    BY <1>3 DEF current_normal_constraints, Execute, with_client_retry
  <2>2. /\ attempt' \in {attempt, 2}
        /\ reply' \in {reply, TRUE, FALSE}
        /\ fresh' \in {fresh, TRUE}
        /\ current' = current
    BY <1>3 DEF current_normal_constraints, Execute, with_client_retry, histVars
  <2>3. attempt' \in 1 .. 2
    BY <2>2
  <2>4. reply' \in BOOLEAN /\ fresh' \in BOOLEAN /\ current' \in BOOLEAN
    BY <2>2, Zenon
  <2>5. QED
    BY <2>1, <2>3, <2>4, <1>a
<1>4. CASE CallReturns \/ CallFails
  <2>1. Operations!OpTypeOK'
    BY <1>4 DEF CallReturns, CallFails, Operations!Accepted, Operations!Failed,
                Operations!set_operation_failed, Operations!OpTypeOK, NoOp
  <2>2. QED
    BY <1>4, <2>1 DEF CallReturns, CallFails, histVars
<1>5. CASE set_settings
  <2>1. Operations!OpTypeOK'
    BY <1>5 DEF set_settings, Operations!resolve_pending_for_settings, Operations!Resolve,
                Operations!KeepWaiting, Operations!OpTypeOK, NoOp
  <2>2. QED
    BY <1>5, <2>1 DEF set_settings, rpcVars, histVars
<1>6. CASE UNCHANGED vars
  BY <1>6, <1>a DEF vars, rpcVars, histVars
<1>7. QED
  BY <1>1, <1>2, <1>3, <1>4, <1>5, <1>6 DEF Next, Call

\* The cache and the daemon's settings are settings, the feed carries settings,
\* and every request is one that a setter makes, for any relay list and any
\* interleaving with other clients.
THEOREM TypeCorrect == Spec => []TypeOK
<1>1. Init => CallTypes
  <2> SUFFICES ASSUME Init PROVE CallTypes
    OBVIOUS
  <2>1. Operations!OpTypeOK
    BY StatusType DEF Init, Operations!OpInit, Operations!OpTypeOK, NoOp
  <2>2. attempt \in 1 .. 2
    BY DEF Init
  <2>3. reply \in BOOLEAN /\ current \in BOOLEAN /\ fresh \in BOOLEAN
    BY Zenon DEF Init
  <2>4. QED
    BY <2>1, <2>2, <2>3 DEF CallTypes
<1>2. DataTypes /\ CallTypes => TypeOK
  BY DEF DataTypes, CallTypes, TypeOK
<1>3. QED
  BY <1>1, <1>2, CallTypesStep, TypesHold, PTL DEF Spec

-----------------------------------------------------------------------------
(* What a request says of the daemon's settings while its call runs.       *)

Other == [exit |-> "entry", entry |-> "exit"]

\* The constraints a run has read are the daemon's until somebody else writes.
ReadIsCurrent ==
    (request.part \in RelayParts /\ read # NoRead /\ ~reply /\ fresh) => read = daemon.relay

\* Obfuscation settings computed from a current cache differ from the daemon's
\* in what was asked for at most.
SentIsCurrent ==
    /\ request.part = "mode" =>
          request.sent = [daemon.obfuscation EXCEPT !.mode = request.value]
    /\ request.part = "port" =>
          request.sent = [daemon.obfuscation EXCEPT !.ports[request.mode] = request.value]

\* A pick from a current cache is not where the other node is.
PickIsApart ==
    (request.part \in {"exit", "entry"} /\ daemon.relay # CustomTunnel /\ daemon.relay.multihop) =>
        ~SameLocation(request.value, daemon.relay[Other[request.part]])

WriteInv ==
    awaiting # NoOp =>
        /\ ReadIsCurrent
        /\ current => fresh /\ SentIsCurrent /\ PickIsApart

\* The projections of a cache that equals the daemon's settings
LEMMA CurrentCache ==
    ASSUME DataTypes, settings = daemon
    PROVE  /\ cached_obfuscation = daemon.obfuscation
           /\ daemon.relay # CustomTunnel =>
                 /\ is_multihop_enabled <=> daemon.relay.multihop
                 /\ current_relay_selection = daemon.relay.exit
                 /\ current_entry_relay_selection = daemon.relay.entry
<1>1. settings \in Settings /\ settings # NoSettings
  BY RelayAssumption DEF DataTypes
<1>2. daemon.relay # CustomTunnel => daemon.relay.multihop \in BOOLEAN
  BY SettingsFields DEF DataTypes, Constraints
<1>3. QED
  BY <1>1, <1>2 DEF cached_obfuscation, Loaded, HasConstraints, is_multihop_enabled,
                    current_relay_selection, current_entry_relay_selection

\* Every setter computes its request from the cache.
LEMMA RequestSteps ==
    ASSUME DataTypes, UserWrites, settings = daemon,
           NEW op, NEW write, Send(op, write)
    PROVE  SentIsCurrent' /\ PickIsApart'
<1> USE CurrentCache
<1>0. UNCHANGED <<daemon, settings>> /\ request' = write /\ awaiting = NoOp
  BY DEF Send, Operations!Start, NoOp
<1>1. ASSUME NEW l \in Locations, select_relay(l) PROVE SentIsCurrent' /\ PickIsApart'
  <2>1. request' = [part |-> "exit", value |-> l] /\ ~Blocked("exit", l)
    BY <1>1 DEF select_relay, Send
  <2>2. QED
    BY <1>0, <2>1 DEF SentIsCurrent, PickIsApart, Blocked, other_node_selection, Other,
                      SameLocation
<1>2. ASSUME NEW l \in Locations, select_entry_relay(l) PROVE SentIsCurrent' /\ PickIsApart'
  <2>1. request' = [part |-> "entry", value |-> l] /\ ~Blocked("entry", l)
    BY <1>2 DEF select_entry_relay, Send
  <2>2. QED
    BY <1>0, <2>1 DEF SentIsCurrent, PickIsApart, Blocked, other_node_selection, Other,
                      SameLocation
<1>3. ASSUME NEW m, set_anti_censorship_mode(m) PROVE SentIsCurrent' /\ PickIsApart'
  <2>1. request' = [part |-> "mode", value |-> m,
                    sent |-> [daemon.obfuscation EXCEPT !.mode = m]]
    BY <1>3 DEF set_anti_censorship_mode, Send
  <2>2. QED
    BY <1>0, <2>1 DEF SentIsCurrent, PickIsApart
<1>4. ASSUME NEW m, NEW p, set_anti_censorship_port(m, p) PROVE SentIsCurrent' /\ PickIsApart'
  <2>1. request' = [part |-> "port", mode |-> m, value |-> p,
                    sent |-> [daemon.obfuscation EXCEPT !.ports[m] = p]]
    BY <1>4 DEF set_anti_censorship_port, Send
  <2>2. QED
    BY <1>0, <2>1 DEF SentIsCurrent, PickIsApart
<1>5. ASSUME request'.part \in {"multihop", "ip", "override", "clear"}
      PROVE  SentIsCurrent' /\ PickIsApart'
  BY <1>5 DEF SentIsCurrent, PickIsApart
<1>6. CASE toggle_multihop \/ (\E v \in IpVersions : set_ip_version_preference(v))
           \/ (\E h \in Hosts : add_relay_override(h) \/ remove_relay_override(h))
           \/ clear_relay_overrides
  <2>1. request'.part \in {"multihop", "ip", "override", "clear"}
    BY <1>6 DEF toggle_multihop, set_ip_version_preference, add_relay_override,
                remove_relay_override, set_relay_override, clear_relay_overrides, Send
  <2>2. QED
    BY <1>5, <2>1
<1>7. CASE edit_port \/ close_port
  <2>1. UNCHANGED awaiting
    BY <1>7 DEF edit_port, close_port, opVars
  <2>2. awaiting' = op /\ op # NoOp
    BY DEF Send, Operations!Start, NoOp, Operations!NoOp
  <2>3. QED
    BY <1>0, <2>1, <2>2
<1>8. QED
  BY <1>1, <1>2, <1>3, <1>4, <1>6, <1>7 DEF UserWrites, submit_port

\* What the App itself wrote keeps the request true of the daemon.
LEMMA OwnWrite ==
    ASSUME DataTypes, WriteInv, Execute, current
    PROVE  SentIsCurrent' /\ PickIsApart'
<1>0. /\ daemon' = Written(request, read) /\ awaiting # NoOp /\ ~reply
      /\ request.part \in RelayParts => read # NoRead
      /\ UNCHANGED request
  BY ExecuteSteps
<1>1. fresh /\ SentIsCurrent /\ PickIsApart /\ ReadIsCurrent
  BY <1>0 DEF WriteInv
<1>2. request \in Request /\ daemon \in Settings /\ daemon' \in Settings
  BY <1>0, ExecuteSteps DEF DataTypes
<1>3. CASE request.part \in RelayParts
  <2>1. read = daemon.relay /\ read \in Constraints
    BY <1>0, <1>1, <1>3 DEF ReadIsCurrent, DataTypes
  <2>2. daemon' = [daemon EXCEPT !.rev = daemon.rev + 1,
                                 !.relay = [daemon.relay EXCEPT ![request.part] = request.value]]
    BY <1>0, <1>3, <2>1, WrittenParts
  <2>3. daemon'.relay = [daemon.relay EXCEPT ![request.part] = request.value]
    BY <1>2, <2>2 DEF Settings
  <2>4. SentIsCurrent'
    BY <1>0, <1>3 DEF SentIsCurrent, RelayParts
  <2>5. ASSUME request.part \in {"exit", "entry"}, daemon'.relay.multihop
        PROVE  ~SameLocation(request.value, daemon'.relay[Other[request.part]])
    <3>1. daemon.relay.multihop /\ daemon'.relay[Other[request.part]] = daemon.relay[Other[request.part]]
      BY <2>1, <2>3, <2>5 DEF Constraints, Other
    <3>2. daemon.relay # CustomTunnel
      BY <2>1, RelayAssumption
    <3>3. QED
      BY <1>1, <2>5, <3>1, <3>2 DEF PickIsApart
  <2>6. QED
    BY <1>0, <2>4, <2>5 DEF PickIsApart, SameLocation
<1>4. CASE request.part \in {"mode", "port"}
  <2>1. daemon' = [daemon EXCEPT !.rev = daemon.rev + 1, !.obfuscation = request.sent]
    BY <1>4, <1>0, WrittenParts
  <2>2. daemon'.obfuscation = request.sent /\ daemon.obfuscation \in Obfuscation
    BY <1>2, <2>1, SettingsFields DEF Settings
  <2>3. CASE request.part = "mode"
    <3>1. request.sent = [daemon.obfuscation EXCEPT !.mode = request.value]
      BY <1>1, <2>3 DEF SentIsCurrent
    <3>2. [request.sent EXCEPT !.mode = request.value] = request.sent
      BY <2>2, <3>1 DEF Obfuscation
    <3>3. QED
      BY <1>0, <2>2, <2>3, <3>2 DEF SentIsCurrent, PickIsApart
  <2>4. CASE request.part = "port"
    <3>1. request.sent = [daemon.obfuscation EXCEPT !.ports[request.mode] = request.value]
      BY <1>1, <2>4 DEF SentIsCurrent
    <3>2. [request.sent EXCEPT !.ports[request.mode] = request.value] = request.sent
      BY <2>2, <3>1 DEF Obfuscation
    <3>3. QED
      BY <1>0, <2>2, <2>4, <3>2 DEF SentIsCurrent, PickIsApart
  <2>5. QED
    BY <1>4, <2>3, <2>4
<1>5. CASE request.part \notin RelayParts \union {"mode", "port"}
  BY <1>0, <1>5 DEF SentIsCurrent, PickIsApart, RelayParts
<1>6. QED
  BY <1>3, <1>4, <1>5

LEMMA WriteInvStep ==
    ASSUME DataTypes, WriteInv, [Next]_vars
    PROVE  WriteInv'
<1>1. CASE UserWrites
  <2>1. awaiting = NoOp
    BY <1>1, UserSteps
  <2>2. CASE UNCHANGED <<opVars, rpcVars, histVars>>
    BY <2>1, <2>2 DEF WriteInv, opVars
  <2>3. CASE \E op, write : write \in Request /\ write.part # "none" /\ Send(op, write)
    <3>1. PICK op, write : Send(op, write)
      BY <2>3
    <3>2. read' = NoRead /\ fresh' /\ (current' => settings = daemon)
      BY <3>1 DEF Send
    <3>3. ReadIsCurrent'
      BY <3>2 DEF ReadIsCurrent
    <3>4. current' => SentIsCurrent' /\ PickIsApart'
      BY <1>1, <3>1, <3>2, RequestSteps
    <3>5. QED
      BY <3>2, <3>3, <3>4 DEF WriteInv
  <2>4. QED
    BY <1>1, <2>2, <2>3, UserSteps
<1>2. CASE OtherClientWrites
  <2>1. ~current' /\ ~fresh'
    BY <1>2 DEF OtherClientWrites
  <2>2. QED
    BY <2>1 DEF WriteInv, ReadIsCurrent
<1>3. CASE Execute
  <2>1. awaiting # NoOp /\ reply' /\ UNCHANGED <<current, fresh>>
    BY <1>3, ExecuteSteps
  <2>2. ReadIsCurrent'
    BY <2>1 DEF ReadIsCurrent
  <2>3. current => SentIsCurrent' /\ PickIsApart'
    BY <1>3, OwnWrite
  <2>4. QED
    BY <2>1, <2>2, <2>3 DEF WriteInv
<1>4. CASE current_normal_constraints
  <2>1. read' = daemon.relay
        /\ UNCHANGED <<awaiting, daemon, request, reply, current, fresh>>
    BY <1>4 DEF current_normal_constraints, opVars, histVars
  <2>2. QED
    BY <2>1 DEF WriteInv, ReadIsCurrent, SentIsCurrent, PickIsApart
<1>5. CASE with_client_retry
  <2>1. read' = NoRead /\ fresh' /\ UNCHANGED <<awaiting, daemon, request, current>>
    BY <1>5 DEF with_client_retry, opVars
  <2>2. QED
    BY <2>1 DEF WriteInv, ReadIsCurrent, SentIsCurrent, PickIsApart
<1>6. CASE CallReturns \/ CallFails
  <2>1. awaiting' = NoOp
    BY <1>6 DEF CallReturns, CallFails, Operations!Accepted, Operations!Failed, NoOp
  <2>2. QED
    BY <2>1 DEF WriteInv
<1>7. CASE set_settings
  <2>1. awaiting' = NoOp
    BY <1>7 DEF set_settings
  <2>2. QED
    BY <2>1 DEF WriteInv
<1>8. CASE UNCHANGED vars
  <2>1. UNCHANGED <<awaiting, daemon, request, read, reply, current, fresh>>
    BY <1>8 DEF vars, opVars, rpcVars, histVars
  <2>2. QED
    BY <2>1 DEF WriteInv, ReadIsCurrent, SentIsCurrent, PickIsApart
<1>9. QED
  BY <1>1, <1>2, <1>3, <1>4, <1>5, <1>6, <1>7, <1>8 DEF Next, Call

LEMMA RequestsHold == Spec => []WriteInv
<1>1. Init => WriteInv
  BY DEF Init, Operations!OpInit, NoOp, WriteInv
<1>2. QED
  BY <1>1, WriteInvStep, TypesHold, PTL DEF Spec

-----------------------------------------------------------------------------
(* The writes.                                                             *)

LEMMA OnlyExecuteWrites ==
    ASSUME DataTypes, [Next]_vars, Executed
    PROVE  Execute
<1> USE DEF Executed
<1>1. CASE UserWrites
  BY <1>1, UserSteps
<1>2. CASE OtherClientWrites \/ UNCHANGED vars
  BY <1>2 DEF OtherClientWrites, vars, rpcVars
<1>3. CASE current_normal_constraints \/ with_client_retry \/ CallReturns \/ CallFails
  BY <1>3 DEF current_normal_constraints, with_client_retry, CallReturns, CallFails
<1>4. CASE set_settings
  BY <1>4 DEF set_settings
<1>5. QED
  BY <1>1, <1>2, <1>3, <1>4 DEF Next, Call

\* Each write of the relay and obfuscation settings is the one edit the user
\* asked for, done to the daemon's settings of that instant: write_location and
\* its siblings as if their two calls were one whenever nobody else wrote since
\* the run began, the obfuscation setters when the cache was current.
THEOREM SingleEdits == Spec => WritesAreSingleEdits
<1>1. ASSUME DataTypes, WriteInv, [Next]_vars, Executed,
             IF request.part \in RelayParts THEN fresh ELSE current
      PROVE  daemon' = Asked
  <2>0. /\ daemon' = Written(request, read) /\ awaiting # NoOp /\ ~reply
        /\ request.part \in RelayParts => read # NoRead
    BY <1>1, OnlyExecuteWrites, ExecuteSteps
  <2>1. CASE request.part \in RelayParts
    <3>1. read = daemon.relay
      BY <1>1, <2>0, <2>1 DEF WriteInv, ReadIsCurrent
    <3>2. daemon' = [daemon EXCEPT !.rev = daemon.rev + 1,
                                   !.relay = [daemon.relay EXCEPT ![request.part] = request.value]]
      BY <2>0, <2>1, <3>1, WrittenParts
    <3>3. daemon.relay # CustomTunnel
      BY <1>1, <2>0, <2>1, <3>1, RelayAssumption DEF DataTypes
    <3>4. Asked = [daemon EXCEPT !.rev = daemon.rev + 1, !.relay[request.part] = request.value]
      BY <2>1, <3>3 DEF Asked, RelayParts
    <3>5. [daemon EXCEPT !.rev = daemon.rev + 1].relay = daemon.relay
      BY <1>1 DEF DataTypes, Settings
    <3>6. QED
      BY <3>2, <3>4, <3>5
  <2>2. CASE request.part \in {"mode", "port"}
    <3>1. SentIsCurrent
      BY <1>1, <2>0, <2>2 DEF WriteInv, RelayParts
    <3>2. daemon' = [daemon EXCEPT !.rev = daemon.rev + 1, !.obfuscation = request.sent]
      BY <2>0, <2>2, WrittenParts
    <3>3. QED
      BY <2>2, <3>1, <3>2 DEF Asked, RelayParts, SentIsCurrent
  <2>3. CASE request.part \notin RelayParts \union {"mode", "port"}
    BY <2>0, <2>3 DEF Asked
  <2>4. QED
    BY <2>1, <2>2, <2>3
<1>2. DataTypes /\ WriteInv /\ [Next]_vars =>
        [(Executed /\ (IF request.part \in RelayParts THEN fresh ELSE current)) =>
            daemon' = Asked]_vars
  BY <1>1
<1>3. QED
  BY <1>2, TypesHold, RequestsHold, PTL DEF Spec, WritesAreSingleEdits

LEMMA SameLocationBothWays ==
    ASSUME NEW a \in Locations, NEW b, b = AnyLocation \/ b \in Locations, SameLocation(b, a)
    PROVE  SameLocation(a, b)
BY RelayAssumption DEF SameLocation, AnyLocation

\* A pick made on a current cache with multihop on leaves the entry and the
\* exit at different locations, retries included (other_node_selection, the
\* radio rows of select_location.rs, write_location).
THEOREM PicksStayApart == Spec => PicksKeepNodesApart
<1>1. ASSUME DataTypes, WriteInv, [Next]_vars, Executed, current,
             request.part \in {"exit", "entry"}, daemon.relay.multihop
      PROVE  NodesApart(daemon')
  <2>0. /\ Execute /\ daemon' = Written(request, read) /\ awaiting # NoOp /\ ~reply
        /\ read # NoRead /\ UNCHANGED request
    BY <1>1, OnlyExecuteWrites, ExecuteSteps DEF RelayParts
  <2>1. read = daemon.relay /\ daemon.relay \in Constraints
    BY <1>1, <2>0 DEF WriteInv, ReadIsCurrent, RelayParts, DataTypes
  <2>2. PickIsApart' /\ request.value \in Locations /\ daemon' \in Settings
    BY <1>1, <2>0, OwnWrite, ExecuteSteps, RequestFacts DEF DataTypes
  <2>3. daemon' = [daemon EXCEPT !.rev = daemon.rev + 1,
                                 !.relay = [daemon.relay EXCEPT ![request.part] = request.value]]
    BY <1>1, <2>0, <2>1, WrittenParts DEF RelayParts
  <2>4. daemon'.relay = [daemon.relay EXCEPT ![request.part] = request.value]
    BY <2>3 DEF DataTypes, Settings
  <2>5. daemon'.relay \in Constraints /\ daemon'.relay[request.part] = request.value
    BY <1>1, <2>1, <2>2, <2>4 DEF Constraints
  <2>6. daemon'.relay.multihop => ~SameLocation(request.value, daemon'.relay[Other[request.part]])
    <3>1. daemon'.relay # CustomTunnel
      BY <2>5, RelayAssumption
    <3>2. QED
      BY <1>1, <2>0, <2>2, <3>1 DEF PickIsApart, SameLocation
  <2>7. CASE request.part = "entry"
    BY <2>5, <2>6, <2>7 DEF NodesApart, Other
  <2>8. CASE request.part = "exit"
    <3>1. daemon'.relay.entry = AnyLocation \/ daemon'.relay.entry \in Locations
      BY <2>5 DEF Constraints
    <3>2. daemon'.relay.multihop => ~SameLocation(request.value, daemon'.relay.entry)
      BY <2>6, <2>8 DEF Other
    <3>3. daemon'.relay.multihop => ~SameLocation(daemon'.relay.entry, request.value)
      BY <2>2, <3>1, <3>2, SameLocationBothWays
    <3>4. QED
      BY <2>5, <2>8, <3>3 DEF NodesApart
  <2>9. QED
    BY <1>1, <2>7, <2>8
<1>2. DataTypes /\ WriteInv /\ [Next]_vars =>
        [(/\ Executed /\ current
          /\ request.part \in {"exit", "entry"}
          /\ daemon.relay.multihop) =>
            NodesApart(daemon')]_vars
  BY <1>1
<1>3. QED
  BY <1>2, TypesHold, RequestsHold, PTL DEF Spec, PicksKeepNodesApart
=============================================================================
