------------------------- MODULE SettingsSyncProofs -------------------------
(***************************************************************************)
(* Proofs about module SettingsSync, for any settings, number of writes    *)
(* and lengths of the feed: the cache catches up with the daemon, never    *)
(* goes back, and a setter that waits for its push waits for one that is   *)
(* still to come.                                                          *)
(***************************************************************************)
EXTENDS SettingsSync, SequenceLemmas

-----------------------------------------------------------------------------
(* Sets of operations.                                                     *)

LEMMA OperationFacts ==
    /\ NoOp \notin Operations!Operation
    /\ SettingsOps \subseteq Operations!PushOps
    /\ Operations!PushOps \subseteq Operations!Operation
    /\ OtherOp \in Operations!PullOps
    /\ OtherOp \in Operations!Operation
    /\ OtherOp \notin Operations!PushOps
    /\ Toggles \subseteq SettingsOps
    /\ {"SetMtu", "ToggleDnsBlocker", "ToggleCustomDns", "AddCustomDns",
        "RemoveCustomDns", "ReplaceCustomDns", "ToggleAccessMethod"} \subseteq SettingsOps
BY SettingsAssumption
DEF NoOp, Operations!NoOp, Operations!Operation, Operations!PushOps,
    Operations!PullOps, Operations!TunnelOps, Operations!DeviceOps,
    SettingsOps, Operations!SettingsOps, OtherOp

LEMMA NotLoaded == NoSettings \notin Settings
BY SettingsAssumption

-----------------------------------------------------------------------------
(* What the setters send.                                                  *)

\* One edit of DNS options leaves DNS options.
LEMMA DnsEditType ==
    ASSUME NEW dns \in DnsOptions
    PROVE  OneDnsEdit(dns) \subseteq DnsOptions
<1>0. dns.addresses \in Seq(Servers) /\ dns.blockers \subseteq Blockers /\ dns.custom \in BOOLEAN
  BY DEF DnsOptions
<1>1. ASSUME NEW b \in Blockers
      PROVE  [dns EXCEPT !.blockers = SymDiff(@, {b})] \in DnsOptions
  BY DEF DnsOptions, SymDiff
<1>2. [dns EXCEPT !.custom = ~@] \in DnsOptions
  BY DEF DnsOptions
<1>3. ASSUME NEW a \in Servers
      PROVE  [dns EXCEPT !.addresses = Append(@, a)] \in DnsOptions
  BY DEF DnsOptions
<1>4. ASSUME NEW i \in DOMAIN dns.addresses
      PROVE  [dns EXCEPT !.addresses = RemoveAt(@, i)] \in DnsOptions
  <2>1. RemoveAt(dns.addresses, i) \in Seq(Servers)
    BY <1>0, RemovedRow
  <2>2. QED
    BY <2>1 DEF DnsOptions
<1>5. ASSUME NEW i \in DOMAIN dns.addresses, NEW a \in Servers
      PROVE  [dns EXCEPT !.addresses[i] = a] \in DnsOptions
  <2>1. [dns.addresses EXCEPT ![i] = a] \in Seq(Servers)
    BY <1>0
  <2>2. QED
    BY <2>1 DEF DnsOptions
<1> DEFINE Blocked  == {[dns EXCEPT !.blockers = SymDiff(@, {b})] : b \in Blockers}
<1> DEFINE Switched == {[dns EXCEPT !.custom = ~@]}
<1> DEFINE Added    == {[dns EXCEPT !.addresses = Append(@, a)] : a \in Servers}
<1> DEFINE Removed  == {[dns EXCEPT !.addresses = RemoveAt(@, i)] : i \in DOMAIN dns.addresses}
<1> DEFINE Replaced == {[dns EXCEPT !.addresses[i] = a] :
                           i \in DOMAIN dns.addresses, a \in Servers}
<1>6. OneDnsEdit(dns) = Blocked \union Switched \union Added \union Removed \union Replaced
  BY DEF OneDnsEdit, SymDiff
<1>7. Blocked \subseteq DnsOptions
  BY <1>1
<1>8. Switched \subseteq DnsOptions
  BY <1>2
<1>9. Added \subseteq DnsOptions
  BY <1>3
<1>10. Removed \subseteq DnsOptions
  BY <1>4
<1>11. Replaced \subseteq DnsOptions
  BY <1>5
<1> HIDE DEF Blocked, Switched, Added, Removed, Replaced
<1>12. QED
  BY <1>6, <1>7, <1>8, <1>9, <1>10, <1>11

\* What changes one thing of some settings is a request the daemon knows.
LEMMA OneEditType ==
    ASSUME NEW s \in Settings
    PROVE  OneEdit(s) \subseteq Request
<1>1. s.dns \in DnsOptions
  BY DEF Settings
<1>2. ASSUME NEW t \in Toggles
      PROVE  [part |-> "toggle", toggle |-> t, value |-> t \notin s.on] \in ToggleRequest
  <2>1. (t \notin s.on) \in BOOLEAN
    OBVIOUS
  <2>2. QED
    BY <2>1, Zenon DEF ToggleRequest
<1>3. ASSUME NEW mtu \in ValidMtus
      PROVE  [part |-> "mtu", mtu |-> mtu] \in MtuRequest
  BY DEF MtuRequest
<1>4. ASSUME NEW dns \in OneDnsEdit(s.dns)
      PROVE  [part |-> "dns", dns |-> dns] \in DnsRequest
  BY <1>1, DnsEditType DEF DnsRequest
<1>5. ASSUME NEW m \in Methods, NEW setting,
             setting \in {[s.methods[m] EXCEPT !.enabled = ~@]}
                \union {[s.methods[m] EXCEPT !.detail = d] : d \in Details \ {s.methods[m].detail}}
      PROVE  [part |-> "method", method |-> m, setting |-> setting] \in MethodRequest
  <2>1. s.methods[m] \in AccessMethodSetting
    BY DEF Settings
  <2>2. setting \in AccessMethodSetting
    BY <1>5, <2>1 DEF AccessMethodSetting
  <2>3. QED
    BY <2>2 DEF MethodRequest
<1> DEFINE NewSettings(m) ==
      {[s.methods[m] EXCEPT !.enabled = ~@]}
         \union {[s.methods[m] EXCEPT !.detail = d] : d \in Details \ {s.methods[m].detail}}
<1> DEFINE Switched == {[part |-> "toggle", toggle |-> t, value |-> t \notin s.on] : t \in Toggles}
<1> DEFINE Sized    == {[part |-> "mtu", mtu |-> mtu] : mtu \in ValidMtus}
<1> DEFINE Resolved == {[part |-> "dns", dns |-> dns] : dns \in OneDnsEdit(s.dns)}
<1> DEFINE Reached  ==
      UNION {{[part |-> "method", method |-> m, setting |-> setting] :
                 setting \in NewSettings(m)} : m \in Methods}
<1>6. OneEdit(s) = Switched \union Sized \union Resolved \union Reached
  BY DEF OneEdit
<1>7. Switched \subseteq ToggleRequest
  BY <1>2
<1>8. Sized \subseteq MtuRequest
  BY <1>3
<1>9. Resolved \subseteq DnsRequest
  BY <1>4
<1>10. Reached \subseteq MethodRequest
  BY <1>5
<1> HIDE DEF Switched, Sized, Resolved, Reached
<1>11. QED
  BY <1>6, <1>7, <1>8, <1>9, <1>10, Zenon DEF Request

\* The daemon's settings stay settings, and their revision goes up by one.
LEMMA AppliedType ==
    ASSUME daemon \in Settings, NEW write \in Request, write.part # "none"
    PROVE  Applied(daemon, write) \in Settings /\ Applied(daemon, write).rev = daemon.rev + 1
<1>1. daemon.on \subseteq Toggles /\ daemon.rev \in Nat
  BY DEF Settings
<1>2. PICK next \in Nat : next = daemon.rev + 1
  BY <1>1
<1>3. CASE write \in ToggleRequest
  <2>1. write.part = "toggle" /\ write.toggle \in Toggles
    BY <1>3 DEF ToggleRequest
  <2>2. PICK on \in SUBSET Toggles :
               on = IF write.value THEN daemon.on \union {write.toggle}
                                   ELSE daemon.on \ {write.toggle}
    BY <1>1, <2>1
  <2>3. Applied(daemon, write) = [daemon EXCEPT !.rev = next, !.on = on]
    BY <1>2, <2>1, <2>2 DEF Applied
  <2>4. QED
    BY <1>2, <2>3 DEF Settings
<1>4. CASE write \in MtuRequest
  <2>1. write.part = "mtu" /\ write.mtu \in ValidMtus
    BY <1>4 DEF MtuRequest
  <2>2. Applied(daemon, write) = [daemon EXCEPT !.rev = next, !.mtu = write.mtu]
    BY <1>2, <2>1 DEF Applied
  <2>3. QED
    BY <1>2, <2>1, <2>2 DEF Settings
<1>5. CASE write \in DnsRequest
  <2>1. write.part = "dns" /\ write.dns \in DnsOptions
    BY <1>5 DEF DnsRequest
  <2>2. Applied(daemon, write) = [daemon EXCEPT !.rev = next, !.dns = write.dns]
    BY <1>2, <2>1 DEF Applied
  <2>3. QED
    BY <1>2, <2>1, <2>2 DEF Settings
<1>6. CASE write \in MethodRequest
  <2>1. /\ write.part = "method" /\ write.method \in Methods
        /\ write.setting \in AccessMethodSetting
    BY <1>6 DEF MethodRequest
  <2>2. PICK methods \in [Methods -> AccessMethodSetting] :
               methods = [daemon.methods EXCEPT ![write.method] = write.setting]
    BY <2>1 DEF Settings
  <2>3. Applied(daemon, write) = [daemon EXCEPT !.rev = next, !.methods = methods]
    BY <1>2, <2>1, <2>2 DEF Applied
  <2>4. QED
    BY <1>2, <2>3 DEF Settings
<1>7. QED
  BY <1>3, <1>4, <1>5, <1>6 DEF Request, NoRequest

\* The setters read the cache, or the defaults before it is loaded.
LEMMA CachedDns ==
    ASSUME settings \in Settings \union {NoSettings}
    PROVE  /\ cached_dns_options \in DnsOptions
           /\ custom_dns_addresses = cached_dns_options.addresses
           /\ Loaded => settings \in Settings /\ cached_dns_options = settings.dns
BY DEF cached_dns_options, custom_dns_addresses, Loaded, Settings, DnsOptions

EditTypeOK ==
    /\ edit_index \in Nat
    /\ edit_shown \in Servers \union {NoServer}

\* A write does to the cached settings what was asked for.
Meets(write, ask) ==
    (Loaded /\ RowStands(settings, ask)) => Applied(settings, write) = Done(settings, ask)

\* What a step of the user does: it sends a request that, once the cache is
\* loaded, does what was asked for to what the cache shows; or its argument is
\* refused; or it only opens or closes the edit modal.
Sends ==
    \E op \in SettingsOps, write \in Request, ask \in Ask :
        /\ Send(op, write, ask)
        /\ write.part # "none"
        /\ Meets(write, ask)

Refuses == \E op \in SettingsOps : Refuse(op)

Looks == UNCHANGED <<opVars, feedVars, daemon, settings, rpcVars, histVars>>

\* Every setter of app/settings.rs is of this form.
LEMMA DnsSetters ==
    ASSUME settings \in Settings \union {NoSettings},
           NEW op \in SettingsOps, NEW dns, NEW ask \in Ask, SendDns(op, dns, ask),
           dns \in OneDnsEdit(cached_dns_options),
           (Loaded /\ RowStands(settings, ask)) =>
               Done(settings, ask) = [settings EXCEPT !.rev = @ + 1, !.dns = dns]
    PROVE  Sends
<1> DEFINE write == [part |-> "dns", dns |-> dns]
<1>1. write \in Request /\ write.part # "none"
  BY CachedDns, DnsEditType DEF Request, DnsRequest
<1>2. Applied(settings, write) = [settings EXCEPT !.rev = @ + 1, !.dns = dns]
  BY DEF Applied
<1>3. Meets(write, ask)
  BY <1>2 DEF Meets
<1>4. QED
  BY <1>1, <1>3 DEF Sends, SendDns

LEMMA UserSteps ==
    ASSUME settings \in Settings \union {NoSettings}, EditTypeOK, UserWrites
    PROVE  (Sends \/ Refuses \/ Looks) /\ EditTypeOK'
<1> USE OperationFacts, CachedDns
<1>0. {[cached_dns_options EXCEPT !.blockers = SymDiff(@, {b})] : b \in Blockers}
         \subseteq OneDnsEdit(cached_dns_options)
  BY DEF OneDnsEdit, SymDiff
<1>1. ASSUME NEW t \in Toggles, settings_toggle(t) PROVE Sends
  <2> DEFINE write == [part |-> "toggle", toggle |-> t, value |-> ~(Loaded /\ t \in settings.on)]
  <2> DEFINE ask == [what |-> "toggle", toggle |-> t]
  <2>1. write \in Request /\ write.part = "toggle"
    BY DEF ToggleRequest, Request
  <2>2. ask \in Ask
    BY DEF Ask
  <2>3. ASSUME Loaded PROVE Applied(settings, write) = Done(settings, ask)
    <3>1. (IF ~(Loaded /\ t \in settings.on) THEN settings.on \union {t}
                                             ELSE settings.on \ {t}) = SymDiff(settings.on, {t})
      BY <2>3 DEF SymDiff
    <3>2. QED
      BY <3>1 DEF Applied, Done
  <2>4. Meets(write, ask)
    BY <2>3 DEF Meets
  <2>5. QED
    BY <1>1, <2>1, <2>2, <2>4 DEF settings_toggle, Sends
<1>2. ASSUME NEW mtu \in Mtus, commit_pending_mtu(mtu) PROVE Sends \/ Refuses
  <2> DEFINE write == [part |-> "mtu", mtu |-> mtu]
  <2> DEFINE ask == [what |-> "mtu", mtu |-> mtu]
  <2>1. CASE mtu \in ValidMtus /\ Send("SetMtu", write, ask)
    <3>1. write \in MtuRequest /\ write.part = "mtu" /\ ask \in Ask
      BY <2>1 DEF MtuRequest, Ask
    <3>2. Meets(write, ask)
      BY DEF Meets, Applied, Done
    <3>3. QED
      BY <2>1, <3>1, <3>2 DEF Sends, Request
  <2>2. CASE Refuse("SetMtu")
    BY <2>2 DEF Refuses
  <2>3. QED
    BY <1>2, <2>1, <2>2 DEF commit_pending_mtu
<1>3. ASSUME NEW b \in Blockers, toggle_dns_blocker(b) PROVE Sends
  <2> DEFINE ask == [what |-> "blocker", blocker |-> b]
  <2> DEFINE dns ==
        [cached_dns_options EXCEPT
            !.blockers = IF b \notin cached_dns_options.blockers
                         THEN @ \union {b} ELSE @ \ {b}]
  <2>1. dns = [cached_dns_options EXCEPT !.blockers = SymDiff(@, {b})]
    BY DEF SymDiff, DnsOptions
  <2>2. SendDns("ToggleDnsBlocker", dns, ask) /\ ask \in Ask
    BY <1>3 DEF toggle_dns_blocker, set_dns_blocker, Ask
  <2>3. dns \in OneDnsEdit(cached_dns_options)
    BY <1>0, <2>1
  <2>4. Loaded => Done(settings, ask) = [settings EXCEPT !.rev = @ + 1, !.dns = dns]
    BY <2>1 DEF Done
  <2> HIDE DEF dns, ask
  <2>5. QED
    BY <2>2, <2>3, <2>4, DnsSetters
<1>4. ASSUME toggle_custom_dns PROVE Sends
  <2> DEFINE ask == [what |-> "custom"]
  <2> DEFINE dns == [cached_dns_options EXCEPT !.custom = ~@]
  <2>1. SendDns("ToggleCustomDns", dns, ask) /\ ask \in Ask
    BY <1>4 DEF toggle_custom_dns, Ask
  <2>2. dns \in OneDnsEdit(cached_dns_options)
    BY DEF OneDnsEdit
  <2>3. Loaded => Done(settings, ask) = [settings EXCEPT !.rev = @ + 1, !.dns = dns]
    BY DEF Done
  <2> HIDE DEF dns, ask
  <2>4. QED
    BY <2>1, <2>2, <2>3, DnsSetters
<1>5. ASSUME NEW a \in Servers, add_custom_dns(a) PROVE Sends
  <2> DEFINE ask == [what |-> "add", address |-> a]
  <2> DEFINE dns == [cached_dns_options EXCEPT !.addresses = Append(@, a)]
  <2>1. SendDns("AddCustomDns", dns, ask) /\ ask \in Ask
    BY <1>5 DEF add_custom_dns, Ask
  <2>2. dns \in OneDnsEdit(cached_dns_options)
    <3>1. {[cached_dns_options EXCEPT !.addresses = Append(@, r)] : r \in Servers}
             \subseteq OneDnsEdit(cached_dns_options)
      BY DEF OneDnsEdit, SymDiff
    <3>2. QED
      BY <3>1
  <2>3. Loaded => Done(settings, ask) = [settings EXCEPT !.rev = @ + 1, !.dns = dns]
    BY DEF Done
  <2> HIDE DEF dns, ask
  <2>4. QED
    BY <2>1, <2>2, <2>3, DnsSetters
<1>6. ASSUME NEW idx \in 1 .. MaxServers, remove_custom_dns(idx) PROVE Sends
  <2> DEFINE ask == [what |-> "remove", row |-> idx]
  <2> DEFINE dns == [cached_dns_options EXCEPT !.addresses = RemoveAt(@, idx)]
  <2>1. SendDns("RemoveCustomDns", dns, ask) /\ ask \in Ask
    BY <1>6 DEF remove_custom_dns, Ask
  <2>2. idx \in DOMAIN cached_dns_options.addresses
    BY <1>6 DEF remove_custom_dns, DnsOptions
  <2>3. dns \in OneDnsEdit(cached_dns_options)
    BY <2>2 DEF OneDnsEdit
  <2>4. Loaded => Done(settings, ask) = [settings EXCEPT !.rev = @ + 1, !.dns = dns]
    BY DEF Done
  <2> HIDE DEF dns, ask
  <2>5. QED
    BY <2>1, <2>3, <2>4, DnsSetters
<1>7. ASSUME NEW a \in Servers, replace_custom_dns(a) PROVE Sends \/ Refuses
  <2> DEFINE ask == [what |-> "replace", row |-> edit_index, shown |-> edit_shown, address |-> a]
  <2> DEFINE dns == [cached_dns_options EXCEPT !.addresses[edit_index] = a]
  <2>1. CASE /\ edit_index # 0
             /\ edit_index <= Len(custom_dns_addresses)
             /\ SendDns("ReplaceCustomDns", dns, ask)
    <3>1. edit_index \in DOMAIN cached_dns_options.addresses
      BY <2>1 DEF EditTypeOK, DnsOptions
    <3>2. {[cached_dns_options EXCEPT !.addresses[i] = r] :
               i \in DOMAIN cached_dns_options.addresses, r \in Servers}
             \subseteq OneDnsEdit(cached_dns_options)
      BY DEF OneDnsEdit, SymDiff
    <3>3. dns \in OneDnsEdit(cached_dns_options)
      BY <3>1, <3>2
    <3>4. ask \in Ask
      BY DEF Ask, EditTypeOK
    <3>5. RowStands(settings, ask) => PickedRow(settings, ask) = edit_index
      BY DEF RowStands, PickedRow
    <3>6. (Loaded /\ RowStands(settings, ask)) =>
             Done(settings, ask) = [settings EXCEPT !.rev = @ + 1, !.dns = dns]
      BY <3>5 DEF Done
    <3> HIDE DEF dns, ask
    <3>7. QED
      BY <2>1, <3>3, <3>4, <3>6, DnsSetters
  <2>2. CASE Refuse("ReplaceCustomDns")
    BY <2>2 DEF Refuses
  <2>3. QED
    BY <1>7, <2>1, <2>2 DEF replace_custom_dns
<1>8. ASSUME NEW m \in Methods, toggle_access_method(m) PROVE Sends
  <2> DEFINE ask == [what |-> "method", method |-> m]
  <2> DEFINE setting == [settings.methods[m] EXCEPT !.enabled = ~@]
  <2> DEFINE write == [part |-> "method", method |-> m, setting |-> setting]
  <2>1. Send("ToggleAccessMethod", write, ask) /\ Loaded /\ ask \in Ask
    BY <1>8 DEF toggle_access_method, Ask
  <2>2. settings.methods[m] \in AccessMethodSetting
    BY <2>1 DEF Loaded, Settings
  <2>3. write \in Request /\ write.part = "method"
    BY <2>2 DEF AccessMethodSetting, MethodRequest, Request
  <2>4. Applied(settings, write) = Done(settings, ask)
    BY DEF Applied, Done
  <2>5. Meets(write, ask)
    BY <2>4 DEF Meets
  <2> HIDE DEF write, ask
  <2>6. QED
    BY <2>1, <2>3, <2>5 DEF Sends
<1>9. ASSUME NEW idx \in 1 .. MaxServers, open_edit(idx) PROVE Looks /\ EditTypeOK'
  <2>1. custom_dns_addresses \in Seq(Servers)
    BY DEF DnsOptions
  <2>2. QED
    BY <1>9, <2>1 DEF open_edit, Looks, EditTypeOK
<1>10. CASE close_edit
  BY <1>10 DEF close_edit, ModalCloses, Looks, EditTypeOK
<1>11. UNCHANGED editVars => EditTypeOK'
  BY DEF editVars, EditTypeOK
<1>12. (\E a \in Servers : replace_custom_dns(a)) => EditTypeOK'
  BY DEF replace_custom_dns, ModalCloses, EditTypeOK
<1>13. QED
  BY <1>1, <1>2, <1>3, <1>4, <1>5, <1>6, <1>7, <1>8, <1>9, <1>10, <1>11, <1>12
  DEF UserWrites, settings_toggle, commit_pending_mtu, toggle_dns_blocker,
      set_dns_blocker, toggle_custom_dns, add_custom_dns, remove_custom_dns,
      toggle_access_method

-----------------------------------------------------------------------------
(* Types, and what is being sent.                                          *)

\* While a setter is awaited its request is a real one and, if the cache is
\* loaded, does to what the cache shows what the user asked for: nothing writes
\* the cache while a handler holds the run loop.
RequestIsWhatWasAsked ==
    awaiting \in SettingsOps => request.part # "none" /\ Meets(request, asked)

LEMMA StatusType ==
    ASSUME NEW state \in {"Idle", "Running", "Success", "Failed"},
           NEW op \in Operations!Operation \union {NoOp}
    PROVE  /\ Operations!Status(state, op) \in Operations!OperationStatus
           /\ Operations!Status(state, op).state = state
           /\ Operations!Status(state, op).op = op
BY DEF Operations!Status, Operations!OperationStatus, NoOp

\* What a write of the daemon does to the feed.
LEMMA WriteEffect ==
    ASSUME TypeOK, NEW write \in Request, write.part # "none", DaemonWrites(write)
    PROVE  /\ daemon' \in Settings
           /\ daemon'.rev = daemon.rev + 1
           /\ events' = IF subscribed THEN Append(events, daemon') ELSE events
           /\ events' \in Seq(Settings)
           /\ UNCHANGED subscribed
           /\ missed' = ~subscribed
           /\ subscribed => events' # <<>>
<1>1. daemon' \in Settings /\ daemon'.rev = daemon.rev + 1
  BY AppliedType DEF TypeOK, DaemonWrites
<1>2. /\ events' = IF subscribed THEN Append(events, daemon') ELSE events
      /\ UNCHANGED subscribed
      /\ missed' = ~subscribed
  BY DEF DaemonWrites, Feed!Publish
<1>3. events \in Seq(Settings)
  BY DEF TypeOK, Feed!FeedTypeOK
<1>4. Append(events, daemon') \in Seq(Settings) /\ Append(events, daemon') # <<>>
  BY <1>1, <1>3, PublishedFeed
<1>5. events' \in Seq(Settings)
  BY <1>2, <1>3, <1>4
<1>6. subscribed => events' # <<>>
  BY <1>2, <1>4, Zenon
<1>7. QED
  BY <1>1, <1>2, <1>5, <1>6

LEMMA OtherClientEffect ==
    ASSUME TypeOK, OtherClientWrites
    PROVE  \E write \in Request : write.part # "none" /\ DaemonWrites(write)
<1>1. PICK write \in OneEdit(daemon) : DaemonWrites(write)
  BY DEF OtherClientWrites
<1>2. write \in Request
  BY OneEditType DEF TypeOK
<1>3. write.part # "none"
  BY DEF OneEdit
<1>4. QED
  BY <1>1, <1>2, <1>3

LEMMA NothingSent == [part |-> "none"] \in Request /\ [what |-> "nothing"] \in Ask
<1>1. [part |-> "none"] \in NoRequest
  BY DEF NoRequest
<1>2. [what |-> "nothing"] \in [what : {"custom", "nothing"}]
  OBVIOUS
<1>3. QED
  BY <1>1, <1>2, Zenon DEF Request, Ask

LEMMA InitTypes == Init => TypeOK /\ RequestIsWhatWasAsked
<1> SUFFICES ASSUME Init PROVE TypeOK /\ RequestIsWhatWasAsked
  OBVIOUS
<1>1. Operations!OpTypeOK /\ awaiting = NoOp
  BY StatusType DEF Init, Operations!OpInit, Operations!OpTypeOK, NoOp
<1>2. daemon \in Settings
  <2>1. PICK methods \in [Methods -> [enabled : {TRUE}, detail : Details]] :
           daemon = [on |-> {}, mtu |-> NoMtu, rev |-> 1,
                     dns |-> [blockers |-> {}, custom |-> FALSE, addresses |-> InitialServers],
                     methods |-> methods]
    <3>1. daemon.methods \in [Methods -> [enabled : {TRUE}, detail : Details]]
      BY DEF Init
    <3>2. daemon.dns = [blockers |-> {}, custom |-> FALSE, addresses |-> InitialServers]
      BY DEF Init
    <3>3. QED
      BY <3>1, <3>2 DEF Init
  <2>2. \A m \in Methods : methods[m] \in AccessMethodSetting
    BY DEF AccessMethodSetting
  <2>3. methods \in [Methods -> AccessMethodSetting]
    BY <2>2
  <2>4. QED
    BY <2>1, <2>3, SettingsAssumption DEF Settings, DnsOptions
<1>3. request \in Request
  BY DEF Init, Request
<1>4. Feed!FeedTypeOK
  BY DEF Init, Feed!FeedInit, Feed!FeedTypeOK
<1>5. RequestIsWhatWasAsked /\ asked \in Ask
  BY <1>1, OperationFacts DEF Init, RequestIsWhatWasAsked, Ask
<1>6. attempt \in 1 .. 2
  BY DEF Init
<1>7. settings \in Settings \union {NoSettings}
  BY <1>2 DEF Init
<1>8. reply \in BOOLEAN /\ clean \in BOOLEAN /\ missed \in BOOLEAN
  BY DEF Init
<1>9. edit_index \in Nat /\ edit_shown \in Servers \union {NoServer} /\ confirms \in Nat
  BY DEF Init
<1>10. QED
  BY <1>1, <1>2, <1>3, <1>4, <1>5, <1>6, <1>7, <1>8, <1>9 DEF TypeOK

LEMMA StepTypes ==
    ASSUME TypeOK, RequestIsWhatWasAsked, [Next]_vars
    PROVE  TypeOK' /\ RequestIsWhatWasAsked'
<1> USE OperationFacts, StatusType
<1> USE DEF TypeOK, opVars, feedVars, rpcVars, editVars, histVars
<1>a. UNCHANGED opVars => Operations!OpTypeOK'
  BY DEF Operations!OpTypeOK
<1>b. UNCHANGED feedVars => Feed!FeedTypeOK'
  BY DEF Feed!FeedTypeOK
<1>c. UNCHANGED <<awaiting, request, asked, settings>> => RequestIsWhatWasAsked'
  BY DEF RequestIsWhatWasAsked, Meets, Loaded
<1>d. awaiting' \notin SettingsOps => RequestIsWhatWasAsked'
  BY DEF RequestIsWhatWasAsked
<1>1. CASE UserWrites
  <2>0. EditTypeOK' /\ (Sends \/ Refuses \/ Looks)
    BY <1>1, UserSteps DEF EditTypeOK
  <2>1. CASE Sends
    <3>1. PICK op \in SettingsOps, write \in Request, ask \in Ask :
             /\ Send(op, write, ask)
             /\ write.part # "none"
             /\ Meets(write, ask)
      BY <2>1 DEF Sends
    <3>2. Operations!OpTypeOK'
      BY <3>1 DEF Send, Operations!Start, Operations!OpTypeOK, NoOp,
                  Operations!set_operation_running
    <3>3. RequestIsWhatWasAsked'
      BY <3>1 DEF Send, RequestIsWhatWasAsked, Meets, Loaded
    <3>4. attempt' \in 1 .. 2
      BY <3>1 DEF Send
    <3>5. reply' \in BOOLEAN /\ request' \in Request /\ asked' \in Ask
      BY <3>1 DEF Send
    <3>6. QED
      BY <2>0, <3>1, <3>2, <3>3, <3>4, <3>5, <1>b DEF Send, EditTypeOK
  <2>2. CASE Refuses
    <3>1. PICK op \in SettingsOps : Refuse(op)
      BY <2>2 DEF Refuses
    <3>2. Operations!OpTypeOK' /\ UNCHANGED awaiting
      BY <3>1
      DEF Refuse, Operations!Reject, Operations!OpTypeOK, Operations!set_operation_failed
    <3>3. QED
      BY <2>0, <3>1, <3>2, <1>b, <1>c DEF Refuse, EditTypeOK
  <2>3. CASE Looks
    BY <2>0, <2>3, <1>a, <1>b, <1>c DEF Looks, EditTypeOK
  <2>4. QED
    BY <2>0, <2>1, <2>2, <2>3
<1>2. CASE OtherStarts \/ OtherEnds
  <2>1. Operations!OpTypeOK'
    BY <1>2
    DEF OtherStarts, OtherEnds, Operations!Start, Operations!Completed, Operations!Failed,
        Operations!set_operation_running, Operations!set_operation_success,
        Operations!set_operation_failed, Operations!OpTypeOK, NoOp
  <2>2. awaiting' \notin SettingsOps
    BY <1>2 DEF OtherStarts, OtherEnds, Operations!Start, Operations!Completed,
                Operations!Failed, NoOp
  <2>3. QED
    BY <1>2, <2>1, <2>2, <1>b, <1>d DEF OtherStarts, OtherEnds
<1>3. CASE OtherClientWrites
  <2>1. daemon' \in Settings /\ events' \in Seq(Settings)
        /\ UNCHANGED subscribed /\ missed' \in BOOLEAN
    BY <1>3, OtherClientEffect, WriteEffect DEF Feed!FeedTypeOK
  <2>2. QED
    BY <1>3, <2>1, <1>a, <1>c DEF OtherClientWrites, Feed!FeedTypeOK
<1>4. CASE Execute
  <2>1. DaemonWrites(request) /\ request.part # "none"
    BY <1>4 DEF Execute, RequestIsWhatWasAsked
  <2>2. daemon' \in Settings /\ daemon'.rev \in Nat /\ events' \in Seq(Settings)
        /\ UNCHANGED subscribed /\ missed' \in BOOLEAN
    BY <2>1, WriteEffect DEF Settings, Feed!FeedTypeOK
  <2>3. QED
    BY <1>4, <2>2, <1>a, <1>c DEF Execute, Feed!FeedTypeOK
<1>5. CASE with_client_retry
  <2>1. attempt' \in 1 .. 2
    BY <1>5 DEF with_client_retry
  <2>2. reply' \in BOOLEAN
    BY <1>5 DEF with_client_retry
  <2>3. QED
    BY <1>5, <2>1, <2>2, <1>a, <1>b, <1>c DEF with_client_retry
<1>6. CASE CallReturns \/ CallFails
  <2>1. Operations!OpTypeOK' /\ awaiting' = NoOp
    BY <1>6
    DEF CallReturns, CallFails, Operations!Accepted, Operations!Failed,
        Operations!set_operation_failed, Operations!OpTypeOK, NoOp
  <2>2. CallEnds
    BY <1>6 DEF CallReturns, CallFails
  <2>3. reply' \in BOOLEAN
    BY <2>2 DEF CallEnds
  <2>4. attempt' \in 1 .. 2
    BY <2>2 DEF CallEnds
  <2>5. request' \in Request /\ asked' \in Ask
    BY <2>2, NothingSent DEF CallEnds
  <2>6. QED
    BY <1>6, <2>1, <2>3, <2>4, <2>5, <1>b, <1>d DEF CallReturns, CallFails
<1>7. CASE set_settings
  <2>1. Head(events) \in Settings /\ Tail(events) \in Seq(Settings)
    BY <1>7, ReceivedFeed DEF set_settings, Feed!Receive, Feed!FeedTypeOK
  <2>2. Operations!OpTypeOK'
    BY <1>7
    DEF set_settings, Operations!resolve_pending_for_settings, Operations!Resolve,
        Operations!KeepWaiting, Operations!OpTypeOK, NoOp, SettingsOps
  <2>3. awaiting' \notin SettingsOps
    BY <1>7 DEF set_settings
  <2>4. QED
    BY <1>7, <2>1, <2>2, <2>3, <1>d DEF set_settings, Feed!Receive, Feed!FeedTypeOK
<1>8. CASE FeedBreaks
  <2>1. PICK n \in 0 .. Len(events) : events' = SubSeq(events, 1, n)
    BY <1>8 DEF FeedBreaks, Feed!Break
  <2>2. events' \in Seq(Settings) /\ subscribed' \in BOOLEAN /\ missed' \in BOOLEAN
    BY <1>8, <2>1, BrokenFeed DEF FeedBreaks, Feed!Break, Feed!FeedTypeOK
  <2>3. QED
    BY <1>8, <2>2, <1>a, <1>c DEF FeedBreaks, Feed!FeedTypeOK
<1>9. CASE FeedResumes
  BY <1>9, <1>a, <1>c DEF FeedResumes, Feed!Resubscribe, Feed!FeedTypeOK
<1>10. CASE UNCHANGED vars
  BY <1>10, <1>a, <1>b, <1>c DEF vars
<1>11. QED
  BY <1>1, <1>2, <1>3, <1>4, <1>5, <1>6, <1>7, <1>8, <1>9, <1>10 DEF Next, Call

\* The cache, the daemon's settings and the feed hold settings, the requests
\* and the status line are well formed.
THEOREM TypesHold == Spec => [](TypeOK /\ RequestIsWhatWasAsked)
BY InitTypes, StepTypes, PTL DEF Spec

-----------------------------------------------------------------------------
(* The cache and the feed.                                                 *)

\* Revisions rise from the cache through the feed to the daemon.
RevisionsRise ==
    /\ CacheRev <= daemon.rev
    /\ \A i \in DOMAIN events : CacheRev < events[i].rev /\ events[i].rev <= daemon.rev
    /\ \A i, j \in DOMAIN events : i < j => events[i].rev < events[j].rev

LEMMA RevTypes ==
    ASSUME TypeOK
    PROVE  /\ CacheRev \in Nat /\ daemon.rev \in Nat
           /\ \A i \in DOMAIN events : events[i] \in Settings /\ events[i].rev \in Nat
           /\ settings \in Settings => Loaded /\ CacheRev = settings.rev
<1>1. \A t \in Settings : t.rev \in Nat
  BY DEF Settings
<1>2. daemon \in Settings /\ events \in Seq(Settings) /\ settings \in Settings \union {NoSettings}
  BY DEF TypeOK, Feed!FeedTypeOK
<1>3. settings \in Settings => Loaded /\ CacheRev = settings.rev
  BY NotLoaded DEF Loaded, CacheRev
<1>4. CacheRev \in Nat
  BY <1>1, <1>2 DEF CacheRev, Loaded
<1>5. \A i \in DOMAIN events : events[i] \in Settings
  BY <1>2
<1>6. QED
  BY <1>1, <1>2, <1>3, <1>4, <1>5

\* The steps, by what they do to the cache, the feed and the daemon.
LEMMA FeedSteps ==
    ASSUME TypeOK, RequestIsWhatWasAsked, [Next]_vars
    PROVE  \/ UNCHANGED <<events, daemon, settings, missed>>
           \/ /\ \E write \in Request : write.part # "none" /\ DaemonWrites(write)
              /\ UNCHANGED settings
           \/ set_settings
           \/ FeedBreaks
<1> USE DEF opVars, feedVars, rpcVars, editVars, histVars
<1>1. CASE UserWrites
  <2>1. Sends \/ Refuses \/ Looks
    BY <1>1, UserSteps DEF EditTypeOK, TypeOK
  <2>2. QED
    BY <2>1 DEF Sends, Send, Refuses, Refuse, Looks
<1>2. CASE OtherStarts \/ OtherEnds
  BY <1>2 DEF OtherStarts, OtherEnds
<1>3. CASE OtherClientWrites
  BY <1>3, OtherClientEffect DEF OtherClientWrites
<1>4. CASE Execute
  BY <1>4 DEF Execute, RequestIsWhatWasAsked, TypeOK
<1>5. CASE with_client_retry \/ CallReturns \/ CallFails
  BY <1>5 DEF with_client_retry, CallReturns, CallFails
<1>6. CASE FeedResumes
  BY <1>6 DEF FeedResumes, Feed!Resubscribe
<1>7. CASE UNCHANGED vars
  BY <1>7 DEF vars
<1>8. QED
  BY <1>1, <1>2, <1>3, <1>4, <1>5, <1>6, <1>7 DEF Next, Call

\* Draining the feed still leads to the daemon's settings.
LEMMA CatchesUpStep ==
    ASSUME TypeOK, RequestIsWhatWasAsked, FeedCatchesUp, [Next]_vars
    PROVE  FeedCatchesUp'
<1> USE DEF FeedCatchesUp, Newest
<1>0. events \in Seq(Settings)
  BY DEF TypeOK, Feed!FeedTypeOK
<1>1. CASE UNCHANGED <<events, daemon, settings, missed>>
  BY <1>1
<1>2. ASSUME NEW write \in Request, write.part # "none", DaemonWrites(write)
      PROVE  FeedCatchesUp'
  <2>1. subscribed => events' = Append(events, daemon') /\ daemon' \in Settings
    BY <1>2, WriteEffect
  <2>2. missed' = ~subscribed
    BY <1>2, WriteEffect
  <2>3. CASE subscribed
    <3>1. Append(events, daemon') # <<>> /\ Last(Append(events, daemon')) = daemon'
      BY <1>0, <2>1, <2>3, PublishedFeed
    <3>2. QED
      BY <2>1, <2>3, <3>1, Zenon
  <2>4. QED
    BY <2>2, <2>3
<1>3. CASE set_settings
  <2>1. events # <<>> /\ events' = Tail(events) /\ settings' = Head(events)
        /\ UNCHANGED <<daemon, missed>>
    BY <1>3 DEF set_settings, Feed!Receive, histVars
  <2>2. Newest' = Last(events)
    BY <1>0, <2>1, ReceivedFeed
  <2>3. QED
    BY <2>1, <2>2
<1>4. CASE FeedBreaks
  <2>1. missed' = (missed \/ events' # events) /\ UNCHANGED <<daemon, settings>>
    BY <1>4 DEF FeedBreaks
  <2>2. QED
    BY <2>1
<1>5. QED
  BY <1>1, <1>2, <1>3, <1>4, FeedSteps

\* Revisions keep rising.
LEMMA RevisionsRiseStep ==
    ASSUME TypeOK, RequestIsWhatWasAsked, RevisionsRise, [Next]_vars
    PROVE  RevisionsRise'
<1>0. events \in Seq(Settings) /\ daemon \in Settings
  BY DEF TypeOK, Feed!FeedTypeOK
<1>1. CASE UNCHANGED <<events, daemon, settings, missed>>
  BY <1>1 DEF RevisionsRise, CacheRev, Loaded
<1>2. ASSUME NEW write \in Request, write.part # "none", DaemonWrites(write),
             UNCHANGED settings
      PROVE  RevisionsRise'
  <2>1. daemon' \in Settings /\ daemon'.rev = daemon.rev + 1
    BY <1>2, WriteEffect
  <2>2. CacheRev' = CacheRev
    BY <1>2 DEF CacheRev, Loaded
  <2>3. CASE events' = events
    BY <2>1, <2>2, <2>3, RevTypes DEF RevisionsRise
  <2>4. CASE events' = Append(events, daemon')
    <3>1. /\ DOMAIN events' = DOMAIN events \union {Len(events) + 1}
          /\ \A i \in DOMAIN events : events'[i] = events[i] /\ i < Len(events) + 1
          /\ events'[Len(events) + 1] = daemon'
      BY <1>0, <2>1, <2>4, PublishedFeed
    <3>2. \A i \in DOMAIN events' : CacheRev < events'[i].rev /\ events'[i].rev <= daemon'.rev
      BY <2>1, <3>1, RevTypes DEF RevisionsRise
    <3>3. \A i, j \in DOMAIN events' : i < j => events'[i].rev < events'[j].rev
      BY <1>0, <2>1, <3>1, RevTypes DEF RevisionsRise
    <3>4. QED
      BY <2>1, <2>2, <3>2, <3>3, RevTypes DEF RevisionsRise
  <2>5. QED
    BY <1>2, <2>3, <2>4, WriteEffect
<1>3. CASE set_settings
  <2>1. events # <<>> /\ events' = Tail(events) /\ settings' = Head(events) /\ UNCHANGED daemon
    BY <1>3 DEF set_settings, Feed!Receive
  <2>2. /\ events[1] \in Settings /\ settings' = events[1] /\ 1 \in DOMAIN events
        /\ \A i \in DOMAIN events' :
              i + 1 \in DOMAIN events /\ events'[i] = events[i + 1] /\ 1 < i + 1
    BY <1>0, <2>1, ReceivedFeed
  <2>3. CacheRev' = events[1].rev
    BY <2>2, NotLoaded DEF CacheRev, Loaded
  <2>4. \A i, j \in DOMAIN events' : i < j => i + 1 < j + 1
    BY <1>0, <2>1
  <2>5. QED
    BY <2>1, <2>2, <2>3, <2>4 DEF RevisionsRise
<1>4. CASE FeedBreaks
  <2>1. PICK n \in 0 .. Len(events) : events' = SubSeq(events, 1, n)
    BY <1>4 DEF FeedBreaks, Feed!Break
  <2>2. /\ DOMAIN events' \subseteq DOMAIN events
        /\ \A i \in DOMAIN events' : events'[i] = events[i]
    BY <1>0, <2>1, BrokenFeed
  <2>3. UNCHANGED <<daemon, settings>>
    BY <1>4 DEF FeedBreaks
  <2>4. QED
    BY <2>2, <2>3 DEF RevisionsRise, CacheRev, Loaded
<1>5. QED
  BY <1>1, <1>2, <1>3, <1>4, FeedSteps

FeedInv == TypeOK /\ RequestIsWhatWasAsked /\ FeedCatchesUp /\ RevisionsRise

LEMMA FeedInvHolds == Spec => []FeedInv
<1>1. Init => FeedInv
  <2> SUFFICES ASSUME Init PROVE FeedInv
    OBVIOUS
  <2>1. TypeOK /\ RequestIsWhatWasAsked
    BY InitTypes
  <2>2. FeedCatchesUp
    BY DEF Init, Feed!FeedInit, FeedCatchesUp, Newest
  <2>3. RevisionsRise
    BY <2>1, RevTypes DEF Init, Feed!FeedInit, RevisionsRise, CacheRev, Loaded
  <2>4. QED
    BY <2>1, <2>2, <2>3 DEF FeedInv
<1>2. FeedInv /\ [Next]_vars => FeedInv'
  BY StepTypes, CatchesUpStep, RevisionsRiseStep DEF FeedInv
<1>3. QED
  BY <1>1, <1>2, PTL DEF Spec

\* However many settings, writes, clients and breaks of the stream: unless a
\* push was lost for good, draining the feed makes the cache the daemon's
\* settings (set_settings as the only writer of App.settings).
THEOREM CacheCatchesUp == Spec => []FeedCatchesUp
BY FeedInvHolds, PTL DEF FeedInv

\* The cache never goes back to older settings and never becomes empty again.
THEOREM CacheMovesForward == Spec => CacheNeverGoesBack
<1>1. ASSUME FeedInv, [Next]_vars, settings' # settings
      PROVE  settings' # NoSettings /\ settings'.rev > CacheRev
  <2>1. set_settings
    BY <1>1, FeedSteps DEF FeedInv, FeedBreaks
  <2>2. events # <<>> /\ settings' = Head(events) /\ events \in Seq(Settings)
    BY <1>1, <2>1 DEF set_settings, Feed!Receive, FeedInv, TypeOK, Feed!FeedTypeOK
  <2>3. settings' = events[1] /\ settings' \in Settings /\ 1 \in DOMAIN events
    BY <2>2, ReceivedFeed
  <2>4. QED
    BY <1>1, <2>3, NotLoaded, RevTypes DEF FeedInv, RevisionsRise
<1>2. QED
  BY <1>1, FeedInvHolds, PTL DEF Spec, CacheNeverGoesBack

\* Only the daemon's execution of the awaited call brings a reply.
LEMMA WrittenIsExecuted ==
    ASSUME TypeOK, [Next]_vars, Written
    PROVE  Execute
<1> USE DEF opVars, feedVars, rpcVars, editVars, histVars
<1>0. reply' /\ ~reply
  BY DEF Written
<1>1. CASE UserWrites
  <2>1. Sends \/ Refuses \/ Looks
    BY <1>1, UserSteps DEF EditTypeOK, TypeOK
  <2>2. QED
    BY <1>0, <2>1 DEF Sends, Send, Refuses, Refuse, Looks
<1>2. CASE OtherStarts \/ OtherEnds \/ OtherClientWrites
  BY <1>0, <1>2 DEF OtherStarts, OtherEnds, OtherClientWrites
<1>3. CASE with_client_retry \/ CallReturns \/ CallFails
  BY <1>0, <1>3 DEF with_client_retry, CallReturns, CallFails, CallEnds
<1>4. CASE set_settings \/ FeedBreaks \/ FeedResumes
  BY <1>0, <1>4 DEF set_settings, FeedBreaks, FeedResumes
<1>5. CASE UNCHANGED vars
  BY <1>0, <1>5 DEF vars
<1>6. QED
  BY <1>1, <1>2, <1>3, <1>4, <1>5 DEF Next, Call

\* What the daemon takes while the cache is current does what the user asked
\* for and nothing else, to whichever toggle, blocker, row or access method.
THEOREM FreshWrites == Spec => FreshWriteDoesWhatWasAsked
<1>1. ASSUME FeedInv, [Next]_vars, Written, settings = daemon, RowStands(daemon, asked)
      PROVE  daemon' = Done(daemon, asked)
  <2>1. Loaded
    BY <1>1, NotLoaded DEF FeedInv, TypeOK, Loaded
  <2>2. Applied(daemon, request) = Done(daemon, asked)
    BY <1>1, <2>1 DEF FeedInv, RequestIsWhatWasAsked, Meets, Written
  <2>3. Execute
    BY <1>1, WrittenIsExecuted DEF FeedInv
  <2>4. QED
    BY <2>2, <2>3 DEF Execute, DaemonWrites
<1>2. QED
  BY <1>1, FeedInvHolds, PTL DEF Spec, FreshWriteDoesWhatWasAsked

-----------------------------------------------------------------------------
(* Confirmations.                                                          *)

Running(op) == Operations!Status("Running", op)

\* An accepted write that is not confirmed yet, awaited or pending, has a push
\* on its way unless one was lost; the line shows what is awaited, and nothing
\* is pending meanwhile; Success is shown of what the cache has reached.
PushOutstanding ==
    \/ awaiting \in SettingsOps /\ reply
    \/ pending_push_confirmation \in SettingsOps

AwaitedIsRunning ==
    awaiting # NoOp =>
        operation_status = Running(awaiting) /\ pending_push_confirmation = NoOp

ConfirmInv ==
    /\ confirms <= daemon.rev
    /\ clean => \A i \in DOMAIN events : events[i].rev >= confirms
    /\ PushOutstanding => missed \/ events # <<>>
    /\ AwaitedIsRunning
    /\ SuccessIsVisible

\* The steps that leave the cache, the feed and what was written alone.
LEMMA LineSteps ==
    ASSUME TypeOK, ConfirmInv,
           UNCHANGED <<events, daemon, settings, missed, confirms, clean>>,
           AwaitedIsRunning', PushOutstanding' => PushOutstanding,
           \/ operation_status' = operation_status
           \/ operation_status'.state # "Success"
           \/ operation_status'.op \notin SettingsOps
    PROVE  ConfirmInv'
BY DEF ConfirmInv, SuccessIsVisible, CacheRev, Loaded

LEMMA ConfirmStep ==
    ASSUME FeedInv, FeedInv', ConfirmInv, [Next]_vars
    PROVE  ConfirmInv'
<1> USE OperationFacts, StatusType
<1> USE DEF opVars, feedVars, rpcVars, editVars, histVars, Running
<1>0. TypeOK /\ TypeOK' /\ RequestIsWhatWasAsked /\ RevisionsRise /\ events \in Seq(Settings)
  BY DEF FeedInv, TypeOK, Feed!FeedTypeOK
<1>t. /\ confirms \in Nat /\ daemon.rev \in Nat /\ CacheRev \in Nat
      /\ \A i \in DOMAIN events : events[i].rev \in Nat
  BY <1>0, RevTypes DEF TypeOK
<1>1. CASE UserWrites
  <2>0. Sends \/ Refuses \/ Looks
    BY <1>0, <1>1, UserSteps DEF EditTypeOK, TypeOK
  <2>1. CASE Sends
    <3>1. PICK op \in SettingsOps, write \in Request, ask \in Ask : Send(op, write, ask)
      BY <2>1 DEF Sends
    <3>2. AwaitedIsRunning' /\ ~PushOutstanding' /\ operation_status'.state = "Running"
      BY <3>1
      DEF Send, Operations!Start, Operations!set_operation_running, AwaitedIsRunning,
          PushOutstanding, NoOp
    <3>3. QED
      BY <1>0, <3>1, <3>2, LineSteps DEF Send
  <2>2. CASE Refuses
    <3>1. PICK op \in SettingsOps : Refuse(op)
      BY <2>2 DEF Refuses
    <3>2. /\ AwaitedIsRunning' /\ (PushOutstanding' => PushOutstanding)
          /\ operation_status'.state = "Failed"
      BY <3>1
      DEF Refuse, Operations!Reject, Operations!set_operation_failed, AwaitedIsRunning,
          PushOutstanding, NoOp
    <3>3. QED
      BY <1>0, <3>1, <3>2, LineSteps DEF Refuse
  <2>3. CASE Looks
    <3>1. AwaitedIsRunning' /\ (PushOutstanding' => PushOutstanding)
      BY <2>3 DEF Looks, AwaitedIsRunning, PushOutstanding, ConfirmInv
    <3>2. QED
      BY <1>0, <2>3, <3>1, LineSteps DEF Looks
  <2>4. QED
    BY <2>0, <2>1, <2>2, <2>3
<1>2. CASE OtherStarts \/ OtherEnds
  <2>1. /\ AwaitedIsRunning' /\ (PushOutstanding' => PushOutstanding)
        /\ operation_status'.op \notin SettingsOps
    BY <1>2
    DEF OtherStarts, OtherEnds, Operations!Start, Operations!Completed, Operations!Failed,
        Operations!set_operation_running, Operations!set_operation_success,
        Operations!set_operation_failed, AwaitedIsRunning, PushOutstanding, NoOp
  <2>2. QED
    BY <1>0, <1>2, <2>1, LineSteps DEF OtherStarts, OtherEnds
<1>3. CASE OtherClientWrites
  <2>1. PICK write \in Request : write.part # "none" /\ DaemonWrites(write)
    BY <1>0, <1>3, OtherClientEffect
  <2>2. UNCHANGED <<opVars, reply, settings, confirms, clean>>
    BY <1>3 DEF OtherClientWrites
  <2>3. /\ daemon'.rev = daemon.rev + 1 /\ daemon' \in Settings
        /\ events' = IF subscribed THEN Append(events, daemon') ELSE events
        /\ missed' = ~subscribed
    BY <1>0, <2>1, WriteEffect
  <2>4. \/ events' = events
        \/ /\ events' # <<>>
           /\ DOMAIN events' = DOMAIN events \union {Len(events) + 1}
           /\ \A i \in DOMAIN events : events'[i] = events[i]
           /\ events'[Len(events) + 1] = daemon'
    BY <1>0, <2>3, PublishedFeed
  <2>5. confirms' <= daemon'.rev
    BY <1>t, <2>2, <2>3 DEF ConfirmInv
  <2>6. clean' => \A i \in DOMAIN events' : events'[i].rev >= confirms'
    BY <1>t, <2>2, <2>4, <2>5 DEF ConfirmInv
  <2>7. missed' \/ events' # <<>>
    BY <1>0, <2>1, WriteEffect
  <2>8. AwaitedIsRunning' /\ SuccessIsVisible'
    BY <2>2 DEF ConfirmInv, AwaitedIsRunning, SuccessIsVisible, CacheRev, Loaded
  <2>9. QED
    BY <2>5, <2>6, <2>7, <2>8 DEF ConfirmInv
<1>4. CASE Execute
  <2>1. DaemonWrites(request) /\ request.part # "none" /\ request \in Request
    BY <1>0, <1>4 DEF Execute, RequestIsWhatWasAsked, TypeOK
  <2>2. /\ daemon' \in Settings
        /\ events' = IF subscribed THEN Append(events, daemon') ELSE events
        /\ missed' \/ events' # <<>>
    BY <1>0, <2>1, WriteEffect
  <2>3. confirms' = daemon'.rev /\ clean' = (events = <<>>) /\ UNCHANGED opVars
    BY <1>4 DEF Execute
  <2>4. daemon'.rev \in Nat
    BY <2>2 DEF Settings
  <2>5. ASSUME clean', NEW i \in DOMAIN events' PROVE events'[i] = daemon'
    <3>1. events = <<>> /\ Len(events) = 0
      BY <2>3, <2>5
    <3>2. CASE subscribed
      BY <1>0, <2>2, <2>5, <3>1, <3>2
    <3>3. CASE ~subscribed
      BY <2>2, <2>5, <3>1, <3>3
    <3>4. QED
      BY <3>2, <3>3
  <2>6. awaiting # NoOp /\ operation_status = Running(awaiting)
    BY <1>4 DEF Execute, ConfirmInv, AwaitedIsRunning
  <2>7. AwaitedIsRunning' /\ operation_status'.state # "Success"
    BY <1>0, <2>3, <2>6 DEF ConfirmInv, AwaitedIsRunning, TypeOK, Operations!OpTypeOK
  <2>8. QED
    BY <2>2, <2>3, <2>4, <2>5, <2>7 DEF ConfirmInv, SuccessIsVisible
<1>5. CASE with_client_retry
  <2>1. AwaitedIsRunning' /\ (PushOutstanding' => PushOutstanding)
    BY <1>5 DEF with_client_retry, AwaitedIsRunning, PushOutstanding, ConfirmInv
  <2>2. QED
    BY <1>0, <1>5, <2>1, LineSteps DEF with_client_retry
<1>6. CASE CallReturns \/ CallFails
  <2>1. AwaitedIsRunning' /\ (PushOutstanding' => PushOutstanding)
    BY <1>6
    DEF CallReturns, CallFails, CallEnds, Operations!Accepted, Operations!Failed, NoOp,
        Operations!set_operation_failed, AwaitedIsRunning, PushOutstanding, ConfirmInv
  <2>2. operation_status' = operation_status \/ operation_status'.state = "Failed"
    BY <1>0, <1>6
    DEF CallReturns, CallFails, Operations!Accepted, Operations!Failed, TypeOK,
        Operations!set_operation_failed, Operations!OpTypeOK
  <2>3. QED
    BY <1>0, <1>6, <2>1, <2>2, LineSteps DEF CallReturns, CallFails
<1>7. CASE set_settings
  <2>1. /\ awaiting = NoOp /\ awaiting' = NoOp /\ events # <<>>
        /\ events' = Tail(events) /\ settings' = Head(events)
        /\ UNCHANGED <<daemon, confirms, clean, missed>>
    BY <1>7 DEF set_settings, Feed!Receive
  <2>2. pending_push_confirmation' \notin SettingsOps
    BY <1>7 DEF set_settings, Operations!resolve_pending_for_settings, Operations!Resolve,
                Operations!KeepWaiting, NoOp, SettingsOps
  <2>3. /\ 1 \in DOMAIN events /\ settings' = events[1] /\ settings' \in Settings
        /\ \A i \in DOMAIN events' : i + 1 \in DOMAIN events /\ events'[i] = events[i + 1]
    BY <1>0, <2>1, ReceivedFeed
  <2>4. CacheRev' = events[1].rev /\ CacheRev' > CacheRev
    BY <1>0, <2>3, NotLoaded DEF CacheRev, Loaded, RevisionsRise
  <2>5. SuccessIsVisible'
    <3>1. CASE operation_status' = operation_status
      BY <1>t, <2>1, <2>3, <2>4, <3>1 DEF ConfirmInv, SuccessIsVisible
    <3>2. CASE operation_status' # operation_status
      BY <2>1, <2>3, <2>4 DEF ConfirmInv, SuccessIsVisible
    <3>3. QED
      BY <3>1, <3>2
  <2>6. QED
    BY <2>1, <2>2, <2>3, <2>5 DEF ConfirmInv, PushOutstanding, AwaitedIsRunning
<1>8. CASE FeedBreaks
  <2>1. PICK n \in 0 .. Len(events) : events' = SubSeq(events, 1, n)
    BY <1>8 DEF FeedBreaks, Feed!Break
  <2>2. /\ DOMAIN events' \subseteq DOMAIN events
        /\ \A i \in DOMAIN events' : events'[i] = events[i]
    BY <1>0, <2>1, BrokenFeed
  <2>3. /\ UNCHANGED <<opVars, reply, daemon, settings, confirms, clean>>
        /\ missed' = (missed \/ events' # events)
    BY <1>8 DEF FeedBreaks
  <2>4. QED
    BY <2>2, <2>3
    DEF ConfirmInv, PushOutstanding, AwaitedIsRunning, SuccessIsVisible, CacheRev, Loaded
<1>9. CASE FeedResumes \/ UNCHANGED vars
  <2>1. UNCHANGED <<opVars, reply, events, daemon, settings, missed, confirms, clean>>
    BY <1>9 DEF FeedResumes, Feed!Resubscribe, vars
  <2>2. QED
    BY <2>1
    DEF ConfirmInv, PushOutstanding, AwaitedIsRunning, SuccessIsVisible, CacheRev, Loaded
<1>10. QED
  BY <1>1, <1>2, <1>3, <1>4, <1>5, <1>6, <1>7, <1>8, <1>9 DEF Next, Call

LEMMA ConfirmInvHolds == Spec => [](FeedInv /\ ConfirmInv)
<1>1. Init => ConfirmInv
  BY OperationFacts, InitTypes, RevTypes
  DEF Init, Operations!OpInit, Feed!FeedInit, ConfirmInv, PushOutstanding,
      AwaitedIsRunning, SuccessIsVisible, Operations!Status, NoOp
<1>2. FeedInv /\ FeedInv' /\ ConfirmInv /\ [Next]_vars => ConfirmInv'
  BY ConfirmStep
<1>3. QED
  BY <1>1, <1>2, FeedInvHolds, PTL DEF Spec

\* No order of writes, retries, breaks and pushes leaves the spinner of a
\* settings operation without a push that will stop it, unless it was lost.
THEOREM SpinnersHaveAPush == Spec => []ConfirmationStillComing
<1>1. FeedInv /\ ConfirmInv => ConfirmationStillComing
  <2> SUFFICES ASSUME FeedInv, ConfirmInv, pending_push_confirmation \in SettingsOps, ~missed
               PROVE  \E i \in DOMAIN events : events[i].rev >= confirms
    BY DEF ConfirmationStillComing
  <2>1. events # <<>> /\ events \in Seq(Settings)
    BY DEF ConfirmInv, PushOutstanding, FeedInv, TypeOK, Feed!FeedTypeOK
  <2>2. Len(events) \in DOMAIN events /\ Last(events) = events[Len(events)]
    BY <2>1, LastOfFeed
  <2>3. Last(events) = daemon
    BY <2>1 DEF FeedInv, FeedCatchesUp, Newest
  <2>4. daemon.rev >= confirms
    BY RevTypes DEF ConfirmInv, FeedInv, TypeOK
  <2>5. QED
    BY <2>2, <2>3, <2>4
<1>2. QED
  BY <1>1, ConfirmInvHolds, PTL

\* Success is shown of a write whose effect the cache has reached, if no older
\* push was on its way when the daemon took it.
THEOREM SuccessIsEarned == Spec => []SuccessIsVisible
BY ConfirmInvHolds, PTL DEF ConfirmInv
=============================================================================
