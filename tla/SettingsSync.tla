---------------------------- MODULE SettingsSync ----------------------------
(***************************************************************************)
(* The cached daemon settings of the App and the methods of                *)
(* app/settings.rs that write them: each computes the new value from the   *)
(* cache, sends it, and leaves the cache to the SettingsChanged push       *)
(* (app/settings.rs, app/connection.rs, apply_app_event of tui/mod.rs).    *)
(*                                                                         *)
(* The daemon is external: it applies a write, numbers the resulting       *)
(* settings and pushes the whole of them once.  Other clients write too.   *)
(* A call follows with_client of integration/rpc.rs: when its transport    *)
(* fails it is repeated once, whether or not the daemon had executed it.   *)
(***************************************************************************)
EXTENDS Naturals, Sequences, SequencesExt

CONSTANTS
    Toggles,        \* boolean settings, named by the operation that flips them
    Blockers,       \* DnsBlocker
    Servers,        \* custom DNS addresses
    Mtus,           \* values the MTU field can hold, NoMtu for an empty one
    NoMtu,
    ValidMtus,      \* those in WIREGUARD_MTU_RANGE, and NoMtu
    Methods,        \* ids of the API access methods the daemon has
    Details,        \* what a method's setting holds beside its flag
    NoServer,       \* no edit modal is open
    NoSettings,     \* App.settings = None: the startup resync did not get them
    InitialServers, \* the daemon's custom DNS list at the start
    Faults,         \* the resync can fail and the event stream can break
    OthersWrite,    \* other clients write
    MaxServers,     \* bound on the custom DNS list
    MaxRev          \* bound on the daemon's writes

VARIABLES
    operation_status, pending_push_confirmation, awaiting,  \* see Operations
    subscribed, events,                                     \* see EventFeed
    daemon,         \* the daemon's settings, with their revision
    settings,       \* App.settings
    request,        \* the write of the setter awaited
    asked,          \* history: what the user asked that setter for
    attempt,        \* with_client: first or second run of its call
    reply,          \* that run was executed, its reply is on its way
    edit_index,     \* row whose edit modal is open, 0 when there is none
    edit_shown,     \* history: the address that row showed when it was opened
    confirms,       \* history: revision that the App's latest write made
    clean,          \* history: no push was on its way when it was made
    missed          \* history: a newer revision than any seen or on its way

opVars   == <<operation_status, pending_push_confirmation, awaiting>>
feedVars == <<subscribed, events>>
rpcVars  == <<request, asked, attempt, reply>>
editVars == <<edit_index, edit_shown>>
histVars == <<confirms, clean, missed>>
vars == <<opVars, feedVars, daemon, settings, rpcVars, editVars, histVars>>

-----------------------------------------------------------------------------
DnsOptions == [blockers : SUBSET Blockers, custom : BOOLEAN, addresses : Seq(Servers)]

AccessMethodSetting == [enabled : BOOLEAN, detail : Details]

Settings == [on : SUBSET Toggles, mtu : ValidMtus, dns : DnsOptions,
             methods : [Methods -> AccessMethodSetting], rev : Nat]

\* A setter sends one part of the settings with its new value.
NoRequest     == [part : {"none"}]
ToggleRequest == [part : {"toggle"}, toggle : Toggles, value : BOOLEAN]
MtuRequest    == [part : {"mtu"}, mtu : ValidMtus]
DnsRequest    == [part : {"dns"}, dns : DnsOptions]
MethodRequest == [part : {"method"}, method : Methods, setting : AccessMethodSetting]
Request ==
    ToggleRequest \union MtuRequest \union DnsRequest \union MethodRequest \union NoRequest

\* What the user can ask for.  A row of the DNS list is named by its number and,
\* when it was picked before a popup was filled in, by the address it showed.
Ask ==    [what : {"toggle"}, toggle : Toggles]
    \union [what : {"mtu"}, mtu : ValidMtus]
    \union [what : {"blocker"}, blocker : Blockers]
    \union [what : {"custom", "nothing"}]
    \union [what : {"add"}, address : Servers]
    \union [what : {"remove"}, row : Nat]
    \union [what : {"replace"}, row : Nat, shown : Servers \union {NoServer},
            address : Servers]
    \union [what : {"method"}, method : Methods]

\* RotateWireGuardKey stands for every operation that writes no settings.
OtherOp == "RotateWireGuardKey"

Operations == INSTANCE Operations WITH
    Ops <- Toggles \union {"SetMtu", "ToggleDnsBlocker", "ToggleCustomDns",
                           "AddCustomDns", "RemoveCustomDns", "ReplaceCustomDns",
                           "ToggleAccessMethod", OtherOp}

Feed == INSTANCE EventFeed WITH Event <- Settings

NoOp == Operations!NoOp
SettingsOps == Operations!SettingsOps

ASSUME SettingsAssumption ==
    /\ Toggles \subseteq SettingsOps
    /\ ValidMtus \subseteq Mtus
    /\ NoMtu \in ValidMtus
    /\ NoSettings \notin Settings
    /\ NoServer \notin Servers
    /\ InitialServers \in Seq(Servers)
    /\ Faults \in BOOLEAN
    /\ OthersWrite \in BOOLEAN
    /\ MaxServers \in Nat
    /\ MaxRev \in Nat

TypeOK ==
    /\ Operations!OpTypeOK
    /\ Feed!FeedTypeOK
    /\ daemon \in Settings
    /\ settings \in Settings \union {NoSettings}
    /\ request \in Request
    /\ asked \in Ask
    /\ attempt \in 1 .. 2
    /\ reply \in BOOLEAN
    /\ edit_index \in Nat
    /\ edit_shown \in Servers \union {NoServer}
    /\ confirms \in Nat
    /\ clean \in BOOLEAN
    /\ missed \in BOOLEAN

-----------------------------------------------------------------------------
(* Projections of the cache.                                               *)

Loaded == settings # NoSettings

cached_mtu == IF Loaded THEN settings.mtu ELSE NoMtu

\* DnsOptions::default() until the settings are loaded
cached_dns_options ==
    IF Loaded
    THEN settings.dns
    ELSE [blockers |-> {}, custom |-> FALSE, addresses |-> <<>>]

custom_dns_addresses == IF Loaded THEN settings.dns.addresses ELSE <<>>

-----------------------------------------------------------------------------
(* The setters, up to their await.                                         *)

Send(op, write, ask) ==
    /\ Operations!Start(op)
    /\ request' = write
    /\ asked' = ask
    /\ attempt' = 1
    /\ reply' = FALSE
    /\ UNCHANGED <<feedVars, daemon, settings, histVars>>

Refuse(op) ==
    /\ Operations!Reject(op)
    /\ UNCHANGED <<feedVars, daemon, settings, rpcVars, histVars>>

settings_toggle(t) ==
    /\ Send(t, [part |-> "toggle", toggle |-> t,
                value |-> ~(Loaded /\ t \in settings.on)],
               [what |-> "toggle", toggle |-> t])
    /\ UNCHANGED editVars

\* commit_pending_mtu skips a value the cache already shows, set_mtu refuses
\* one outside the range.
commit_pending_mtu(mtu) ==
    /\ mtu # cached_mtu
    /\ \/ /\ mtu \in ValidMtus
          /\ Send("SetMtu", [part |-> "mtu", mtu |-> mtu], [what |-> "mtu", mtu |-> mtu])
       \/ mtu \notin ValidMtus /\ Refuse("SetMtu")
    /\ UNCHANGED editVars

\* set_dns_options replaces the whole of DnsOptions: each of its callers
\* takes the cached one and changes one thing in it.
SendDns(op, dns, ask) == Send(op, [part |-> "dns", dns |-> dns], ask)

set_dns_blocker(b, enabled) ==
    /\ SendDns("ToggleDnsBlocker",
               [cached_dns_options EXCEPT
                   !.blockers = IF enabled THEN @ \union {b} ELSE @ \ {b}],
               [what |-> "blocker", blocker |-> b])
    /\ UNCHANGED editVars

\* The row of a blocker asks for the opposite of what the cache shows.
toggle_dns_blocker(b) == set_dns_blocker(b, b \notin cached_dns_options.blockers)

toggle_custom_dns ==
    /\ SendDns("ToggleCustomDns", [cached_dns_options EXCEPT !.custom = ~@],
               [what |-> "custom"])
    /\ UNCHANGED editVars

add_custom_dns(a) ==
    /\ Len(custom_dns_addresses) < MaxServers
    /\ SendDns("AddCustomDns", [cached_dns_options EXCEPT !.addresses = Append(@, a)],
               [what |-> "add", address |-> a])
    /\ UNCHANGED editVars

\* The row's index is that of the frame on screen, hence of the cache.
remove_custom_dns(idx) ==
    /\ idx \in 1 .. Len(custom_dns_addresses)
    /\ SendDns("RemoveCustomDns",
               [cached_dns_options EXCEPT !.addresses = RemoveAt(@, idx)],
               [what |-> "remove", row |-> idx])
    /\ UNCHANGED editVars

ModalCloses == edit_index' = 0 /\ edit_shown' = NoServer

\* Mutant: the modal forgot that it was opened from a row.
replace_custom_dns_adds(a) ==
    /\ edit_index # 0
    /\ SendDns("ReplaceCustomDns", [cached_dns_options EXCEPT !.addresses = Append(@, a)],
               [what |-> "replace", row |-> edit_index, shown |-> edit_shown, address |-> a])
    /\ ModalCloses

\* [Edit] on a row opens the modal with the row's index ...
open_edit(idx) ==
    /\ awaiting = NoOp
    /\ idx \in 1 .. Len(custom_dns_addresses)
    /\ edit_index' = idx
    /\ edit_shown' = custom_dns_addresses[idx]
    /\ UNCHANGED <<opVars, feedVars, daemon, settings, rpcVars, histVars>>

\* ... its submit hands that index to replace_custom_dns and closes it.
replace_custom_dns(a) ==
    /\ edit_index # 0
    /\ \/ /\ edit_index <= Len(custom_dns_addresses)
          /\ SendDns("ReplaceCustomDns",
                     [cached_dns_options EXCEPT !.addresses[edit_index] = a],
                     [what |-> "replace", row |-> edit_index, shown |-> edit_shown,
                      address |-> a])
       \/ /\ edit_index > Len(custom_dns_addresses)
          /\ Refuse("ReplaceCustomDns")
    /\ ModalCloses

\* ... unless the user cancels it.
close_edit ==
    /\ awaiting = NoOp
    /\ edit_index # 0
    /\ ModalCloses
    /\ UNCHANGED <<opVars, feedVars, daemon, settings, rpcVars, histVars>>

\* The rows of the page are the methods of the cache, so the one pressed is
\* found there; the whole of its setting is sent.
toggle_access_method(m) ==
    /\ Loaded
    /\ Send("ToggleAccessMethod",
            [part |-> "method", method |-> m,
             setting |-> [settings.methods[m] EXCEPT !.enabled = ~@]],
            [what |-> "method", method |-> m])
    /\ UNCHANGED editVars

\* An open modal takes every key and click.
UserWrites ==
    \/ /\ edit_index = 0
       /\ \/ \E t \in Toggles : settings_toggle(t)
          \/ \E mtu \in Mtus : commit_pending_mtu(mtu)
          \/ \E b \in Blockers : toggle_dns_blocker(b)
          \/ toggle_custom_dns
          \/ \E a \in Servers : add_custom_dns(a)
          \/ \E idx \in 1 .. MaxServers : remove_custom_dns(idx) \/ open_edit(idx)
          \/ \E m \in Methods : toggle_access_method(m)
    \/ \E a \in Servers : replace_custom_dns(a)
    \/ close_edit

\* Some other operation of the App comes and goes.
OtherStarts ==
    /\ edit_index = 0
    /\ Operations!Start(OtherOp)
    /\ UNCHANGED <<feedVars, daemon, settings, rpcVars, editVars, histVars>>

OtherEnds ==
    /\ Operations!Completed(OtherOp) \/ Operations!Failed(OtherOp)
    /\ UNCHANGED <<feedVars, daemon, settings, rpcVars, editVars, histVars>>

-----------------------------------------------------------------------------
(* The daemon.                                                             *)

\* Settings s with a write in them
Applied(s, write) ==
    CASE write.part = "toggle" ->
            [s EXCEPT !.rev = @ + 1,
                      !.on = IF write.value THEN @ \union {write.toggle}
                                            ELSE @ \ {write.toggle}]
      [] write.part = "mtu" -> [s EXCEPT !.rev = @ + 1, !.mtu = write.mtu]
      [] write.part = "dns" -> [s EXCEPT !.rev = @ + 1, !.dns = write.dns]
      [] write.part = "method" ->
            [s EXCEPT !.rev = @ + 1, !.methods[write.method] = write.setting]

DaemonWrites(write) ==
    /\ daemon.rev < MaxRev
    /\ daemon' = Applied(daemon, write)
    /\ Feed!Publish(daemon')
    /\ missed' = ~subscribed

\* DnsOptions that differ from dns in one thing
OneDnsEdit(dns) ==
    {[dns EXCEPT !.blockers = SymDiff(@, {b})] : b \in Blockers}
    \union {[dns EXCEPT !.custom = ~@]}
    \union {[dns EXCEPT !.addresses = Append(@, a)] : a \in Servers}
    \union {[dns EXCEPT !.addresses = RemoveAt(@, i)] : i \in DOMAIN dns.addresses}
    \union {[dns EXCEPT !.addresses[i] = a] : i \in DOMAIN dns.addresses, a \in Servers}

\* What a client that sees settings s sends to change one thing of them
OneEdit(s) ==
    {[part |-> "toggle", toggle |-> t, value |-> t \notin s.on] : t \in Toggles}
    \union {[part |-> "mtu", mtu |-> mtu] : mtu \in ValidMtus}
    \union {[part |-> "dns", dns |-> dns] : dns \in OneDnsEdit(s.dns)}
    \union UNION {{[part |-> "method", method |-> m, setting |-> setting] :
                      setting \in {[s.methods[m] EXCEPT !.enabled = ~@]}
                         \union {[s.methods[m] EXCEPT !.detail = d] :
                                     d \in Details \ {s.methods[m].detail}}} :
                    m \in Methods}

OtherClientWrites ==
    /\ OthersWrite
    /\ \E write \in OneEdit(daemon) :
          /\ Len(Applied(daemon, write).dns.addresses) <= MaxServers
          /\ DaemonWrites(write)
    /\ UNCHANGED <<opVars, settings, rpcVars, editVars, confirms, clean>>

-----------------------------------------------------------------------------
(* The awaited call.                                                       *)

Execute ==
    /\ awaiting \in SettingsOps
    /\ ~reply
    /\ DaemonWrites(request)
    /\ reply' = TRUE
    /\ confirms' = daemon'.rev
    /\ clean' = (events = <<>>)
    /\ UNCHANGED <<opVars, settings, request, asked, attempt, editVars>>

\* A transport error of the first run: reconnect and run the call again.
with_client_retry ==
    /\ awaiting \in SettingsOps
    /\ attempt = 1
    /\ attempt' = 2
    /\ reply' = FALSE
    /\ UNCHANGED <<opVars, feedVars, daemon, settings, request, asked, editVars, histVars>>

\* The handler goes on without what it sent.
CallEnds ==
    /\ request' = [part |-> "none"]
    /\ asked' = [what |-> "nothing"]
    /\ attempt' = 1
    /\ reply' = FALSE

\* Mutant: a call that failed is taken for accepted.
CallReturns_anyway ==
    /\ awaiting \in SettingsOps
    /\ Operations!Accepted(awaiting)
    /\ CallEnds
    /\ UNCHANGED <<feedVars, daemon, settings, editVars, histVars>>

CallReturns ==
    /\ awaiting \in SettingsOps
    /\ reply
    /\ Operations!Accepted(awaiting)
    /\ CallEnds
    /\ UNCHANGED <<feedVars, daemon, settings, editVars, histVars>>

\* Refused by the daemon, or the transport failed for good: before the call
\* was executed or after.
CallFails ==
    /\ awaiting \in SettingsOps
    /\ Operations!Failed(awaiting)
    /\ CallEnds
    /\ UNCHANGED <<feedVars, daemon, settings, editVars, histVars>>

Call == Execute \/ with_client_retry \/ CallReturns \/ CallFails

-----------------------------------------------------------------------------
(* The event feed.                                                         *)

\* Mutants: the push is used only to confirm, or only when nothing waits for
\* it; the youngest push is applied first; the pending operation is ignored.
set_settings_only_confirmed ==
    /\ awaiting = NoOp
    /\ Feed!Receive
    /\ settings' = IF pending_push_confirmation \in SettingsOps THEN Head(events) ELSE settings
    /\ Operations!resolve_pending_for_settings
    /\ UNCHANGED <<awaiting, daemon, rpcVars, editVars, histVars>>

set_settings_status_only ==
    /\ awaiting = NoOp
    /\ Feed!Receive
    /\ settings' = IF pending_push_confirmation \in SettingsOps THEN settings ELSE Head(events)
    /\ Operations!resolve_pending_for_settings
    /\ UNCHANGED <<awaiting, daemon, rpcVars, editVars, histVars>>

set_settings_youngest ==
    /\ awaiting = NoOp
    /\ events # <<>>
    /\ events' = Front(events)
    /\ settings' = Last(events)
    /\ Operations!resolve_pending_for_settings
    /\ UNCHANGED <<awaiting, subscribed, daemon, rpcVars, editVars, histVars>>

set_settings_unresolved ==
    /\ awaiting = NoOp
    /\ Feed!Receive
    /\ settings' = Head(events)
    /\ UNCHANGED <<opVars, daemon, rpcVars, editVars, histVars>>

\* apply_app_event(SettingsChanged): the cache first, then the pending op.
set_settings ==
    /\ awaiting = NoOp
    /\ Feed!Receive
    /\ settings' = Head(events)
    /\ Operations!resolve_pending_for_settings
    /\ UNCHANGED <<awaiting, daemon, rpcVars, editVars, histVars>>

FeedBreaks ==
    /\ Faults
    /\ Feed!Break
    /\ missed' = (missed \/ events' # events)
    /\ UNCHANGED <<opVars, daemon, settings, rpcVars, editVars, confirms, clean>>

FeedResumes ==
    /\ Feed!Resubscribe
    /\ UNCHANGED <<opVars, daemon, settings, rpcVars, editVars, histVars>>

-----------------------------------------------------------------------------
\* The startup resync read the settings or failed; the listener then
\* subscribed or failed, and what changed in between it did not see.
Init ==
    /\ Operations!OpInit
    /\ Feed!FeedInit
    /\ daemon \in [on : {{}}, mtu : {NoMtu}, rev : {1},
                   dns : [blockers : {{}}, custom : {FALSE}, addresses : {InitialServers}],
                   methods : [Methods -> [enabled : {TRUE}, detail : Details]]]
    /\ settings \in {daemon, NoSettings}
    /\ ~Faults => subscribed /\ settings = daemon
    /\ request \in NoRequest
    /\ asked = [what |-> "nothing"]
    /\ attempt = 1
    /\ reply = FALSE
    /\ edit_index = 0
    /\ edit_shown = NoServer
    /\ confirms = 0
    /\ clean = FALSE
    /\ missed = (settings # daemon)

Next ==
    \/ UserWrites
    \/ OtherStarts
    \/ OtherEnds
    \/ OtherClientWrites
    \/ Call
    \/ set_settings
    \/ FeedBreaks
    \/ FeedResumes

\* Calls return and the run loop takes an event that stays available to it:
\* its select prefers input, and input pauses.  Nothing is assumed of other
\* clients, of the stream, or of a user who starts one operation after the
\* other.
Fairness ==
    /\ WF_vars(Call)
    /\ WF_vars(OtherEnds)
    /\ WF_vars(set_settings)

Spec == Init /\ [][Next]_vars /\ Fairness

-----------------------------------------------------------------------------
(***************************************************************************)
(* Properties.                                                             *)
(***************************************************************************)

CacheRev == IF Loaded THEN settings.rev ELSE 0

Newest == IF events = <<>> THEN settings ELSE Last(events)

\* Whenever nothing was lost for good, draining the feed makes the cache equal
\* to the daemon's settings: the pushes alone, without a single refetch after
\* a write, are enough.  One push that is seen repairs all that were not.
FeedCatchesUp == ~missed => Newest = daemon

\* A settings operation that waits for its push still has one coming, or the
\* loss of it is known: no order of writes, retries and pushes leaves the
\* spinner of resolve_pending_for_settings without an event to stop it.
ConfirmationStillComing ==
    (pending_push_confirmation \in SettingsOps /\ ~missed) =>
        \E i \in DOMAIN events : events[i].rev >= confirms

\* "Success" is shown of a write whose effect the cache has reached, provided
\* that no older push was under way when the daemon took the write.
SuccessIsVisible ==
    (/\ operation_status.state = "Success"
     /\ operation_status.op \in SettingsOps
     /\ clean) => CacheRev >= confirms

\* The cache never goes back to older settings, and what the App has been
\* told once it does not forget: set_settings is the only writer and the feed
\* brings revisions in order, across breaks and resubscriptions.
CacheNeverGoesBack ==
    [][settings' # settings => settings' # NoSettings /\ settings'.rev > CacheRev]_vars

Written == awaiting \in SettingsOps /\ ~reply /\ reply'

RowsShowing(s, a) == {i \in DOMAIN s.dns.addresses : s.dns.addresses[i] = a}

\* The row an edit is for: the one with its number while that shows the
\* address it had when [Edit] was pressed, else wherever that address is.
PickedRow(s, ask) ==
    IF ask.row \in RowsShowing(s, ask.shown)
    THEN ask.row
    ELSE CHOOSE row \in RowsShowing(s, ask.shown) : TRUE

\* Settings s with the one thing done that the user asked for
Done(s, ask) ==
    CASE ask.what = "toggle"  -> [s EXCEPT !.rev = @ + 1, !.on = SymDiff(@, {ask.toggle})]
      [] ask.what = "mtu"     -> [s EXCEPT !.rev = @ + 1, !.mtu = ask.mtu]
      [] ask.what = "blocker" ->
            [s EXCEPT !.rev = @ + 1, !.dns.blockers = SymDiff(@, {ask.blocker})]
      [] ask.what = "custom"  -> [s EXCEPT !.rev = @ + 1, !.dns.custom = ~@]
      [] ask.what = "add"     ->
            [s EXCEPT !.rev = @ + 1, !.dns.addresses = Append(@, ask.address)]
      [] ask.what = "remove"  ->
            [s EXCEPT !.rev = @ + 1, !.dns.addresses = RemoveAt(@, ask.row)]
      [] ask.what = "replace" ->
            [s EXCEPT !.rev = @ + 1, !.dns.addresses[PickedRow(s, ask)] = ask.address]
      [] ask.what = "method"  ->
            [s EXCEPT !.rev = @ + 1, !.methods[ask.method].enabled = ~@]

RowStands(s, ask) == ask.what = "replace" => ask.row \in RowsShowing(s, ask.shown)

\* A write that the daemon takes while the cache is current does to its
\* settings what the user asked for, and nothing else: this toggle, this
\* blocker, this row of the DNS list, this access method.  The cache a setter
\* reads before its await is the one the write is computed from, nothing in
\* between replaces it.  The edit modal keeps the number of its row, so when it
\* is submitted the number must still be that of the row picked.
FreshWriteDoesWhatWasAsked ==
    [][(Written /\ settings = daemon /\ RowStands(daemon, asked)) =>
          daemon' = Done(daemon, asked)]_vars

\* When the App is left alone, the line stops showing Running and the cache
\* ends up equal to the daemon's settings, unless the stream lost the last
\* change and nobody writes again.
SettlesOrMissed ==
    <>[](awaiting = NoOp) =>
        <>[](missed \/ (settings = daemon /\ pending_push_confirmation = NoOp))

-----------------------------------------------------------------------------
(* What the repository says of the program and the program does not do.    *)

OneThingChanges(write) ==
    \/ Applied(daemon, write) = [daemon EXCEPT !.rev = @ + 1]
    \/ \E edit \in OneEdit(daemon) : Applied(daemon, write) = Applied(daemon, edit)

\* integration/mod.rs of set_dns_options: computing the new value from the
\* cached Settings keeps per-field toggles from undoing other fields.
WriteChangesOneThing == [][Written => OneThingChanges(request)]_vars

=============================================================================
