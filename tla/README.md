# mullvad-tui in TLA+

`mullvad-tui` is a terminal front end for `mullvad-daemon`. It keeps caches of
the daemon's state, draws them, and starts operations on the daemon from keys
and clicks. This directory holds TLA+ modules for the part of it that is hard
to test: what the caches and the operation line show while RPCs, pushes, other
clients, retries and broken streams interleave; where keys, popups and
notifications leave the focus; which row of a list a key or click means; and
what becomes of a line of the log.

Paths below are relative to `mullvad-tui/src/`.

## The system

One process, three tasks that matter:

* the **run loop** (`tui/mod.rs`): a biased `select!` over input, daemon events,
  log entries, notifications and an animation tick. A handler is awaited in
  place. A handler that awaits an RPC therefore holds the loop: no push, key or
  click is handled until the RPC returns;
* the **event listener** (`integration/rpc.rs`): reads `events_listen` on a
  connection of its own and sends what it translates into a bounded channel;
* the **log listener** (same file): the same for `log_listen`, into a channel
  that the TUI's own tracing layer (`logging.rs`) fills as well.

RPCs go through one shared client whose calls are repeated once after a
transport error.

| Component | State | Operations | Correct when |
|---|---|---|---|
| Operation line (`app/operations.rs`, `app/connection.rs`) | `operation_status`, `pending_push_confirmation` | four drivers, three resolvers | a spinner always waits for something that can end it; a verdict is not overwritten by another operation's push |
| Event listener (`integration/rpc.rs`) | client, stream, channel, backoff | subscribe, read, translate, send, reconnect, end | events arrive once and in order; it comes back; it ends with the App |
| Settings (`app/settings.rs`) | `settings` | toggles, MTU, DNS options, access methods, split tunnelling | the cache follows the daemon; a write changes what the user asked for |
| Session (`app/session.rs`, `app/pages/account.rs`) | `account_info`, device list | login, logout, devices, voucher, key rotation, device push | the data and the list shown are those of the account logged in to |
| Tunnel (`app/connection.rs`, `tui/pages/status.rs`) | `connection_status` | connect, disconnect, reconnect, status push | a verdict is earned; an operation ends |
| Relay selection (`app/relay.rs`, `tui/pages/select_location.rs`) | part of `settings` | relay, entry, multihop, overrides, obfuscation | as settings; entry and exit stay apart |
| RPC client (`integration/rpc.rs`) | shared client | `with_client` with its retry, read-modify-write of constraints | a retry repeats nothing that matters |
| Startup (`app/mod.rs`, `tui/mod.rs`) | all caches | `resync`, then subscribe | nothing lost between the two |
| Run loop UI (`tui/mod.rs`, `tui/modals`, `tui/overlays`, `app/focus.rs`, `app/navigation.rs`) | overlay, modal, focus, sub-page stack | keys, clicks, notifications | what a key acts on is what the screen shows; focus comes back |
| Widget ids (`tui/components.rs`, `define_page_widgets!`) | none | numbers, and the dispatch on them | two widgets of a frame never share a number |
| Settings pages (`tui/pages/settings*`) | MTU draft, pagers | rows in each state, activation of each | every row is reachable; leaving the field commits it |
| Select location (`app/pages/select_location.rs`, `tui/pages/select_location*`) | expansion, query, node mode, scroll | tree keys, search, picks, tabs, wheel | a widget stands for its row; the focus is in the window |
| Logs (`logging.rs`, `app/pages/logs.rs`) | channel, ring buffer, scroll | trace, read, append, scroll | no line lost or reordered; a scrolled view stays |
| Input filter (`tui/mod.rs`) | a small automaton | pass or swallow | no typed key is lost, no leaked one gets through |

What is hard: pushes are applied long after the RPC that caused them, and are
matched to it by kind only; every setter computes its write from a cache that
lags; other clients write too; the stream can break and nothing is refetched;
a call may have been executed although it failed. `PROJECT.json` lists each of
these hazards at its line with the properties aimed at it.

## The modules

| Module | Models |
|---|---|
| `Operations` | the status line and the drivers, with an arbitrary daemon |
| `EventFeed` | abstract: what the App may rely on of the stream of events |
| `EventListener` | the listener task; implements `EventFeed` |
| `SettingsSync` (`MCSettingsSync`) | settings cache, the setters of toggles, MTU, DNS options and access methods, edit modal, daemon, other clients |
| `Session` | account session, device list, Account page |
| `Connection` | tunnel state, three operations, Status page |
| `RelaySync` (`MCRelaySync`) | relay, multihop, override and obfuscation setters, the service's read and write |
| `FocusRegistry` | the focus engine: pure operators over the rows of a frame |
| `WidgetIds` | the numbers of the widgets whose ids are computed, and the overlay slice |
| `Screen` | the page graph and the rows each page and popup registers |
| `RunLoop` | draw and snap, keys, clicks, popups, notifications, the MTU field |
| `LocationTree` | the location tree: projection, filter, rows, widgets, scroll arithmetic; pure operators |
| `SelectLocation` (`MCSelectLocation`) | the Select-location page: keys, clicks, wheel, search, picks, pushes |
| `InputFilter` | the filter of leaked mouse reports, one operator |
| `Logs` | log tasks, channel, ring buffer, the Logs page behind the filter |
| `SettingsSyncProofs`, `SessionProofs`, `ConnectionProofs`, `RelaySyncProofs`, `RunLoopProofs`, `LogsProofs` | theorems about the module of that name, see below |
| `AppProofs` | theorems about `Operations`, `EventListener` and `SelectLocation` |
| `SequenceLemmas` | the lemmas on sequences, feeds and sets of numbers they share |

`SettingsSync`, `RelaySync`, `Session` and `Connection` instantiate `Operations` for the
status line and `EventFeed` for the events, and add the daemon, the caches and
the RPC in flight. Each models one kind of push. This is sound for the
properties stated: a push of one kind changes neither the caches nor the
pending operation of the others (`resolve_pending_for_*` return at once for
another kind), and the operation that displaces a pending one is in each
module (`OtherOp` in `SettingsSync`, the other session operations in
`Session`).

`FocusRegistry`, `WidgetIds`, `Screen` and `RunLoop` build on each other and
model the other side of the run loop. There a handler is one action, its RPCs
included: what an RPC does to the caches is the other modules' subject, and
what of it can reach the focus or the popups is a failure that sends a
notification, and a push. `Draw` is the render-and-snap loop at the head of an
iteration; `drawn` says whether the loop has reached its `select!`. `Activate`
is the whole of `activate_focused` and what it dispatches to, used by Enter and
by a click, and `AfterEvent` the wrappers around both. All sixteen pages are
modelled. What a page registers depends on cached data; `view` is one of the
shapes they give it (an empty or a filled list, logged in or out, connected or
not, multihop on or off), and a push or an RPC may put any other in its place.
`ListRows` rows stand for a list. Of widgets that the loop treats alike a page
keeps one or two, so that every kind of row occurs: the VPN page's four toggles
with an `[Info]` are represented by IPv6, its radios, the DNS blockers and the
obfuscation modes by one each, the location tree by two countries.

`LocationTree` and `SelectLocation` take up where `Screen` stops: the whole
tree, with the chrome and the popups left to `RunLoop`. A step is a handler and
the frame that follows it, since drawing moves the focus and the scroll window.
The tables of widget ids are finite in the code (rows past their caps are drawn
without a widget); here they hold two ids each, fewer than the rows. The wheel
while DAITA hides the entry list and a change of the terminal's size are left
out.

`Logs` has the two producers of the log channel with the run loop as its only
consumer: while a handler is awaited (`busy`) nothing is received, and the
handler itself may trace. The keys that scroll the page pass through
`InputFilter`, together with the keys of mouse reports that the terminal
leaks. Of an entry it keeps the source, a number, and the rows it wraps to.

Correspondence in the App modules:

* a handler up to its RPC is one action (`connect`, `set_dns_blocker`,
  `list_devices` ...), the RPC's execution by the daemon is another, its return
  a third with the rest of the handler. While `awaiting` names an operation, or
  `rpc` an RPC in `Session`, no other handler runs: the run loop is in that
  handler;
* `with_client_retry` repeats an RPC once, whether or not the daemon executed
  it. A reply that is refused by the daemon is not a transport error;
* in `RelaySync` a relay write is two RPCs inside one call
  (`current_normal_constraints`, then `Execute`), and `with_client_retry` goes
  back to the first;
* `set_settings`, `set_device`, `set_connection_status` are the whole arm of
  `apply_app_event`, cache first, then the pending operation. `set_device` also
  starts the `get_account_data` follow-up, which holds the loop;
* `awaiting` (and `rpc`, `attempt`, `reply`) stand for the position inside an
  async handler and have no field in the code.

Variables marked *history* are not state of the program. They record whether a
push was lost (`missed`), whether one was under way when a call ran (`clean`),
which revision or state a call led to (`confirms`, `arrived`), whether the
device was fed by pushes alone (`inOrder`), whether nobody interfered (`alone`),
whether a write was computed from a current cache and nobody wrote since
(`current`, and `fresh` for the latest run of its call), what the user asked for
(`asked`) and the address the edit popup was opened on (`edit_shown`). In `RunLoop` they
record the widget the first popup was opened from (`opener`), whether the user
has moved inside the confirm prompt (`armed`) and what the last event wrote
(`sent`); in `Logs` whether a report began at rest and came through unmixed
(`whole`) and how many keys ago the filter left its rest (`since`). No guard
reads them.

Operators commented *Mutant* are faulty variants of a definition of the code. No
behaviour uses them: each documents a plausible mistake that one of the
properties detects when the variant takes the definition's place.

### The daemon

The daemon is not in this repository. It is modelled from what the code here
says and relies on: one push per accepted settings write
(`app/connection.rs`, `PendingPushMatch::Settings`), the meaning of the booleans
of `connect`, `disconnect` and `reconnect` (`integration/mod.rs`), a login that
is refused when already logged in (`tui/error.rs`), device pushes for login,
logout, revocation and key rotation (`translate_daemon_event`), a voucher that
needs an account logged in (`tui/pages/account.rs` draws its button only then). Its tunnel goes
through `Connecting` and `Disconnecting`; `Disconnecting` leads to
`Disconnected` or back to `Connecting`. Device, account and settings contents
are reduced to what the properties tell apart.

## The runs

Bounds, each a guard of the action that would exceed it:

* `MaxRev`, `MaxServers`, `MaxQueue` (settings writes, DNS rows, pushes under
  way): two writes of the user and a third by somebody else; an old push queued
  in front of the one that belongs to the call in flight. `SettingsSync` has two
  servers, one to remove and one to be hit under the number of the other, and one
  access method with two details, one of which a stale write can put back;
* `MaxEvents`, `Capacity` (listener): a channel that fills while the task holds
  one more event and the stream others; a backoff that reaches its cap by
  truncation (1, 2, 3);
* `RelaySync`: two locations of different levels, one inside the other, every
  initial combination of exit, entry, multihop and mode, three writes;
* `RunLoop`: `MaxNotes` is 3, one more than one event can send (a failed
  activation and a refused draft); `MaxPushes` is 2; one MTU beside "default"
  and one draft out of range are all that the comparison with the cache tells
  apart; lists of two rows have a first and a last; `PAGE_STEP_ROWS` is 2, so
  that PageUp and PageDown both move inside the modelled pages and clamp at
  their ends as 10 does on the real ones;
* `SelectLocation`: two countries that share a city code, a relay list with and
  without one city, one more city and relay than there are ids, a query that
  matches a city's name and another city's hostname, six rows of terminal for
  up to eight of tree; `MaxOpen` and `MaxHeld` bound the expansions and the held
  windows at a time;
* `Logs`: a channel of one, a buffer of three entries of one or two rows, a
  viewport of two rows or none, three lines of the daemon and one traced event;
  the filter gives up after two keys, and a leaked report has fewer.

| Run | Shows |
|---|---|
| `Operations` | every operation the program starts (45; `RefreshSettings` is test-only) with an arbitrary daemon: no spinner without something that can stop it, one verdict at a time |
| `EventListener` | refinement of `EventFeed`, hence in order and at most once; it resubscribes, a written event arrives or the stream breaks, and the task ends once the App is gone |
| `SettingsSync` | the cache converges, confirmations stay reachable, the cache never goes back, a write from a current cache does to the daemon's settings what the user asked for and nothing else; at rest the cache equals the daemon's settings and nothing is pending |
| `RelaySync` | a relay write is one edit however stale the cache is, unless another client writes between the service's read and its write; an obfuscation write is one from a current cache; a pick with multihop on keeps entry and exit apart |
| `Session` | two accounts, faults and other clients: convergence, data and device list of the account logged in to, verdicts that stay reachable; while no push was lost or overtaken an accepted operation succeeds |
| `Connection` | convergence, earned verdicts, rest, and an end to every operation when nobody else interferes |
| `RunLoop` | the focus is always on the frame and the keys lead from it to every widget; the stack is the breadcrumb; popups shield the page, give the focus back where the first was opened, and accept nothing without a move; leaving the MTU field answers the edit |
| `SelectLocation` | a widget stands for the row it is drawn on and activates it, with a filter too; the focused row is in the window; opening the page, switching the tab and going on to the exit node land on the selection |
| `Logs` | a line is missing only where the stream broke; a scrolled view stays while the buffer has room; the loop never waits for its own channel; no leaked key gets through and a typed one is dropped only near an Esc |

Deadlock is checked everywhere but in `Logs` and `LogsPinned`, where the program
quits and every bounded source may be spent.

Where the repository says something that the code does not do, a run states
what it says and TLC finds the behaviour:

| Run | The code |
|---|---|
| `SettingsLostUpdate` | two DNS edits in a row: the second undoes the first |
| `WidgetCollision` | outside Linux the `[Remove]` of an excluded app from the fifteenth on has the number of an overlay's button, which the dispatcher tests first: one goes back, one quits |
| `LogsPinned` | once the ring buffer is full, each new entry moves a page that was pinned by scrolling |

`WidgetCollision` has 22 rows, as many as give a row the number of the button that
closes the window; 15 are enough to violate the property. The theorem `IdsApart`
says where it holds: with up to 14 rows, on Linux with up to 30.

Several of the passing properties carry a premise. Each premise is the exact
border of what the code guarantees, and dropping it gives a counterexample:

* `VerdictsSurviveLatePushes` excepts the verdict of an argument check:
  `set_operation_failed` alone, as `set_mtu` and others call it, leaves the
  pending confirmation of the earlier operation in place;
* `clean` in `SuccessIsVisible`, `AcceptedSucceeds` and `VerdictIsEarned`: a
  push that was under way when the call ran is taken for the call's own
  (a key rotation's push fails a logout; the end of one reconnect resolves the
  next; the push of the first write confirms the second, whose effect the cache
  does not show yet);
* `settings = daemon` in `FreshWriteDoesWhatWasAsked`: from a cache that lags, DNS
  options are sent with the old value of the field an earlier edit changed (see
  `SettingsLostUpdate`), and a toggle pressed a second time before the first
  push sends the first value again, so that two presses flip once. When the
  resync failed and the settings were never read, a DNS edit is computed from
  the defaults and empties the daemon's list of servers;
* `RowStands`, in the same property: the edit popup of a custom DNS row keeps the
  row's index, so a push that moves the rows while it is open makes its submit
  replace another server than the one picked, from a current cache;
* `missed` in the settling and convergence properties: nothing is refetched, so a
  push that is lost for good leaves the cache as it is. A listener that never
  subscribes is the extreme case: every change is then missed, and these
  properties promise nothing;
* `inOrder` in `DataIsTheAccounts`: the refresh that follows a voucher writes
  `account_info` past `set_device`. When it overtakes a logout's push, that push
  finds the device logged out already and the old account's device list stays,
  to be shown under the next account;
* `alone` in `OperationEnds`: an operation waits for one end state, and another
  client can take the tunnel to the other one;
* `fresh` and `current` in `WritesAreSingleEdits`: the service's read and write
  are two calls, and a mode or port is sent with the rest of the cached
  obfuscation settings, so a stale cache also puts the old mode back when only a
  port was meant;
* `current` and multihop in `PicksKeepNodesApart`: the same-location check reads
  the cache, so a second pick before the first one's push passes it; and with
  multihop off nothing is compared, so turning it on can show two equal nodes;
* `[x]` on Logs in `EveryWidgetIsReachable`: there the arrows scroll, and Tab
  passes `[x]` over, so that no key leads there,
  although the comment on `WindowClose` (`tui/components.rs`) says so;
* "by an event" in `LeavingTheFieldCommits`: a notification or a terminal that
  shrinks takes the focus off the field in a frame, without a commit, and that
  frame overwrites the draft. The message that refuses an out-of-range draft
  on Enter does so to the draft it refuses. And while the cursor rests in the
  field the draft is not synced, so leaving it untouched after the MTU was
  changed elsewhere writes the old value back;
* room in the buffer in `PinnedViewStays`: see `LogsPinned`; and an offset beyond
  the range, as a smaller terminal leaves it, is clamped first;
* `whole` in `FilterTellsApart`: a terminal that is resized amid a report, or an
  Esc typed while an unterminated report is being swallowed, lets its digits
  through.

### Fairness

Weak fairness of the RPC steps (a call returns, with an answer or an error), of
the push handler (the idle run loop takes an event that is there) and, in
`Connection`, of the daemon leaving a transitional state. The select is biased
towards input, so the second holds when input pauses, which is what the
premise `<>[](awaiting = NoOp)` of the settling properties asks of the user.
Nothing is assumed of the user, other clients, the network or the stream. In
`EventListener` only the task itself and the receiving run loop are fair.
`Logs` assumes only that an awaited handler whose next step is possible takes
it, which is what `LoopComesBack` is about. `RunLoop`, `SelectLocation` and the
properties of `RelaySync` state safety only.

## The proofs

### The operation line

`AppProofs`, for every `Ops` that satisfies `OpsAssumption` and a daemon
that answers and pushes anything:

* `OpTypeCorrect`: types;
* `OpInvariant`: `OpInv` is `RunningIsAwaited`, `PendingIsCurrent`
  and `AwaitedIsShown`, inductive relative to the types. None of the three is
  inductive alone: an accepted operation becomes pending in the state its
  handler left, and that the line then shows it is what `AwaitedIsShown` says
  of the state before; an answer ends one operation only because nothing is
  pending beside an RPC;
* `LatePushes`: the action property, from `OpInv`.

### The caches

`SettingsSyncProofs`, for any toggles, blockers, servers, MTU values, number of
writes and feed length, with or without other clients and faults
(`SettingsAssumption`):

* `TypesHold`: types, with `RequestIsWhatWasAsked`: applied to the cached settings,
  the request of an awaited setter does what the user asked for (`Meets`).
  `asked` is recorded from the key or click, the request computed from the cache
  by the setter, so this relates two accounts of one press;
* `FreshWrites`: the action property. While a setter is awaited no push is
  applied, so the cache its request was computed from is the one the premise
  compares with the daemon. The lemma `UserSteps` reduces every setter to one
  form, `DnsSetters` the setters of `DnsOptions` to one of their own;
* `CacheCatchesUp`: `FeedCatchesUp`, inductive on the types;
* `CacheMovesForward`: from `RevisionsRise`: revisions rise strictly from the
  cache through the feed to the daemon;
* `SpinnersHaveAPush` and `SuccessIsEarned`: from `ConfirmInv`. A write that is
  not yet confirmed, awaited with its reply or pending, has a non-empty feed
  unless a push was lost; by `FeedCatchesUp` the youngest event is then the
  daemon's settings, whose revision is at least the write's. After a clean
  write every event under way is at least as new as the write.

`SessionProofs`, for any accounts, feed length and set of operations, with or
without faults and other clients. `SessionInv` is the types and `Coupled`: which
operation and which account go with the RPC in flight, and that nothing pends
beside an operation in flight. On it rest:

* `DeviceCatchesUp`: `FeedCatchesUp` is not inductive, since a refresh writes
  the device it read earlier. `RefreshIsNewest` adds what is in flight: with an
  empty feed the answer of `get_device` and the account of the data RPC are the
  daemon's;
* `DataBelongs`: from `Stepwise`. While no push is lost or overtaken, two
  neighbours on the way from the cached device through the feed to the daemon's
  are never two different accounts, so a push from account to account, which
  would keep the list of the one beside the other, does not occur;
* `LoginIsAnswered`, `LoginSucceeds`: from `VerdictInv`, which says of an
  operation the daemon has taken, its answer on the way or pending, that a push
  is under way, and that after a clean call the first one is what the operation
  wants.

`ConnectionProofs`, for any feed length, with or without faults, retries and
other clients: `StatusCatchesUp` is inductive on the types. `WaitsForAPush` and
`VerdictsAreEarned` rest on `WaitInv`, which follows the operation from the
moment the daemon takes its call to the end of the wait (`ArrivalInv`: a push
that decides it is under way; `EarnedInv`: one that decides it was published
since).

`RelaySyncProofs`, for any relay list, requests, other clients and number of
writes. `TypeCorrect` is the whole of `TypeOK`; `DataTypes` is the part of it the
writes need. `WriteInv` says of
a call in flight that constraints read by its run are the daemon's while nobody
else writes (`ReadIsCurrent`), and that a request computed from a current cache
stays true of the daemon's settings (`SentIsCurrent`, `PickIsApart`), the App's
own first run before a retry included (`OwnWrite`). `SingleEdits` and
`PicksStayApart` follow at the step that executes. `PicksStayApart` needs of the
relay list that a location has one to three codes (`RelayAssumption`).

### The event listener

`AppProofs`, for any channel capacity, backoff and number of events, and any
choice of the events that `translate_daemon_event` drops:

* `ListenerTypes`, and `NoOrphans`: a subscription that lives is read by the task;
* `ListenerImplementsFeed`: the listener implements `EventFeed`, the abstract
  module the caches are built on. What is under way, `InFlight`, is channel, held
  event and translated stream one after the other, so most steps of the task
  move a boundary and leave it as it is; the daemon appends at one end, the App
  takes from the other, and a break keeps a prefix (`SplitStream`). The inductive
  invariant `FeedInv` adds to types and `NoOrphans` that channel and task hold only
  translated events and that a task that does not read has an empty stream. The
  translated stream is a fold over the stream: `TranslatedIsFlatMap` and the
  lemmas on `FlatMap` say that it commutes with concatenation.

### The run loop

`RunLoopProofs`, for lists of any length, any MTU values, step of PageUp and
PageDown, notifications in the channel and pushes in the feed, on Linux and
elsewhere. The handlers rarely ask which page is shown or whether a popup is
up: `[<]` pops a stack that had better not be empty, a row of Settings pushes a
sub-page that had better belong under Settings, `[Confirm]` runs the action. What
makes this right is that Enter and a click only ever name a widget of the last
frame. So the inductive invariant `IInv` adds to the types and
`BreadcrumbTellsTheWayBack`

* `FocusOnFrame`: once a frame is drawn the focus is on it or nowhere. Without it
  a step could activate a widget of another page (`FocusLands` states it as a
  theorem of its own);
* `ArmedByMove`: `ConfirmNeedsAMove` between the frames too, because a draw keeps
  a focus that is on its frame: the handler must not have left it on `[Confirm]`;
* `OpenerKept`: the popup at the bottom of the stack of popups, be it an overlay or
  an input prompt, returns to the opener; `PopupsReturnToOpener` is about the
  step that closes it;
* `PromptFocusKnown`: the keys of an input prompt are on one of its fields or
  buttons, the two address fields in the override prompt only.

The argument goes bottom up. `NavigateLands`, `HomeEndLand`, `MoveRowsLands` and
`CyclePaneLands` prove of the focus engine that on any registry made of
non-empty rows every key lands on a widget of it, or nowhere (`HorizontalLands`
needs that a row has a nearest widget on each side: the columns are totally
ordered, ties included). `BodyFrame`, `ChromeFrame`, `PageFrame` and `PopupFrames`
prove which widgets each page and popup can register, the colliding ids of
`WidgetIds` included; `WhereWidgetsAre` that a widget which leads to another page
is on one page only, the one above. `Segments` is the page graph: the segments
of a page are those of the page above it, and itself. Then `PageStep` and
`PopupStep` name the few things a handler can do to the page and to the popups;
`Activated` proves that the whole cascade of `activate_focused` does nothing else,
and `PageStepKeeps` and `PopupsKept` that these keep the invariant. On it rest
`TypeCorrect`, `WayBack`, `NeedsAMove` and the action properties `ReturnToOpener`,
`ShieldsPage` and `FieldCommits`. `ShieldsPage` shows that the focus alone keeps
the keys of the location filter off a covered page: their guard asks for the
page and the focus, not for popups.

`IdsApart` is the other side of the finding `WidgetCollision`: while a list has up
to 14 rows, or up to 30 on Linux, the number of no row's button is in the overlay
slice, so the body of a page never holds a button that the dispatcher takes for
an overlay's. Both numbers are the last for which it holds: TLC violates
`OverlayIdsAreApart` with 15 rows, and with 31 on Linux. `BodiesApart` and `BodyRow`
reduce it to the pages, `RowsOfButtons` to the bases of `WidgetIds`.

`WidgetsReachable` proves `EveryWidgetIsReachable` under the same bound on the
lists, since past it a row's button bears an overlay's id. It goes in three steps.

* What `Reachable` computes is closed: the set grows with every round until it
  stops, after at most as many rounds as the frame has widgets, and a
  navigation key leads from none of its members out of it (`ReachableCloses`).
* In a closed set with one widget of a frame are all of them (`FrameSwept`):
  Left and Right sweep its row (`RowSwept`), Up and Down go on to the next
  (`NextRowMet`). This needs that `position` finds a widget where it is,
  so that no page registers a widget twice: `PageSole`, from the pages' own rows
  (`BodySole`) and the ids of the rows of their lists. It also needs that the
  four tabs are one row, for `prefer_active_tab` turns each landing on a tab to
  the tab of the page, and that a country has its row to itself, for on a tree
  Left and Right fold instead.
* The focus is somewhere on the frame. `IInv` is not enough, so `RInv` adds
  `FocusIsOn` (once drawn the focus is not nowhere: a frame has a first
  widget to snap to), and, for Logs, where the arrows scroll and the window's
  `[x]` leads nowhere, `LogsOffClose`: neither the focus nor what a popup
  returns to is `[x]` while Logs is up. A click on it would put the
  focus there, but ends the program; `PopupsForget` says that a closed popup
  remembers no widget of the page before.

Two assumptions are about spelling. `RowNamesAssumption` says that the names the
model gives to the buttons of list rows, a base and a number, are none of the
names of the other widgets, and `RowNamesDiffer` that they differ from each
other. The prover knows nothing of the characters of a string; TLC evaluates
both on every run of `RunLoop`.

### The Select-location page

`AppProofs`, for any relay lists, settings, texts, widget tables, heights of the
terminal and bounds:

* `PageIsDrawn`: the inductive invariant `PageInv`: types (with any set of
  widgets: what they say of the focus is only that it is on the frame), the
  node mode in effect, the focus on a widget the frame registers, and the window
  where the focus is. A step is a handler and the frame that follows it, so
  `ShowsKeeps` proves the invariant of every frame, `Rendered` once or twice,
  whatever the handler left, and the lemmas on handlers (`KeysQuiet`,
  `ChevronQuiet`, `ScrollQuiet`, `CurrentLeaves` ...) only that they leave types.
  `PageTypes` and `FocusIsInView` follow. That a focus which is not on the frame
  finds a widget to snap to is `SomewhereToGo`; that the snap terminates with the
  second rendering, `SnappedKeeps`: what is registered does not depend on the
  focus (`SameFrames`);
* `RadiosStandForTheirRows`: the activation handler has three walks of its own,
  over the countries, the cities and the relays of the tree, and counts in them
  to the number of the widget, whereas the frame numbers its rows within their
  kind as it goes down the list. Rows and walks are each a `FlatMap` of the
  same tree, nested up to three levels. `TreeTold` maps the rows of one kind
  through the nesting (`FlatMapCompose`, `FlatMapOfFilter`), `WalksTell` brings the
  walk into the same form, and `NthTold` concludes that the n-th row of a kind
  shows the n-th location of that kind's walk;
* `SelectionIsLandedOn`: the action property. A location of the relay list is in
  the projection (`ProjectedHas`), unfolding opens what is above it and so the
  walk has it (`WalksReach`), the widget found for it is that of its first place in
  the walk (`WidgetOfTarget`), a row has that place (`RowOfTarget`), and the frame
  centers it (`Landing`). The other handlers leave the node mode as it is
  (`QuietStays`), which is what the premise asks about; the frame may still change
  it when a push turns multihop off, and that step changes the settings.

### The log

`LogsProofs`, for any capacities, heights and bounds:

* `LogsTypes`: types: channel and buffer within their capacities, a scroll
  position that never goes below zero;
* `NoGapsInAStream`: from `LineInv`: what buffer, channel and task hold of the
  daemon's lines, read one after the other, has no gap, and its last entry is the
  last line read while the stream is the same. An append at the buffer's end and
  the drop at its head are steps on this one sequence;
* `PinnedViewsStay`: the wrapped rows are a `FlatMap` of the buffer, an entry
  that arrives appends to it (`WrappedAppend`), and a pinned offset within the range
  of the shorter list is the same in the longer one;
* `FilterTellsReports`: from `FilterInv`: `since` counts the keys that brought the
  filter where it is, and a report that came whole is in step with it (`InStep`):
  what is left of the report is what the filter is armed for.

### Sequences

`SequenceLemmas` has what these proofs share: publishing, receiving and breaking
of a feed; sets of numbers (least, greatest, the n-th); and sequences made of
sequences. The community module's `FlattenSeq` is a recursive function, and the induction
theorems of the library take the claim as an operator, which the provers cannot
instantiate. `StepsReachAll` takes it as a set: one that holds 0 and with a number
its successor holds all of them. It follows from the library's theorem that `<`
is well-founded on the naturals. `UnfoldingExists` applies it to the first n
values of the recursion, `FlattenGrows` to the function; from there on `FlatMap` has
the laws one expects: it distributes over concatenation, composes, and loses
nothing.

### What is not proved

The daemon's role in these proofs is that of the modules: a change publishes
the whole state once, in order.

Only model-checked is liveness (`Reconnects`, `Delivers`, `SettlesOrMissed`,
`EndsWithTheApp`, `OperationEnds`, `LoopComesBack`), which is out of the prover's
reach.

## Not modelled

* the order of the calls in `resync`: each App module starts with its cache
  read or not, its listener subscribed or not, and any change in between unseen;
* split tunnelling as a setting, and the choice of the access method in use.
  `set_active_access_method` and the calls for the lists name one element and read
  no cache. `toggle_split_tunnel` sends the inverse of the cached flag, as the
  toggles of `SettingsSync` do, and ends with its call; on Linux there is no cached
  flag and it always sends `true`. (Switching an access method on or off sends
  back the whole cached record, and is in `SettingsSync`.) Their rows and popups
  are in `RunLoop`;
* `DisconnectAndQuit` beyond the end of the program: a disconnect whose result
  the App no longer shows;
* `devices_loading`: true exactly while `ListDevices` is awaited;
* contents of settings, relay lists, accounts, devices, version information;
* rendering, formatting, colours, the globe and its camera, hover, text
  selection, the animation tick;
* `integration/tolerant.rs`: conversion of messages across schema versions.

## Plan

1. Startup: the order of `resync`, subscription and first push as a module that
   composes the three App modules.
2. Split tunnelling and the choice of the access method in use, with the
   daemon's side of them.
3. Proofs: the fold of the location filter beyond its types.
