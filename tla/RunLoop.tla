------------------------------- MODULE RunLoop -------------------------------
(***************************************************************************)
(* The run loop of tui/mod.rs: draw a frame, wait for one of the select    *)
(* arms, handle it, draw again.  The App's navigation (the top-level page, *)
(* the stack of sub-pages, the focused widget), the two layers of popups   *)
(* over a page, the notification channel, and the one text field that      *)
(* lives on a page: the MTU draft, committed when the focus leaves it.     *)
(*                                                                         *)
(* The handlers await their RPCs, so nothing else of the App moves while   *)
(* one runs; what moves is the daemon, the channels and the user, who      *)
(* types ahead.  A frame separates any two handlers.  The keys read the    *)
(* registry of the frame before, which is the one of the present state.    *)
(***************************************************************************)
EXTENDS Screen

CONSTANTS
    ValidMtu,       \* settings inside WIREGUARD_MTU_RANGE
    NoMtu,          \* no override: the empty draft
    BadMtu,         \* a draft outside the range
    PAGE_STEP_ROWS,
    MaxNotes,       \* bound: notifications in the channel
    MaxPushes       \* bound: settings pushes in the feed

ASSUME RunLoopAssumption ==
    /\ NoMtu \notin ValidMtu
    /\ BadMtu \notin ValidMtu \cup {NoMtu}
    /\ PAGE_STEP_ROWS \in Nat \ {0}
    /\ MaxNotes \in Nat /\ MaxNotes >= 2
    /\ MaxPushes \in Nat /\ MaxPushes >= 1

Mtu == ValidMtu \cup {NoMtu}

VARIABLES
    topPage,        \* NavigationState.current_page
    stack,          \* sub_page_stack: [page, return_focus]
    focused,        \* page_focus.focused
    query,          \* the location filter holds text
    view,           \* the shape of the page that the cached data give it
    overlay,        \* OverlayMode: [kind, action, return_focus]
    input,          \* InputMode: [mode, focus, valid]
    inputReturn,    \* input_modal_return_focus
    notes,          \* notifications sent and not yet received
    drawn,          \* the present state is on the screen
    small,          \* is_small_terminal
    quit,           \* should_quit
    draft,          \* mtu_buffer
    cachedMtu,      \* settings().tunnel_options.wireguard.mtu
    daemonMtu,      \* what the daemon has
    pushes,         \* SettingsChanged events on their way (their MTU)
    \* History, for the properties only.
    opener,         \* the page widget the open popups were opened from
    armed,          \* the user has moved inside the open confirm prompt
    sent            \* the MTU of the last event's set_mtu call, if it made one

navVars == <<topPage, stack>>
mtuVars == <<draft, cachedMtu, daemonMtu, pushes, sent>>
history == <<opener, armed>>
vars == <<topPage, stack, focused, query, view, overlay, input,
          inputReturn, notes, drawn, small, quit, draft, cachedMtu, daemonMtu,
          pushes, opener, armed, sent>>

ConfirmAction == {"Disconnect", "ToggleLockdown", "Logout", "RotateWireGuardKey",
                  "RemoveRelayOverride", "ClearRelayOverrides"}

NoOverlay == [kind |-> "None", action |-> "None", return_focus |-> NoWidget]

Confirm(action, w) == [kind |-> "Confirm", action |-> action, return_focus |-> w]

Notification(w) == [kind |-> "Notification", action |-> "None", return_focus |-> w]

Focus == WidgetId \cup {NoWidget}

Overlay ==
    [kind : {"None", "Confirm", "Notification"}, action : {"None"} \cup ConfirmAction,
     return_focus : Focus]

\* The order of the keys in a popup: its fields, then the two buttons.
InputOrder(mode) ==
    (IF mode = "RelayOverrideInput" THEN <<"Field", "Ipv4Field", "Ipv6Field">>
     ELSE <<"Field">>) \o <<"Cancel", "Submit">>

Fields == {"Field", "Ipv4Field", "Ipv6Field"}

DefaultInput == [mode |-> "Default", focus |-> "Field", valid |-> FALSE]

OpenInput(mode, valid) == [mode |-> mode, focus |-> "Field", valid |-> valid]

\* Those that stay open, with a message, while their text does not parse.
KeptWhileInvalid ==
    {"VoucherInput", "CustomDnsInput", "SplitTunnelPathInput",
     "SplitTunnelPidInput", "RelayOverrideInput"}

InputModes == KeptWhileInvalid \cup {"AccountInput", "PortInput"}

InputMode ==
    {DefaultInput}
      \cup [mode : InputModes, focus : Fields \cup {"Cancel", "Submit"},
            valid : BOOLEAN]

is_open(mode) == mode.mode # "Default"

current_page == IF stack = <<>> THEN topPage ELSE stack[Len(stack)].page

mtu_field_focused == current_page = "SettingsVpn" /\ focused = "MtuEdit"

mtu_field_dirty == mtu_field_focused /\ draft # cachedMtu

search_focused == current_page = "SelectLocation" /\ focused = "SearchAnchor"

RunLoopTypeOK ==
    /\ topPage \in DOMAIN TabOf
    /\ stack \in Seq([page : SubPages, return_focus : Focus])
    /\ focused \in Focus
    /\ {query, drawn, small, quit, armed} \subseteq BOOLEAN
    /\ view \in Views(current_page)
    /\ overlay \in Overlay
    /\ input \in InputMode
    /\ {inputReturn, opener} \subseteq Focus
    /\ notes \in 0 .. MaxNotes
    /\ draft \in Mtu \cup {BadMtu}
    /\ {cachedMtu, daemonMtu} \subseteq Mtu
    /\ pushes \in Seq(Mtu) /\ Len(pushes) <= MaxPushes
    /\ sent \in Seq(Mtu) /\ Len(sent) <= 1

\* After App::resync: the cache is the daemon's.
Init ==
    /\ topPage = "Status" /\ stack = <<>> /\ focused = NoWidget
    /\ query = FALSE
    /\ view \in Views("Status")
    /\ overlay = NoOverlay
    /\ input = DefaultInput /\ inputReturn = NoWidget
    /\ notes = 0
    /\ drawn = FALSE /\ small = FALSE /\ quit = FALSE
    /\ draft = NoMtu
    /\ daemonMtu \in Mtu /\ cachedMtu = daemonMtu /\ pushes = <<>>
    /\ opener = NoWidget /\ armed = FALSE /\ sent = <<>>

-----------------------------------------------------------------------------
(* Drawing.                                                                *)

\* Only the topmost layer's widgets are registered.
last_focus_registry ==
    CASE small -> NothingRegistered
      [] ~small /\ overlay.kind = "Confirm" -> ConfirmOverlay
      [] ~small /\ overlay.kind = "Notification" -> NotificationOverlay
      [] ~small /\ overlay.kind = "None" /\ is_open(input) -> InputPrompt(input.mode)
      [] OTHER -> PageRegistry[current_page][view]

\* Mutant: only a focus that was never set is snapped.
set_focus_registry_once(reg) ==
    IF focused # NoWidget THEN focused ELSE first_body_widget(reg)

\* set_focus_registry: a focus that is not on the frame snaps into it.
set_focus_registry(reg) ==
    IF contains(reg, focused) THEN focused
    ELSE IF first_body_widget(reg) # NoWidget THEN first_body_widget(reg)
    ELSE IF contains(reg, active_tab(current_page)) THEN active_tab(current_page)
    ELSE first(reg)

\* A draw renders once with the focus it finds and, when the focus snaps,
\* again with the new one; vpn_rows overwrites the draft in each rendering in
\* which the MTU field is not the focus.
Draw ==
    /\ ~drawn /\ ~quit
    /\ LET next == set_focus_registry(last_focus_registry)
           synced == /\ ~small /\ current_page = "SettingsVpn"
                     /\ focused # "MtuEdit" \/ next # "MtuEdit"
       IN  /\ focused' = next
           /\ draft' = IF synced THEN cachedMtu ELSE draft
       /\ drawn' = TRUE
    /\ sent' = <<>>
    /\ UNCHANGED <<navVars, query, view, overlay, input, inputReturn, notes,
                   small, quit, cachedMtu, daemonMtu, pushes, history>>

-----------------------------------------------------------------------------
(* The pieces the handlers are made of.  A handler's own failures are the  *)
(* n notifications it sends.                                               *)

Sends == 0 .. 1

\* What a frame shows of a page follows the cached data: none of its own
\* changes move it, except where a handler fetches the data anew.
StayOnPage == UNCHANGED <<navVars, query, view>>

RefreshPage == view' \in Views(current_page) /\ UNCHANGED <<navVars, query>>

enter_sub_page(page) ==
    /\ stack' = Append(stack, [page |-> page, return_focus |-> focused'])
    /\ view' \in Views(page)
    /\ UNCHANGED <<topPage, query>>

\* w, here and below, is the focus as the event finds it: a click has moved it.
leave_sub_page(w) ==
    LET top == stack[Len(stack)]
    IN  /\ stack' = SubSeq(stack, 1, Len(stack) - 1)
        /\ view' \in Views(IF Len(stack) = 1 THEN topPage ELSE stack[Len(stack) - 1].page)
        /\ focused' = IF top.return_focus = NoWidget THEN w ELSE top.return_focus
        /\ UNCHANGED <<topPage, query>>

\* Mutant: the sub-pages stay on the stack.
navigate_to_over_sub_pages(page) ==
    /\ topPage' = page
    /\ view' \in Views(IF stack = <<>> THEN page ELSE current_page)
    /\ UNCHANGED <<stack, query>>

navigate_to(page) ==
    topPage' = page /\ stack' = <<>> /\ view' \in Views(page) /\ UNCHANGED query

close_overlay_restoring_focus(w) ==
    /\ overlay' = NoOverlay
    /\ focused' = IF overlay.return_focus = NoWidget THEN w ELSE overlay.return_focus

\* Mutant: no range check.
commit_pending_mtu_unchecked(n) ==
    /\ sent' = <<draft>>
    /\ notes' = notes + n
    /\ UNCHANGED <<draft, cachedMtu, daemonMtu, pushes>>

\* commit_pending_mtu, the last thing of an event that has sent n
\* notifications: nothing to do, refused by the range check, or the RPC.
commit_pending_mtu(n) ==
    \/ /\ draft = cachedMtu
       /\ notes' = notes + n
       /\ UNCHANGED mtuVars
    \/ /\ draft = BadMtu
       /\ notes' = notes + n + 1
       /\ UNCHANGED mtuVars
    \/ /\ draft \in Mtu \ {cachedMtu}
       /\ sent' = <<draft>>
       /\ \/ /\ daemonMtu' = draft
             /\ pushes' = Append(pushes, draft)
             /\ notes' = notes + n
          \/ /\ notes' = notes + n + 1
             /\ UNCHANGED <<daemonMtu, pushes>>
       /\ UNCHANGED <<draft, cachedMtu>>

Remember ==
    inputReturn' = CASE is_open(input') /\ ~is_open(input) -> focused'
                     [] is_open(input) /\ ~is_open(input') -> NoWidget
                     [] OTHER -> inputReturn

\* Mutant: the draft is forgotten when the key leaves the page.
AfterEvent_on_page(n) ==
    /\ IF mtu_field_focused /\ ~mtu_field_focused' /\ current_page' = current_page
       THEN commit_pending_mtu(n)
       ELSE notes' = notes + n /\ UNCHANGED mtuVars
    /\ Remember

\* What handle_key_event, handle_mouse_event and ModalLifecycleSnapshot do
\* around every handler: commit the draft when the focus has left the field,
\* and remember or forget the widget an input popup was opened from.
AfterEvent(n) ==
    /\ IF mtu_field_focused /\ ~mtu_field_focused'
       THEN commit_pending_mtu(n)
       ELSE notes' = notes + n /\ UNCHANGED mtuVars
    /\ Remember

PopupOpen == overlay.kind # "None" \/ is_open(input)

TrackPopups ==
    /\ opener' = CASE ~PopupOpen' -> NoWidget
                   [] PopupOpen' /\ ~PopupOpen -> focused'
                   [] OTHER -> opener
    /\ armed' = /\ overlay'.kind = "Confirm" /\ overlay.kind = "Confirm"
                /\ armed \/ focused' # focused

\* The guard of the event arm, with room for what the event may send.
EventArm ==
    /\ drawn /\ ~quit
    /\ notes + 2 <= MaxNotes
    /\ Len(pushes) < MaxPushes

Handled == drawn' = FALSE /\ TrackPopups /\ UNCHANGED small

-----------------------------------------------------------------------------
(* An open input popup takes every key, unless an overlay is above it.     *)

InputHasKeys == overlay.kind = "None" /\ is_open(input)

CloseInput(target) ==
    /\ input' = DefaultInput
    /\ focused' = IF inputReturn = NoWidget THEN target ELSE inputReturn
    /\ UNCHANGED overlay

\* A voucher is answered whether it was good or not.
Answers(n) == input.mode = "VoucherInput" => n = 1

\* The account and port popups close whatever comes of it, the others when
\* their text parses.  Only an added PID has the list fetched again.
SubmitInput(target, n) ==
    \/ /\ input.mode \in KeptWhileInvalid /\ ~input.valid /\ n = 1
       /\ focused' = target
       /\ UNCHANGED <<input, overlay>> /\ StayOnPage
    \/ /\ input.valid \/ (input.mode \notin KeptWhileInvalid /\ n = 1)
       /\ Answers(n)
       /\ CloseInput(target)
       /\ IF input.mode = "SplitTunnelPidInput" THEN RefreshPage ELSE StayOnPage

\* Tab and Shift+Tab go round; Up leaves the buttons for the last field, and
\* the other arrows lead no further.
NextInputFocus ==
    LET order == InputOrder(input.mode)
        at == CHOOSE i \in DOMAIN order : order[i] = input.focus
        lastField == Len(order) - 2
    IN  {order[(at % Len(order)) + 1],
         order[((at + Len(order) - 2) % Len(order)) + 1],
         IF at > lastField THEN order[lastField] ELSE order[at]}

TypeText ==
    /\ input.focus \in Fields
    /\ \E v \in BOOLEAN : input' = [input EXCEPT !.valid = v]

InputKey(n) ==
    /\ InputHasKeys
    /\ UNCHANGED quit
    /\ \/ /\ n = 0
          /\ \/ \E f \in NextInputFocus : input' = [input EXCEPT !.focus = f]
             \/ TypeText
          /\ UNCHANGED <<focused, overlay>> /\ StayOnPage
       \/ n = 0 /\ CloseInput(focused) /\ StayOnPage   \* Esc, or Enter on [Cancel]
       \/ input.focus # "Cancel" /\ SubmitInput(focused, n)        \* Enter

-----------------------------------------------------------------------------
(* activate_focused: Enter on the focused widget, or a click on any.       *)

NoPopupMoves == UNCHANGED <<overlay, input, quit>>

\* Nothing the loop sees: the focus stays on w.
Remain(w) == focused' = w /\ NoPopupMoves /\ StayOnPage

\* A call that may fail, with a message if it does.
Call(w, n) == n \in Sends /\ Remain(w)

\* The same, and what the page lists is fetched again.
CallAndRefetch(w, n) == n \in Sends /\ focused' = w /\ RefreshPage /\ NoPopupMoves

Show(w, n) == n = 1 /\ Remain(w)

Enter(page, w, n) == n = 0 /\ focused' = w /\ enter_sub_page(page) /\ NoPopupMoves

Prompt(mode, valid, w, n) ==
    /\ n = 0
    /\ focused' = w
    /\ input' = OpenInput(mode, valid)
    /\ UNCHANGED <<overlay, quit>> /\ StayOnPage

Ask(action, w, n) ==
    /\ n = 0
    /\ focused' = w
    /\ overlay' = Confirm(action, w)
    /\ UNCHANGED <<input, quit>> /\ StayOnPage

Quit(w, n) ==
    /\ n = 0
    /\ quit' = TRUE /\ focused' = w
    /\ UNCHANGED <<overlay, input>> /\ StayOnPage

FieldOf(w) == IF w \in {"Ipv4Field", "Ipv6Field"} THEN w ELSE "Field"

\* The cascade tests for the overlays' buttons first, whatever page is below
\* and whether or not their overlay is up.
ActivateOverlay(w, n) ==
    \/ /\ w \in {"ConfirmReject", "NotificationDismiss"} /\ n = 0
       /\ close_overlay_restoring_focus(w)
       /\ UNCHANGED <<input, quit>> /\ StayOnPage
    \/ /\ w = "ConfirmAccept"                       \* and dispatch_confirm
       /\ overlay.kind # "Confirm" => n = 0
       /\ close_overlay_restoring_focus(w)
       /\ UNCHANGED <<input, quit>> /\ StayOnPage
    \/ w = "ModalCancel" /\ n = 0 /\ CloseInput(w) /\ UNCHANGED quit /\ StayOnPage
    \/ /\ w = "ModalSubmit"
       /\ IF is_open(input) THEN SubmitInput(w, n) /\ UNCHANGED quit
          ELSE n = 0 /\ Remain(w)
    \/ /\ w \in {"ModalField", "HostnameField", "Ipv4Field", "Ipv6Field"} /\ n = 0
       /\ focused' = w
       /\ input' = IF is_open(input) THEN [input EXCEPT !.focus = FieldOf(w)] ELSE input
       /\ UNCHANGED <<overlay, quit>> /\ StayOnPage
    \/ w = "BreadcrumbBack" /\ n = 0 /\ leave_sub_page(w) /\ NoPopupMoves
    \/ w = "WindowClose" /\ Quit(w, n)
    \/ /\ w \in Tabs /\ n = 0
       /\ focused' = w
       /\ navigate_to(tab_page_for_widget(w))
       /\ NoPopupMoves

ActivateStatus(w, n) ==
    \/ w = "DetailsToggle" /\ n = 0 /\ Remain(w)
    \/ /\ w = "SwitchLocation" /\ n = 0           \* onto the selected row, if any
       /\ stack' = Append(stack, [page |-> "SelectLocation", return_focus |-> w])
       /\ view' \in Views("SelectLocation")
       /\ focused' \in {w} \cup (IF view' = "EntryHidden" THEN {"ExitTab"} ELSE Countries)
       /\ UNCHANGED <<topPage, query>> /\ NoPopupMoves
    \/ w = "RefreshConnection" /\ Call(w, n)
    \/ w = "ConnectDisconnect" /\ view = "Disconnected" /\ Call(w, n)
    \/ w = "ConnectDisconnect" /\ view # "Disconnected" /\ Ask("Disconnect", w, n)

ActivateSelectLocation(w, n) ==
    \/ w = "SearchAnchor" /\ n = 0 /\ Remain(w)
    \/ w = "FilterButton" /\ Enter("SelectLocationFilter", w, n)
    \/ /\ w \in {"EntryTab", "ExitTab"} /\ n = 0   \* onto its selection, if shown
       /\ focused' \in {w} \cup Countries
       /\ view' \in {"Multihop", "EntryHidden"}
       /\ view' = "EntryHidden" => w = "EntryTab" /\ focused' = w
       /\ UNCHANGED <<navVars, query>> /\ NoPopupMoves
    \/ w \in Countries /\ n = 0 /\ leave_sub_page(w) /\ NoPopupMoves
    \/ w \in Countries /\ Show(w, n)             \* refused: the page stays

ActivateFilter(w, n) == w \in {"OwnershipAny", "ProvidersAll"} /\ n = 0 /\ Remain(w)

ActivateAccount(w, n) ==
    \/ w \in RowNames("RemoveDevice") /\ CallAndRefetch(w, n)
    \/ /\ w = "ManageDevices" /\ n \in Sends     \* and list_devices
       /\ focused' = w
       /\ enter_sub_page("AccountDevices")
       /\ NoPopupMoves
    \/ w = "ShowAccount" /\ n = 0 /\ Remain(w)
    \/ w = "BuyCredit" /\ Show(w, n)
    \/ w = "RedeemVoucher" /\ Prompt("VoucherInput", FALSE, w, n)
    \/ w = "LogOut" /\ Ask("Logout", w, n)
    \/ w = "LogIn" /\ Prompt("AccountInput", FALSE, w, n)
    \/ w = "RotateKey" /\ Ask("RotateWireGuardKey", w, n)

\* The buttons of the lists' rows.  An edit starts from the row's address.
ActivateRow(w, n) ==
    \/ /\ w \in UNION {RowNames(name) : name \in {"RemoveAddress", "MethodToggle",
                                                "MethodUse", "RemoveApp"}}
       /\ Call(w, n)
    \/ w \in RowNames("EditAddress") /\ Prompt("CustomDnsInput", TRUE, w, n)
    \/ w \in RowNames("RemovePid") /\ CallAndRefetch(w, n)
    \/ w \in RowNames("RemoveOverride") /\ Ask("RemoveRelayOverride", w, n)

OpensPage ==
    [Daita |-> "SettingsDaita", Multihop |-> "SettingsMultihop",
     VpnSettings |-> "SettingsVpn", SplitTunneling |-> "SettingsSplitTunnel",
     ApiAccess |-> "SettingsApiAccess", DnsBlockers |-> "SettingsDnsBlockers",
     CustomDns |-> "SettingsCustomDns", AntiCensorship |-> "SettingsAntiCensorship",
     ServerIp |-> "SettingsRelayOverrides"]

Toggles ==
    {"MultihopToggle", "DaitaToggle", "DirectOnlyToggle", "Ipv6Toggle", "DeviceIpAuto",
     "DnsBlockAds", "CustomDnsToggle", "SplitTunnelToggle", "ModeAuto"}

\* A blank port is valid: it clears the setting.
ActivateSettings(w, n) ==
    \/ w \in DOMAIN OpensPage /\ Enter(OpensPage[w], w, n)
    \/ w = "DisconnectAndQuit" /\ Quit(w, n)
    \/ w \in Toggles /\ Call(w, n)
    \/ /\ w \in {"BlurbPrev", "BlurbNext"} /\ n = 0
       /\ focused' = w
       /\ view' = IF w = "BlurbNext" THEN "LastBlurb" ELSE "FirstBlurb"
       /\ UNCHANGED <<navVars, query>> /\ NoPopupMoves
    \/ w = "LockdownToggle" /\ Ask("ToggleLockdown", w, n)
    \/ w = "MtuEdit" /\ n = 0 /\ Remain(w)
    \/ /\ w \in {"Ipv6Info", "KillSwitchInfo", "KillSwitchToggle", "LockdownInfo"}
       /\ Show(w, n)
    \/ w = "AddAddress" /\ Prompt("CustomDnsInput", FALSE, w, n)
    \/ /\ w \in {"AddApp", "AddPid"}
       /\ Prompt(IF w = "AddApp" THEN "SplitTunnelPathInput"
                 ELSE "SplitTunnelPidInput", FALSE, w, n)
    \/ w = "PortEdit" /\ Prompt("PortInput", TRUE, w, n)
    \/ w = "AddOverride" /\ Prompt("RelayOverrideInput", FALSE, w, n)
    \/ w = "ClearOverrides" /\ Ask("ClearRelayOverrides", w, n)

Activate(w, n) ==
    \/ ActivateOverlay(w, n)
    \/ ActivateStatus(w, n)
    \/ ActivateSelectLocation(w, n)
    \/ ActivateFilter(w, n)
    \/ ActivateAccount(w, n)
    \/ ActivateRow(w, n)
    \/ ActivateSettings(w, n)

-----------------------------------------------------------------------------
(* The keys that no input popup takes, in handle_key_event_inner's order.  *)
(* The two text fields of a page take plain keys only: with Ctrl or Alt    *)
(* each of q, 1 to 4, Esc and Enter has its usual meaning in them too.     *)

Listening == EventArm /\ ~InputHasKeys

\* Typing in the location filter, erasing, and Esc while it holds text.
SearchKey ==
    /\ Listening /\ search_focused
    /\ query' \in BOOLEAN
    /\ UNCHANGED <<navVars, view, focused, overlay, input, quit>>
    /\ AfterEvent(0) /\ Handled

\* What one digit or Backspace makes of a draft: a full buffer drops digits
\* and an empty one has nothing to erase.
Typed(d) == IF d = BadMtu THEN Mtu \cup {BadMtu} ELSE {d, BadMtu}

\* Typing in the MTU field, and Esc while the draft is dirty.
MtuKey ==
    /\ Listening /\ mtu_field_focused
    /\ \/ draft' \in Typed(draft)
       \/ mtu_field_dirty /\ draft' = cachedMtu
    /\ sent' = <<>>
    /\ UNCHANGED <<navVars, focused, query, view, overlay, input, inputReturn, notes,
                   quit, cachedMtu, daemonMtu, pushes>>
    /\ Handled

MtuEnter ==
    /\ Listening /\ mtu_field_focused
    /\ UNCHANGED <<navVars, focused, query, view, overlay, input, inputReturn, quit>>
    /\ commit_pending_mtu(0)
    /\ Handled

SlashKey ==
    /\ Listening /\ current_page = "SelectLocation" /\ ~search_focused
    /\ focused' = "SearchAnchor"
    /\ UNCHANGED <<overlay, input, quit>> /\ StayOnPage
    /\ AfterEvent(0) /\ Handled

QuitKey ==
    /\ Listening
    /\ quit' = TRUE
    /\ UNCHANGED <<focused, overlay, input>> /\ StayOnPage
    /\ AfterEvent(0) /\ Handled

\* Reaching the tab bar lands on the tab of the present page.
prefer_active_tab(page, w) == IF w \in Tabs THEN active_tab(page) ELSE w

\* Where a navigation key takes the focus from widget w of registry reg:
\* NoWidget leaves it alone.
Target(page, reg, shielded, w, key) ==
    LET step == navigate(reg, w, key)
        tree == page = "SelectLocation" /\ w \in Countries
        scrolls == \/ key \in {"Up", "Down"}
                   \/ key \in {"Home", "End", "PageUp", "PageDown"} /\ ~shielded
    IN  IF page = "Logs" /\ scrolls THEN NoWidget
        ELSE CASE key \in {"Left", "Right"} -> IF tree THEN NoWidget ELSE step
               [] key \in {"Up", "Down"} -> prefer_active_tab(page, step)
               [] key = "Home" -> Home(reg, w)
               [] key = "End" -> End(reg, w)
               [] key = "PageUp" -> move_rows(reg, w, 0 - PAGE_STEP_ROWS)
               [] key = "PageDown" -> move_rows(reg, w, PAGE_STEP_ROWS)
               [] key = "Tab" -> prefer_active_tab(page, cycle_pane(reg, w, TRUE))
               [] key = "BackTab" -> prefer_active_tab(page, cycle_pane(reg, w, FALSE))

Reaches(key) ==
    Target(current_page, last_focus_registry, overlay.kind # "None", focused, key)

NavigationKeys ==
    Arrows \cup {"Home", "End", "PageUp", "PageDown", "Tab", "BackTab"}

NavigationKey(key) ==
    /\ Listening
    /\ Reaches(key) \notin {NoWidget, focused}
    /\ focused' = Reaches(key)
    /\ UNCHANGED <<overlay, input, quit>> /\ StayOnPage
    /\ AfterEvent(0) /\ Handled

\* Esc: the overlay first, then the sub-page.
CancelKey ==
    /\ Listening
    /\ \/ /\ overlay.kind # "None"
          /\ close_overlay_restoring_focus(focused) /\ StayOnPage
       \/ /\ overlay.kind = "None" /\ stack # <<>>
          /\ leave_sub_page(focused) /\ UNCHANGED overlay
    /\ UNCHANGED <<input, quit>>
    /\ AfterEvent(0) /\ Handled

ActivateKey ==
    /\ Listening
    /\ focused # NoWidget
    /\ \E n \in Sends : Activate(focused, n) /\ AfterEvent(n)
    /\ Handled

\* Mutant: under a popup too.
NavigateTab_anywhere(page) ==
    /\ Listening
    /\ navigate_to(page)
    /\ focused' = TabOf[page]
    /\ UNCHANGED <<overlay, input, quit>>
    /\ AfterEvent(0) /\ Handled

\* 1 to 4.
NavigateTab(page) ==
    /\ Listening
    /\ overlay.kind = "None"
    /\ navigate_to(page)
    /\ focused' = TabOf[page]
    /\ UNCHANGED <<overlay, input, quit>>
    /\ AfterEvent(0) /\ Handled

InputPopupKey ==
    /\ EventArm
    /\ \E n \in Sends : InputKey(n) /\ AfterEvent(n)
    /\ Handled

\* A click on one of the widgets of the last frame.
Click(w) ==
    /\ EventArm
    /\ \E n \in Sends : Activate(w, n) /\ AfterEvent(n)
    /\ Handled

Resize ==
    /\ drawn /\ ~quit
    /\ small' = ~small
    /\ drawn' = FALSE
    /\ UNCHANGED <<navVars, focused, query, view, overlay, input, inputReturn,
                   notes, quit, mtuVars, history>>

UserEvent ==
    \/ SearchKey \/ MtuKey \/ MtuEnter \/ SlashKey \/ QuitKey \/ CancelKey
    \/ ActivateKey \/ InputPopupKey \/ Resize
    \/ \E key \in NavigationKeys : NavigationKey(key)
    \/ \E page \in DOMAIN TabOf : NavigateTab(page)
    \/ \E w \in Ids(last_focus_registry) : Click(w)

-----------------------------------------------------------------------------
(* The other arms of the select, and the daemon.                           *)

\* What a push of the daemon can make of the page that is shown.  A list of
\* PIDs, the blurb and another account's devices come with no push.
PushedViews ==
    CASE current_page = "AccountDevices" -> {"NoDevice", "Alone"}
      [] current_page = "SettingsDaita" -> {view}
      [] current_page = "SettingsSplitTunnel" /\ Linux -> {view}
      [] OTHER -> Views(current_page)

DataChanged ==
    /\ drawn /\ ~quit
    /\ view' \in PushedViews \ {view}
    /\ drawn' = FALSE
    /\ UNCHANGED <<navVars, focused, query, overlay, input, inputReturn, notes,
                   small, quit, mtuVars, history>>

SettingsChanged ==
    /\ drawn /\ ~quit
    /\ pushes # <<>>
    /\ cachedMtu' = Head(pushes) /\ pushes' = Tail(pushes)
    /\ drawn' = FALSE
    /\ UNCHANGED <<navVars, focused, query, view, overlay, input, inputReturn,
                   notes, small, quit, draft, daemonMtu, sent, history>>

\* The latest message replaces whatever overlay is up, and inherits the
\* widget to return to.
\* Mutant: whatever has the focus, an overlay's button included.
NotificationReturn_afresh == focused

NotificationReturn ==
    IF overlay.kind = "None" THEN focused ELSE overlay.return_focus

ShowNotification ==
    /\ drawn /\ ~quit
    /\ notes > 0
    /\ notes' = notes - 1
    /\ overlay' = Notification(NotificationReturn)
    /\ drawn' = FALSE
    /\ opener' = IF PopupOpen THEN opener ELSE focused
    /\ armed' = FALSE
    /\ UNCHANGED <<navVars, focused, query, view, input, inputReturn, small,
                   quit, mtuVars>>

\* Another client of the daemon.
SetMtuElsewhere ==
    /\ ~quit
    /\ Len(pushes) < MaxPushes
    /\ \E mtu \in Mtu \ {daemonMtu} :
         daemonMtu' = mtu /\ pushes' = Append(pushes, mtu)
    /\ UNCHANGED <<navVars, focused, query, view, overlay, input, inputReturn,
                   notes, drawn, small, quit, draft, cachedMtu, sent, history>>

\* The loop has ended.
Exited == quit /\ UNCHANGED vars

Next ==
    \/ Draw
    \/ UserEvent
    \/ DataChanged \/ SettingsChanged \/ ShowNotification
    \/ SetMtuElsewhere
    \/ Exited

Spec == Init /\ [][Next]_vars

-----------------------------------------------------------------------------
(* Properties.                                                             *)

\* The widgets that the navigation keys lead to from w, in one frame.
Reachable(page, reg, shielded, w) ==
    LET steps == UNION {{<<v, Target(page, reg, shielded, v, key)>> :
                           key \in NavigationKeys} : v \in Ids(reg)}
        after[n \in 0 .. Cardinality(Ids(reg))] ==
            IF n = 0 THEN {w}
            ELSE LET S == after[n - 1]
                 IN  S \cup {step[2] : step \in {s \in steps : s[1] \in S}}
    IN  after[Cardinality(Ids(reg))] \ {NoWidget}

\* The same for the pages without a popup, computed once.
PageReach ==
    [page \in PageId |->
       [v \in Views(page) |->
          [w \in Ids(PageRegistry[page][v]) |->
             Reachable(page, PageRegistry[page][v], FALSE, w)]]]

\* Nothing on a frame is for the mouse only: wherever the events so far have
\* left the focus, the navigation keys lead from it to every widget that can be
\* clicked, and in particular the focus is on the frame.  The exceptions: an
\* input popup moves a focus of its own, a terminal too small shows nothing, and
\* on Logs the keys that would lead to the window's [x] scroll instead.
EveryWidgetIsReachable ==
    drawn /\ ~small /\ ~InputHasKeys =>
      /\ contains(last_focus_registry, focused)
      /\ Ids(last_focus_registry) \ (IF current_page = "Logs" THEN {"WindowClose"} ELSE {})
           \subseteq
             IF overlay.kind = "None" THEN PageReach[current_page][view][focused]
             ELSE Reachable(current_page, last_focus_registry, TRUE, focused)

\* The way back is the one the breadcrumb shows: the sub-page stack, which Esc
\* and [<] pop, always is the chain of segments that the renderer derives from
\* the page alone, under the tab that is highlighted.
BreadcrumbTellsTheWayBack ==
    /\ [i \in DOMAIN stack |-> stack[i].page] = breadcrumb_segments(current_page)
    /\ topPage = top_level_root(current_page)

\* No Enter that the user meant for something else accepts a confirm prompt:
\* however it came up, [Confirm] has the focus only after the user has moved
\* inside that prompt.
ConfirmNeedsAMove ==
    drawn /\ overlay.kind = "Confirm" /\ focused = "ConfirmAccept" => armed

\* Whatever popups were stacked, replaced or chained, closing the last one puts
\* the focus back on the page widget that was focused before the first.
PopupsReturnToOpener ==
    [][PopupOpen /\ ~PopupOpen' /\ opener # NoWidget => focused' = opener]_vars

\* While a popup is on the screen the page under it is out of reach: no key and
\* no click navigates, goes back, or edits the location filter.
PopupShieldsPage ==
    [][drawn /\ PopupOpen => UNCHANGED <<topPage, stack, query>>]_vars

\* Whichever key or click takes the focus off the MTU field, an edit it leaves
\* behind is answered: sent to the daemon as it stands, or met with a message.
LeavingTheFieldCommits ==
    [][drawn /\ mtu_field_focused /\ ~mtu_field_focused' /\ mtu_field_dirty =>
         \/ notes' > notes
         \/ Len(sent') = 1 /\ sent'[1] = draft]_vars

\* components.rs: the overlay slice "is far above every per-page slice [...] so
\* overlays can never collide with page widgets even if a page slice grows": no
\* row of a page's body holds a button that activates as an overlay's.
OverlayIdsAreApart ==
    \A r \in RowNumbers(last_focus_registry) :
      LET row == last_focus_registry.rows[r]
      IN  drawn /\ ~PopupOpen /\ ~Only(Chrome, row) =>
            \A c \in DOMAIN row : row[c].id \notin OverlayIds
=============================================================================
