------------------------------- MODULE Screen -------------------------------
(***************************************************************************)
(* What a frame registers with the focus engine: the pages of              *)
(* app/navigation.rs and, for each, the focus rows its renderer registers  *)
(* between the chrome (the window's [x], the tabs, a sub-page's [<]) and   *)
(* the popups layered over it.  What a page registers depends on the data  *)
(* it shows; a view is one of the shapes it can take.  Of widgets that the *)
(* run loop treats alike a page keeps one or two: the VPN page's four      *)
(* toggles with an [Info] are represented by IPv6, its three radios, the   *)
(* DNS blockers and the obfuscation modes by one each, the location tree   *)
(* by two collapsed countries.                                             *)
(***************************************************************************)
EXTENDS FocusRegistry, WidgetIds, TLC

CONSTANTS
    Linux,          \* cfg!(target_os = "linux"): split tunneling by PID
    ListRows        \* bound: rows of a page's list, when it has any

ASSUME ScreenAssumption == Linux \in BOOLEAN /\ ListRows \in Nat \ {0}

TopLevelPages == <<"Status", "Account", "Settings", "Logs">>

TabOf == [Status |-> "StatusTab", Account |-> "AccountTab",
          Settings |-> "SettingsTab", Logs |-> "LogsTab"]

Tabs == {TabOf[page] : page \in DOMAIN TabOf}

tab_page_for_widget(w) == CHOOSE page \in DOMAIN TabOf : TabOf[page] = w

StatusPages == {"SelectLocation", "SelectLocationFilter"}

VpnPages == {"SettingsDnsBlockers", "SettingsCustomDns", "SettingsAntiCensorship",
             "SettingsRelayOverrides"}

SettingsPages == VpnPages \cup
    {"SettingsDaita", "SettingsMultihop", "SettingsVpn", "SettingsSplitTunnel",
     "SettingsApiAccess"}

SubPages == StatusPages \cup SettingsPages \cup {"AccountDevices"}

PageId == DOMAIN TabOf \cup SubPages

top_level_root(page) ==
    CASE page \in StatusPages -> "Status"
      [] page = "AccountDevices" -> "Account"
      [] page \in SettingsPages -> "Settings"
      [] OTHER -> page

parent_sub_page(page) ==
    CASE page = "SelectLocationFilter" -> "SelectLocation"
      [] page \in VpnPages -> "SettingsVpn"
      [] OTHER -> "None"

\* The sub-pages of the breadcrumb row, from below the root down to the page.
breadcrumb_segments(page) ==
    IF page \notin SubPages THEN <<>>
    ELSE IF parent_sub_page(page) = "None" THEN <<page>>
    ELSE <<parent_sub_page(page), page>>

active_tab(page) == TabOf[top_level_root(page)]

-----------------------------------------------------------------------------
(* Widgets and rows.                                                       *)

\* The button of each row of a list, by its number in the range at base.
RowButton(base, name) ==
    [i \in 1 .. ListRows |-> WidgetAt(base + i - 1, name \o ToString(i))]

\* The same by name alone: those that no overlay's button stands for.
RowNames(name) == {name \o ToString(i) : i \in 1 .. ListRows}

RemoveDevice == RowButton(REMOVE_DEVICE_BASE, "RemoveDevice")
EditAddress == RowButton(CUSTOM_DNS_EDIT_BASE, "EditAddress")
RemoveAddress == RowButton(CUSTOM_DNS_REMOVE_BASE, "RemoveAddress")
MethodToggle == RowButton(API_ACCESS_TOGGLE_BASE, "MethodToggle")
MethodUse == RowButton(API_ACCESS_USE_BASE, "MethodUse")
RemoveExcluded ==
    IF Linux THEN RowButton(SPLIT_TUNNEL_REMOVE_PID_BASE, "RemovePid")
    ELSE RowButton(SPLIT_TUNNEL_REMOVE_APP_BASE, "RemoveApp")
RemoveOverride == RowButton(RELAY_OVERRIDE_REMOVE_BASE, "RemoveOverride")

Countries == {"Country1", "Country2"}

\* The widgets with a number of their own, in the order of their pages.
FixedIds ==
    OverlayIds \cup Tabs \cup Countries
      \cup {"DetailsToggle", "SwitchLocation", "RefreshConnection", "ConnectDisconnect"}
      \cup {"EntryTab", "ExitTab", "SearchAnchor", "FilterButton", "OwnershipAny",
            "ProvidersAll"}
      \cup {"ManageDevices", "ShowAccount", "BuyCredit", "RedeemVoucher", "LogOut",
            "LogIn", "RotateKey"}
      \cup {"Daita", "Multihop", "VpnSettings", "SplitTunneling", "ApiAccess",
            "DisconnectAndQuit", "BlurbPrev", "BlurbNext", "DaitaToggle",
            "DirectOnlyToggle", "MultihopToggle", "DnsBlockers", "CustomDns",
            "Ipv6Toggle", "Ipv6Info", "KillSwitchToggle", "KillSwitchInfo",
            "LockdownToggle", "LockdownInfo", "AntiCensorship", "DeviceIpAuto",
            "MtuEdit", "ServerIp", "DnsBlockAds", "CustomDnsToggle", "AddAddress",
            "ModeAuto", "PortEdit", "SplitTunnelToggle", "AddApp", "AddPid",
            "AddOverride", "ClearOverrides"}

RowBases ==
    {"RemoveDevice", "EditAddress", "RemoveAddress", "MethodToggle", "MethodUse",
     "RemoveApp", "RemovePid", "RemoveOverride"}

\* By name a row's button is none of the others: what it may share with an
\* overlay's is the number.
ASSUME RowNamesAssumption ==
    \A base \in RowBases : RowNames(base) \cap (FixedIds \cup {NoWidget}) = {}

\* No two rows of the lists share one.
ASSUME RowNamesDiffer ==
    \A base \in RowBases :
      /\ \A i \in 1 .. ListRows : \A j \in 1 .. ListRows :
            base \o ToString(i) = base \o ToString(j) => i = j
      /\ \A other \in RowBases \ {base} : RowNames(base) \cap RowNames(other) = {}

KindOf(id) ==
    CASE id \in Tabs -> "TabButton"
      [] id = "WindowClose" -> "WindowClose"
      [] id = "BreadcrumbBack" -> "BreadcrumbBack"
      [] id \in {"SearchAnchor", "MtuEdit"} -> "TextInput"
      [] id \in {"Ipv6Toggle", "KillSwitchToggle", "LockdownToggle",
                 "ProvidersAll"} -> "Toggle"
      [] id \in Countries \cup {"DeviceIpAuto", "OwnershipAny"} -> "SelectOption"
      [] OTHER -> "Button"

\* A row drawn in the order it is registered.
Row(ids) == [c \in 1 .. Len(ids) |-> Widget(ids[c], KindOf(ids[c]), c)]

\* One row for each widget.
Column(ids) == [r \in 1 .. Len(ids) |-> Row(<<ids[r]>>)]

\* A VPN toggle registers its checkbox first and draws [Info] to its left.
ToggleRow(toggle, info) ==
    <<Widget(toggle, "Toggle", 2), Widget(info, "Button", 1)>>

\* The rows of a list: buttons whatever their number says.
ListOf(buttons) ==
    [r \in 1 .. ListRows |->
       [c \in 1 .. Len(buttons) |-> Widget(buttons[c][r], "Button", c)]]

-----------------------------------------------------------------------------
(* The pages.                                                              *)

Views(page) ==
    CASE page = "Status" -> {"Connected", "Blocked", "Connecting", "Disconnected"}
      [] page = "Account" -> {"LoggedIn", "LoggedOut"}
      [] page = "AccountDevices" -> {"NoDevice", "Alone", "Others"}
      [] page = "SelectLocation" -> {"Single", "Multihop", "EntryHidden"}
      [] page = "SettingsDaita" -> {"FirstBlurb", "LastBlurb"}
      [] page \in {"SettingsCustomDns", "SettingsSplitTunnel",
                   "SettingsRelayOverrides", "SettingsApiAccess"} -> {"Empty", "Listed"}
      [] page = "SettingsAntiCensorship" -> {"NoPort", "Port"}
      [] OTHER -> {"Plain"}

View == UNION {Views(page) : page \in PageId}

\* [Hide detail] while connected, [Reconnect] while there is a tunnel or a
\* block to reconnect from ("Blocked" is the error state or a reconnection,
\* "Disconnected" is also the way there).
TopActionRow(shape) ==
    Row(IF shape \in {"Connected", "Blocked"}
        THEN <<"SwitchLocation", "RefreshConnection">> ELSE <<"SwitchLocation">>)

StatusRows(shape) ==
    (IF shape = "Connected" THEN Column(<<"DetailsToggle">>) ELSE <<>>)
      \o <<TopActionRow(shape)>> \o Column(<<"ConnectDisconnect">>)

\* With multihop the tabs of the two nodes; while DAITA picks the entry,
\* nothing else.
SelectLocationRows(shape) ==
    (IF shape = "Single" THEN <<>> ELSE <<Row(<<"EntryTab", "ExitTab">>)>>)
      \o IF shape = "EntryHidden" THEN <<>>
         ELSE <<Row(<<"SearchAnchor", "FilterButton">>)>>
                \o Column(<<"Country1", "Country2">>)

LoggedInRows ==
    Column(<<"ManageDevices", "ShowAccount", "BuyCredit", "RedeemVoucher", "LogOut">>)

LoggedOutRows == Column(<<"LogIn">>)

AccountRows(shape) == IF shape = "LoggedIn" THEN LoggedInRows ELSE LoggedOutRows

DevicesRows(shape) ==
    (IF shape = "NoDevice" THEN <<>> ELSE Column(<<"RotateKey">>))
      \o (IF shape = "Others" THEN ListOf(<<RemoveDevice>>) ELSE <<>>)

FilterRows == Column(<<"OwnershipAny", "ProvidersAll">>)

SettingsRows ==
    Column(<<"Daita", "Multihop", "VpnSettings", "SplitTunneling", "ApiAccess",
             "DisconnectAndQuit">>)

MultihopRows == Column(<<"MultihopToggle">>)

\* The pager has a button only in the direction where there is a page.
BlurbPager(shape) ==
    Column(<<IF shape = "FirstBlurb" THEN "BlurbNext" ELSE "BlurbPrev">>)

DaitaRows(shape) == BlurbPager(shape) \o Column(<<"DaitaToggle", "DirectOnlyToggle">>)

DeviceIpRadio == Row(<<"DeviceIpAuto">>)

MtuInput == Row(<<"MtuEdit">>)

VpnRows ==
    Column(<<"DnsBlockers", "CustomDns">>)
      \o <<ToggleRow("Ipv6Toggle", "Ipv6Info"),
           ToggleRow("KillSwitchToggle", "KillSwitchInfo"),
           ToggleRow("LockdownToggle", "LockdownInfo")>>
      \o Column(<<"AntiCensorship">>) \o <<DeviceIpRadio, MtuInput>>
      \o Column(<<"ServerIp">>)

DnsBlockersRows == Column(<<"DnsBlockAds">>)

\* The list of a page, when it has entries, column by column.
Entries(shape, buttons) == IF shape = "Listed" THEN ListOf(buttons) ELSE <<>>

CustomDnsRows(shape) ==
    Column(<<"CustomDnsToggle">>)
      \o Entries(shape, <<EditAddress, RemoveAddress>>)
      \o Column(<<"AddAddress">>)

AntiCensorshipRows(shape) ==
    Column(IF shape = "Port" THEN <<"ModeAuto", "PortEdit">> ELSE <<"ModeAuto">>)

ApiAccessRows(shape) == Entries(shape, <<MethodToggle, MethodUse>>)

SplitTunnelRows(shape) ==
    Column(<<"SplitTunnelToggle">>)
      \o Entries(shape, <<RemoveExcluded>>)
      \o Column(<<IF Linux THEN "AddPid" ELSE "AddApp">>)

OverridesFooter == Row(<<"AddOverride", "ClearOverrides">>)

RelayOverridesRows(shape) == Entries(shape, <<RemoveOverride>>) \o <<OverridesFooter>>

Body(page, shape) ==
    CASE page = "Status" -> StatusRows(shape)
      [] page = "SelectLocation" -> SelectLocationRows(shape)
      [] page = "SelectLocationFilter" -> FilterRows
      [] page = "Account" -> AccountRows(shape)
      [] page = "AccountDevices" -> DevicesRows(shape)
      [] page = "Settings" -> SettingsRows
      [] page = "SettingsDaita" -> DaitaRows(shape)
      [] page = "SettingsMultihop" -> MultihopRows
      [] page = "SettingsVpn" -> VpnRows
      [] page = "SettingsDnsBlockers" -> DnsBlockersRows
      [] page = "SettingsCustomDns" -> CustomDnsRows(shape)
      [] page = "SettingsAntiCensorship" -> AntiCensorshipRows(shape)
      [] page = "SettingsApiAccess" -> ApiAccessRows(shape)
      [] page = "SettingsSplitTunnel" -> SplitTunnelRows(shape)
      [] page = "SettingsRelayOverrides" -> RelayOverridesRows(shape)
      [] page = "Logs" -> <<>>

-----------------------------------------------------------------------------
(* The frame.                                                              *)

TabRow == Row([i \in 1 .. 4 |-> TabOf[TopLevelPages[i]]])

BreadcrumbRow == Row(<<"BreadcrumbBack">>)

ChromeRows(page) ==
    <<Row(<<"WindowClose">>), TabRow>>
      \o IF page \in SubPages THEN <<BreadcrumbRow>> ELSE <<>>

\* The two lists that scroll.
Scrolls(row) == row[1].id \in Countries \cup {RemoveOverride[i] : i \in 1 .. ListRows}

ScrollGroups(rows) ==
    LET inside == {r \in 1 .. Len(rows) : Scrolls(rows[r])}
    IN  IF inside = {} THEN <<>>
        ELSE <<[first |-> Lowest(inside), last |-> Highest(inside)]>>

Registry(rows) == [rows |-> rows, groups |-> ScrollGroups(rows)]

PageRegistry ==
    [page \in PageId |->
       [shape \in Views(page) |-> Registry(ChromeRows(page) \o Body(page, shape))]]

Popup(ids) == [rows |-> <<Row(ids)>>, groups |-> <<>>]

ModalButtons == <<"ModalCancel", "ModalSubmit">>

\* A popup's text fields are registered for the mouse.
MultiFieldInputPrompt == Popup(ModalFields \o ModalButtons)

InputPrompt(mode) ==
    IF mode = "RelayOverrideInput" THEN MultiFieldInputPrompt
    ELSE Popup(<<"ModalField">> \o ModalButtons)

\* Mutant: [Confirm] first.
ConfirmOverlay_accept_first == Popup(<<"ConfirmAccept", "ConfirmReject">>)

ConfirmOverlay == Popup(<<"ConfirmReject", "ConfirmAccept">>)

NotificationOverlay == Popup(<<"NotificationDismiss">>)

NothingRegistered == [rows |-> <<>>, groups |-> <<>>]

\* Every widget a frame can register.
WidgetId ==
    OverlayIds
      \cup UNION {UNION {Ids(PageRegistry[page][shape]) : shape \in Views(page)} :
                     page \in PageId}
=============================================================================
