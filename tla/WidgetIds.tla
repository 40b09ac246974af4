------------------------------ MODULE WidgetIds ------------------------------
(***************************************************************************)
(* The numbers of the widgets whose ids the code computes: the buttons of  *)
(* a list's rows, a base plus the row's index, each range starting where   *)
(* the one before ends (define_page_widgets! of account.rs and             *)
(* settings.rs), and the overlay slice of components.rs.                   *)
(***************************************************************************)
EXTENDS Naturals

\* The sentinels behind the last fixed id of the account and settings pages.
AccountSentinel == 39

SettingsSentinel == 162

REMOVE_DEVICE_BASE == AccountSentinel

CUSTOM_DNS_REMOVE_BASE == SettingsSentinel
CUSTOM_DNS_REMOVE_MAX == 16
CUSTOM_DNS_EDIT_BASE == CUSTOM_DNS_REMOVE_BASE + CUSTOM_DNS_REMOVE_MAX

API_ACCESS_MAX == 16
API_ACCESS_TOGGLE_BASE == CUSTOM_DNS_EDIT_BASE + CUSTOM_DNS_REMOVE_MAX
API_ACCESS_USE_BASE == API_ACCESS_TOGGLE_BASE + API_ACCESS_MAX

SPLIT_TUNNEL_REMOVE_MAX == 32
SPLIT_TUNNEL_REMOVE_APP_BASE == API_ACCESS_USE_BASE + API_ACCESS_MAX
SPLIT_TUNNEL_REMOVE_PID_BASE == SPLIT_TUNNEL_REMOVE_APP_BASE + SPLIT_TUNNEL_REMOVE_MAX

RELAY_OVERRIDE_REMOVE_BASE == SPLIT_TUNNEL_REMOVE_PID_BASE + SPLIT_TUNNEL_REMOVE_MAX

-----------------------------------------------------------------------------
\* From here on the overlays' buttons, in the order of OverlayWidget.
OVERLAY_BASE == 240

OverlayWidget ==
    <<"ConfirmReject", "ConfirmAccept", "NotificationDismiss", "ModalCancel",
      "ModalSubmit", "BreadcrumbBack", "ModalField", "WindowClose">>

\* The fields of a popup that has several.
INPUT_MODAL_FIELD_BASE == OVERLAY_BASE + 8

ModalFields == <<"HostnameField", "Ipv4Field", "Ipv6Field">>

OverlayIds ==
    {OverlayWidget[i] : i \in DOMAIN OverlayWidget}
      \cup {ModalFields[i] : i \in DOMAIN ModalFields}

\* A widget is its number: a row's button that is given the number of an
\* overlay's button is that button.
WidgetAt(number, name) ==
    CASE number \in OVERLAY_BASE .. OVERLAY_BASE + 7 ->
           OverlayWidget[number - OVERLAY_BASE + 1]
      [] number \in INPUT_MODAL_FIELD_BASE .. INPUT_MODAL_FIELD_BASE + 2 ->
           ModalFields[number - INPUT_MODAL_FIELD_BASE + 1]
      [] OTHER -> name
=============================================================================
