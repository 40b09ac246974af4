--------------------------- MODULE SelectLocation ---------------------------
(***************************************************************************)
(* The Select-location page: PageState of app/pages/select_location.rs,    *)
(* the renderer and the handlers of tui/pages/select_location.rs, and what *)
(* tui/mod.rs does with keys and the mouse while the page is open.         *)
(*                                                                         *)
(* A handler gets the App as the last frame showed it and leaves an App;   *)
(* the loop draws that one before it takes the next event, and drawing     *)
(* moves the focus and the scroll window.  A step is both: a handler is an *)
(* operator on the App, and its action shows what the handler left.  A     *)
(* push may change the relay list or the settings between any two events.  *)
(*                                                                         *)
(* Left to other modules: the chrome above the page and the overlays       *)
(* (RunLoop), what the daemon does with a pick (RelaySync).  Here an RPC   *)
(* succeeds or fails, and the settings change when the daemon pushes them. *)
(* The wheel is left out while DAITA hides the entry list.                 *)
(***************************************************************************)
EXTENDS LocationTree

CONSTANTS
    RelayLists,      \* the relay lists the daemon may push
    SettingsValues,  \* the settings it may push
    Queries,         \* the texts typed into the search field
    Letters,
    Height,          \* the rows the terminal has for the page, tabs included
    PAGE_STEP_ROWS,
    MaxOpen,         \* expansions a user makes before he closes one
    MaxHeld          \* nodes whose window the wheel holds at a time

RelayLocation ==
    {r \in [country : Nat, city : Nat, host : Seq(STRING)] :
       <<r.country, r.city>> \in DOMAIN CityTexts}

\* Not every location that is set is one the relay list has.
Selectable ==
    {l \in [kind : Kinds \cup {"Any"}, country : Nat, city : Nat, host : Seq(STRING)] :
       l.kind = "City" => l.country \in DOMAIN CountryTexts}

ASSUME PageAssumption ==
    /\ RelayLists \subseteq Seq(RelayLocation)
    /\ SettingsValues \subseteq [exit : Selectable, entry : Selectable,
                                 multihop : BOOLEAN, daita : BOOLEAN]
    /\ <<>> \in Queries
    /\ \A q \in Queries : q # <<>> => Front(q) \in Queries
    /\ Height \in Nat /\ Height > 2

VARIABLE app  \* the fields of App and of PageState the page works with

NodeKind == {"Entry", "Exit"}

Other(mode) == IF mode = "Entry" THEN "Exit" ELSE "Entry"

Tabs == [Entry |-> "EntryTab", Exit |-> "ExitTab"]

\* current_selection_for_mode; other_node_selection asks for the other node's.
Selection(a, mode) == IF mode = "Entry" THEN a.settings.entry ELSE a.settings.exit

is_multihop_enabled(a) == a.settings.multihop

daita_overrides_entry(a) == a.settings.multihop /\ a.settings.daita

effective_mode(a) == IF is_multihop_enabled(a) THEN a.node_mode ELSE "Exit"

HiddenEntry(a, mode) == mode = "Entry" /\ daita_overrides_entry(a)

filter_active(a) == a.query # <<>>

Open(a) == a.view[a.node_mode]

RadioIds == UNION {ToSet(Radio[kind]) : kind \in Kinds}

\* What the rows depend on: tabulated, since the values come from the constants.
Shapes ==
    {[relays |-> k[1], query |-> k[2], countries |-> k[3], cities |-> k[4]] :
       k \in RelayLists \X Queries \X (SUBSET DOMAIN CountryTexts)
                        \X (SUBSET DOMAIN CityTexts)}

FilteredTree == [s \in Shapes |-> project_filtered_tree(s.relays, s.query)]

VisibleRows ==
    [s \in Shapes |-> collect_visible_rows(FilteredTree[s], s, s.query # <<>>)]

Activations ==
    [s \in Shapes |->
       [widget \in RadioIds |->
          Activated(FilteredTree[s], s, s.query # <<>>, widget)]]

ShapeOf(a) == [relays |-> a.relay_locations, query |-> a.query,
               countries |-> Open(a).countries, cities |-> Open(a).cities]

Tree(a) == FilteredTree[ShapeOf(a)]

Rows(a) == VisibleRows[ShapeOf(a)]

\* Multihop takes a row for its tabs: a push may change the capacity.
RowCapacity(a) == Height - (IF is_multihop_enabled(a) THEN 2 ELSE 1)

-----------------------------------------------------------------------------
(* The frame.                                                              *)

Row(ids, kind) == [c \in DOMAIN ids |-> Widget(ids[c], kind, c)]

TreeRegistered(rows) ==
    LET ids == Kept([i \in DOMAIN rows |-> widget_for_row(rows, i)],
                    LAMBDA w : w # NoWidget)
    IN  Mapped(ids, LAMBDA w : Row(<<w>>, "SelectOption"))

\* What the page registers; a click also hits the chevrons of the rows drawn.
Registry(a) ==
    LET tabs == IF is_multihop_enabled(a)
                THEN <<Row(<<Tabs["Entry"], Tabs["Exit"]>>, "Button")>> ELSE <<>>
        search == <<Row(<<"SearchAnchor", "FilterButton">>, "TextInput")>>
        tree == TreeRegistered(Rows(a))
        above == Len(tabs) + 1
    IN  CASE a.page = "Status" ->
               [rows |-> <<Row(<<"SwitchLocation">>, "Button")>>, groups |-> <<>>]
          [] a.page = "SelectLocationFilter" ->
               [rows |-> <<Row(<<"OwnershipAny">>, "SelectOption")>>, groups |-> <<>>]
          [] a.page = "SelectLocation" /\ HiddenEntry(a, a.node_mode) ->
               [rows |-> tabs, groups |-> <<>>]
          [] OTHER ->
               [rows |-> tabs \o search \o tree,
                groups |-> IF tree = <<>> THEN <<>>
                           ELSE <<[first |-> above + 1, last |-> above + Len(tree)]>>]

\* The frame's scroll bookkeeping: a move of the focus ends the wheel's hold
\* on the window; a request to center is served once.
Scrolled(a) ==
    LET rows == Rows(a)
        at == RowsOwning(rows, a.focused)
        v == Open(a)
        held == v.scrolledAt # NoWidget /\ v.scrolledAt = a.focused
        most == IF Len(rows) > RowCapacity(a) THEN Len(rows) - RowCapacity(a) ELSE 0
        offset == IF v.center THEN centered_scroll_offset(at, Len(rows), RowCapacity(a))
                  ELSE IF held THEN Smaller(v.offset, most)
                  ELSE clamp_scroll_offset(v.offset, at, Len(rows), RowCapacity(a))
        kept == [v EXCEPT !.offset = offset, !.center = FALSE,
                          !.scrolledAt = IF held THEN @ ELSE NoWidget]
    IN  [a EXCEPT !.view[a.node_mode] = kept]

Rendered(a) ==
    IF a.page # "SelectLocation" THEN a
    ELSE LET synced == [a EXCEPT !.node_mode = effective_mode(a)]
         IN  IF HiddenEntry(synced, synced.node_mode) THEN synced ELSE Scrolled(synced)

\* Mutant: the focus stays on a widget that is gone.
Snapped_not_at_all(frame, registry) == frame

\* A frame whose focus is on a widget it does not register is rendered once
\* more, with the focus on a widget that exists.
Snapped(frame, registry) ==
    IF contains(registry, frame.focused) THEN frame
    ELSE Rendered([frame EXCEPT !.focused = first_body_widget(registry)])

InWindow(a, i) == Open(a).offset < i /\ i <= Open(a).offset + RowCapacity(a)

-----------------------------------------------------------------------------
(* Going to the current selection.                                         *)

\* Mutant: the city of a selected relay stays closed.
Unfolded_country_only(a, v, target) ==
    LET homes == {r \in ToSet(a.relay_locations) : r.host = target.host}
    IN  CASE target.kind = "City" -> [v EXCEPT !.countries = @ \cup {target.country}]
          [] target.kind = "Relay" ->
               [v EXCEPT !.countries = @ \cup {r.country : r \in homes}]
          [] OTHER -> v

\* A view with the rows above the target opened.
Unfolded(a, v, target) ==
    LET homes == {r \in ToSet(a.relay_locations) : r.host = target.host}
    IN  CASE target.kind = "City" -> [v EXCEPT !.countries = @ \cup {target.country}]
          [] target.kind = "Relay" ->
               [v EXCEPT !.countries = @ \cup {r.country : r \in homes},
                         !.cities = @ \cup {<<r.country, r.city>> : r \in homes}]
          [] OTHER -> v

\* focus_current_selection, or `fallback` when there is nothing to focus.
FocusCurrentSelection(a, mode, fallback) ==
    LET target == Selection(a, mode)
        v == Unfolded(a, a.view[mode], target)
        widget == focus_widget_for_target(Tree(a), v, filter_active(a), target)
    IN  [a EXCEPT !.node_mode = mode,
                  !.view[mode] = [v EXCEPT !.center = @ \/ widget # NoWidget],
                  !.focused = IF widget = NoWidget THEN fallback ELSE widget]

\* [Switch location] on the Status page opens the page on the exit node.
enter_with_current_selection_focused(a) ==
    FocusCurrentSelection([a EXCEPT !.page = "SelectLocation"], "Exit", a.focused)

-----------------------------------------------------------------------------
(* The handlers of keys.                                                   *)

Focus(a, widget) ==
    IF widget = NoWidget THEN a ELSE [a EXCEPT !.focused = widget]

\* leave_sub_page: back on the widget that was focused on entering.
leave_sub_page(a) ==
    IF a.page = "SelectLocationFilter"
    THEN [a EXCEPT !.page = "SelectLocation", !.focused = "FilterButton"]
    ELSE [a EXCEPT !.page = "Status", !.focused = "SwitchLocation"]

ExpansionsOf(v) == Cardinality(v.countries) + Cardinality(v.cities)

MayExpand(a) == ExpansionsOf(a.view["Entry"]) + ExpansionsOf(a.view["Exit"]) < MaxOpen

\* The row's own expansion bit, set or cleared.
WithRow(a, row, open) ==
    LET Changed(S, e) == IF open THEN S \cup {e} ELSE S \ {e}
    IN  IF open /\ ~MayExpand(a) THEN a
        ELSE IF KindOfRow(row) = "Country"
        THEN [a EXCEPT !.view[a.node_mode].countries = Changed(@, row.country)]
        ELSE [a EXCEPT !.view[a.node_mode].cities =
                Changed(@, <<row.country, row.location.city>>)]

IsExpanded(a, row) ==
    IF KindOfRow(row) = "Country" THEN row.country \in Open(a).countries
    ELSE <<row.country, row.location.city>> \in Open(a).cities

\* The filter holds this row open: the user's own bit stays untouched.
HeldOpen(a, row) ==
    IF KindOfRow(row) = "Country" THEN filter_active(a) ELSE row.forced

FocusRow(a, targets) ==
    IF targets = {} THEN a ELSE Focus(a, widget_for_row(Rows(a), Lowest(targets)))

\* Left and Right on row i; a Right on a relay is not for the tree.
handle_tree_arrow(a, i, dir) ==
    LET row == Rows(a)[i]
    IN  CASE dir = "Right" /\ row.expanded -> FocusRow(a, FirstChildRows(Rows(a), i))
          [] dir = "Right" /\ ~row.expanded -> WithRow(a, row, TRUE)
          [] dir = "Left" /\ row.expanded /\ ~HeldOpen(a, row) -> WithRow(a, row, FALSE)
          [] OTHER -> FocusRow(a, ParentRows(Rows(a), i))

\* An arrow outside the tree, and the page keys, go by the last frame's registry.
Arrow(a, registry, dir) ==
    LET at == IF dir \in {"Left", "Right"} THEN RowsOwning(Rows(a), a.focused) ELSE {}
        taken == {i \in at : ~(dir = "Right" /\ KindOfRow(Rows(a)[i]) = "Relay")}
    IN  IF taken # {} THEN handle_tree_arrow(a, Lowest(taken), dir)
        ELSE Focus(a, navigate(registry, a.focused, dir))

PageKeys == {"Home", "End", "PageUp", "PageDown"}

PageKey(a, registry, key) ==
    Focus(a, CASE key = "Home" -> Home(registry, a.focused)
               [] key = "End" -> End(registry, a.focused)
               [] key = "PageUp" -> move_rows(registry, a.focused, -PAGE_STEP_ROWS)
               [] key = "PageDown" -> move_rows(registry, a.focused, PAGE_STEP_ROWS))

\* The search field takes letters, Backspace, and Esc while it has a text;
\* outside the field a slash leads to it.
InSearch(a) == a.focused = "SearchAnchor"

push_query_char(a, letter) ==
    IF InSearch(a) /\ Append(a.query, letter) \in Queries
    THEN [a EXCEPT !.query = Append(@, letter)] ELSE a

pop_query_char(a) ==
    IF InSearch(a) /\ filter_active(a) THEN [a EXCEPT !.query = Front(@)] ELSE a

EscKey(a) ==
    IF InSearch(a) /\ filter_active(a) THEN [a EXCEPT !.query = <<>>]
    ELSE leave_sub_page(a)

SlashKey(a) == Focus(a, "SearchAnchor")

-----------------------------------------------------------------------------
(* The handlers of the mouse.                                              *)

\* A chevron toggles its row and leaves the focus on the row's radio.
ClickChevron(a, i) ==
    LET row == Rows(a)[i]
        focus == Focus(a, widget_for_row(Rows(a), i))
    IN  IF HeldOpen(a, row) THEN focus ELSE WithRow(focus, row, ~IsExpanded(a, row))

\* Nothing happens when the rows fit, or when the window is at its end.  The
\* hold on the window matters for a focus in the list only: it is kept for one.
scroll_by(a, delta) ==
    LET most == Len(Rows(a)) - RowCapacity(a)
        offset == Clamp(Open(a).offset + delta, 0, most)
        hold == IF RowsOwning(Rows(a), a.focused) = {} THEN NoWidget ELSE a.focused
    IN  IF most <= 0 \/ offset = Open(a).offset THEN a
        ELSE [a EXCEPT !.view[a.node_mode].offset = offset,
                       !.view[a.node_mode].scrolledAt = hold]

-----------------------------------------------------------------------------
(* Activation: Enter on the focused widget, or a click on a widget.        *)

\* The other node has this location.  A city is told by its own code alone.
SameLocation(location, selection) ==
    /\ location.kind = selection.kind
    /\ CASE location.kind = "Country" -> location.country = selection.country
         [] location.kind = "City" -> location.city = selection.city
         [] location.kind = "Relay" -> location.host = selection.host

Blocked(a, location) ==
    is_multihop_enabled(a) /\ SameLocation(location, Selection(a, Other(a.node_mode)))

\* An exit pick closes the page, an entry pick goes on to the exit node.
after_select_success(a) ==
    IF a.node_mode = "Exit" THEN leave_sub_page(a)
    ELSE FocusCurrentSelection(a, "Exit", Tabs["Exit"])

\* The location a radio stands for when it is activated.
Picked(a, widget) == Activations[ShapeOf(a)][widget]

SwitchTab(a, mode) ==
    IF HiddenEntry(a, mode) THEN [a EXCEPT !.node_mode = mode, !.focused = Tabs[mode]]
    ELSE FocusCurrentSelection(a, mode, Tabs[mode])

-----------------------------------------------------------------------------
(* The steps.                                                              *)

\* Render, hand the registry over, and let the focus snap.
Shows(a) ==
    \E frame \in {Rendered(a)} :
      \E registry \in {Registry(frame)} : app' = Snapped(frame, registry)

OnPage == app.page = "SelectLocation"

OpenPage ==
    /\ app.page = "Status"
    /\ Shows(enter_with_current_selection_focused(app))

PressKey ==
    LET registry == Registry(app)
        moved == {Arrow(app, registry, dir) : dir \in Arrows}
                   \cup {PageKey(app, registry, key) : key \in PageKeys}
        typed == {push_query_char(app, letter) : letter \in Letters}
    IN  /\ OnPage
        /\ \E a \in moved \cup typed
                      \cup {pop_query_char(app), EscKey(app), SlashKey(app)} : Shows(a)

ToggleByChevron ==
    /\ OnPage /\ ~HiddenEntry(app, app.node_mode)
    /\ \E i \in DOMAIN Rows(app) :
         /\ InWindow(app, i) /\ chevron_for_row(Rows(app), i) # NoWidget
         /\ Shows(ClickChevron(app, i))

LINES_PER_NOTCH == 3

Wheel ==
    /\ OnPage /\ ~HiddenEntry(app, app.node_mode)
    /\ Cardinality({m \in NodeKind : app.view[m].scrolledAt # NoWidget}
                     \cup {app.node_mode}) <= MaxHeld
    /\ \E delta \in {-LINES_PER_NOTCH, LINES_PER_NOTCH} : Shows(scroll_by(app, delta))

ActivateTab(mode) ==
    /\ OnPage /\ is_multihop_enabled(app)
    /\ Shows(SwitchTab(app, mode))

ActivateSearchRow ==
    /\ OnPage /\ ~HiddenEntry(app, app.node_mode)
    /\ \E a \in {Focus(app, "SearchAnchor"),
                 [app EXCEPT !.page = "SelectLocationFilter",
                             !.focused = "FilterButton"]} : Shows(a)

\* Enter works where the focus is, a click on what is drawn.  The pick is refused
\* here when the other node has the location, and by the daemon when the RPC fails.
ActivateRow(widget) ==
    /\ OnPage /\ ~HiddenEntry(app, app.node_mode)
    /\ \E i \in RowsOwning(Rows(app), widget) : widget = app.focused \/ InWindow(app, i)
    /\ \E location \in Picked(app, widget) :
         \/ Shows(Focus(app, widget))
         \/ ~Blocked(app, location) /\ Shows(after_select_success(app))

LeaveFilterPage ==
    /\ app.page = "SelectLocationFilter"
    /\ Shows(leave_sub_page(app))

\* set_relay_locations and set_settings.
RelayListChanged(list) == Shows([app EXCEPT !.relay_locations = list])

SettingsChanged(value) == Shows([app EXCEPT !.settings = value])

LocationInit ==
    app \in [page : {"Status"}, node_mode : {"Exit"}, query : {<<>>},
            view : [NodeKind -> [countries : {{}}, cities : {{}}, offset : {0},
                                     center : {FALSE}, scrolledAt : {NoWidget}]],
                focused : {"SwitchLocation"},
                relay_locations : RelayLists, settings : SettingsValues]

LocationNext ==
    \/ OpenPage
    \/ PressKey
    \/ ToggleByChevron
    \/ Wheel
    \/ \E mode \in NodeKind : ActivateTab(mode)
    \/ ActivateSearchRow
    \/ \E widget \in RadioIds : ActivateRow(widget)
    \/ LeaveFilterPage
    \/ \E list \in RelayLists : RelayListChanged(list)
    \/ \E value \in SettingsValues : SettingsChanged(value)

LocationSpec == LocationInit /\ [][LocationNext]_app

-----------------------------------------------------------------------------
(* Type invariant: every field has its type, and a frame's focus is on a   *)
(* widget of the frame.                                                    *)
LocationTypeOK ==
    /\ app.page \in {"Status", "SelectLocation", "SelectLocationFilter"}
    /\ app.node_mode \in NodeKind
    /\ app.query \in Queries
    /\ \A m \in NodeKind :
         /\ app.view[m].countries \subseteq DOMAIN CountryTexts
         /\ app.view[m].cities \subseteq DOMAIN CityTexts
         /\ app.view[m].offset \in Nat
         /\ app.view[m].center \in BOOLEAN
    /\ app.relay_locations \in RelayLists
    /\ app.settings \in SettingsValues
    /\ contains(Registry(app), app.focused)

\* Every radio of the frame, in the window or not, stands for the location its
\* row shows.  The activation handler does not use the rows of the frame: it
\* walks the tree again, with the filter and the expansion of its own.
RadioStandsForItsRow ==
    OnPage /\ ~HiddenEntry(app, app.node_mode) =>
      \A i \in DOMAIN Rows(app) :
        LET widget == widget_for_row(Rows(app), i)
        IN  widget # NoWidget => Picked(app, widget) = {Rows(app)[i].location}

\* In every frame the window lies inside the list (the renderer slices it), and
\* the focused row is in the window unless the wheel has moved the window since
\* the focus came there.
FocusStaysInView ==
    OnPage /\ ~HiddenEntry(app, app.node_mode) =>
      /\ Open(app).offset <= Len(Rows(app))
      /\ Open(app).scrolledAt # app.focused =>
           \A i \in RowsOwning(Rows(app), app.focused) : InWindow(app, i)

\* The row of `target` is in the frame and, unless it is past its cap, focused
\* and in the window.
LandedOn(a, target) ==
    \E i \in DOMAIN Rows(a) :
      /\ Rows(a)[i].location = target
      /\ widget_for_row(Rows(a), i) # NoWidget =>
           a.focused = widget_for_row(Rows(a), i) /\ InWindow(a, i)

Listed(a, target) ==
    \E r \in ToSet(a.relay_locations) :
      target \in {OfCountry(r.country), OfCity(r.country, r.city), OfRelay(r.host)}

\* Without a query, a step that opens the page, switches the tab or goes on from
\* an entry pick to the exit node ends on the node's current selection, if the
\* relay list has it: unfolded, focused and in the window.
LandsOnTheSelection ==
    [][/\ app'.page = "SelectLocation" /\ app'.settings = app.settings
       /\ \/ app.page = "Status"
          \/ OnPage /\ app'.node_mode # app.node_mode
       /\ app.query = <<>> /\ ~HiddenEntry(app', app'.node_mode)
       /\ Listed(app', Selection(app', app'.node_mode))
       => LandedOn(app', Selection(app', app'.node_mode))]_app

=============================================================================
