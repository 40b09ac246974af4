---------------------------- MODULE FocusRegistry ----------------------------
(***************************************************************************)
(* The focus engine of app/focus.rs: where a key takes the focus in the    *)
(* widgets of one frame.  A registry is what a frame registered:           *)
(*   rows    the focus rows, top to bottom; a row is a sequence of widgets *)
(*           in registration order, and no registered row is empty;        *)
(*   groups  the scroll groups, as ranges of row numbers.                  *)
(* A widget is its id, its kind and the column it is drawn at, which may   *)
(* disagree with the registration order.  Every operator answers with an   *)
(* id, or with NoWidget for the code's None.                               *)
(***************************************************************************)
EXTENDS Integers, Sequences, FiniteSets

NoWidget == "NoWidget"

Widget(id, kind, x) == [id |-> id, kind |-> kind, x |-> x]

Chrome == {"TabButton", "BreadcrumbBack", "WindowClose"}

Highest(S) == CHOOSE s \in S : \A t \in S : t <= s

Lowest(S) == CHOOSE s \in S : \A t \in S : s <= t

Smaller(a, b) == IF a < b THEN a ELSE b

Clamp(n, lo, hi) == IF n < lo THEN lo ELSE Smaller(n, hi)

RowNumbers(reg) == 1 .. Len(reg.rows)

Ids(reg) == {reg.rows[cell[1]][cell[2]].id :
               cell \in UNION {{r} \X DOMAIN reg.rows[r] : r \in RowNumbers(reg)}}

IsAt(reg, id, r, c) == reg.rows[r][c].id = id

contains(reg, id) ==
    \E r \in RowNumbers(reg) : \E c \in DOMAIN reg.rows[r] : IsAt(reg, id, r, c)

\* Of an id that is registered twice, the first.
position(reg, id) ==
    LET r == Lowest({r \in RowNumbers(reg) :
                       \E c \in DOMAIN reg.rows[r] : IsAt(reg, id, r, c)})
    IN  <<r, Lowest({c \in DOMAIN reg.rows[r] : IsAt(reg, id, r, c)})>>

\* The widget of row r nearest to column col.
Snap(reg, r, col) == reg.rows[r][Smaller(col, Len(reg.rows[r]))].id

first(reg) == IF reg.rows = <<>> THEN NoWidget ELSE reg.rows[1][1].id

last_widget(reg) ==
    IF reg.rows = <<>> THEN NoWidget
    ELSE LET row == reg.rows[Len(reg.rows)] IN row[Len(row)].id

Only(kinds, row) == \A c \in 1 .. Len(row) : row[c].kind \in kinds

first_body_widget(reg) ==
    LET body == {r \in RowNumbers(reg) : ~Only(Chrome, reg.rows[r])}
    IN  IF body = {} THEN NoWidget ELSE reg.rows[Lowest(body)][1].id

-----------------------------------------------------------------------------
(* Arrows.                                                                 *)

\* Left and Right follow what the user sees: the drawn column, ties broken by
\* registration order.
LeftOf(row, c, d) ==
    \/ row[c].x < row[d].x
    \/ row[c].x = row[d].x /\ c < d

horizontal_neighbor(row, col, right) ==
    LET beyond == {c \in 1 .. Len(row) :
                     IF right THEN LeftOf(row, col, c) ELSE LeftOf(row, c, col)}
        nearest(c) == \A d \in beyond \ {c} :
                        IF right THEN LeftOf(row, c, d) ELSE LeftOf(row, d, c)
    IN  IF beyond = {} THEN NoWidget ELSE row[CHOOSE c \in beyond : nearest(c)].id

Arrows == {"Up", "Down", "Left", "Right"}

navigate(reg, id, dir) ==
    IF ~contains(reg, id) THEN NoWidget
    ELSE LET cell == position(reg, id)
             target == IF dir = "Up" THEN cell[1] - 1 ELSE cell[1] + 1
         IN  IF dir \in {"Left", "Right"}
             THEN horizontal_neighbor(reg.rows[cell[1]], cell[2], dir = "Right")
             ELSE IF target \in RowNumbers(reg) THEN Snap(reg, target, cell[2])
             ELSE NoWidget

-----------------------------------------------------------------------------
(* Home, End, PageUp and PageDown stay inside the scroll group they start  *)
(* in.                                                                     *)

scroll_group_of(reg, id) ==
    IF ~contains(reg, id) THEN {}
    ELSE {g \in 1 .. Len(reg.groups) :
            /\ reg.groups[g].first <= position(reg, id)[1]
            /\ position(reg, id)[1] <= reg.groups[g].last}

Group(reg, id) == reg.groups[CHOOSE g \in scroll_group_of(reg, id) : TRUE]

Home(reg, id) ==
    IF scroll_group_of(reg, id) = {} THEN first_body_widget(reg)
    ELSE Snap(reg, Group(reg, id).first, position(reg, id)[2])

End(reg, id) ==
    IF scroll_group_of(reg, id) = {} THEN last_widget(reg)
    ELSE Snap(reg, Group(reg, id).last, position(reg, id)[2])

move_rows(reg, id, delta) ==
    IF ~contains(reg, id) THEN NoWidget
    ELSE LET cell == position(reg, id)
             range == IF scroll_group_of(reg, id) = {}
                      THEN [first |-> 1, last |-> Len(reg.rows)]
                      ELSE Group(reg, id)
         IN  Snap(reg, Clamp(cell[1] + delta, range.first, range.last), cell[2])

-----------------------------------------------------------------------------
(* Tab and Shift+Tab cycle through the panes: maximal runs of rows of the  *)
(* same kind.                                                              *)

pane_kind_of_row(reg, r) ==
    CASE Only({"TabButton", "WindowClose"}, reg.rows[r]) -> <<"TabBar", 0>>
      [] Only({"BreadcrumbBack"}, reg.rows[r]) -> <<"Breadcrumb", 0>>
      [] OTHER ->
           LET in == {g \in 1 .. Len(reg.groups) :
                        reg.groups[g].first <= r /\ r <= reg.groups[g].last}
           IN  IF in = {} THEN <<"Body", 0>>
               ELSE <<"ScrollGroup", Lowest(in)>>

PaneStarts(reg) ==
    {r \in RowNumbers(reg) :
       r = 1 \/ pane_kind_of_row(reg, r) # pane_kind_of_row(reg, r - 1)}

\* The n-th of a set of numbers, from the lowest
NthLowest(S, n) == CHOOSE s \in S : Cardinality({t \in S : t <= s}) = n

\* Tab must not land on the window's [x]: the widgets of a row but for it.
candidates(row) == {c \in DOMAIN row : row[c].kind # "WindowClose"}

first_widget_in_range(reg, pane, col) ==
    LET open == {r \in pane : candidates(reg.rows[r]) # {}}
        row == reg.rows[Lowest(open)]
        landing == candidates(row)
    IN  IF open = {} THEN NoWidget
        ELSE row[NthLowest(landing, Smaller(col, Cardinality(landing)))].id

cycle_pane(reg, id, forward) ==
    LET starts == PaneStarts(reg)
        cell == position(reg, id)
        paneOf(r) == Highest({s \in starts : s <= r})
        here == paneOf(cell[1])
        after == {s \in starts : s > here}
        before == {s \in starts : s < here}
        next == IF forward
                THEN Lowest(IF after = {} THEN starts ELSE after)
                ELSE Highest(IF before = {} THEN starts ELSE before)
    IN  IF ~contains(reg, id) \/ Cardinality(starts) < 2 THEN NoWidget
        ELSE first_widget_in_range(reg, {r \in RowNumbers(reg) : paneOf(r) = next},
                                   cell[2])
=============================================================================
