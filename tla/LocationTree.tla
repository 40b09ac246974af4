---------------------------- MODULE LocationTree ----------------------------
(***************************************************************************)
(* The tree of tui/pages/select_location.rs and its tree.rs: the daemon's  *)
(* flat relay list grouped into countries, cities and relays, pruned by    *)
(* the search query, and flattened to the rows of the page.                *)
(*                                                                         *)
(* A country or city code is its rank in the order the code sorts by, and  *)
(* a city code may be used by two countries.  A hostname, a name and a     *)
(* query are lower-case texts: sequences of characters.  A widget id is    *)
(* not a number but a name out of a table, one table for each kind of row; *)
(* the length of the table is the code's cap (COUNTRY_MAX and so on).      *)
(***************************************************************************)
EXTENDS FocusRegistry, SequencesExt

CONSTANTS
    CountryTexts,  \* for each country code, its name and its code as texts
    CityTexts,     \* the same for each pair of country and city code
    Radio,         \* for each kind of row, the ids of its radios, in order
    Chevron        \* for countries and cities, the ids of their chevrons

Kinds == {"Country", "City", "Relay"}

ASSUME TreeAssumption ==
    /\ DOMAIN CountryTexts \subseteq Nat
    /\ DOMAIN CityTexts \subseteq (DOMAIN CountryTexts) \X Nat
    /\ DOMAIN Radio = Kinds
    /\ \A k \in Kinds : Radio[k] \in Seq(STRING)
    /\ \A k, l \in Kinds :
         \A i \in DOMAIN Radio[k], j \in DOMAIN Radio[l] :
           Radio[k][i] = Radio[l][j] => k = l /\ i = j
    /\ DOMAIN Chevron = {"Country", "City"}
    /\ \A k \in DOMAIN Chevron : Len(Chevron[k]) = Len(Radio[k])

\* What a relay constraint names.  A relay is named by its hostname alone.
Location(kind, country, city, host) ==
    [kind |-> kind, country |-> country, city |-> city, host |-> host]

OfCountry(c) == Location("Country", c, 0, <<>>)
OfCity(c, t) == Location("City", c, t, <<>>)
OfRelay(h) == Location("Relay", 0, 0, h)

Mapped(seq, Op(_)) == [i \in DOMAIN seq |-> Op(seq[i])]

FlatMapped(seq, Op(_)) == FlattenSeq(Mapped(seq, Op))

Kept(seq, Test(_)) == FlatMapped(seq, LAMBDA e : IF Test(e) THEN <<e>> ELSE <<>>)

Sorted(S) == [n \in 1 .. Cardinality(S) |-> NthLowest(S, n)]

-----------------------------------------------------------------------------
(* Grouping.                                                               *)

CityNode(code, forced, relays) ==
    [code |-> code, forced |-> forced, relays |-> relays]

project_tree(relays) ==
    LET Of(c) == Kept(relays, LAMBDA r : r.country = c)
        City(c, t) == CityNode(t, FALSE, Kept(Of(c), LAMBDA r : r.city = t))
        Country(c) ==
            [code |-> c,
             cities |-> Mapped(Sorted({r.city : r \in ToSet(Of(c))}),
                               LAMBDA t : City(c, t))]
    IN  Mapped(Sorted({r.country : r \in ToSet(relays)}), Country)

-----------------------------------------------------------------------------
(* Filtering.                                                              *)

OccurrencesOf(needle, text) ==
    {p \in 1 .. Len(text) - Len(needle) + 1 :
       SubSeq(text, p, p + Len(needle) - 1) = needle}

Names(texts, needle) == \E text \in texts : OccurrencesOf(needle, text) # {}

WireGuardSegment == <<"-", "w", "g", "-">>

\* Every WireGuard relay has the segment -wg- in its hostname: a match must
\* reach beyond it.
hostname_matches(host, needle) ==
    LET segments == OccurrencesOf(WireGuardSegment, host)
    IN  \E p \in OccurrencesOf(needle, host) :
          \/ segments = {}
          \/ p < Lowest(segments)
          \/ p + Len(needle) > Lowest(segments) + Len(WireGuardSegment)

\* A city is forced open when it is there for its hostnames only.
filter_tree(tree, query) ==
    LET CountryMatch(c) == Names(CountryTexts[c], query)
        PlaceMatch(c, city) ==
            CountryMatch(c) \/ Names(CityTexts[<<c, city.code>>], query)
        HostMatch(city) ==
            \E r \in ToSet(city.relays) : hostname_matches(r.host, query)
        Flagged(c, city) ==
            [city EXCEPT !.forced = HostMatch(city) /\ ~PlaceMatch(c, city)]
        Pruned(country) ==
            [country EXCEPT !.cities =
               Kept(Mapped(@, LAMBDA city : Flagged(country.code, city)),
                    LAMBDA city : city.forced \/ PlaceMatch(country.code, city))]
    IN  IF query = <<>> THEN tree
        ELSE Kept(Mapped(tree, Pruned),
                  LAMBDA c : CountryMatch(c.code) \/ c.cities # <<>>)

project_filtered_tree(relays, query) == filter_tree(project_tree(relays), query)

-----------------------------------------------------------------------------
(* The rows of the page.  An `open` record is the expansion of one mode:   *)
(* the countries and the <<country, city>> pairs the user has opened.      *)

\* `index` is the position of a row among the rows of its kind.
TreeRow(location, country, expanded, forced) ==
    [location |-> location, country |-> country, expanded |-> expanded,
     forced |-> forced, index |-> 0]

KindOfRow(row) == row.location.kind

Indexed(rows) ==
    LET UpTo(i) == {j \in 1 .. i : KindOfRow(rows[j]) = KindOfRow(rows[i])}
    IN  [i \in DOMAIN rows |-> [rows[i] EXCEPT !.index = Cardinality(UpTo(i))]]

\* `force`: a query is in effect, which opens every country.
collect_visible_rows(tree, open, force) ==
    LET RelayRows(c, city) ==
            Mapped(city.relays,
                   LAMBDA r : TreeRow(OfRelay(r.host), c, FALSE, FALSE))
        CityOpen(c, city) == city.forced \/ <<c, city.code>> \in open.cities
        CityRows(c, city) ==
            <<TreeRow(OfCity(c, city.code), c, CityOpen(c, city), city.forced)>>
              \o (IF CityOpen(c, city) THEN RelayRows(c, city) ELSE <<>>)
        CountryOpen(country) == force \/ country.code \in open.countries
        CountryRows(country) ==
            <<TreeRow(OfCountry(country.code), country.code,
                      CountryOpen(country), FALSE)>>
              \o (IF CountryOpen(country)
                  THEN FlatMapped(country.cities, LAMBDA t : CityRows(country.code, t))
                  ELSE <<>>)
    IN  Indexed(FlatMapped(tree, CountryRows))

\* A row past the cap is drawn and cannot be focused.
row_id_or_none(index, table) == IF index <= Len(table) THEN table[index] ELSE NoWidget

widget_for_row(rows, i) == row_id_or_none(rows[i].index, Radio[KindOfRow(rows[i])])

chevron_for_row(rows, i) ==
    IF KindOfRow(rows[i]) \in DOMAIN Chevron
    THEN row_id_or_none(rows[i].index, Chevron[KindOfRow(rows[i])])
    ELSE NoWidget

\* The rows that own the widget: none, or one.
RowsOwning(rows, widget) ==
    {i \in DOMAIN rows : widget # NoWidget /\ widget_for_row(rows, i) = widget}

\* The nearest row above of the kind a child of row i has for a parent.
ParentRows(rows, i) ==
    LET parent == [City |-> "Country", Relay |-> "City"]
        above == {j \in 1 .. i - 1 : /\ KindOfRow(rows[i]) \in DOMAIN parent
                                     /\ KindOfRow(rows[j]) = parent[KindOfRow(rows[i])]}
    IN  IF above = {} THEN {} ELSE {Highest(above)}

\* A row's children, when shown, come right after it.
FirstChildRows(rows, i) ==
    {j \in DOMAIN rows :
       /\ j = i + 1
       /\ <<KindOfRow(rows[i]), KindOfRow(rows[j])>>
            \in {<<"Country", "City">>, <<"City", "Relay">>}}

-----------------------------------------------------------------------------
(* The walks of the activation handler, which does not use the rows: it    *)
(* flattens the tree once more for each kind.                              *)

CitiesShown(tree, open, force) ==
    LET Shown(c) == force \/ c.code \in open.countries
        OfNode(c) == Mapped(c.cities,
                            LAMBDA t : [country |-> c.code, code |-> t.code,
                                        forced |-> t.forced, relays |-> t.relays])
    IN  FlatMapped(Kept(tree, Shown), OfNode)

\* Mutant: the walk takes only what the user opened, not what the filter did.
RelaysShown_unforced(tree, open, force) ==
    LET Shown(t) == <<t.country, t.code>> \in open.cities
        Relays(t) == t.relays
    IN  FlatMapped(Kept(CitiesShown(tree, open, force), Shown), Relays)

RelaysShown(tree, open, force) ==
    LET Shown(t) == t.forced \/ <<t.country, t.code>> \in open.cities
        Relays(t) == t.relays
    IN  FlatMapped(Kept(CitiesShown(tree, open, force), Shown), Relays)

\* The index of an id in its table, or 0.
IndexInTable(widget, table) ==
    IF widget \in ToSet(table) THEN CHOOSE i \in DOMAIN table : table[i] = widget ELSE 0

\* The entity of the tree that a radio stands for: a set of at most one.
Activated(tree, open, force, widget) ==
    LET Nth(seq, k) == {seq[i] : i \in DOMAIN seq \cap {IndexInTable(widget, Radio[k])}}
    IN  {OfCountry(c.code) : c \in Nth(tree, "Country")}
          \cup {OfCity(t.country, t.code) :
                  t \in Nth(CitiesShown(tree, open, force), "City")}
          \cup {OfRelay(r.host) : r \in Nth(RelaysShown(tree, open, force), "Relay")}

\* The radio to focus for a selection: the third walk.
focus_widget_for_target(tree, open, force, target) ==
    LET cities == CitiesShown(tree, open, force)
        relays == RelaysShown(tree, open, force)
        at == CASE target.kind = "Country" ->
                     {i \in DOMAIN tree : tree[i].code = target.country}
                [] target.kind = "City" ->
                     {i \in DOMAIN cities : /\ cities[i].country = target.country
                                            /\ cities[i].code = target.city}
                [] target.kind = "Relay" ->
                     {i \in DOMAIN relays : relays[i].host = target.host}
                [] OTHER -> {}
    IN  IF at = {} THEN NoWidget ELSE row_id_or_none(Lowest(at), Radio[target.kind])

-----------------------------------------------------------------------------
(* The scroll window.                                                      *)

centered_scroll_offset(at, length, capacity) ==
    IF length <= capacity \/ capacity = 0 \/ at = {} THEN 0
    ELSE Clamp((Lowest(at) - 1) - capacity \div 2, 0, length - capacity)

\* Mutant: a focused row below the window is brought to one past its end.
clamp_scroll_offset_off_by_one(current, at, length, capacity) ==
    LET most == length - capacity
        offset == Smaller(current, most)
        idx == Lowest(at) - 1
    IN  IF length <= capacity \/ capacity = 0 THEN 0
        ELSE IF at = {} THEN offset
        ELSE IF idx < offset THEN idx
        ELSE IF idx > offset + capacity THEN Smaller(idx + 1 - capacity, most)
        ELSE offset

\* `at` holds the number of the focused row, if a row has the focus.
clamp_scroll_offset(current, at, length, capacity) ==
    LET most == length - capacity
        offset == Smaller(current, most)
        idx == Lowest(at) - 1
    IN  IF length <= capacity \/ capacity = 0 THEN 0
        ELSE IF at = {} THEN offset
        ELSE IF idx < offset THEN idx
        ELSE IF idx >= offset + capacity THEN Smaller(idx + 1 - capacity, most)
        ELSE offset
=============================================================================
