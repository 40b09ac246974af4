---------------------------- MODULE RunLoopProofs ----------------------------
(***************************************************************************)
(* Proofs about module RunLoop, for any rows a list can show, any MTU      *)
(* values, any length of the notification channel and of the feed.  On     *)
(* every frame the run loop draws the focus is on a widget of that frame   *)
(* and the keys lead from it to all the others; whatever the keys and the  *)
(* clicks do, the sub-page stack stays the chain that the breadcrumb       *)
(* shows, a confirm prompt is armed only by a move inside it, popups give  *)
(* the focus back to the widget they came from and shield the page under   *)
(* them, and leaving the MTU field answers the edit.                       *)
(*                                                                         *)
(* What links these is where a widget can be.  The handlers do not ask     *)
(* which page is shown: [<] pops a stack that has to be non-empty, a row   *)
(* of the settings page pushes a sub-page that has to belong under it.     *)
(* They may, because the focus and a click name a widget of the last       *)
(* frame: FocusOnFrame.  The proof goes from what the renderers register   *)
(* and where the focus engine moves on it, over what each handler does to  *)
(* the page and to the popups, to the invariant.                           *)
(*                                                                         *)
(* That the keys lead everywhere needs more: that a frame registers no     *)
(* widget twice, which sweeps it row by row, and that on Logs, where the   *)
(* arrows scroll, nothing puts the focus on the window's [x].              *)
(***************************************************************************)
EXTENDS RunLoop, SequenceLemmas, SequenceTheorems, FiniteSetTheorems, WellFoundedInduction, TLAPS

-----------------------------------------------------------------------------
(* The invariant.                                                          *)

\* Rows of widgets out of S, none of them empty.
Kinds == {"TabButton", "WindowClose", "BreadcrumbBack", "TextInput", "Toggle",
          "SelectOption", "Button"}

Cells(S) == [id : S, kind : Kinds, x : Nat]

Frames(S) == Seq(Seq(Cells(S)) \ {<<>>})

\* The scroll groups of a registry are made of its rows.
Grouped(reg) ==
    \A g \in 1 .. Len(reg.groups) :
        reg.groups[g].first \in RowNumbers(reg) /\ reg.groups[g].last \in RowNumbers(reg)

\* Where a key can take the focus on a frame.
Lands(reg) == Ids(reg) \cup {NoWidget}

\* Once the frame is drawn the focus is on it, or nowhere.
FocusOnFrame == drawn => focused \in Lands(last_focus_registry)

\* The same as ConfirmNeedsAMove, whether or not the frame is drawn.
ArmedByMove == overlay.kind = "Confirm" /\ focused = "ConfirmAccept" => armed

\* The popup at the bottom is the one that knows the way back.
OpenerKept ==
    /\ is_open(input) => inputReturn = opener
    /\ overlay.kind # "None" /\ ~is_open(input) => overlay.return_focus = opener

\* What the keys of a prompt can be on.
PromptFoci(mode) ==
    {"Field", "Cancel", "Submit"}
      \cup IF mode = "RelayOverrideInput" THEN {"Ipv4Field", "Ipv6Field"} ELSE {}

PromptFocusKnown == is_open(input) => input.focus \in PromptFoci(input.mode)

\* The inductive invariant.
IInv ==
    /\ RunLoopTypeOK
    /\ BreadcrumbTellsTheWayBack
    /\ FocusOnFrame
    /\ ArmedByMove
    /\ OpenerKept
    /\ PromptFocusKnown

-----------------------------------------------------------------------------
(* The focus engine: on a frame every key lands on a widget, or nowhere.   *)

\* A set of naturals has a least element: Lowest finds it.
LEMMA LowestOf ==
    ASSUME NEW S \in SUBSET Nat, S # {}
    PROVE  Lowest(S) \in S /\ \A t \in S : Lowest(S) <= t
<1>1. PICK x \in S : \A y \in S : ~ (<<y, x>> \in OpToRel(<, Nat))
  BY WFMin, NatLessThanWellFounded
<1>2. ASSUME NEW y \in S PROVE x <= y
  <2>1. x \in Nat /\ y \in Nat
    OBVIOUS
  <2>2. y < x => <<y, x>> \in OpToRel(<, Nat)
    BY <2>1, Zenon DEF OpToRel
  <2>3. ~(y < x)
    BY <1>1, <2>2, Zenon
  <2>4. QED
    BY <2>1, <2>3
<1>3. QED
  BY <1>1, <1>2 DEF Lowest

\* A bounded set of naturals has a greatest element: Highest finds it.
LEMMA HighestOf ==
    ASSUME NEW n \in Nat, NEW S \in SUBSET (0 .. n), S # {}
    PROVE  Highest(S) \in S /\ \A t \in S : t <= Highest(S)
<1> DEFINE Bounds == {b \in 0 .. n : \A t \in S : t <= b}
<1>1. n \in Bounds
  OBVIOUS
<1>2. Lowest(Bounds) \in Bounds /\ \A t \in Bounds : Lowest(Bounds) <= t
  BY <1>1, LowestOf
<1>3. PICK b \in Bounds : \A t \in Bounds : b <= t
  BY <1>2
<1>4. b \in S
  <2>1. SUFFICES ASSUME b \notin S PROVE FALSE
    OBVIOUS
  <2>2. PICK s \in S : TRUE
    OBVIOUS
  <2>3. b - 1 \in Bounds
    BY <2>1, <2>2, <1>3
  <2>4. QED
    BY <2>3, <1>3
<1>5. \A t \in S : t <= b
  BY <1>3
<1>6. QED
  BY <1>4, <1>5 DEF Highest

\* The n-th lowest of a set with at least n elements is one of them.
LEMMA NthLowestOf ==
    ASSUME NEW m \in Nat, NEW S \in SUBSET (1 .. m), NEW n \in 1 .. Cardinality(S)
    PROVE  NthLowest(S, n) \in S
<1> DEFINE upto(s) == {t \in S : t <= s}
<1> DEFINE T == {s \in S : Cardinality(upto(s)) >= n}
<1>0. /\ IsFiniteSet(S) /\ Cardinality(S) \in Nat
      /\ \A s \in S : IsFiniteSet(upto(s)) /\ Cardinality(upto(s)) \in Nat
  <2>1. IsFiniteSet(S)
    BY FS_BoundedSetOfNaturals
  <2>2. \A s \in S : upto(s) \in SUBSET S
    OBVIOUS
  <2>3. QED
    BY <2>1, <2>2, FS_Subset, FS_CardinalityType
<1>1. S # {}
  BY <1>0, FS_EmptySet
<1>2. PICK h \in S : \A t \in S : t <= h
  <2>1. S \in SUBSET (0 .. m)
    OBVIOUS
  <2>2. QED
    BY <2>1, <1>1, HighestOf
<1>3. h \in T
  <2>1. upto(h) = S
    BY <1>2
  <2>2. QED
    BY <2>1, <1>0
<1>4. T \subseteq Nat /\ T # {}
  <2>1. T \subseteq S
    OBVIOUS
  <2> HIDE DEF T
  <2>2. QED
    BY <1>3, <2>1
<1>5. PICK c \in T : \A t \in T : c <= t
  <2> HIDE DEF T
  <2> QED
    BY <1>4, LowestOf
<1>6. Cardinality(upto(c)) = n
  <2>1. SUFFICES ASSUME Cardinality(upto(c)) > n PROVE FALSE
    BY <1>0, <1>5
  <2>0. c \in S /\ c \in Nat
    BY <1>5
  <2>2. upto(c) \ {c} = {t \in S : t < c}
    <3>1. ASSUME NEW t \in S PROVE t <= c /\ t # c <=> t < c
      BY <2>0
    <3>2. QED
      BY <3>1, Zenon
  <2>3. Cardinality(upto(c) \ {c}) = Cardinality(upto(c)) - 1
    BY <1>0, <1>5, FS_RemoveElement
  <2>4. Cardinality({t \in S : t < c}) >= n /\ IsFiniteSet({t \in S : t < c})
    BY <2>1, <2>2, <2>3, <1>0, <1>5, FS_RemoveElement
  <2>5. {t \in S : t < c} # {}
    BY <2>4, FS_EmptySet
  <2>6. PICK p \in {t \in S : t < c} : \A t \in {t \in S : t < c} : t <= p
    <3>1. {t \in S : t < c} \in SUBSET (0 .. m)
      <4>1. \A t \in S : t \in 0 .. m
        OBVIOUS
      <4>2. QED
        BY <4>1, Zenon
    <3>2. QED
      BY <3>1, <2>5, HighestOf
  <2>7. upto(p) = {t \in S : t < c}
    <3>1. ASSUME NEW t \in S PROVE t <= p <=> t < c
      BY <2>0, <2>6
    <3>2. QED
      BY <3>1, Zenon
  <2>8. p \in T
    BY <2>4, <2>6, <2>7
  <2>9. QED
    BY <2>6, <2>8, <1>5
<1>7. QED
  BY <1>5, <1>6 DEF NthLowest

\* A row of a frame is a non-empty sequence of cells.
LEMMA RowOfFrame ==
    ASSUME NEW S, NEW reg, reg.rows \in Frames(S), NEW r \in RowNumbers(reg)
    PROVE  /\ r \in Nat \ {0}
           /\ reg.rows[r] \in Seq(Cells(S))
           /\ Len(reg.rows[r]) \in Nat \ {0}
           /\ DOMAIN reg.rows[r] = 1 .. Len(reg.rows[r])
<1>1. reg.rows[r] \in Seq(Cells(S)) \ {<<>>} /\ r \in Nat \ {0}
  BY DEF Frames, RowNumbers
<1>2. PICK row \in Seq(Cells(S)) \ {<<>>} : row = reg.rows[r]
  BY <1>1
<1>3. Len(row) \in Nat \ {0} /\ DOMAIN row = 1 .. Len(row)
  BY EmptySeq
<1>4. QED
  BY <1>1, <1>2, <1>3

\* contains and Ids agree.
LEMMA ContainedIds ==
    ASSUME NEW reg, NEW id
    PROVE  contains(reg, id) <=> id \in Ids(reg)
<1>1. ASSUME NEW r \in RowNumbers(reg), NEW c \in DOMAIN reg.rows[r], IsAt(reg, id, r, c)
      PROVE  id \in Ids(reg)
  <2>1. <<r, c>> \in UNION {{q} \X DOMAIN reg.rows[q] : q \in RowNumbers(reg)}
    OBVIOUS
  <2>2. QED
    BY <1>1, <2>1 DEF Ids, IsAt
<1>2. ASSUME id \in Ids(reg)
      PROVE  \E r \in RowNumbers(reg) : \E c \in DOMAIN reg.rows[r] : IsAt(reg, id, r, c)
  <2>1. PICK cell \in UNION {{q} \X DOMAIN reg.rows[q] : q \in RowNumbers(reg)} :
               id = reg.rows[cell[1]][cell[2]].id
    BY <1>2 DEF Ids
  <2>2. PICK q \in RowNumbers(reg) : cell \in {q} \X DOMAIN reg.rows[q]
    BY <2>1
  <2>3. cell[1] = q /\ cell[2] \in DOMAIN reg.rows[q]
    BY <2>2
  <2>4. QED
    BY <2>1, <2>3 DEF IsAt
<1>3. QED
  BY <1>1, <1>2 DEF contains

\* The widget in a cell is on the frame.
LEMMA CellOfFrame ==
    ASSUME NEW reg, NEW r \in RowNumbers(reg), NEW c \in DOMAIN reg.rows[r]
    PROVE  reg.rows[r][c].id \in Ids(reg)
BY ContainedIds DEF contains, IsAt

\* Snapping into a row, whatever the column, finds a widget there.
LEMMA SnapLands ==
    ASSUME NEW S, NEW reg, reg.rows \in Frames(S), NEW r \in RowNumbers(reg), NEW col \in Nat \ {0}
    PROVE  Snap(reg, r, col) \in Ids(reg)
<1>1. PICK len \in Nat \ {0} : len = Len(reg.rows[r]) /\ DOMAIN reg.rows[r] = 1 .. len
  BY RowOfFrame
<1>2. Smaller(col, len) \in 1 .. len
  BY DEF Smaller
<1>3. QED
  BY <1>1, <1>2, CellOfFrame DEF Snap

\* The position of a widget on the frame is a cell of the frame.
LEMMA PositionOf ==
    ASSUME NEW S, NEW reg, reg.rows \in Frames(S), NEW id, contains(reg, id)
    PROVE  /\ position(reg, id)[1] \in RowNumbers(reg)
           /\ position(reg, id)[2] \in DOMAIN reg.rows[position(reg, id)[1]]
           /\ position(reg, id)[2] \in Nat \ {0}
<1> DEFINE R == {r \in RowNumbers(reg) : \E c \in DOMAIN reg.rows[r] : IsAt(reg, id, r, c)}
<1> DEFINE C(r) == {c \in DOMAIN reg.rows[r] : IsAt(reg, id, r, c)}
<1>1. Lowest(R) \in R
  <2>1. R \subseteq Nat /\ R # {}
    BY DEF RowNumbers, contains
  <2> HIDE DEF R
  <2>2. QED
    BY <2>1, LowestOf
<1>2. Lowest(C(Lowest(R))) \in C(Lowest(R))
  <2>1. PICK r \in R : r = Lowest(R)
    BY <1>1
  <2>2. DOMAIN reg.rows[r] \subseteq Nat
    <3>1. r \in RowNumbers(reg)
      OBVIOUS
    <3>2. DOMAIN reg.rows[r] = 1 .. Len(reg.rows[r])
      BY <3>1, RowOfFrame
    <3>3. QED
      BY <3>2
  <2>3. C(r) \subseteq Nat /\ C(r) # {}
    BY <2>1, <2>2
  <2>4. Lowest(C(r)) \in C(r)
    <3> HIDE DEF C
    <3> QED
      BY <2>3, LowestOf
  <2>5. QED
    BY <2>1, <2>4
<1>3. position(reg, id) = <<Lowest(R), Lowest(C(Lowest(R)))>>
  BY DEF position
<1>4. Lowest(R) \in RowNumbers(reg) /\ Lowest(C(Lowest(R))) \in DOMAIN reg.rows[Lowest(R)]
  BY <1>1, <1>2
<1> HIDE DEF R, C
<1>5. DOMAIN reg.rows[Lowest(R)] = 1 .. Len(reg.rows[Lowest(R)])
  BY <1>4, RowOfFrame
<1>6. Lowest(C(Lowest(R))) \in Nat \ {0}
  BY <1>4, <1>5
<1>7. QED
  BY <1>3, <1>4, <1>6

\* The first and the last widget are on the frame, if there is any.
LEMMA FirstLands ==
    ASSUME NEW S, NEW reg, reg.rows \in Frames(S)
    PROVE  first(reg) \in Lands(reg) /\ last_widget(reg) \in Lands(reg)
<1> USE DEF Lands, first, last_widget
<1>1. CASE reg.rows = <<>>
  BY <1>1
<1>2. CASE reg.rows # <<>>
  <2>1. 1 \in RowNumbers(reg) /\ Len(reg.rows) \in RowNumbers(reg)
    <3>1. PICK rows \in Frames(S) : rows = reg.rows
      OBVIOUS
    <3>2. Len(rows) \in Nat \ {0}
      BY <1>2, <3>1, EmptySeq DEF Frames
    <3>3. QED
      BY <3>1, <3>2 DEF RowNumbers
  <2>2. 1 \in DOMAIN reg.rows[1]
    BY <2>1, RowOfFrame
  <2>3. Len(reg.rows[Len(reg.rows)]) \in DOMAIN reg.rows[Len(reg.rows)]
    BY <2>1, RowOfFrame
  <2>4. QED
    BY <1>2, <2>1, <2>2, <2>3, CellOfFrame
<1>3. QED
  BY <1>1, <1>2

\* The first widget of the body is on the frame, if there is any.
LEMMA FirstBodyLands ==
    ASSUME NEW S, NEW reg, reg.rows \in Frames(S)
    PROVE  first_body_widget(reg) \in Lands(reg)
<1> DEFINE body == {r \in RowNumbers(reg) : ~Only(Chrome, reg.rows[r])}
<1>1. CASE body = {}
  BY <1>1 DEF first_body_widget, Lands
<1>2. CASE body # {}
  <2>1. body \subseteq Nat
    BY DEF RowNumbers
  <2>2. Lowest(body) \in body
    <3> HIDE DEF body
    <3> QED
      BY <1>2, <2>1, LowestOf
  <2>3. Lowest(body) \in RowNumbers(reg)
    BY <2>2
  <2>4. 1 \in DOMAIN reg.rows[Lowest(body)]
    <3> HIDE DEF body
    <3> QED
      BY <2>3, RowOfFrame
  <2>5. reg.rows[Lowest(body)][1].id \in Ids(reg)
    <3> HIDE DEF body
    <3> QED
      BY <2>3, <2>4, CellOfFrame
  <2>6. QED
    BY <1>2, <2>5 DEF first_body_widget, Lands
<1>3. QED
  BY <1>1, <1>2

\* A finite set has a first element in a strict total order.
LEMMA FirstOfOrder ==
    ASSUME NEW B, IsFiniteSet(B), B # {}, NEW R,
           \A c \in B : <<c, c>> \notin R,
           \A c, d, e \in B : <<c, d>> \in R /\ <<d, e>> \in R => <<c, e>> \in R,
           \A c, d \in B : c # d => <<c, d>> \in R \/ <<d, c>> \in R
    PROVE  \E c \in B : \A d \in B \ {c} : <<c, d>> \in R
<1> DEFINE Before(c) == {d \in B : <<d, c>> \in R}
<1> DEFINE K == {Cardinality(Before(c)) : c \in B}
<1>1. \A c \in B : IsFiniteSet(Before(c)) /\ Cardinality(Before(c)) \in Nat
  <2>1. \A c \in B : Before(c) \in SUBSET B
    OBVIOUS
  <2>2. QED
    BY <2>1, FS_Subset, FS_CardinalityType
<1>2. K \subseteq Nat /\ K # {}
  <2> HIDE DEF Before
  <2>1. \A c \in B : Cardinality(Before(c)) \in K
    BY Zenon
  <2>2. ASSUME NEW k \in K PROVE k \in Nat
    <3>1. PICK c \in B : k = Cardinality(Before(c))
      BY Zenon
    <3>2. QED
      BY <1>1, <3>1, Zenon
  <2>3. PICK c \in B : TRUE
    OBVIOUS
  <2> HIDE DEF K
  <2>4. QED
    BY <2>1, <2>2, <2>3
<1>3. PICK c \in B : \A d \in B : Cardinality(Before(c)) <= Cardinality(Before(d))
  <2>1. Lowest(K) \in K /\ \A k \in K : Lowest(K) <= k
    <3> HIDE DEF K
    <3> QED
      BY <1>2, LowestOf
  <2> HIDE DEF Before
  <2>2. \A c \in B : Cardinality(Before(c)) \in K
    BY Zenon
  <2>3. PICK c \in B : Cardinality(Before(c)) = Lowest(K)
    BY <2>1, Zenon
  <2> HIDE DEF K
  <2>4. QED
    BY <2>1, <2>2, <2>3
<1>4. Before(c) = {}
  <2>1. SUFFICES ASSUME NEW d \in Before(c) PROVE FALSE
    OBVIOUS
  <2>2. Before(d) \subseteq Before(c) /\ d \notin Before(d) /\ d \in B
    OBVIOUS
  <2>3. Cardinality(Before(c)) = Cardinality(Before(d)) => Before(c) = Before(d)
    <3> HIDE DEF Before
    <3> QED
      BY <1>1, <2>2, FS_Subset
  <2>4. Cardinality(Before(d)) <= Cardinality(Before(c))
    <3> HIDE DEF Before
    <3> QED
      BY <1>1, <2>2, FS_Subset
  <2> HIDE DEF Before
  <2>5. QED
    BY <1>1, <1>3, <2>1, <2>2, <2>3, <2>4
<1>5. QED
  BY <1>4

\* Left and Right land on a widget of the same row, or nowhere.
LEMMA HorizontalLands ==
    ASSUME NEW S, NEW reg, reg.rows \in Frames(S), NEW r \in RowNumbers(reg),
           NEW col \in DOMAIN reg.rows[r], NEW right \in BOOLEAN
    PROVE  horizontal_neighbor(reg.rows[r], col, right) \in Lands(reg)
<1> DEFINE row == reg.rows[r]
           beyond == {c \in 1 .. Len(row) :
                        IF right THEN LeftOf(row, col, c) ELSE LeftOf(row, c, col)}
           nearest(c) == \A d \in beyond \ {c} :
                           IF right THEN LeftOf(row, c, d) ELSE LeftOf(row, d, c)
           R == {p \in beyond \X beyond :
                   IF right THEN LeftOf(row, p[1], p[2]) ELSE LeftOf(row, p[2], p[1])}
<1>0. Len(row) \in Nat /\ DOMAIN row = 1 .. Len(row) /\ row \in Seq(Cells(S))
  BY RowOfFrame
<1>1. \A c \in 1 .. Len(row) : row[c].x \in Nat
  <2> HIDE DEF row
  <2>1. \A c \in 1 .. Len(row) : row[c] \in Cells(S)
    BY <1>0
  <2>2. QED
    BY <2>1 DEF Cells
<1>2. CASE beyond = {}
  BY <1>2 DEF horizontal_neighbor, Lands
<1>3. CASE beyond # {}
  <2>1. beyond \subseteq 1 .. Len(row)
    OBVIOUS
  <2>2. IsFiniteSet(beyond)
    <3> HIDE DEF row, beyond
    <3>1. beyond \in SUBSET Nat
      BY <1>0, <2>1
    <3>2. \A c \in beyond : c <= Len(row)
      BY <1>0, <2>1
    <3>3. QED
      BY <1>0, <3>1, <3>2, FS_BoundedSetOfNaturals
  <2>3. \E c \in beyond : nearest(c)
    <3>0. /\ \A c \in beyond : c \in Nat /\ row[c].x \in Nat
          /\ \A c, d \in beyond :
               <<c, d>> \in R <=> IF right THEN LeftOf(row, c, d) ELSE LeftOf(row, d, c)
      <4>1. \A c \in beyond : c \in Nat /\ row[c].x \in Nat
        <5> HIDE DEF row, beyond
        <5> QED
          BY <1>0, <1>1, <2>1
      <4> HIDE DEF row, beyond
      <4>2. QED
        BY <4>1
    <3> HIDE DEF row, beyond, R
    <3>1. \A c \in beyond : <<c, c>> \notin R
      BY <3>0 DEF LeftOf
    <3>2. \A c, d \in beyond : c # d => <<c, d>> \in R \/ <<d, c>> \in R
      BY <3>0 DEF LeftOf
    <3>3. ASSUME NEW c \in beyond, NEW d \in beyond, NEW e \in beyond,
                 <<c, d>> \in R, <<d, e>> \in R
          PROVE  <<c, e>> \in R
      <4>1. CASE right
        BY <3>0, <3>3, <4>1 DEF LeftOf
      <4>2. CASE ~right
        BY <3>0, <3>3, <4>2 DEF LeftOf
      <4>3. QED
        BY <4>1, <4>2
    <3>4. \E c \in beyond : \A d \in beyond \ {c} : <<c, d>> \in R
      <4>1. \A c, d, e \in beyond : <<c, d>> \in R /\ <<d, e>> \in R => <<c, e>> \in R
        BY <3>3, Zenon
      <4>2. PICK B : B = beyond
        OBVIOUS
      <4>3. PICK order : order = R
        OBVIOUS
      <4>4. /\ IsFiniteSet(B) /\ B # {}
            /\ \A c \in B : <<c, c>> \notin order
            /\ \A c, d, e \in B : <<c, d>> \in order /\ <<d, e>> \in order => <<c, e>> \in order
            /\ \A c, d \in B : c # d => <<c, d>> \in order \/ <<d, c>> \in order
        BY <1>3, <2>2, <3>1, <3>2, <4>1, <4>2, <4>3
      <4>5. \E c \in B : \A d \in B \ {c} : <<c, d>> \in order
        BY <4>4, FirstOfOrder
      <4>6. QED
        BY <4>2, <4>3, <4>5
    <3>5. QED
      BY <3>0, <3>4
  <2>4. (CHOOSE c \in beyond : nearest(c)) \in beyond
    BY <2>3
  <2>5. horizontal_neighbor(row, col, right) = row[CHOOSE c \in beyond : nearest(c)].id
    BY <1>3 DEF horizontal_neighbor
  <2>6. \A c \in beyond : row[c].id \in Ids(reg)
    BY <1>0, <2>1, CellOfFrame
  <2>7. QED
    BY <2>4, <2>5, <2>6 DEF Lands
<1>4. QED
  BY <1>2, <1>3

\* So do the arrows, on the frame.
LEMMA NavigateLands ==
    ASSUME NEW S, NEW reg, reg.rows \in Frames(S), NEW id, NEW dir \in Arrows
    PROVE  navigate(reg, id, dir) \in Lands(reg)
<1> DEFINE cell == position(reg, id)
           target == IF dir = "Up" THEN cell[1] - 1 ELSE cell[1] + 1
<1>1. CASE ~contains(reg, id)
  BY <1>1 DEF navigate, Lands
<1>2. CASE contains(reg, id)
  <2>1. cell[1] \in RowNumbers(reg) /\ cell[2] \in DOMAIN reg.rows[cell[1]] /\ cell[2] \in Nat \ {0}
    BY <1>2, PositionOf
  <2>2. CASE dir \in {"Left", "Right"}
    <3>1. navigate(reg, id, dir) = horizontal_neighbor(reg.rows[cell[1]], cell[2], dir = "Right")
      BY <1>2, <2>2 DEF navigate
    <3> HIDE DEF cell
    <3>2. QED
      BY <2>1, <3>1, HorizontalLands
  <2>3. CASE dir \notin {"Left", "Right"} /\ target \notin RowNumbers(reg)
    BY <1>2, <2>3 DEF navigate, Lands
  <2>4. CASE dir \notin {"Left", "Right"} /\ target \in RowNumbers(reg)
    <3>1. navigate(reg, id, dir) = Snap(reg, target, cell[2])
      BY <1>2, <2>4 DEF navigate
    <3> HIDE DEF cell, target
    <3>2. QED
      BY <2>1, <2>4, <3>1, SnapLands DEF Lands
  <2>5. QED
    BY <2>2, <2>3, <2>4
<1>3. QED
  BY <1>1, <1>2

\* The scroll group of a widget is made of rows of the frame.
LEMMA GroupOf ==
    ASSUME NEW reg, Grouped(reg), NEW id, scroll_group_of(reg, id) # {}
    PROVE  /\ contains(reg, id)
           /\ Group(reg, id).first \in RowNumbers(reg)
           /\ Group(reg, id).last \in RowNumbers(reg)
<1>1. contains(reg, id)
  BY DEF scroll_group_of
<1>2. scroll_group_of(reg, id) \subseteq 1 .. Len(reg.groups)
  BY <1>1 DEF scroll_group_of
<1>3. (CHOOSE g \in scroll_group_of(reg, id) : TRUE) \in 1 .. Len(reg.groups)
  BY <1>2
<1>4. QED
  BY <1>1, <1>3 DEF Group, Grouped

\* Home and End land on the frame.
LEMMA HomeEndLand ==
    ASSUME NEW S, NEW reg, reg.rows \in Frames(S), Grouped(reg), NEW id
    PROVE  Home(reg, id) \in Lands(reg) /\ End(reg, id) \in Lands(reg)
<1>1. CASE scroll_group_of(reg, id) = {}
  BY <1>1, FirstLands, FirstBodyLands DEF Home, End
<1>2. CASE scroll_group_of(reg, id) # {}
  <2>1. /\ Group(reg, id).first \in RowNumbers(reg)
        /\ Group(reg, id).last \in RowNumbers(reg)
        /\ position(reg, id)[2] \in Nat \ {0}
    BY <1>2, GroupOf, PositionOf
  <2>2. QED
    BY <1>2, <2>1, SnapLands DEF Home, End, Lands
<1>3. QED
  BY <1>1, <1>2

\* PageUp and PageDown land on the frame.
LEMMA MoveRowsLands ==
    ASSUME NEW S, NEW reg, reg.rows \in Frames(S), Grouped(reg), NEW id, NEW delta \in Int
    PROVE  move_rows(reg, id, delta) \in Lands(reg)
<1>1. CASE ~contains(reg, id)
  BY <1>1 DEF move_rows, Lands
<1>2. CASE contains(reg, id)
  <2> DEFINE cell == position(reg, id)
             range == IF scroll_group_of(reg, id) = {}
                      THEN [first |-> 1, last |-> Len(reg.rows)]
                      ELSE Group(reg, id)
  <2>1. cell[1] \in RowNumbers(reg) /\ cell[2] \in Nat \ {0}
    BY <1>2, PositionOf
  <2>2. Len(reg.rows) \in Nat
    BY DEF Frames
  <2>3. range.first \in RowNumbers(reg) /\ range.last \in RowNumbers(reg)
    <3>1. CASE scroll_group_of(reg, id) = {}
      BY <2>1, <2>2, <3>1 DEF RowNumbers
    <3>2. CASE scroll_group_of(reg, id) # {}
      BY <3>2, GroupOf
    <3>3. QED
      BY <3>1, <3>2
  <2>4. move_rows(reg, id, delta) = Snap(reg, Clamp(cell[1] + delta, range.first, range.last), cell[2])
    BY <1>2 DEF move_rows
  <2> HIDE DEF cell, range
  <2>5. Clamp(cell[1] + delta, range.first, range.last) \in RowNumbers(reg)
    BY <2>1, <2>2, <2>3 DEF Clamp, Smaller, RowNumbers
  <2>6. QED
    BY <2>1, <2>4, <2>5, SnapLands DEF Lands
<1>3. QED
  BY <1>1, <1>2

\* Tab and BackTab land on the frame.
LEMMA CyclePaneLands ==
    ASSUME NEW S, NEW reg, reg.rows \in Frames(S), NEW id, NEW forward
    PROVE  cycle_pane(reg, id, forward) \in Lands(reg)
<1>1. ASSUME NEW pane \in SUBSET RowNumbers(reg), NEW col \in Nat \ {0}
      PROVE  first_widget_in_range(reg, pane, col) \in Lands(reg)
  <2> DEFINE open == {r \in pane : candidates(reg.rows[r]) # {}}
             top == Lowest(open)
             landing == candidates(reg.rows[top])
             c == NthLowest(landing, Smaller(col, Cardinality(landing)))
  <2>1. CASE open = {}
    BY <2>1 DEF first_widget_in_range, Lands
  <2>2. CASE open # {}
    <3>1. open \subseteq Nat
      BY DEF RowNumbers
    <3>2. top \in open
      <4> HIDE DEF open
      <4> QED
        BY <2>2, <3>1, LowestOf
    <3>3. top \in RowNumbers(reg) /\ landing # {}
      BY <3>2
    <3>4. landing \subseteq DOMAIN reg.rows[top]
      BY DEF candidates
    <3>5. first_widget_in_range(reg, pane, col) = reg.rows[top][c].id
      BY <2>2 DEF first_widget_in_range
    <3> HIDE DEF top, open, landing
    <3>6. PICK m \in Nat : DOMAIN reg.rows[top] = 1 .. m
      BY <3>3, RowOfFrame
    <3>7. IsFiniteSet(landing) /\ Cardinality(landing) \in Nat
      <4>1. landing \in SUBSET Nat /\ \A l \in landing : l <= m
        BY <3>4, <3>6
      <4>2. QED
        BY <4>1, FS_BoundedSetOfNaturals, FS_CardinalityType
    <3>8. Cardinality(landing) # 0
      BY <3>3, <3>7, FS_EmptySet
    <3>9. Smaller(col, Cardinality(landing)) \in 1 .. Cardinality(landing)
      BY <3>7, <3>8 DEF Smaller
    <3>10. c \in landing
      BY <3>4, <3>6, <3>9, NthLowestOf
    <3>11. QED
      BY <3>3, <3>4, <3>5, <3>10, CellOfFrame DEF Lands
  <2>3. QED
    BY <2>1, <2>2
<1>2. CASE contains(reg, id)
  <2>1. position(reg, id)[2] \in Nat \ {0}
    BY <1>2, PositionOf
  <2>2. cycle_pane(reg, id, forward) # NoWidget =>
          \E pane \in SUBSET RowNumbers(reg) :
             cycle_pane(reg, id, forward) = first_widget_in_range(reg, pane, position(reg, id)[2])
    BY <1>2, Zenon DEF cycle_pane
  <2>3. QED
    BY <1>1, <2>1, <2>2 DEF Lands
<1>3. CASE ~contains(reg, id)
  BY <1>3 DEF cycle_pane, Lands
<1>4. QED
  BY <1>2, <1>3

-----------------------------------------------------------------------------
(* What the renderers register.                                            *)

\* A row of widgets.
LEMMA RowFrame ==
    ASSUME NEW S, NEW ids \in Seq(S), ids # <<>>
    PROVE  Row(ids) \in Seq(Cells(S)) \ {<<>>} /\ <<Row(ids)>> \in Frames(S)
<1>1. Len(ids) \in Nat \ {0} /\ \A c \in 1 .. Len(ids) : ids[c] \in S
  BY EmptySeq
<1>2. \A c \in 1 .. Len(ids) : Widget(ids[c], KindOf(ids[c]), c) \in Cells(S)
  <2>1. \A c \in 1 .. Len(ids) : KindOf(ids[c]) \in Kinds
    BY DEF KindOf, Kinds
  <2>2. QED
    BY <1>1, <2>1 DEF Widget, Cells, Kinds
<1>3. Row(ids) \in Seq(Cells(S)) /\ Len(Row(ids)) = Len(ids)
  BY <1>1, <1>2, IsASeq DEF Row
<1>4. Row(ids) # <<>>
  BY <1>1, <1>3, EmptySeq
<1>5. QED
  BY <1>3, <1>4 DEF Frames

\* A column of widgets.
LEMMA ColumnFrame ==
    ASSUME NEW S, NEW ids \in Seq(S)
    PROVE  Column(ids) \in Frames(S)
<1>1. \A r \in 1 .. Len(ids) : Row(<<ids[r]>>) \in Seq(Cells(S)) \ {<<>>}
  <2>1. \A r \in 1 .. Len(ids) : <<ids[r]>> \in Seq(S) /\ <<ids[r]>> # <<>>
    OBVIOUS
  <2>2. QED
    BY <2>1, RowFrame
<1>2. QED
  BY <1>1, IsASeq DEF Column, Frames

\* A list, a row of buttons for each of its entries.
LEMMA ListFrame ==
    ASSUME NEW S, NEW buttons \in Seq([1 .. ListRows -> S]), buttons # <<>>
    PROVE  ListOf(buttons) \in Frames(S)
<1>1. ListRows \in Nat /\ Len(buttons) \in Nat \ {0}
  BY ScreenAssumption, EmptySeq
<1>2. ASSUME NEW r \in 1 .. ListRows
      PROVE  [c \in 1 .. Len(buttons) |-> Widget(buttons[c][r], "Button", c)]
               \in Seq(Cells(S)) \ {<<>>}
  <2> DEFINE row == [c \in 1 .. Len(buttons) |-> Widget(buttons[c][r], "Button", c)]
  <2>1. \A c \in 1 .. Len(buttons) : Widget(buttons[c][r], "Button", c) \in Cells(S)
    BY <1>1 DEF Widget, Cells, Kinds
  <2>2. row \in Seq(Cells(S)) /\ Len(row) = Len(buttons)
    BY <1>1, <2>1, IsASeq
  <2>3. row # <<>>
    <3> HIDE DEF row
    <3> QED
      BY <1>1, <2>2, EmptySeq
  <2>4. QED
    BY <2>2, <2>3
<1>3. QED
  BY <1>1, <1>2, IsASeq DEF ListOf, Frames

\* A toggle and the button that explains it.
LEMMA ToggleFrame ==
    ASSUME NEW S, NEW toggle \in S, NEW info \in S
    PROVE  ToggleRow(toggle, info) \in Seq(Cells(S)) \ {<<>>}
<1>1. Widget(toggle, "Toggle", 2) \in Cells(S) /\ Widget(info, "Button", 1) \in Cells(S)
  BY DEF Widget, Cells, Kinds
<1>2. QED
  BY <1>1 DEF ToggleRow

\* Two frames, one above the other.
LEMMA FramesJoin ==
    ASSUME NEW S, NEW above \in Frames(S), NEW below \in Frames(S)
    PROVE  above \o below \in Frames(S)
BY ConcatProperties DEF Frames

\* A frame of some widgets is a frame of more.
LEMMA FramesGrow ==
    ASSUME NEW S, NEW T, S \subseteq T, NEW rows \in Frames(S)
    PROVE  rows \in Frames(T)
<1>1. Cells(S) \subseteq Cells(T)
  BY DEF Cells
<1>2. Seq(Cells(S)) \ {<<>>} \subseteq Seq(Cells(T)) \ {<<>>}
  BY <1>1
<1>3. QED
  BY <1>2 DEF Frames

\* The widgets of a frame are those its cells are made of.
LEMMA IdsOfFrame ==
    ASSUME NEW S, NEW reg, reg.rows \in Frames(S)
    PROVE  Ids(reg) \subseteq S
<1>1. SUFFICES ASSUME NEW id \in Ids(reg) PROVE id \in S
  OBVIOUS
<1>2. PICK r \in RowNumbers(reg) : \E c \in DOMAIN reg.rows[r] : IsAt(reg, id, r, c)
  BY ContainedIds DEF contains
<1>3. PICK row \in Seq(Cells(S)) : row = reg.rows[r]
  BY RowOfFrame
<1>4. PICK c \in DOMAIN row : row[c].id = id
  BY <1>2, <1>3 DEF IsAt
<1>5. row[c] \in Cells(S)
  BY <1>3
<1>6. QED
  BY <1>4, <1>5 DEF Cells

\* The groups that a registry is given are made of its rows.
LEMMA ScrollGroupsGrouped ==
    ASSUME NEW rows, Len(rows) \in Nat
    PROVE  Grouped(Registry(rows))
<1> DEFINE inside == {r \in 1 .. Len(rows) : Scrolls(rows[r])}
<1>1. Registry(rows).rows = rows /\ Registry(rows).groups = ScrollGroups(rows)
  BY DEF Registry
<1>2. CASE inside = {}
  <2>1. ScrollGroups(rows) = <<>>
    BY <1>2 DEF ScrollGroups
  <2>2. QED
    BY <1>1, <2>1 DEF Grouped
<1>3. CASE inside # {}
  <2>1. inside \in SUBSET Nat /\ inside \in SUBSET (0 .. Len(rows)) /\ inside \subseteq 1 .. Len(rows)
    OBVIOUS
  <2>2. ScrollGroups(rows) = <<[first |-> Lowest(inside), last |-> Highest(inside)]>>
    BY <1>3 DEF ScrollGroups
  <2> HIDE DEF inside
  <2>3. Lowest(inside) \in 1 .. Len(rows) /\ Highest(inside) \in 1 .. Len(rows)
    BY <1>3, <2>1, LowestOf, HighestOf
  <2>4. QED
    BY <1>1, <2>2, <2>3 DEF Grouped, RowNumbers
<1>4. QED
  BY <1>2, <1>3

\* So many rows in a list that no button of theirs reaches the overlays' slice.
\* The apps outside Linux start 14 below it, [Use] of an access method 30 below.
Apart == ListRows <= 14 \/ (Linux /\ ListRows <= 30)

\* What the button of a list's row can stand for.
Buttons(name) == RowNames(name) \cup (IF Apart THEN {} ELSE OverlayIds)

\* No row's number is that of an overlay's button.
Below(base) ==
    \A i \in 1 .. ListRows :
       base + i - 1 \notin OVERLAY_BASE .. OVERLAY_BASE + 7
                        \cup INPUT_MODAL_FIELD_BASE .. INPUT_MODAL_FIELD_BASE + 2

\* The widgets that the body of a page can hold.
BodyIds(page) ==
    CASE page = "Status" ->
           {"DetailsToggle", "SwitchLocation", "RefreshConnection", "ConnectDisconnect"}
      [] page = "SelectLocation" ->
           {"EntryTab", "ExitTab", "SearchAnchor", "FilterButton"} \cup Countries
      [] page = "SelectLocationFilter" -> {"OwnershipAny", "ProvidersAll"}
      [] page = "Account" ->
           {"ManageDevices", "ShowAccount", "BuyCredit", "RedeemVoucher", "LogOut", "LogIn"}
      [] page = "AccountDevices" -> {"RotateKey"} \cup Buttons("RemoveDevice")
      [] page = "Settings" ->
           {"Daita", "Multihop", "VpnSettings", "SplitTunneling", "ApiAccess",
            "DisconnectAndQuit"}
      [] page = "SettingsDaita" ->
           {"BlurbPrev", "BlurbNext", "DaitaToggle", "DirectOnlyToggle"}
      [] page = "SettingsMultihop" -> {"MultihopToggle"}
      [] page = "SettingsVpn" ->
           {"DnsBlockers", "CustomDns", "Ipv6Toggle", "Ipv6Info", "KillSwitchToggle",
            "KillSwitchInfo", "LockdownToggle", "LockdownInfo", "AntiCensorship",
            "DeviceIpAuto", "MtuEdit", "ServerIp"}
      [] page = "SettingsDnsBlockers" -> {"DnsBlockAds"}
      [] page = "SettingsCustomDns" ->
           {"CustomDnsToggle", "AddAddress"}
             \cup Buttons("EditAddress") \cup Buttons("RemoveAddress")
      [] page = "SettingsAntiCensorship" -> {"ModeAuto", "PortEdit"}
      [] page = "SettingsApiAccess" -> Buttons("MethodToggle") \cup Buttons("MethodUse")
      [] page = "SettingsSplitTunnel" ->
           {"SplitTunnelToggle", "AddApp", "AddPid"}
             \cup Buttons("RemoveApp") \cup Buttons("RemovePid")
      [] page = "SettingsRelayOverrides" ->
           {"AddOverride", "ClearOverrides"} \cup Buttons("RemoveOverride")
      [] page = "Logs" -> {}

\* Those around it.
ChromeIds(page) ==
    {"WindowClose"} \cup Tabs \cup (IF page \in SubPages THEN {"BreadcrumbBack"} ELSE {})

PageIds(page) == ChromeIds(page) \cup BodyIds(page)

\* A row's button is named for its row, or collides with an overlay's.
LEMMA RowButtons ==
    ASSUME NEW base \in Nat, NEW name, Apart => Below(base)
    PROVE  RowButton(base, name) \in [1 .. ListRows -> Buttons(name)]
<1>1. ASSUME NEW i \in 1 .. ListRows
      PROVE  WidgetAt(base + i - 1, name \o ToString(i)) \in Buttons(name)
  <2> DEFINE number == base + i - 1
             label == name \o ToString(i)
  <2>1. label \in RowNames(name)
    BY DEF RowNames
  <2>2. number \in Int
    BY ScreenAssumption
  <2>0. Apart => /\ number \notin OVERLAY_BASE .. OVERLAY_BASE + 7
                 /\ number \notin INPUT_MODAL_FIELD_BASE .. INPUT_MODAL_FIELD_BASE + 2
    BY DEF Below
  <2> HIDE DEF number, label
  <2>3. CASE number \in OVERLAY_BASE .. OVERLAY_BASE + 7
    <3>1. number - OVERLAY_BASE + 1 \in 1 .. 8
      BY <2>2, <2>3 DEF OVERLAY_BASE
    <3>2. DOMAIN OverlayWidget = 1 .. 8
      BY DEF OverlayWidget
    <3>3. OverlayWidget[number - OVERLAY_BASE + 1] \in OverlayIds
      BY <3>1, <3>2 DEF OverlayIds
    <3>4. WidgetAt(number, label) = OverlayWidget[number - OVERLAY_BASE + 1]
      BY <2>2, <2>3 DEF WidgetAt, OVERLAY_BASE, INPUT_MODAL_FIELD_BASE
    <3>5. QED
      BY <2>0, <2>3, <3>3, <3>4 DEF Buttons, number, label
  <2>4. CASE number \in INPUT_MODAL_FIELD_BASE .. INPUT_MODAL_FIELD_BASE + 2
    <3>1. number - INPUT_MODAL_FIELD_BASE + 1 \in 1 .. 3
      BY <2>2, <2>4 DEF INPUT_MODAL_FIELD_BASE, OVERLAY_BASE
    <3>2. DOMAIN ModalFields = 1 .. 3
      BY DEF ModalFields
    <3>3. ModalFields[number - INPUT_MODAL_FIELD_BASE + 1] \in OverlayIds
      BY <3>1, <3>2 DEF OverlayIds
    <3>4. WidgetAt(number, label) = ModalFields[number - INPUT_MODAL_FIELD_BASE + 1]
      BY <2>2, <2>4 DEF WidgetAt, OVERLAY_BASE, INPUT_MODAL_FIELD_BASE
    <3>5. QED
      BY <2>0, <2>4, <3>3, <3>4 DEF Buttons, number, label
  <2>5. CASE /\ number \notin OVERLAY_BASE .. OVERLAY_BASE + 7
             /\ number \notin INPUT_MODAL_FIELD_BASE .. INPUT_MODAL_FIELD_BASE + 2
    <3>1. WidgetAt(number, label) = label
      BY <2>5 DEF WidgetAt
    <3>2. QED
      BY <2>1, <3>1 DEF Buttons, number, label
  <2>6. QED
    BY <2>3, <2>4, <2>5
<1>2. QED
  BY <1>1 DEF RowButton

\* The first number of each slice of row buttons.
Bases == <<REMOVE_DEVICE_BASE, CUSTOM_DNS_EDIT_BASE, CUSTOM_DNS_REMOVE_BASE,
           API_ACCESS_TOGGLE_BASE, API_ACCESS_USE_BASE, SPLIT_TUNNEL_REMOVE_PID_BASE,
           RELAY_OVERRIDE_REMOVE_BASE, SPLIT_TUNNEL_REMOVE_APP_BASE>>

\* None of them reaches the overlays' slice while the lists are short.
LEMMA SlicesBelow ==
    /\ REMOVE_DEVICE_BASE \in Nat /\ CUSTOM_DNS_EDIT_BASE \in Nat
    /\ CUSTOM_DNS_REMOVE_BASE \in Nat /\ API_ACCESS_TOGGLE_BASE \in Nat
    /\ API_ACCESS_USE_BASE \in Nat /\ SPLIT_TUNNEL_REMOVE_APP_BASE \in Nat
    /\ SPLIT_TUNNEL_REMOVE_PID_BASE \in Nat /\ RELAY_OVERRIDE_REMOVE_BASE \in Nat
    /\ Apart => /\ Below(REMOVE_DEVICE_BASE) /\ Below(CUSTOM_DNS_EDIT_BASE)
                /\ Below(CUSTOM_DNS_REMOVE_BASE) /\ Below(API_ACCESS_TOGGLE_BASE)
                /\ Below(API_ACCESS_USE_BASE) /\ Below(SPLIT_TUNNEL_REMOVE_PID_BASE)
                /\ Below(RELAY_OVERRIDE_REMOVE_BASE)
                /\ ~Linux => Below(SPLIT_TUNNEL_REMOVE_APP_BASE)
<1>1. /\ \A i \in 1 .. 8 : Bases[i] \in Nat
      /\ \A i \in 1 .. 7 : Apart => Below(Bases[i])
      /\ Apart /\ ~Linux => Below(Bases[8])
  <2>1. Bases = <<39, 178, 162, 194, 210, 258, 290, 226>>
    BY DEF Bases, REMOVE_DEVICE_BASE, AccountSentinel, CUSTOM_DNS_EDIT_BASE,
       CUSTOM_DNS_REMOVE_BASE, SettingsSentinel, CUSTOM_DNS_REMOVE_MAX,
       API_ACCESS_TOGGLE_BASE, API_ACCESS_USE_BASE, API_ACCESS_MAX,
       SPLIT_TUNNEL_REMOVE_PID_BASE, SPLIT_TUNNEL_REMOVE_APP_BASE, SPLIT_TUNNEL_REMOVE_MAX,
       RELAY_OVERRIDE_REMOVE_BASE
  <2>2. \A i \in 1 .. 7 : Bases[i] \in Nat /\ (Bases[i] <= 210 \/ Bases[i] >= 258)
    BY <2>1
  <2>3. Bases[8] = 226
    BY <2>1
  <2>4. ASSUME NEW base \in Nat, Apart,
               (base <= 210 \/ base >= 258) \/ (base = 226 /\ ~Linux)
        PROVE  Below(base)
    BY <2>4, ScreenAssumption DEF Apart, Below, OVERLAY_BASE, INPUT_MODAL_FIELD_BASE
  <2>5. \A i \in 1 .. 8 : i \in 1 .. 7 \/ i = 8
    OBVIOUS
  <2>6. QED
    BY <2>2, <2>3, <2>4, <2>5
<1>2. QED
  BY <1>1 DEF Bases

\* The same of each list of the pages.
LEMMA RowsOfButtons ==
    /\ RemoveDevice \in [1 .. ListRows -> Buttons("RemoveDevice")]
    /\ EditAddress \in [1 .. ListRows -> Buttons("EditAddress")]
    /\ RemoveAddress \in [1 .. ListRows -> Buttons("RemoveAddress")]
    /\ MethodToggle \in [1 .. ListRows -> Buttons("MethodToggle")]
    /\ MethodUse \in [1 .. ListRows -> Buttons("MethodUse")]
    /\ RemoveExcluded \in [1 .. ListRows -> Buttons("RemoveApp") \cup Buttons("RemovePid")]
    /\ RemoveOverride \in [1 .. ListRows -> Buttons("RemoveOverride")]
<1>1. RemoveExcluded \in [1 .. ListRows -> Buttons("RemoveApp") \cup Buttons("RemovePid")]
  <2>1. CASE Linux
    <3>1. RowButton(SPLIT_TUNNEL_REMOVE_PID_BASE, "RemovePid")
            \in [1 .. ListRows -> Buttons("RemovePid")]
      BY SlicesBelow, RowButtons
    <3>2. QED
      BY <2>1, <3>1 DEF RemoveExcluded
  <2>2. CASE ~Linux
    <3>1. RowButton(SPLIT_TUNNEL_REMOVE_APP_BASE, "RemoveApp")
            \in [1 .. ListRows -> Buttons("RemoveApp")]
      BY <2>2, SlicesBelow, RowButtons
    <3>2. QED
      BY <2>2, <3>1 DEF RemoveExcluded
  <2>3. QED
    BY <2>1, <2>2
<1>2. QED
  BY <1>1, SlicesBelow, RowButtons
     DEF RemoveDevice, EditAddress, RemoveAddress, MethodToggle, MethodUse, RemoveOverride

\* The entries of a list, in each of its shapes.
LEMMA EntriesFrame ==
    ASSUME NEW S, NEW shape, NEW left \in [1 .. ListRows -> S], NEW right \in [1 .. ListRows -> S]
    PROVE  /\ ListOf(<<left>>) \in Frames(S)
           /\ Entries(shape, <<left>>) \in Frames(S)
           /\ Entries(shape, <<left, right>>) \in Frames(S)
<1>1. /\ <<left>> \in Seq([1 .. ListRows -> S]) /\ <<left>> # <<>>
      /\ <<left, right>> \in Seq([1 .. ListRows -> S]) /\ <<left, right>> # <<>>
  OBVIOUS
<1>2. ListOf(<<left>>) \in Frames(S) /\ ListOf(<<left, right>>) \in Frames(S)
  BY <1>1, ListFrame
<1>3. <<>> \in Frames(S)
  BY DEF Frames
<1>4. QED
  BY <1>2, <1>3 DEF Entries

\* The body of a page holds the widgets of that page only.
LEMMA BodyFrame ==
    ASSUME NEW page \in PageId, NEW shape
    PROVE  Body(page, shape) \in Frames(BodyIds(page))
<1> DEFINE S == BodyIds(page)
<1>0. <<>> \in Frames(S)
  BY DEF Frames
<1>1. CASE page = "Status"
  <2>1. S = {"DetailsToggle", "SwitchLocation", "RefreshConnection", "ConnectDisconnect"}
    BY <1>1 DEF BodyIds
  <2> HIDE DEF S
  <2>2. /\ Column(<<"DetailsToggle">>) \in Frames(S)
        /\ Column(<<"ConnectDisconnect">>) \in Frames(S)
    <3>1. <<"DetailsToggle">> \in Seq(S) /\ <<"ConnectDisconnect">> \in Seq(S)
      BY <2>1
    <3>2. QED
      BY <3>1, ColumnFrame
  <2>3. <<TopActionRow(shape)>> \in Frames(S)
    <3>1. /\ <<"SwitchLocation", "RefreshConnection">> \in Seq(S)
          /\ <<"SwitchLocation">> \in Seq(S)
      BY <2>1
    <3>2. QED
      BY <3>1, RowFrame DEF TopActionRow
  <2>4. QED
    BY <1>0, <1>1, <2>2, <2>3, FramesJoin DEF Body, StatusRows, S
<1>2. CASE page = "SelectLocation"
  <2>1. S = {"EntryTab", "ExitTab", "SearchAnchor", "FilterButton", "Country1", "Country2"}
    BY <1>2 DEF BodyIds, Countries
  <2> HIDE DEF S
  <2>2. Column(<<"Country1", "Country2">>) \in Frames(S)
    <3>1. <<"Country1", "Country2">> \in Seq(S)
      BY <2>1
    <3>2. QED
      BY <3>1, ColumnFrame
  <2>3. /\ <<Row(<<"EntryTab", "ExitTab">>)>> \in Frames(S)
        /\ <<Row(<<"SearchAnchor", "FilterButton">>)>> \in Frames(S)
    <3>1. <<"EntryTab", "ExitTab">> \in Seq(S) /\ <<"SearchAnchor", "FilterButton">> \in Seq(S)
      BY <2>1
    <3>2. QED
      BY <3>1, RowFrame
  <2>4. <<Row(<<"SearchAnchor", "FilterButton">>)>> \o Column(<<"Country1", "Country2">>) \in Frames(S)
    BY <2>2, <2>3, FramesJoin
  <2>5. QED
    BY <1>0, <1>2, <2>3, <2>4, FramesJoin DEF Body, SelectLocationRows, S
<1>3. CASE page \in {"SelectLocationFilter", "Account", "Settings", "SettingsMultihop",
                     "SettingsDnsBlockers", "SettingsAntiCensorship", "Logs"}
  <2>1. CASE page = "SelectLocationFilter"
    <3>1. <<"OwnershipAny", "ProvidersAll">> \in Seq(S)
      BY <2>1 DEF BodyIds
    <3>2. QED
      BY <2>1, <3>1, ColumnFrame DEF Body, FilterRows
  <2>2. CASE page = "Account"
    <3>1. /\ <<"ManageDevices", "ShowAccount", "BuyCredit", "RedeemVoucher", "LogOut">> \in Seq(S)
          /\ <<"LogIn">> \in Seq(S)
      BY <2>2 DEF BodyIds
    <3>2. QED
      BY <2>2, <3>1, ColumnFrame DEF Body, AccountRows, LoggedInRows, LoggedOutRows
  <2>3. CASE page = "Settings"
    <3>1. <<"Daita", "Multihop", "VpnSettings", "SplitTunneling", "ApiAccess",
            "DisconnectAndQuit">> \in Seq(S)
      BY <2>3 DEF BodyIds
    <3>2. QED
      BY <2>3, <3>1, ColumnFrame DEF Body, SettingsRows
  <2>4. CASE page = "SettingsMultihop"
    <3>1. <<"MultihopToggle">> \in Seq(S)
      BY <2>4 DEF BodyIds
    <3>2. QED
      BY <2>4, <3>1, ColumnFrame DEF Body, MultihopRows
  <2>5. CASE page = "SettingsDnsBlockers"
    <3>1. <<"DnsBlockAds">> \in Seq(S)
      BY <2>5 DEF BodyIds
    <3>2. QED
      BY <2>5, <3>1, ColumnFrame DEF Body, DnsBlockersRows
  <2>6. CASE page = "SettingsAntiCensorship"
    <3>1. /\ <<"ModeAuto", "PortEdit">> \in Seq(S)
          /\ <<"ModeAuto">> \in Seq(S)
      BY <2>6 DEF BodyIds
    <3>2. QED
      BY <2>6, <3>1, ColumnFrame DEF Body, AntiCensorshipRows
  <2>7. CASE page = "Logs"
    BY <1>0, <2>7 DEF Body
  <2>8. QED
    BY <1>3, <2>1, <2>2, <2>3, <2>4, <2>5, <2>6, <2>7
<1>4. CASE page = "AccountDevices"
  <2>1. S = {"RotateKey"} \cup Buttons("RemoveDevice")
    BY <1>4 DEF BodyIds
  <2> HIDE DEF S
  <2>2. Column(<<"RotateKey">>) \in Frames(S)
    <3>1. <<"RotateKey">> \in Seq(S)
      BY <2>1
    <3>2. QED
      BY <3>1, ColumnFrame
  <2>3. ListOf(<<RemoveDevice>>) \in Frames(S)
    <3>1. RemoveDevice \in [1 .. ListRows -> S]
      BY <2>1, RowsOfButtons
    <3>2. QED
      BY <3>1, EntriesFrame
  <2>4. QED
    BY <1>0, <1>4, <2>2, <2>3, FramesJoin DEF Body, DevicesRows, S
<1>5. CASE page = "SettingsDaita"
  <2>1. S = {"BlurbPrev", "BlurbNext", "DaitaToggle", "DirectOnlyToggle"}
    BY <1>5 DEF BodyIds
  <2> HIDE DEF S
  <2>2. /\ BlurbPager(shape) \in Frames(S)
        /\ Column(<<"DaitaToggle", "DirectOnlyToggle">>) \in Frames(S)
    <3>1. /\ <<"BlurbNext">> \in Seq(S) /\ <<"BlurbPrev">> \in Seq(S)
          /\ <<"DaitaToggle", "DirectOnlyToggle">> \in Seq(S)
      BY <2>1
    <3>2. QED
      BY <3>1, ColumnFrame DEF BlurbPager
  <2>3. QED
    BY <1>5, <2>2, FramesJoin DEF Body, DaitaRows, S
<1>6. CASE page = "SettingsVpn"
  <2>1. S = {"DnsBlockers", "CustomDns", "Ipv6Toggle", "Ipv6Info", "KillSwitchToggle",
             "KillSwitchInfo", "LockdownToggle", "LockdownInfo", "AntiCensorship",
             "DeviceIpAuto", "MtuEdit", "ServerIp"}
    BY <1>6 DEF BodyIds
  <2> HIDE DEF S
  <2>2. /\ Column(<<"DnsBlockers", "CustomDns">>) \in Frames(S)
        /\ Column(<<"AntiCensorship">>) \in Frames(S)
        /\ Column(<<"ServerIp">>) \in Frames(S)
    <3>1. /\ <<"DnsBlockers", "CustomDns">> \in Seq(S)
          /\ <<"AntiCensorship">> \in Seq(S) /\ <<"ServerIp">> \in Seq(S)
      BY <2>1
    <3>2. QED
      BY <3>1, ColumnFrame
  <2>3. <<ToggleRow("Ipv6Toggle", "Ipv6Info"),
          ToggleRow("KillSwitchToggle", "KillSwitchInfo"),
          ToggleRow("LockdownToggle", "LockdownInfo")>> \in Frames(S)
    <3>1. /\ ToggleRow("Ipv6Toggle", "Ipv6Info") \in Seq(Cells(S)) \ {<<>>}
          /\ ToggleRow("KillSwitchToggle", "KillSwitchInfo") \in Seq(Cells(S)) \ {<<>>}
          /\ ToggleRow("LockdownToggle", "LockdownInfo") \in Seq(Cells(S)) \ {<<>>}
      BY <2>1, ToggleFrame
    <3>2. QED
      BY <3>1 DEF Frames
  <2>4. <<DeviceIpRadio, MtuInput>> \in Frames(S)
    <3>1. <<"DeviceIpAuto">> \in Seq(S) /\ <<"MtuEdit">> \in Seq(S)
      BY <2>1
    <3>2. DeviceIpRadio \in Seq(Cells(S)) \ {<<>>} /\ MtuInput \in Seq(Cells(S)) \ {<<>>}
      BY <3>1, RowFrame DEF DeviceIpRadio, MtuInput
    <3>3. QED
      BY <3>2 DEF Frames
  <2>5. VpnRows \in Frames(S)
    BY <2>2, <2>3, <2>4, FramesJoin DEF VpnRows
  <2>6. QED
    BY <1>6, <2>5 DEF Body, S
<1>7. CASE page = "SettingsCustomDns"
  <2>1. S = {"CustomDnsToggle", "AddAddress"}
              \cup Buttons("EditAddress") \cup Buttons("RemoveAddress")
    BY <1>7 DEF BodyIds
  <2> HIDE DEF S
  <2>2. Column(<<"CustomDnsToggle">>) \in Frames(S) /\ Column(<<"AddAddress">>) \in Frames(S)
    <3>1. <<"CustomDnsToggle">> \in Seq(S) /\ <<"AddAddress">> \in Seq(S)
      BY <2>1
    <3>2. QED
      BY <3>1, ColumnFrame
  <2>3. Entries(shape, <<EditAddress, RemoveAddress>>) \in Frames(S)
    <3>1. EditAddress \in [1 .. ListRows -> S] /\ RemoveAddress \in [1 .. ListRows -> S]
      BY <2>1, RowsOfButtons
    <3>2. QED
      BY <3>1, EntriesFrame
  <2>4. CustomDnsRows(shape) \in Frames(S)
    BY <2>2, <2>3, FramesJoin DEF CustomDnsRows
  <2>5. QED
    BY <1>7, <2>4 DEF Body, S
<1>8. CASE page = "SettingsApiAccess"
  <2>1. S = Buttons("MethodToggle") \cup Buttons("MethodUse")
    BY <1>8 DEF BodyIds
  <2> HIDE DEF S
  <2>2. MethodToggle \in [1 .. ListRows -> S] /\ MethodUse \in [1 .. ListRows -> S]
    BY <2>1, RowsOfButtons
  <2>3. ApiAccessRows(shape) \in Frames(S)
    BY <2>2, EntriesFrame DEF ApiAccessRows
  <2>4. QED
    BY <1>8, <2>3 DEF Body, S
<1>9. CASE page = "SettingsSplitTunnel"
  <2>1. S = {"SplitTunnelToggle", "AddApp", "AddPid"}
              \cup Buttons("RemoveApp") \cup Buttons("RemovePid")
    BY <1>9 DEF BodyIds
  <2> HIDE DEF S
  <2>2. /\ Column(<<"SplitTunnelToggle">>) \in Frames(S)
        /\ Column(<<IF Linux THEN "AddPid" ELSE "AddApp">>) \in Frames(S)
    <3>1. /\ <<"SplitTunnelToggle">> \in Seq(S)
          /\ <<"AddPid">> \in Seq(S) /\ <<"AddApp">> \in Seq(S)
      BY <2>1
    <3>2. QED
      BY <3>1, ColumnFrame
  <2>3. Entries(shape, <<RemoveExcluded>>) \in Frames(S)
    <3>1. RemoveExcluded \in [1 .. ListRows -> S]
      BY <2>1, RowsOfButtons
    <3>2. QED
      BY <3>1, EntriesFrame
  <2>4. SplitTunnelRows(shape) \in Frames(S)
    BY <2>2, <2>3, FramesJoin DEF SplitTunnelRows
  <2>5. QED
    BY <1>9, <2>4 DEF Body, S
<1>10. CASE page = "SettingsRelayOverrides"
  <2>1. S = {"AddOverride", "ClearOverrides"} \cup Buttons("RemoveOverride")
    BY <1>10 DEF BodyIds
  <2> HIDE DEF S
  <2>2. <<OverridesFooter>> \in Frames(S)
    <3>1. <<"AddOverride", "ClearOverrides">> \in Seq(S)
      BY <2>1
    <3>2. QED
      BY <3>1, RowFrame DEF OverridesFooter
  <2>3. Entries(shape, <<RemoveOverride>>) \in Frames(S)
    <3>1. RemoveOverride \in [1 .. ListRows -> S]
      BY <2>1, RowsOfButtons
    <3>2. QED
      BY <3>1, EntriesFrame
  <2>4. RelayOverridesRows(shape) \in Frames(S)
    BY <2>2, <2>3, FramesJoin DEF RelayOverridesRows
  <2>5. QED
    BY <1>10, <2>4 DEF Body, S
<1>11. QED
  BY <1>1, <1>2, <1>3, <1>4, <1>5, <1>6, <1>7, <1>8, <1>9, <1>10
     DEF PageId, SubPages, StatusPages, SettingsPages, VpnPages, TabOf

\* Some cell of the rows is the widget's.
Holds(rows, id) == \E r \in 1 .. Len(rows) : \E c \in DOMAIN rows[r] : rows[r][c].id = id

\* What a row holds is on the frame.
LEMMA HoldsIds ==
    ASSUME NEW reg, NEW id, Holds(reg.rows, id)
    PROVE  id \in Ids(reg)
BY ContainedIds DEF Holds, contains, RowNumbers, IsAt

\* What one of two frames holds, both hold.
LEMMA HoldsJoin ==
    ASSUME NEW S, NEW above \in Frames(S), NEW below \in Frames(S), NEW id,
           Holds(above, id) \/ Holds(below, id)
    PROVE  Holds(above \o below, id)
<1>1. /\ Len(above) \in Nat /\ Len(below) \in Nat
      /\ Len(above \o below) = Len(above) + Len(below)
      /\ \A i \in 1 .. Len(above) + Len(below) :
            (above \o below)[i] = IF i <= Len(above) THEN above[i] ELSE below[i - Len(above)]
  BY ConcatProperties DEF Frames
<1>2. CASE Holds(above, id)
  <2>1. PICK r \in 1 .. Len(above) : \E c \in DOMAIN above[r] : above[r][c].id = id
    BY <1>2 DEF Holds
  <2>2. r \in 1 .. Len(above \o below) /\ (above \o below)[r] = above[r]
    BY <1>1
  <2>3. QED
    BY <2>1, <2>2 DEF Holds
<1>3. CASE Holds(below, id)
  <2>1. PICK r \in 1 .. Len(below) : \E c \in DOMAIN below[r] : below[r][c].id = id
    BY <1>3 DEF Holds
  <2>2. Len(above) + r \in 1 .. Len(above \o below)
    BY <1>1
  <2>3. (above \o below)[Len(above) + r] = below[r]
    BY <1>1
  <2>4. QED
    BY <2>1, <2>2, <2>3 DEF Holds
<1>4. QED
  BY <1>2, <1>3

\* The chrome of a page: tabs, breadcrumb, close button.
LEMMA ChromeFrame ==
    ASSUME NEW page \in PageId
    PROVE  /\ ChromeRows(page) \in Frames(ChromeIds(page))
           /\ \A tab \in Tabs : Holds(ChromeRows(page), tab)
<1> DEFINE S == ChromeIds(page)
<1>0. <<>> \in Frames(S)
  BY DEF Frames
<1>1. DOMAIN TabOf = {"Status", "Account", "Settings", "Logs"}
  BY DEF TabOf
<1>2. /\ DOMAIN TopLevelPages = 1 .. 4 /\ \A i \in 1 .. 4 : TopLevelPages[i] \in DOMAIN TabOf
      /\ \A p \in DOMAIN TabOf : \E i \in 1 .. 4 : TopLevelPages[i] = p
  BY <1>1 DEF TopLevelPages
<1>3. [i \in 1 .. 4 |-> TabOf[TopLevelPages[i]]] \in Seq(S)
  <2>1. \A i \in 1 .. 4 : TabOf[TopLevelPages[i]] \in S
    BY <1>2 DEF Tabs, ChromeIds
  <2> HIDE DEF S
  <2>2. QED
    BY <2>1, IsASeq
<1>4. TabRow \in Seq(Cells(S)) \ {<<>>} /\ Len([i \in 1 .. 4 |-> TabOf[TopLevelPages[i]]]) = 4
  <2>1. Len([i \in 1 .. 4 |-> TabOf[TopLevelPages[i]]]) = 4
    OBVIOUS
  <2>2. [i \in 1 .. 4 |-> TabOf[TopLevelPages[i]]] # <<>>
    BY <2>1, EmptySeq
  <2> HIDE DEF S
  <2>3. QED
    BY <1>3, <2>1, <2>2, RowFrame DEF TabRow
<1>5. <<"WindowClose">> \in Seq(S)
  BY DEF ChromeIds
<1>6. Row(<<"WindowClose">>) \in Seq(Cells(S)) \ {<<>>}
  BY <1>5, RowFrame
<1>7. <<Row(<<"WindowClose">>), TabRow>> \in Frames(S)
  BY <1>4, <1>6 DEF Frames
<1>8. (IF page \in SubPages THEN <<BreadcrumbRow>> ELSE <<>>) \in Frames(S)
  <2>1. CASE page \in SubPages
    <3>1. <<"BreadcrumbBack">> \in Seq(S)
      BY <2>1 DEF ChromeIds
    <3>2. QED
      BY <2>1, <3>1, RowFrame DEF BreadcrumbRow
  <2>2. QED
    BY <1>0, <2>1
<1>9. \A tab \in Tabs : Holds(<<Row(<<"WindowClose">>), TabRow>>, tab)
  <2>1. ASSUME NEW tab \in Tabs
        PROVE  \E c \in DOMAIN TabRow : TabRow[c].id = tab
    <3>1. PICK i \in 1 .. 4 : TabOf[TopLevelPages[i]] = tab
      BY <1>2 DEF Tabs
    <3>2. i \in DOMAIN TabRow /\ TabRow[i].id = tab
      BY <1>4, <3>1 DEF TabRow, Row, Widget
    <3>3. QED
      BY <3>2
  <2>2. QED
    BY <2>1 DEF Holds
<1>10. QED
  BY <1>7, <1>8, <1>9, FramesJoin, HoldsJoin DEF ChromeRows

\* The frame of a page, in each of its shapes.
LEMMA PageFrame ==
    ASSUME NEW page \in PageId, NEW shape \in Views(page)
    PROVE  /\ PageRegistry[page][shape].rows = ChromeRows(page) \o Body(page, shape)
           /\ PageRegistry[page][shape].rows \in Frames(PageIds(page))
           /\ Grouped(PageRegistry[page][shape])
           /\ Ids(PageRegistry[page][shape]) \subseteq PageIds(page) \cap WidgetId
           /\ Tabs \subseteq Ids(PageRegistry[page][shape])
<1> DEFINE rows == ChromeRows(page) \o Body(page, shape)
<1>1. PageRegistry[page][shape] = Registry(rows)
  BY DEF PageRegistry
<1>2. Registry(rows).rows = rows
  BY DEF Registry
<1>3. /\ ChromeRows(page) \in Frames(PageIds(page))
      /\ Body(page, shape) \in Frames(PageIds(page))
  BY ChromeFrame, BodyFrame, FramesGrow DEF PageIds
<1>4. rows \in Frames(PageIds(page))
  BY <1>3, FramesJoin
<1>5. Len(rows) \in Nat
  <2> HIDE DEF rows
  <2> QED
    BY <1>4 DEF Frames
<1>6. Ids(PageRegistry[page][shape]) \subseteq PageIds(page)
  BY <1>1, <1>2, <1>4, IdsOfFrame
<1>7. Ids(PageRegistry[page][shape]) \subseteq WidgetId
  BY DEF WidgetId
<1>8. \A tab \in Tabs : Holds(rows, tab)
  BY <1>3, ChromeFrame, HoldsJoin
<1>9. QED
  BY <1>1, <1>2, <1>4, <1>5, <1>6, <1>7, <1>8, ScrollGroupsGrouped, HoldsIds

\* Both widgets of a row of two are held by it.
LEMMA HeldByTwo ==
    ASSUME NEW left, NEW right
    PROVE  /\ Holds(<<Row(<<left, right>>)>>, left) /\ Holds(<<Row(<<left, right>>)>>, right)
           /\ Holds(Column(<<left, right>>), left) /\ Holds(Column(<<left, right>>), right)
<1>1. PICK both : both = Row(<<left, right>>)
  OBVIOUS
<1>2. DOMAIN both = 1 .. 2 /\ both[1].id = left /\ both[2].id = right
  BY <1>1 DEF Row, Widget
<1>3. Len(<<both>>) = 1 /\ <<both>>[1] = both
  OBVIOUS
<1>4. \A w : 1 \in DOMAIN Row(<<w>>) /\ Row(<<w>>)[1].id = w
  BY DEF Row, Widget
<1>5. PICK rows : rows = Column(<<left, right>>)
  OBVIOUS
<1>6. Len(rows) = 2 /\ rows[1] = Row(<<left>>) /\ rows[2] = Row(<<right>>)
  BY <1>5 DEF Column
<1>7. Holds(<<both>>, left) /\ Holds(<<both>>, right)
  BY <1>2, <1>3 DEF Holds
<1>8. Holds(rows, left) /\ Holds(rows, right)
  BY <1>4, <1>6 DEF Holds
<1>9. QED
  BY <1>1, <1>5, <1>7, <1>8

\* The widgets that handlers move the focus to by name exist.
LEMMA NamedWidgets ==
    Tabs \cup Countries \cup {"ExitTab", "SearchAnchor"} \subseteq WidgetId
<1>1. Tabs \subseteq WidgetId
  <2>1. "Logs" \in PageId /\ "Plain" \in Views("Logs")
    BY DEF PageId, TabOf, Views
  <2>2. QED
    BY <2>1, PageFrame
<1>2. ASSUME NEW shape \in {"Single", "Multihop", "EntryHidden"}
      PROVE  /\ "SelectLocation" \in PageId /\ shape \in Views("SelectLocation")
             /\ Body("SelectLocation", shape) \in Frames(PageIds("SelectLocation"))
             /\ ChromeRows("SelectLocation") \in Frames(PageIds("SelectLocation"))
             /\ PageRegistry["SelectLocation"][shape].rows
                   = ChromeRows("SelectLocation") \o SelectLocationRows(shape)
             /\ SelectLocationRows(shape) \in Frames(PageIds("SelectLocation"))
  <2>1. "SelectLocation" \in PageId /\ shape \in Views("SelectLocation")
    BY DEF PageId, SubPages, StatusPages, Views
  <2>2. Body("SelectLocation", shape) = SelectLocationRows(shape)
    BY DEF Body
  <2>3. /\ Body("SelectLocation", shape) \in Frames(PageIds("SelectLocation"))
        /\ ChromeRows("SelectLocation") \in Frames(PageIds("SelectLocation"))
    BY <2>1, BodyFrame, ChromeFrame, FramesGrow DEF PageIds
  <2>4. PageRegistry["SelectLocation"][shape].rows
          = ChromeRows("SelectLocation") \o Body("SelectLocation", shape)
    BY <2>1, PageFrame
  <2>5. QED
    BY <2>1, <2>2, <2>3, <2>4
<1> DEFINE tree == <<Row(<<"SearchAnchor", "FilterButton">>)>> \o Column(<<"Country1", "Country2">>)
           tabs == <<Row(<<"EntryTab", "ExitTab">>)>>
           S == {"EntryTab", "ExitTab", "SearchAnchor", "FilterButton", "Country1", "Country2"}
<1>3. /\ tabs \in Frames(S) /\ <<>> \in Frames(S)
      /\ <<Row(<<"SearchAnchor", "FilterButton">>)>> \in Frames(S)
      /\ Column(<<"Country1", "Country2">>) \in Frames(S)
  <2>1. /\ <<"EntryTab", "ExitTab">> \in Seq(S) /\ <<"SearchAnchor", "FilterButton">> \in Seq(S)
        /\ <<"Country1", "Country2">> \in Seq(S)
    OBVIOUS
  <2>2. <<>> \in Frames(S)
    BY DEF Frames
  <2> HIDE DEF S
  <2>3. QED
    BY <2>1, <2>2, RowFrame, ColumnFrame
<1>4. /\ Holds(tabs, "ExitTab")
      /\ Holds(<<Row(<<"SearchAnchor", "FilterButton">>)>>, "SearchAnchor")
      /\ \A country \in Countries : Holds(Column(<<"Country1", "Country2">>), country)
  BY HeldByTwo DEF Countries
<1>5. tree \in Frames(S) /\ \A id \in {"SearchAnchor"} \cup Countries : Holds(tree, id)
  BY <1>3, <1>4, FramesJoin, HoldsJoin
<1>6. \A id \in {"SearchAnchor"} \cup Countries : Holds(SelectLocationRows("Single"), id)
  BY <1>3, <1>5, HoldsJoin DEF SelectLocationRows
<1>7. Holds(SelectLocationRows("Multihop"), "ExitTab")
  BY <1>3, <1>4, <1>5, HoldsJoin DEF SelectLocationRows
<1>8. /\ "ExitTab" \in Ids(PageRegistry["SelectLocation"]["Multihop"])
      /\ {"SearchAnchor"} \cup Countries \subseteq Ids(PageRegistry["SelectLocation"]["Single"])
  <2>1. ASSUME NEW shape \in {"Single", "Multihop", "EntryHidden"}, NEW id,
               Holds(SelectLocationRows(shape), id)
        PROVE  id \in Ids(PageRegistry["SelectLocation"][shape])
    <3>1. Holds(ChromeRows("SelectLocation") \o SelectLocationRows(shape), id)
      BY <1>2, <2>1, HoldsJoin
    <3>2. QED
      BY <1>2, <3>1, HoldsIds
  <2>2. QED
    BY <1>6, <1>7, <2>1
<1>9. QED
  BY <1>1, <1>2, <1>8, PageFrame

\* The widgets of the popups.
ConfirmIds == {"ConfirmReject", "ConfirmAccept"}

PromptIds(mode) ==
    {"ModalCancel", "ModalSubmit"}
      \cup IF mode = "RelayOverrideInput" THEN {"HostnameField", "Ipv4Field", "Ipv6Field"}
           ELSE {"ModalField"}

\* The frame of a popup is one row.
LEMMA PopupFrame ==
    ASSUME NEW S, NEW ids \in Seq(S), ids # <<>>
    PROVE  /\ Popup(ids).rows \in Frames(S)
           /\ Popup(ids).rows = <<Row(ids)>>
           /\ Grouped(Popup(ids))
<1>1. Popup(ids).rows = <<Row(ids)>> /\ Popup(ids).groups = <<>>
  BY DEF Popup
<1>2. QED
  BY <1>1, RowFrame DEF Grouped

\* The frame of each popup; a confirm prompt starts with its reject button.
LEMMA PopupFrames ==
    /\ ConfirmOverlay.rows \in Frames(ConfirmIds) /\ Grouped(ConfirmOverlay)
    /\ first_body_widget(ConfirmOverlay) = "ConfirmReject"
    /\ NotificationOverlay.rows \in Frames({"NotificationDismiss"})
    /\ Grouped(NotificationOverlay)
    /\ \A mode : InputPrompt(mode).rows \in Frames(PromptIds(mode)) /\ Grouped(InputPrompt(mode))
    /\ NothingRegistered.rows \in Frames({}) /\ Grouped(NothingRegistered)
<1>1. /\ ConfirmOverlay.rows \in Frames(ConfirmIds) /\ Grouped(ConfirmOverlay)
      /\ ConfirmOverlay.rows = <<Row(<<"ConfirmReject", "ConfirmAccept">>)>>
  <2>1. <<"ConfirmReject", "ConfirmAccept">> \in Seq(ConfirmIds)
    BY DEF ConfirmIds
  <2>2. QED
    BY <2>1, PopupFrame DEF ConfirmOverlay
<1>2. first_body_widget(ConfirmOverlay) = "ConfirmReject"
  <2> DEFINE row == Row(<<"ConfirmReject", "ConfirmAccept">>)
  <2>1. RowNumbers(ConfirmOverlay) = {1} /\ ConfirmOverlay.rows[1] = row
    BY <1>1 DEF RowNumbers
  <2>2. /\ row[1].kind = "Button" /\ row[1].id = "ConfirmReject" /\ Len(row) = 2
    BY DEF Row, Widget, KindOf, Tabs, TabOf, Countries
  <2>3. ~Only(Chrome, row)
    BY <2>2 DEF Only, Chrome
  <2> HIDE DEF row
  <2>4. {r \in RowNumbers(ConfirmOverlay) : ~Only(Chrome, ConfirmOverlay.rows[r])} = {1}
    BY <2>1, <2>3
  <2>5. Lowest({1}) = 1
    BY LowestOf
  <2>6. QED
    BY <2>1, <2>2, <2>4, <2>5 DEF first_body_widget
<1>3. NotificationOverlay.rows \in Frames({"NotificationDismiss"}) /\ Grouped(NotificationOverlay)
  <2>1. <<"NotificationDismiss">> \in Seq({"NotificationDismiss"})
    OBVIOUS
  <2>2. QED
    BY <2>1, PopupFrame DEF NotificationOverlay
<1>4. ASSUME NEW mode PROVE InputPrompt(mode).rows \in Frames(PromptIds(mode)) /\ Grouped(InputPrompt(mode))
  <2> DEFINE S == PromptIds(mode)
  <2>1. CASE mode = "RelayOverrideInput"
    <3>1. /\ ModalFields \in Seq(S) /\ ModalButtons \in Seq(S)
          /\ Len(ModalFields) = 3 /\ Len(ModalButtons) = 2
      BY <2>1 DEF ModalFields, ModalButtons, PromptIds
    <3>2. PICK fields \in Seq(S), buttons \in Seq(S) :
            /\ fields = ModalFields /\ buttons = ModalButtons
            /\ Len(fields) = 3 /\ Len(buttons) = 2
      BY <3>1
    <3>3. PICK both : both = fields \o buttons
      OBVIOUS
    <3>4. both \in Seq(S) /\ Len(both) = Len(fields) + Len(buttons)
      <4> HIDE DEF S
      <4> QED
        BY <3>2, <3>3, ConcatProperties, Zenon
    <3>5. both # <<>>
      BY <3>2, <3>4
    <3>6. QED
      BY <2>1, <3>2, <3>3, <3>4, <3>5, PopupFrame DEF InputPrompt, MultiFieldInputPrompt
  <2>2. CASE mode # "RelayOverrideInput"
    <3>1. /\ <<"ModalField">> \in Seq(S) /\ ModalButtons \in Seq(S)
          /\ Len(<<"ModalField">>) = 1 /\ Len(ModalButtons) = 2
      BY <2>2 DEF ModalButtons, PromptIds
    <3>2. <<"ModalField">> \o ModalButtons \in Seq(S) /\ <<"ModalField">> \o ModalButtons # <<>>
      <4> DEFINE field == <<"ModalField">>
      <4> HIDE DEF S, field
      <4>1. field \in Seq(S) /\ ModalButtons \in Seq(S) /\ Len(field) = 1 /\ Len(ModalButtons) = 2
        BY <3>1 DEF field
      <4>2. PICK both : both = field \o ModalButtons
        OBVIOUS
      <4>3. both \in Seq(S) /\ Len(both) = Len(field) + Len(ModalButtons)
        BY <4>1, <4>2, ConcatProperties, Zenon
      <4>4. both # <<>>
        BY <4>1, <4>3
      <4>5. QED
        BY <4>2, <4>3, <4>4 DEF field
    <3>3. QED
      BY <2>2, <3>2, PopupFrame DEF InputPrompt
  <2>3. QED
    BY <2>1, <2>2
<1>5. NothingRegistered.rows \in Frames({}) /\ Grouped(NothingRegistered)
  BY DEF NothingRegistered, Frames, Grouped
<1>6. QED
  BY <1>1, <1>2, <1>3, <1>4, <1>5

-----------------------------------------------------------------------------
(* Pages, and the widgets that lead from one to another.                   *)

\* The page one level up.
Above(page) ==
    IF parent_sub_page(page) = "None" THEN top_level_root(page) ELSE parent_sub_page(page)

\* The widgets that lead from one page to another, or change what one shows.
Leads == DOMAIN OpensPage \cup Countries \cup
    {"SwitchLocation", "FilterButton", "ManageDevices", "EntryTab", "ExitTab",
     "BlurbPrev", "BlurbNext"}

\* No page is both a top-level page and a sub-page.
LEMMA PagesApart ==
    /\ DOMAIN TabOf = {"Status", "Account", "Settings", "Logs"}
    /\ SubPages = {"SelectLocation", "SelectLocationFilter", "AccountDevices",
                   "SettingsDnsBlockers", "SettingsCustomDns", "SettingsAntiCensorship",
                   "SettingsRelayOverrides", "SettingsDaita", "SettingsMultihop",
                   "SettingsVpn", "SettingsSplitTunnel", "SettingsApiAccess"}
    /\ DOMAIN TabOf \cap SubPages = {}
    /\ PageId = DOMAIN TabOf \cup SubPages
BY DEF TabOf, SubPages, StatusPages, SettingsPages, VpnPages, PageId

\* The overlays' buttons, one by one.
LEMMA OverlayNames ==
    OverlayIds = {"ConfirmReject", "ConfirmAccept", "NotificationDismiss", "ModalCancel",
                  "ModalSubmit", "BreadcrumbBack", "ModalField", "WindowClose",
                  "HostnameField", "Ipv4Field", "Ipv6Field"}
<1>1. DOMAIN OverlayWidget = 1 .. 8 /\ DOMAIN ModalFields = 1 .. 3
  BY DEF OverlayWidget, ModalFields
<1>2. \A i \in 1 .. 8 : i \in {1, 2, 3, 4, 5, 6, 7, 8}
  OBVIOUS
<1>3. \A i \in 1 .. 3 : i \in {1, 2, 3}
  OBVIOUS
<1>4. {OverlayWidget[i] : i \in DOMAIN OverlayWidget}
        = {"ConfirmReject", "ConfirmAccept", "NotificationDismiss", "ModalCancel",
           "ModalSubmit", "BreadcrumbBack", "ModalField", "WindowClose"}
  BY <1>1, <1>2 DEF OverlayWidget
<1>5. {ModalFields[i] : i \in DOMAIN ModalFields}
        = {"HostnameField", "Ipv4Field", "Ipv6Field"}
  BY <1>1, <1>3 DEF ModalFields
<1>6. QED
  BY <1>4, <1>5 DEF OverlayIds

\* A row's button is none of the widgets that lead to another page.
LEMMA NamesApart ==
    ASSUME NEW base \in RowBases
    PROVE  /\ Buttons(base) \cap Leads = {}
           /\ \A w \in RowNames(base) : w \notin FixedIds /\ w # NoWidget
<1>1. \A w \in RowNames(base) : w \notin FixedIds /\ w # NoWidget
  BY RowNamesAssumption
<1>2. Leads \subseteq FixedIds
  BY DEF Leads, FixedIds, OpensPage
<1>3. OverlayIds \cap Leads = {}
  BY OverlayNames DEF Leads, OpensPage, Countries
<1>4. QED
  BY <1>1, <1>2, <1>3 DEF Buttons

\* While the lists are short, no page's body holds an overlay's button.
LEMMA BodiesApart ==
    ASSUME Apart, NEW page \in PageId
    PROVE  BodyIds(page) \cap OverlayIds = {}
<1>1. \A base \in RowBases : Buttons(base) \cap OverlayIds = {}
  <2>1. \A base \in RowBases : RowNames(base) \cap OverlayIds = {}
    BY NamesApart DEF FixedIds
  <2>2. QED
    BY <2>1 DEF Buttons
<1>2. /\ Buttons("RemoveDevice") \cap OverlayIds = {} /\ Buttons("EditAddress") \cap OverlayIds = {}
      /\ Buttons("RemoveAddress") \cap OverlayIds = {} /\ Buttons("MethodToggle") \cap OverlayIds = {}
      /\ Buttons("MethodUse") \cap OverlayIds = {} /\ Buttons("RemoveApp") \cap OverlayIds = {}
      /\ Buttons("RemovePid") \cap OverlayIds = {} /\ Buttons("RemoveOverride") \cap OverlayIds = {}
  BY <1>1 DEF RowBases
<1>3. CASE page \in {"AccountDevices", "SettingsCustomDns", "SettingsApiAccess",
                     "SettingsSplitTunnel", "SettingsRelayOverrides"}
  <2>1. {"RotateKey", "CustomDnsToggle", "AddAddress", "SplitTunnelToggle", "AddApp", "AddPid",
         "AddOverride", "ClearOverrides"} \cap OverlayIds = {}
    BY OverlayNames
  <2>2. QED
    BY <1>2, <1>3, <2>1 DEF BodyIds
<1>4. CASE page \notin {"AccountDevices", "SettingsCustomDns", "SettingsApiAccess",
                        "SettingsSplitTunnel", "SettingsRelayOverrides"}
  BY <1>4, OverlayNames, PagesApart DEF BodyIds, Countries
<1>5. QED
  BY <1>3, <1>4

\* A widget that leads to a page is on the page above it, and nowhere else.
LEMMA WhereWidgetsAre ==
    ASSUME NEW page \in PageId, NEW w \in PageIds(page)
    PROVE  /\ w \in DOMAIN OpensPage => Above(OpensPage[w]) = page /\ OpensPage[w] \in SubPages
           /\ w = "SwitchLocation" => page = "Status"
           /\ w \in {"FilterButton", "EntryTab", "ExitTab"} \cup Countries => page = "SelectLocation"
           /\ w = "ManageDevices" => page = "Account"
           /\ w \in {"BlurbPrev", "BlurbNext"} => page = "SettingsDaita"
<1>1. ASSUME w \in Leads PROVE w \in BodyIds(page)
  BY <1>1 DEF PageIds, ChromeIds, Leads, OpensPage, Countries, Tabs, TabOf
<1>2. /\ RowBases = {"RemoveDevice", "EditAddress", "RemoveAddress", "MethodToggle", "MethodUse",
                     "RemoveApp", "RemovePid", "RemoveOverride"}
      /\ w \in Leads => \A base \in RowBases : w \notin Buttons(base)
  BY NamesApart DEF RowBases
<1>3. SUFFICES ASSUME w \in Leads
               PROVE  /\ w \in DOMAIN OpensPage => Above(OpensPage[w]) = page /\ OpensPage[w] \in SubPages
                      /\ w = "SwitchLocation" => page = "Status"
                      /\ w \in {"FilterButton", "EntryTab", "ExitTab"} \cup Countries
                           => page = "SelectLocation"
                      /\ w = "ManageDevices" => page = "Account"
                      /\ w \in {"BlurbPrev", "BlurbNext"} => page = "SettingsDaita"
  BY DEF Leads
<1>4. CASE page = "Settings"
  BY <1>1, <1>3, <1>4
     DEF BodyIds, OpensPage, Countries, Above, parent_sub_page, top_level_root, SubPages,
         StatusPages, SettingsPages, VpnPages
<1>5. CASE page = "SettingsVpn"
  BY <1>1, <1>3, <1>5
     DEF BodyIds, OpensPage, Countries, Above, parent_sub_page, SubPages, SettingsPages, VpnPages
<1>6. CASE page \notin {"Settings", "SettingsVpn"}
  <2>1. /\ w \notin DOMAIN OpensPage
        /\ w = "SwitchLocation" => page = "Status"
        /\ w \in {"FilterButton", "EntryTab", "ExitTab"} \cup Countries => page = "SelectLocation"
        /\ w = "ManageDevices" => page = "Account"
        /\ w \in {"BlurbPrev", "BlurbNext"} => page = "SettingsDaita"
    BY <1>1, <1>2, <1>3, <1>6, PagesApart DEF BodyIds, OpensPage, Countries, Leads
  <2>2. QED
    BY <2>1
<1>7. QED
  BY <1>4, <1>5, <1>6

-----------------------------------------------------------------------------
(* The frame on the screen.                                                *)

\* What it can hold.
Shown ==
    IF small THEN {}
    ELSE IF overlay.kind = "Confirm" THEN ConfirmIds
    ELSE IF overlay.kind = "Notification" THEN {"NotificationDismiss"}
    ELSE IF is_open(input) THEN PromptIds(input.mode)
    ELSE PageIds(current_page)

\* The page that is shown is the top of the stack.
LEMMA CurrentPage ==
    ASSUME RunLoopTypeOK
    PROVE  /\ current_page \in PageId
           /\ stack # <<>> => Len(stack) \in Nat \ {0} /\ current_page = stack[Len(stack)].page
                              /\ current_page \in SubPages
           /\ stack = <<>> => current_page = topPage
<1>1. CASE stack = <<>>
  BY <1>1 DEF RunLoopTypeOK, current_page, PageId
<1>2. CASE stack # <<>>
  <2>1. stack \in Seq([page : SubPages, return_focus : Focus])
    BY DEF RunLoopTypeOK
  <2>2. Len(stack) \in Nat \ {0} /\ stack[Len(stack)] \in [page : SubPages, return_focus : Focus]
    <3>1. PICK S : S = [page : SubPages, return_focus : Focus]
      OBVIOUS
    <3>2. Len(stack) \in Nat \ {0} /\ stack[Len(stack)] \in S
      <4>1. stack \in Seq(S)
        BY <2>1, <3>1
      <4>2. QED
        BY <1>2, <4>1, EmptySeq
    <3>3. QED
      BY <3>1, <3>2
  <2>3. QED
    BY <1>2, <2>2 DEF current_page, PageId
<1>3. QED
  BY <1>1, <1>2

\* The registry of the last frame holds what is shown, and no more.
LEMMA FrameShown ==
    ASSUME RunLoopTypeOK
    PROVE  /\ last_focus_registry.rows \in Frames(Shown)
           /\ Grouped(last_focus_registry)
           /\ Ids(last_focus_registry) \subseteq Shown
           /\ Lands(last_focus_registry) \subseteq Focus
<1>1. overlay.kind \in {"None", "Confirm", "Notification"} /\ small \in BOOLEAN
  BY DEF RunLoopTypeOK, Overlay
<1>2. /\ current_page \in PageId /\ view \in Views(current_page)
      /\ PageRegistry[current_page][view].rows \in Frames(PageIds(current_page))
      /\ Grouped(PageRegistry[current_page][view])
      /\ Ids(PageRegistry[current_page][view]) \subseteq WidgetId
  <2>1. current_page \in PageId /\ view \in Views(current_page)
    BY CurrentPage DEF RunLoopTypeOK
  <2>2. QED
    BY <2>1, PageFrame
<1>3. last_focus_registry.rows \in Frames(Shown) /\ Grouped(last_focus_registry)
  BY <1>1, <1>2, PopupFrames, Zenon DEF last_focus_registry, Shown
<1>4. Ids(last_focus_registry) \subseteq Shown
  BY <1>3, IdsOfFrame
<1>5. ConfirmIds \cup {"NotificationDismiss"} \cup PromptIds(input.mode) \subseteq WidgetId
  <2>1. /\ {OverlayWidget[i] : i \in 1 .. 8} \subseteq WidgetId
        /\ {ModalFields[i] : i \in 1 .. 3} \subseteq WidgetId
    BY DEF WidgetId, OverlayIds, OverlayWidget, ModalFields
  <2>2. /\ OverlayWidget[1] \in WidgetId /\ OverlayWidget[2] \in WidgetId
        /\ OverlayWidget[3] \in WidgetId /\ OverlayWidget[4] \in WidgetId
        /\ OverlayWidget[5] \in WidgetId /\ OverlayWidget[7] \in WidgetId
        /\ ModalFields[1] \in WidgetId /\ ModalFields[2] \in WidgetId
        /\ ModalFields[3] \in WidgetId
    BY <2>1
  <2>3. QED
    BY <2>2 DEF OverlayWidget, ModalFields, ConfirmIds, PromptIds
<1>6. Ids(last_focus_registry) \subseteq WidgetId
  <2>1. CASE ~small /\ overlay.kind = "None" /\ ~is_open(input)
    BY <1>2, <2>1 DEF last_focus_registry
  <2>2. CASE small \/ overlay.kind # "None" \/ is_open(input)
    BY <1>1, <1>4, <1>5, <2>2 DEF Shown
  <2>3. QED
    BY <2>1, <2>2
<1>7. QED
  BY <1>3, <1>4, <1>6 DEF Lands, Focus

-----------------------------------------------------------------------------
(* Where an event leads.                                                   *)

\* What an event does to the page: it stays, goes one level down from widget w,
\* one level up, or jumps to a tab.
Stays == UNCHANGED navVars /\ view' \in Views(current_page)

Descends(w) ==
    \E page \in SubPages :
       /\ Above(page) = current_page
       /\ stack' = Append(stack, [page |-> page, return_focus |-> w])
       /\ view' \in Views(page)
       /\ UNCHANGED topPage

Ascends ==
    /\ stack # <<>>
    /\ stack' = SubSeq(stack, 1, Len(stack) - 1)
    /\ view' \in Views(IF Len(stack) = 1 THEN topPage ELSE stack[Len(stack) - 1].page)
    /\ UNCHANGED topPage

Jumps ==
    \E page \in DOMAIN TabOf : topPage' = page /\ stack' = <<>> /\ view' \in Views(page)

PageStep(w) == Stays \/ Descends(w) \/ Ascends \/ Jumps

\* The pages of a stack.
Trail(s) == [i \in DOMAIN s |-> s[i].page]

\* The segments of a page are those of the page above, and the page.
LEMMA Segments ==
    /\ \A page \in DOMAIN TabOf : breadcrumb_segments(page) = <<>> /\ top_level_root(page) = page
    /\ \A page \in SubPages :
          /\ Above(page) \in PageId
          /\ top_level_root(page) = top_level_root(Above(page))
          /\ breadcrumb_segments(page) = Append(breadcrumb_segments(Above(page)), page)
    /\ \A page \in PageId :
          breadcrumb_segments(page) \in Seq(SubPages) /\ top_level_root(page) \in DOMAIN TabOf
<1>1. ASSUME NEW page \in DOMAIN TabOf
      PROVE  /\ breadcrumb_segments(page) = <<>> /\ top_level_root(page) = page
             /\ breadcrumb_segments(page) \in Seq(SubPages)
  BY PagesApart DEF breadcrumb_segments, top_level_root, StatusPages, SettingsPages, VpnPages
<1>2. ASSUME NEW page \in SubPages
      PROVE  /\ Above(page) \in PageId
             /\ top_level_root(page) = top_level_root(Above(page))
             /\ top_level_root(page) \in DOMAIN TabOf
  BY PagesApart DEF Above, parent_sub_page, top_level_root, StatusPages, SettingsPages, VpnPages
<1>3. ASSUME NEW page \in SubPages
      PROVE  /\ breadcrumb_segments(page) = Append(breadcrumb_segments(Above(page)), page)
             /\ breadcrumb_segments(page) \in Seq(SubPages)
  <2>1. CASE parent_sub_page(page) = "None"
    <3>1. breadcrumb_segments(page) = <<page>>
      BY <2>1 DEF breadcrumb_segments
    <3>2. Above(page) \in DOMAIN TabOf
      BY <1>2, <2>1 DEF Above
    <3>3. QED
      BY <1>1, <3>1, <3>2
  <2>2. CASE parent_sub_page(page) # "None"
    <3>1. /\ breadcrumb_segments(page) = <<parent_sub_page(page), page>>
          /\ parent_sub_page(page) \in SubPages /\ parent_sub_page(parent_sub_page(page)) = "None"
      BY <2>2, PagesApart DEF breadcrumb_segments, parent_sub_page, VpnPages
    <3>2. breadcrumb_segments(Above(page)) = <<parent_sub_page(page)>>
      BY <2>2, <3>1 DEF Above, breadcrumb_segments
    <3>3. QED
      BY <3>1, <3>2
  <2>3. QED
    BY <2>1, <2>2
<1>4. \A page \in PageId :
        breadcrumb_segments(page) \in Seq(SubPages) /\ top_level_root(page) \in DOMAIN TabOf
  <2> TAKE page \in PageId
  <2>1. CASE page \in DOMAIN TabOf
    BY <1>1, <2>1
  <2>2. CASE page \in SubPages
    BY <1>2, <1>3, <2>2
  <2>3. QED
    BY <2>1, <2>2, PagesApart
<1>5. QED
  BY <1>1, <1>2, <1>3, <1>4

\* Going down, up or to another tab keeps stack and breadcrumb together.
LEMMA PageStepKeeps ==
    ASSUME RunLoopTypeOK, BreadcrumbTellsTheWayBack, NEW w \in Focus, PageStep(w)
    PROVE  /\ topPage' \in DOMAIN TabOf
           /\ stack' \in Seq([page : SubPages, return_focus : Focus])
           /\ view' \in Views(current_page)'
           /\ BreadcrumbTellsTheWayBack'
<1> DEFINE Level == [page : SubPages, return_focus : Focus]
<1>1. /\ topPage \in DOMAIN TabOf /\ stack \in Seq(Level) /\ view \in Views(current_page)
      /\ current_page \in PageId
  BY CurrentPage DEF RunLoopTypeOK
<1>2. Trail(stack) = breadcrumb_segments(current_page) /\ topPage = top_level_root(current_page)
  BY DEF BreadcrumbTellsTheWayBack, Trail
<1>3. SUFFICES /\ topPage' \in DOMAIN TabOf /\ stack' \in Seq(Level)
               /\ view' \in Views(current_page')
               /\ Trail(stack') = breadcrumb_segments(current_page')
               /\ topPage' = top_level_root(current_page')
  BY DEF BreadcrumbTellsTheWayBack, Trail
<1>4. CASE Stays
  BY <1>1, <1>2, <1>4 DEF Stays, navVars, current_page
<1>5. CASE Descends(w)
  <2>1. PICK page \in SubPages :
          /\ Above(page) = current_page
          /\ stack' = Append(stack, [page |-> page, return_focus |-> w])
          /\ view' \in Views(page)
          /\ UNCHANGED topPage
    BY <1>5 DEF Descends
  <2>2. PICK level \in Level : level = [page |-> page, return_focus |-> w]
    OBVIOUS
  <2> HIDE DEF Level
  <2>3. /\ stack' \in Seq(Level) /\ Len(stack') = Len(stack) + 1 /\ Len(stack) \in Nat
        /\ stack'[Len(stack) + 1] = level
        /\ \A i \in 1 .. Len(stack) : stack'[i] = stack[i]
    BY <1>1, <2>1, <2>2, AppendProperties
  <2>4. current_page' = page
    <3>1. stack' # <<>>
      BY <2>3, EmptySeq
    <3>2. QED
      BY <2>2, <2>3, <3>1 DEF current_page
  <2>5. Trail(stack') = Append(Trail(stack), page)
    <3>1. DOMAIN stack = 1 .. Len(stack) /\ DOMAIN stack' = 1 .. Len(stack) + 1
      BY <1>1, <2>3
    <3>2. Trail(stack) \in Seq(SubPages) /\ Len(Trail(stack)) = Len(stack)
      <4>1. \A i \in 1 .. Len(stack) : stack[i].page \in SubPages
        <5>1. \A i \in 1 .. Len(stack) : stack[i] \in Level
          BY <1>1, <2>3
        <5>2. QED
          BY <5>1 DEF Level
      <4>2. QED
        BY <2>3, <3>1, <4>1, IsASeq DEF Trail
    <3>3. Trail(stack') \in Seq(SubPages) /\ Len(Trail(stack')) = Len(stack) + 1
      <4>1. \A i \in 1 .. Len(stack) + 1 : stack'[i].page \in SubPages
        <5>1. \A i \in 1 .. Len(stack) + 1 : stack'[i] \in Level
          BY <2>3
        <5>2. QED
          BY <5>1 DEF Level
      <4>2. QED
        BY <2>3, <3>1, <4>1, IsASeq DEF Trail
    <3>4. /\ Append(Trail(stack), page) \in Seq(SubPages)
          /\ Len(Append(Trail(stack), page)) = Len(stack) + 1
          /\ Append(Trail(stack), page)[Len(stack) + 1] = page
          /\ \A i \in 1 .. Len(stack) : Append(Trail(stack), page)[i] = Trail(stack)[i]
      BY <3>2, AppendProperties
    <3>5. \A i \in 1 .. Len(stack) + 1 : Trail(stack')[i] = Append(Trail(stack), page)[i]
      <4>1. ASSUME NEW i \in 1 .. Len(stack)
            PROVE  Trail(stack')[i] = Append(Trail(stack), page)[i]
        BY <2>3, <3>1, <3>4 DEF Trail
      <4>2. Trail(stack')[Len(stack) + 1] = page
        BY <2>2, <2>3, <3>1 DEF Trail
      <4>3. QED
        BY <2>3, <3>4, <4>1, <4>2
    <3>6. QED
      BY <3>3, <3>4, <3>5, SeqEqual
  <2>6. QED
    BY <1>1, <1>2, <2>1, <2>3, <2>4, <2>5, Segments
<1>6. CASE Ascends
  <2>1. /\ stack # <<>> /\ stack' = SubSeq(stack, 1, Len(stack) - 1) /\ topPage' = topPage
        /\ view' \in Views(IF Len(stack) = 1 THEN topPage ELSE stack[Len(stack) - 1].page)
    BY <1>6 DEF Ascends
  <2>2. Len(stack) \in Nat \ {0} /\ current_page = stack[Len(stack)].page /\ current_page \in SubPages
    BY <2>1, CurrentPage
  <2> HIDE DEF Level
  <2>3. /\ stack' \in Seq(Level) /\ Len(stack') = Len(stack) - 1
        /\ \A i \in 1 .. Len(stack) - 1 : stack'[i] = stack[i]
    <3>1. PICK n \in Nat : n = Len(stack) - 1
      BY <2>2
    <3>2. 1 \in Int /\ n \in Int /\ \A i \in 1 .. n : stack[i] \in Level
      BY <1>1, <2>2, <3>1
    <3>3. /\ SubSeq(stack, 1, n) \in Seq(Level)
          /\ Len(SubSeq(stack, 1, n)) = IF 1 <= n THEN n - 1 + 1 ELSE 0
          /\ \A i \in 1 .. n - 1 + 1 : SubSeq(stack, 1, n)[i] = stack[1 + i - 1]
      BY <3>2, SubSeqProperties
    <3>4. QED
      BY <2>1, <2>2, <3>1, <3>3
  <2>4. current_page' = IF Len(stack) = 1 THEN topPage ELSE stack[Len(stack) - 1].page
    <3>1. stack' = <<>> <=> Len(stack) = 1
      BY <2>2, <2>3, EmptySeq
    <3>2. Len(stack) # 1 => stack'[Len(stack')] = stack[Len(stack) - 1]
      BY <2>2, <2>3
    <3>3. QED
      BY <2>1, <3>1, <3>2 DEF current_page
  <2>5. PICK above \in Seq(SubPages) :
          above = breadcrumb_segments(Above(current_page)) /\ Trail(stack) = Append(above, current_page)
    BY <1>2, <2>2, Segments
  <2>6. DOMAIN stack = 1 .. Len(stack) /\ DOMAIN stack' = 1 .. Len(stack) - 1
    BY <1>1, <2>2, <2>3
  <2>7. /\ Len(above) = Len(stack) - 1
        /\ \A i \in 1 .. Len(above) : above[i] = stack[i].page
    <3>1. /\ Len(Append(above, current_page)) = Len(above) + 1 /\ Len(above) \in Nat
          /\ \A i \in 1 .. Len(above) : Append(above, current_page)[i] = above[i]
      BY <2>2, AppendProperties
    <3>2. Len(Trail(stack)) = Len(stack)
      BY <2>2, <2>6 DEF Trail
    <3>3. Len(above) = Len(stack) - 1
      BY <2>2, <2>5, <3>1, <3>2
    <3>4. \A i \in 1 .. Len(above) : i \in DOMAIN stack
      BY <2>2, <2>6, <3>3
    <3>5. QED
      BY <2>5, <3>1, <3>3, <3>4 DEF Trail
  <2>8. Trail(stack') = above
    <3>1. Trail(stack') \in Seq(SubPages) /\ Len(Trail(stack')) = Len(above)
      <4>1. \A i \in 1 .. Len(stack) - 1 : stack'[i].page \in SubPages
        <5>1. \A i \in 1 .. Len(stack) - 1 : stack'[i] \in Level
          BY <2>2, <2>3
        <5>2. QED
          BY <5>1 DEF Level
      <4>2. Len(stack) - 1 \in Nat
        BY <2>2
      <4>3. QED
        BY <2>6, <2>7, <4>1, <4>2, IsASeq DEF Trail
    <3>2. \A i \in 1 .. Len(above) : Trail(stack')[i] = above[i]
      BY <2>3, <2>6, <2>7 DEF Trail
    <3>3. QED
      BY <3>1, <3>2, SeqEqual
  <2>9. current_page' = Above(current_page)
    <3>1. Above(current_page) \in PageId /\ topPage = top_level_root(Above(current_page))
      BY <1>2, <2>2, Segments
    <3>2. CASE Above(current_page) \in DOMAIN TabOf
      <4>1. above = <<>>
        BY <2>5, <3>2, Segments
      <4>2. Len(stack) = 1
        BY <2>2, <2>7, <4>1
      <4>3. QED
        BY <2>4, <3>1, <3>2, <4>2, Segments
    <3>3. CASE Above(current_page) \in SubPages
      <4>1. PICK upper \in Seq(SubPages) : above = Append(upper, Above(current_page))
        BY <2>5, <3>1, <3>3, Segments
      <4>2. Len(above) = Len(upper) + 1 /\ Len(upper) \in Nat /\ above[Len(above)] = Above(current_page)
        BY <3>3, <4>1, AppendProperties
      <4>3. Len(stack) # 1 /\ stack[Len(stack) - 1].page = Above(current_page)
        BY <2>2, <2>7, <4>2
      <4>4. QED
        BY <2>4, <4>3
    <3>4. QED
      BY <3>1, <3>2, <3>3, PagesApart
  <2>10. QED
    BY <1>1, <1>2, <2>1, <2>2, <2>3, <2>4, <2>5, <2>8, <2>9, Segments
<1>7. CASE Jumps
  <2>1. PICK page \in DOMAIN TabOf : topPage' = page /\ stack' = <<>> /\ view' \in Views(page)
    BY <1>7 DEF Jumps
  <2>2. current_page' = page
    BY <2>1 DEF current_page
  <2>3. Trail(stack') = <<>>
    BY <2>1 DEF Trail
  <2>4. QED
    BY <2>1, <2>2, <2>3, Segments
<1>8. QED
  BY <1>4, <1>5, <1>6, <1>7 DEF PageStep

-----------------------------------------------------------------------------
(* What an event does to the popups, w being the widget it is about.       *)

\* Nothing; a confirm prompt or an input prompt opens over the page; the overlay
\* goes; the input prompt goes; the input prompt changes.
Same == UNCHANGED <<overlay, input>>

Asks(w) ==
    /\ ~PopupOpen /\ w # "ConfirmAccept" /\ focused' = w
    /\ \E action \in ConfirmAction : overlay' = Confirm(action, w)
    /\ UNCHANGED input

Prompts(w) ==
    /\ ~PopupOpen /\ focused' = w
    /\ \E mode \in InputModes, valid \in BOOLEAN : input' = OpenInput(mode, valid)
    /\ UNCHANGED overlay

Dismisses(w) == close_overlay_restoring_focus(w) /\ UNCHANGED input

Closes(w) == overlay.kind = "None" /\ CloseInput(w)

Edits ==
    /\ InputHasKeys
    /\ input' \in InputMode
    /\ input'.mode = input.mode /\ input'.focus \in PromptFoci(input.mode)
    /\ UNCHANGED overlay

PopupStep(w) == Same \/ Asks(w) \/ Prompts(w) \/ Dismisses(w) \/ Closes(w) \/ Edits

\* The part of an event before commit_pending_mtu and the lifecycle.
HandlerStep(w) ==
    /\ PageStep(w) /\ PopupStep(w)
    /\ focused' \in Focus /\ quit' \in BOOLEAN /\ UNCHANGED query
    /\ PopupOpen => UNCHANGED navVars

\* The parts of the type invariant about focus and popups.
LEMMA FocusTypes ==
    ASSUME RunLoopTypeOK
    PROVE  /\ overlay \in Overlay /\ overlay.return_focus \in Focus
           /\ overlay.kind \in {"None", "Confirm", "Notification"}
           /\ input \in InputMode /\ focused \in Focus /\ inputReturn \in Focus
           /\ quit \in BOOLEAN /\ view \in Views(current_page)
           /\ stack # <<>> => stack[Len(stack)].return_focus \in Focus
<1>1. stack # <<>> => stack[Len(stack)] \in [page : SubPages, return_focus : Focus]
  <2>1. stack \in Seq([page : SubPages, return_focus : Focus])
    BY DEF RunLoopTypeOK
  <2>2. PICK S : S = [page : SubPages, return_focus : Focus]
    OBVIOUS
  <2>3. stack \in Seq(S)
    BY <2>1, <2>2
  <2>4. stack # <<>> => stack[Len(stack)] \in S
    BY <2>3, EmptySeq
  <2>5. QED
    BY <2>2, <2>4
<1>2. overlay \in Overlay /\ input \in InputMode /\ focused \in Focus /\ inputReturn \in Focus
      /\ quit \in BOOLEAN /\ view \in Views(current_page)
  BY DEF RunLoopTypeOK
<1>3. QED
  BY <1>1, <1>2 DEF Overlay

\* Which widgets a frame holds, with a popup and without.
LEMMA WidgetsInReach ==
    ASSUME RunLoopTypeOK, NEW w \in Ids(last_focus_registry)
    PROVE  /\ w \in Focus /\ ~small
           /\ overlay.kind # "None" => w \in ConfirmIds \cup {"NotificationDismiss"}
           /\ overlay.kind = "None" /\ is_open(input) => w \in PromptIds(input.mode)
           /\ ~PopupOpen => w \in PageIds(current_page)
           /\ w \notin OverlayIds \/ w = "BreadcrumbBack" \/ w = "WindowClose" => ~PopupOpen
<1>1. w \in Shown /\ w \in Focus
  BY FrameShown DEF Lands
<1>2. /\ ~small
      /\ overlay.kind # "None" => w \in ConfirmIds \cup {"NotificationDismiss"}
      /\ overlay.kind = "None" /\ is_open(input) => w \in PromptIds(input.mode)
      /\ ~PopupOpen => w \in PageIds(current_page)
  BY <1>1, FocusTypes DEF Shown, PopupOpen
<1>3. /\ \A i \in 1 .. 8 : OverlayWidget[i] \in OverlayIds
      /\ \A i \in 1 .. 3 : ModalFields[i] \in OverlayIds
  BY DEF OverlayIds, OverlayWidget, ModalFields
<1>4. /\ OverlayWidget[1] \in OverlayIds /\ OverlayWidget[2] \in OverlayIds
      /\ OverlayWidget[3] \in OverlayIds /\ OverlayWidget[4] \in OverlayIds
      /\ OverlayWidget[5] \in OverlayIds /\ OverlayWidget[7] \in OverlayIds
      /\ ModalFields[1] \in OverlayIds /\ ModalFields[2] \in OverlayIds
      /\ ModalFields[3] \in OverlayIds
  BY <1>3
<1>5. ConfirmIds \cup {"NotificationDismiss"} \cup PromptIds(input.mode)
        \subseteq OverlayIds \ {"BreadcrumbBack", "WindowClose"}
  BY <1>4 DEF ConfirmIds, PromptIds, OverlayWidget, ModalFields
<1>6. QED
  BY <1>1, <1>2, <1>5 DEF PopupOpen

\* On a sub-page the stack is not empty: [<] and Esc have a way back.
LEMMA BreadcrumbButton ==
    ASSUME RunLoopTypeOK, BreadcrumbTellsTheWayBack, current_page \in SubPages
    PROVE  stack # <<>>
BY CurrentPage, PagesApart DEF RunLoopTypeOK

\* [<] is on sub-pages only.
LEMMA BackOnSubPages ==
    ASSUME NEW page \in PageId, "BreadcrumbBack" \in PageIds(page)
    PROVE  page \in SubPages
<1>1. SUFFICES ASSUME page \in DOMAIN TabOf PROVE FALSE
  BY DEF PageId
<1>2. "BreadcrumbBack" \notin ChromeIds(page)
  BY <1>1, PagesApart DEF ChromeIds, Tabs, TabOf
<1>3. "BreadcrumbBack" \notin BodyIds(page)
  BY <1>1, PagesApart DEF BodyIds
<1>4. QED
  BY <1>2, <1>3 DEF PageIds

-----------------------------------------------------------------------------
\* The pieces that activate_focused is made of.
LEMMA Quiet ==
    ASSUME RunLoopTypeOK, NEW w \in Focus, NEW n,
           Remain(w) \/ CallAndRefetch(w, n) \/ Quit(w, n)
    PROVE  HandlerStep(w)
<1>1. PageStep(w) /\ UNCHANGED navVars /\ UNCHANGED query
  BY FocusTypes DEF Remain, CallAndRefetch, Quit, StayOnPage, RefreshPage, PageStep, Stays, navVars
<1>2. PopupStep(w) /\ focused' = w
  BY DEF Remain, CallAndRefetch, Quit, NoPopupMoves, PopupStep, Same
<1>3. quit' \in BOOLEAN
  BY FocusTypes DEF Remain, CallAndRefetch, Quit, NoPopupMoves
<1>4. QED
  BY <1>1, <1>2, <1>3 DEF HandlerStep

\* Entering a sub-page.
LEMMA Entering ==
    ASSUME RunLoopTypeOK, NEW w \in Focus, NEW page \in SubPages, Above(page) = current_page,
           ~PopupOpen, focused' = w, enter_sub_page(page), NoPopupMoves
    PROVE  HandlerStep(w)
<1>1. PageStep(w) /\ UNCHANGED query
  BY DEF enter_sub_page, PageStep, Descends
<1>2. PopupStep(w) /\ quit' \in BOOLEAN
  BY FocusTypes DEF NoPopupMoves, PopupStep, Same
<1>3. QED
  BY <1>1, <1>2 DEF HandlerStep

\* Opening a prompt.
LEMMA Opening ==
    ASSUME RunLoopTypeOK, NEW w \in Focus, ~PopupOpen, NEW n,
           \/ \E mode \in InputModes, valid \in BOOLEAN : Prompt(mode, valid, w, n)
           \/ w # "ConfirmAccept" /\ \E action \in ConfirmAction : Ask(action, w, n)
    PROVE  HandlerStep(w)
<1>1. PageStep(w) /\ UNCHANGED navVars /\ UNCHANGED query
  BY FocusTypes DEF Prompt, Ask, StayOnPage, PageStep, Stays, navVars
<1>2. PopupStep(w) /\ focused' = w /\ quit' \in BOOLEAN
  BY FocusTypes DEF Prompt, Ask, PopupStep, Prompts, Asks
<1>3. QED
  BY <1>1, <1>2 DEF HandlerStep

\* Leaving a sub-page.
LEMMA Leaving ==
    ASSUME RunLoopTypeOK, stack # <<>>, NEW w \in Focus, ~PopupOpen, leave_sub_page(w), NoPopupMoves
    PROVE  HandlerStep(w)
<1>1. PageStep(w) /\ UNCHANGED query
  BY DEF leave_sub_page, PageStep, Ascends
<1>2. focused' \in Focus
  BY FocusTypes DEF leave_sub_page
<1>3. PopupStep(w) /\ quit' \in BOOLEAN
  BY FocusTypes DEF NoPopupMoves, PopupStep, Same
<1>4. QED
  BY <1>1, <1>2, <1>3 DEF HandlerStep

\* Submitting a prompt.
LEMMA Submitting ==
    ASSUME RunLoopTypeOK, NEW w \in Focus, NEW n, InputHasKeys, UNCHANGED quit, SubmitInput(w, n)
    PROVE  HandlerStep(w)
<1>1. PageStep(w) /\ UNCHANGED navVars /\ UNCHANGED query
  BY FocusTypes DEF SubmitInput, StayOnPage, RefreshPage, PageStep, Stays, navVars
<1>2. PopupStep(w) /\ focused' \in Focus
  BY FocusTypes DEF SubmitInput, InputHasKeys, CloseInput, PopupStep, Same, Closes
<1>3. quit' \in BOOLEAN
  BY FocusTypes
<1>4. QED
  BY <1>1, <1>2, <1>3 DEF HandlerStep

\* The fields of the state of an input prompt.
LEMMA InputFields ==
    ASSUME RunLoopTypeOK
    PROVE  /\ input.mode \in InputModes \cup {"Default"} /\ input.valid \in BOOLEAN
           /\ is_open(input) =>
                \A f \in Fields \cup {"Cancel", "Submit"}, v \in BOOLEAN :
                   /\ [input EXCEPT !.focus = f] \in InputMode
                   /\ [input EXCEPT !.focus = f].mode = input.mode
                   /\ [input EXCEPT !.focus = f].focus = f
                   /\ [input EXCEPT !.valid = v] \in InputMode
                   /\ [input EXCEPT !.valid = v].mode = input.mode
                   /\ [input EXCEPT !.valid = v].focus = input.focus
<1>1. /\ input = DefaultInput
         \/ input \in [mode : InputModes, focus : Fields \cup {"Cancel", "Submit"}, valid : BOOLEAN]
  BY FocusTypes DEF InputMode
<1>2. CASE input = DefaultInput
  BY <1>2 DEF DefaultInput, is_open
<1>3. CASE input \in [mode : InputModes, focus : Fields \cup {"Cancel", "Submit"}, valid : BOOLEAN]
  <2> DEFINE Foci == Fields \cup {"Cancel", "Submit"}
  <2> HIDE DEF Foci
  <2>1. input \in [mode : InputModes, focus : Foci, valid : BOOLEAN]
    BY <1>3 DEF Foci
  <2>2. ASSUME NEW f \in Foci, NEW v \in BOOLEAN
        PROVE  /\ [input EXCEPT !.focus = f] \in [mode : InputModes, focus : Foci, valid : BOOLEAN]
               /\ [input EXCEPT !.focus = f].mode = input.mode
               /\ [input EXCEPT !.focus = f].focus = f
               /\ [input EXCEPT !.valid = v] \in [mode : InputModes, focus : Foci, valid : BOOLEAN]
               /\ [input EXCEPT !.valid = v].mode = input.mode
               /\ [input EXCEPT !.valid = v].focus = input.focus
    BY <2>1
  <2>3. input.mode \in InputModes /\ input.valid \in BOOLEAN
    BY <2>1
  <2>4. QED
    BY <2>2, <2>3, Zenon DEF InputMode, Foci
<1>4. QED
  BY <1>1, <1>2, <1>3

\* The first part of the cascade: the overlays' buttons and the chrome.
LEMMA OverlayHandled ==
    ASSUME RunLoopTypeOK, BreadcrumbTellsTheWayBack, NEW w \in Ids(last_focus_registry), NEW n,
           ActivateOverlay(w, n)
    PROVE  HandlerStep(w)
<1> USE WidgetsInReach, FocusTypes
<1>0. UNCHANGED <<topPage, stack, query, view>> => PageStep(w) /\ UNCHANGED navVars /\ UNCHANGED query
  BY DEF PageStep, Stays, navVars
<1>1. CASE /\ w \in {"ConfirmReject", "NotificationDismiss", "ConfirmAccept"}
           /\ close_overlay_restoring_focus(w)
           /\ UNCHANGED <<input, quit>> /\ StayOnPage
  <2>1. focused' \in Focus /\ quit' \in BOOLEAN
    BY <1>1 DEF close_overlay_restoring_focus
  <2>2. PopupStep(w)
    BY <1>1 DEF PopupStep, Dismisses
  <2>3. QED
    BY <1>0, <1>1, <2>1, <2>2 DEF HandlerStep, StayOnPage, navVars
<1>2. CASE w = "ModalCancel" /\ CloseInput(w) /\ UNCHANGED quit /\ StayOnPage
  <2>1. overlay.kind = "None"
    BY <1>2 DEF ConfirmIds
  <2>2. focused' \in Focus /\ quit' \in BOOLEAN /\ PopupStep(w)
    BY <1>2, <2>1 DEF CloseInput, PopupStep, Closes
  <2>3. QED
    BY <1>0, <1>2, <2>2 DEF HandlerStep, StayOnPage, navVars
<1>3. CASE /\ w = "ModalSubmit"
           /\ IF is_open(input) THEN SubmitInput(w, n) /\ UNCHANGED quit
              ELSE n = 0 /\ Remain(w)
  <2>1. overlay.kind = "None"
    BY <1>3 DEF ConfirmIds
  <2>2. CASE is_open(input)
    BY <1>3, <2>1, <2>2, Submitting DEF InputHasKeys
  <2>3. CASE ~is_open(input)
    BY <1>3, <2>3, Quiet
  <2>4. QED
    BY <2>2, <2>3
<1>4. CASE /\ w \in {"ModalField", "HostnameField", "Ipv4Field", "Ipv6Field"}
           /\ focused' = w
           /\ input' = IF is_open(input) THEN [input EXCEPT !.focus = FieldOf(w)] ELSE input
           /\ UNCHANGED <<overlay, quit>> /\ StayOnPage
  <2>1. CASE is_open(input)
    <3>1. overlay.kind = "None" /\ w \in PromptIds(input.mode)
      BY <1>4, <2>1 DEF ConfirmIds
    <3>2. FieldOf(w) \in PromptFoci(input.mode) /\ FieldOf(w) \in Fields
      BY <1>4, <3>1 DEF FieldOf, PromptFoci, PromptIds, Fields
    <3>3. Edits
      BY <1>4, <2>1, <3>1, <3>2, InputFields DEF Edits, InputHasKeys
    <3>4. QED
      BY <1>0, <1>4, <3>3 DEF HandlerStep, PopupStep, StayOnPage, navVars
  <2>2. CASE ~is_open(input)
    BY <1>0, <1>4, <2>2 DEF HandlerStep, PopupStep, Same, StayOnPage, navVars
  <2>3. QED
    BY <2>1, <2>2
<1>5. CASE w = "BreadcrumbBack" /\ leave_sub_page(w) /\ NoPopupMoves
  <2>1. ~PopupOpen /\ w \in PageIds(current_page)
    BY <1>5
  <2>2. stack # <<>>
    BY <1>5, <2>1, BackOnSubPages, BreadcrumbButton, CurrentPage
  <2>3. QED
    BY <1>5, <2>1, <2>2, Leaving
<1>6. CASE w = "WindowClose" /\ Quit(w, n)
  BY <1>6, Quiet
<1>7. CASE w \in Tabs /\ focused' = w /\ navigate_to(tab_page_for_widget(w)) /\ NoPopupMoves
  <2>1. tab_page_for_widget(w) \in DOMAIN TabOf
    BY <1>7 DEF Tabs, tab_page_for_widget
  <2>2. ~PopupOpen
    BY <1>7 DEF Tabs, TabOf, ConfirmIds, PromptIds, PopupOpen
  <2>3. PageStep(w) /\ UNCHANGED query
    BY <1>7, <2>1 DEF navigate_to, PageStep, Jumps
  <2>4. PopupStep(w)
    BY <1>7 DEF NoPopupMoves, PopupStep, Same
  <2>5. QED
    BY <1>7, <2>2, <2>3, <2>4 DEF HandlerStep, NoPopupMoves
<1>8. QED
  BY <1>1, <1>2, <1>3, <1>4, <1>5, <1>6, <1>7 DEF ActivateOverlay

\* While a popup is open its own widgets are all there is on the frame.
LEMMA OverPopups ==
    ASSUME RunLoopTypeOK, NEW w \in Ids(last_focus_registry), PopupOpen
    PROVE  /\ w \in {"ConfirmReject", "ConfirmAccept", "NotificationDismiss", "ModalCancel",
                     "ModalSubmit", "ModalField", "HostnameField", "Ipv4Field", "Ipv6Field"}
           /\ \A base \in RowBases : w \notin RowNames(base)
<1>1. w \in {"ConfirmReject", "ConfirmAccept", "NotificationDismiss", "ModalCancel",
             "ModalSubmit", "ModalField", "HostnameField", "Ipv4Field", "Ipv6Field"}
  BY WidgetsInReach, FocusTypes DEF PopupOpen, ConfirmIds, PromptIds
<1>2. w \in FixedIds
  <2>1. w \in OverlayIds
    BY <1>1, WidgetsInReach
  <2>2. QED
    BY <2>1 DEF FixedIds
<1>3. QED
  BY <1>1, <1>2, NamesApart

\* The widgets of Status.
LEMMA StatusHandled ==
    ASSUME RunLoopTypeOK, NEW w \in Ids(last_focus_registry), NEW n, ActivateStatus(w, n)
    PROVE  HandlerStep(w)
<1>1. w \in {"DetailsToggle", "SwitchLocation", "RefreshConnection", "ConnectDisconnect"}
  BY DEF ActivateStatus
<1>2. ~PopupOpen
  BY <1>1, OverPopups
<1>3. w \in Focus /\ w \in PageIds(current_page) /\ current_page \in PageId
  BY <1>2, WidgetsInReach, CurrentPage
<1>4. CASE Remain(w)
  BY <1>3, <1>4, Quiet
<1>5. CASE Ask("Disconnect", w, n)
  BY <1>1, <1>2, <1>3, <1>5, Opening DEF ConfirmAction
<1>6. CASE /\ w = "SwitchLocation"
           /\ stack' = Append(stack, [page |-> "SelectLocation", return_focus |-> w])
           /\ view' \in Views("SelectLocation")
           /\ focused' \in {w} \cup (IF view' = "EntryHidden" THEN {"ExitTab"} ELSE Countries)
           /\ UNCHANGED <<topPage, query>> /\ NoPopupMoves
  <2>1. current_page = "Status"
    BY <1>3, <1>6, WhereWidgetsAre
  <2>2. "SelectLocation" \in SubPages /\ Above("SelectLocation") = "Status"
    BY DEF SubPages, StatusPages, SettingsPages, VpnPages, Above, parent_sub_page, top_level_root
  <2>3. PageStep(w)
    BY <1>6, <2>1, <2>2 DEF PageStep, Descends
  <2>4. focused' \in Focus
    BY <1>3, <1>6, NamedWidgets DEF Focus
  <2>5. PopupStep(w) /\ quit' \in BOOLEAN
    BY <1>6, FocusTypes DEF NoPopupMoves, PopupStep, Same
  <2>6. QED
    BY <1>2, <1>6, <2>3, <2>4, <2>5 DEF HandlerStep
<1>7. QED
  BY <1>4, <1>5, <1>6 DEF ActivateStatus, Call

\* The widgets of SelectLocation.
LEMMA SelectLocationHandled ==
    ASSUME RunLoopTypeOK, BreadcrumbTellsTheWayBack, NEW w \in Ids(last_focus_registry), NEW n,
           ActivateSelectLocation(w, n)
    PROVE  HandlerStep(w)
<1>1. w \in {"SearchAnchor", "FilterButton", "EntryTab", "ExitTab"} \cup Countries
  BY DEF ActivateSelectLocation
<1>2. ~PopupOpen
  BY <1>1, OverPopups DEF Countries
<1>3. w \in Focus /\ w \in PageIds(current_page) /\ current_page \in PageId
  BY <1>2, WidgetsInReach, CurrentPage
<1>4. CASE Remain(w)
  BY <1>3, <1>4, Quiet
<1>5. w # "SearchAnchor" => current_page = "SelectLocation"
  BY <1>1, <1>3, WhereWidgetsAre
<1>6. CASE w = "FilterButton" /\ Enter("SelectLocationFilter", w, n)
  <2>1. "SelectLocationFilter" \in SubPages /\ Above("SelectLocationFilter") = "SelectLocation"
    BY DEF SubPages, StatusPages, VpnPages, Above, parent_sub_page
  <2>2. QED
    BY <1>2, <1>3, <1>5, <1>6, <2>1, Entering DEF Enter
<1>7. CASE /\ w \in {"EntryTab", "ExitTab"}
           /\ focused' \in {w} \cup Countries
           /\ view' \in {"Multihop", "EntryHidden"}
           /\ UNCHANGED <<navVars, query>> /\ NoPopupMoves
  <2>1. view' \in Views(current_page)
    BY <1>5, <1>7 DEF Views
  <2>2. focused' \in Focus
    BY <1>3, <1>7, NamedWidgets DEF Focus
  <2>3. PageStep(w) /\ PopupStep(w) /\ quit' \in BOOLEAN /\ UNCHANGED query
    BY <1>7, <2>1, FocusTypes DEF PageStep, Stays, PopupStep, Same, NoPopupMoves
  <2>4. QED
    BY <1>2, <2>2, <2>3 DEF HandlerStep
<1>8. CASE w \in Countries /\ leave_sub_page(w) /\ NoPopupMoves
  <2>1. current_page \in SubPages
    BY <1>5, <1>8 DEF Countries, SubPages, StatusPages
  <2>2. QED
    BY <1>2, <1>3, <1>8, <2>1, Leaving, BreadcrumbButton
<1>9. QED
  BY <1>4, <1>6, <1>7, <1>8 DEF ActivateSelectLocation, Show

\* The widgets of Account.
LEMMA AccountHandled ==
    ASSUME RunLoopTypeOK, NEW w \in Ids(last_focus_registry), NEW n, ActivateAccount(w, n)
    PROVE  HandlerStep(w)
<1>1. w \in RowNames("RemoveDevice") \cup
           {"ManageDevices", "ShowAccount", "BuyCredit", "RedeemVoucher", "LogOut", "LogIn",
            "RotateKey"}
  BY DEF ActivateAccount
<1>2. ~PopupOpen
  BY <1>1, OverPopups DEF RowBases
<1>3. w \in Focus /\ w \in PageIds(current_page) /\ current_page \in PageId
  BY <1>2, WidgetsInReach, CurrentPage
<1>4. CASE Remain(w) \/ CallAndRefetch(w, n)
  BY <1>3, <1>4, Quiet
<1>5. CASE /\ w \in {"LogOut", "RotateKey"}
           /\ Ask("Logout", w, n) \/ Ask("RotateWireGuardKey", w, n)
  BY <1>2, <1>3, <1>5, Opening DEF ConfirmAction
<1>6. CASE Prompt("VoucherInput", FALSE, w, n) \/ Prompt("AccountInput", FALSE, w, n)
  BY <1>2, <1>3, <1>6, Opening DEF InputModes, KeptWhileInvalid
<1>7. CASE /\ w = "ManageDevices"
           /\ focused' = w /\ enter_sub_page("AccountDevices") /\ NoPopupMoves
  <2>1. "AccountDevices" \in SubPages /\ Above("AccountDevices") = "Account"
    BY DEF SubPages, Above, parent_sub_page, top_level_root, VpnPages, StatusPages, SettingsPages
  <2>2. current_page = "Account"
    BY <1>3, <1>7, WhereWidgetsAre
  <2>3. QED
    BY <1>2, <1>3, <1>7, <2>1, <2>2, Entering
<1>8. QED
  BY <1>4, <1>5, <1>6, <1>7 DEF ActivateAccount, Show

\* The buttons of the lists' rows.
LEMMA RowHandled ==
    ASSUME RunLoopTypeOK, NEW w \in Ids(last_focus_registry), NEW n, ActivateRow(w, n)
    PROVE  HandlerStep(w)
<1>1. PICK base \in RowBases : w \in RowNames(base)
  BY DEF ActivateRow, RowBases
<1>2. ~PopupOpen /\ w # "ConfirmAccept"
  <2>1. "ConfirmAccept" \in FixedIds
    <3>1. OverlayWidget[2] \in OverlayIds
      BY DEF OverlayIds, OverlayWidget
    <3>2. QED
      BY <3>1 DEF FixedIds, OverlayWidget
  <2>2. QED
    BY <1>1, <2>1, OverPopups, NamesApart
<1>3. w \in Focus
  BY WidgetsInReach
<1>4. CASE Remain(w) \/ CallAndRefetch(w, n)
  BY <1>3, <1>4, Quiet
<1>5. CASE Prompt("CustomDnsInput", TRUE, w, n)
  BY <1>2, <1>3, <1>5, Opening DEF InputModes, KeptWhileInvalid
<1>6. CASE Ask("RemoveRelayOverride", w, n)
  BY <1>2, <1>3, <1>6, Opening DEF ConfirmAction
<1>7. QED
  BY <1>4, <1>5, <1>6 DEF ActivateRow, Call

\* The widgets of the settings pages.
LEMMA SettingsHandled ==
    ASSUME RunLoopTypeOK, NEW w \in Ids(last_focus_registry), NEW n, ActivateSettings(w, n)
    PROVE  HandlerStep(w)
<1>1. ~PopupOpen /\ w # "ConfirmAccept"
  <2>1. w \notin {"ConfirmReject", "ConfirmAccept", "NotificationDismiss", "ModalCancel",
                  "ModalSubmit", "ModalField", "HostnameField", "Ipv4Field", "Ipv6Field"}
    BY DEF ActivateSettings, OpensPage, Toggles
  <2>2. QED
    BY <2>1, OverPopups
<1>2. w \in Focus /\ w \in PageIds(current_page) /\ current_page \in PageId
  BY <1>1, WidgetsInReach, CurrentPage
<1>3. CASE Remain(w) \/ Quit(w, n)
  BY <1>2, <1>3, Quiet
<1>4. CASE w \in DOMAIN OpensPage /\ Enter(OpensPage[w], w, n)
  BY <1>1, <1>2, <1>4, WhereWidgetsAre, Entering DEF Enter
<1>5. CASE /\ w \in {"BlurbPrev", "BlurbNext"}
           /\ focused' = w
           /\ view' = IF w = "BlurbNext" THEN "LastBlurb" ELSE "FirstBlurb"
           /\ UNCHANGED <<navVars, query>> /\ NoPopupMoves
  <2>1. view' \in Views(current_page)
    BY <1>2, <1>5, WhereWidgetsAre DEF Views
  <2>2. PageStep(w) /\ PopupStep(w) /\ quit' \in BOOLEAN /\ UNCHANGED query
    BY <1>5, <2>1, FocusTypes DEF PageStep, Stays, PopupStep, Same, NoPopupMoves
  <2>3. QED
    BY <1>1, <1>2, <1>5, <2>2 DEF HandlerStep
<1>6. CASE Ask("ToggleLockdown", w, n) \/ Ask("ClearRelayOverrides", w, n)
  BY <1>1, <1>2, <1>6, Opening DEF ConfirmAction
<1>7. CASE \E mode \in InputModes, valid \in BOOLEAN : Prompt(mode, valid, w, n)
  BY <1>1, <1>2, <1>7, Opening
<1>8. QED
  <2>1. /\ {"CustomDnsInput", "SplitTunnelPathInput", "SplitTunnelPidInput", "PortInput",
            "RelayOverrideInput"} \subseteq InputModes
        /\ TRUE \in BOOLEAN /\ FALSE \in BOOLEAN
    BY DEF InputModes, KeptWhileInvalid
  <2>2. CASE \/ w = "AddAddress" /\ Prompt("CustomDnsInput", FALSE, w, n)
             \/ /\ w \in {"AddApp", "AddPid"}
                /\ Prompt(IF w = "AddApp" THEN "SplitTunnelPathInput"
                          ELSE "SplitTunnelPidInput", FALSE, w, n)
             \/ w = "PortEdit" /\ Prompt("PortInput", TRUE, w, n)
             \/ w = "AddOverride" /\ Prompt("RelayOverrideInput", FALSE, w, n)
    BY <1>7, <2>1, <2>2
  <2>3. QED
    BY <1>3, <1>4, <1>5, <1>6, <2>2 DEF ActivateSettings, Call, Show

\* Activating a widget of the last frame, whatever it is.
LEMMA Activated ==
    ASSUME RunLoopTypeOK, BreadcrumbTellsTheWayBack, NEW w \in Ids(last_focus_registry), NEW n,
           Activate(w, n)
    PROVE  HandlerStep(w)
<1>1. CASE ActivateFilter(w, n)
  BY <1>1, Quiet, WidgetsInReach DEF ActivateFilter
<1>2. QED
  BY <1>1, OverlayHandled, StatusHandled, SelectLocationHandled, AccountHandled, RowHandled,
     SettingsHandled DEF Activate

\* A navigation key leads to a widget, or nowhere.
LEMMA ReachesFocus ==
    ASSUME RunLoopTypeOK, NEW key \in NavigationKeys
    PROVE  Reaches(key) \in Focus
<1> DEFINE reg == last_focus_registry
           shielded == overlay.kind # "None"
<1>1. /\ reg.rows \in Frames(Shown) /\ Grouped(reg) /\ Lands(reg) \subseteq Focus
      /\ current_page \in PageId
  BY FrameShown, CurrentPage
<1>2. NoWidget \in Focus /\ active_tab(current_page) \in Focus
  BY <1>1, NamedWidgets, Segments DEF Focus, active_tab, Tabs
<1> HIDE DEF reg
<1>3. \A w \in Lands(reg) : prefer_active_tab(current_page, w) \in Focus
  BY <1>1, <1>2 DEF prefer_active_tab
<1>4. key \in Arrows => navigate(reg, focused, key) \in Lands(reg)
  BY <1>1, NavigateLands
<1>5. Home(reg, focused) \in Lands(reg) /\ End(reg, focused) \in Lands(reg)
  BY <1>1, HomeEndLand
<1>6. /\ move_rows(reg, focused, 0 - PAGE_STEP_ROWS) \in Lands(reg)
      /\ move_rows(reg, focused, PAGE_STEP_ROWS) \in Lands(reg)
  <2>1. PAGE_STEP_ROWS \in Int /\ 0 - PAGE_STEP_ROWS \in Int
    BY RunLoopAssumption
  <2>2. QED
    BY <1>1, <2>1, MoveRowsLands
<1>7. cycle_pane(reg, focused, TRUE) \in Lands(reg) /\ cycle_pane(reg, focused, FALSE) \in Lands(reg)
  BY <1>1, CyclePaneLands
<1>8. Target(current_page, reg, shielded, focused, key) \in Focus
  BY <1>1, <1>2, <1>3, <1>4, <1>5, <1>6, <1>7 DEF Target, NavigationKeys, Arrows
<1>9. QED
  BY <1>8 DEF Reaches, reg

\* The keys of a prompt in their order: all it has, and nothing else.
LEMMA InputOrders ==
    ASSUME NEW mode, NEW n, n = IF mode = "RelayOverrideInput" THEN 5 ELSE 3
    PROVE  /\ DOMAIN InputOrder(mode) = 1 .. n /\ Len(InputOrder(mode)) = n
           /\ \A i \in 1 .. n :
                 InputOrder(mode)[i] \in PromptFoci(mode) \cap (Fields \cup {"Cancel", "Submit"})
           /\ \A f \in PromptFoci(mode) : \E i \in 1 .. n : InputOrder(mode)[i] = f
<1>1. PICK S : S = Fields \cup {"Cancel", "Submit"}
  OBVIOUS
<1>2. PICK buttons : buttons = <<"Cancel", "Submit">>
  OBVIOUS
<1>3. buttons \in Seq(S) /\ Len(buttons) = 2 /\ buttons[1] = "Cancel" /\ buttons[2] = "Submit"
  BY <1>1, <1>2
<1>4. CASE mode = "RelayOverrideInput"
  <2>1. PICK fields : fields = <<"Field", "Ipv4Field", "Ipv6Field">>
    OBVIOUS
  <2>2. /\ fields \in Seq(S) /\ Len(fields) = 3
        /\ fields[1] = "Field" /\ fields[2] = "Ipv4Field" /\ fields[3] = "Ipv6Field"
    BY <1>1, <2>1 DEF Fields
  <2>3. PICK order : order = fields \o buttons
    OBVIOUS
  <2>4. /\ order \in Seq(S) /\ Len(order) = 5
        /\ \A i \in 1 .. 5 : order[i] = IF i <= 3 THEN fields[i] ELSE buttons[i - 3]
    <3>1. /\ order \in Seq(S) /\ Len(order) = Len(fields) + Len(buttons)
          /\ \A i \in 1 .. Len(fields) + Len(buttons) :
                order[i] = IF i <= Len(fields) THEN fields[i] ELSE buttons[i - Len(fields)]
      BY <1>3, <2>2, <2>3, ConcatProperties, Zenon
    <3>2. QED
      BY <1>3, <2>2, <3>1
  <2>5. /\ order[1] = "Field" /\ order[2] = "Ipv4Field" /\ order[3] = "Ipv6Field"
        /\ order[4] = "Cancel" /\ order[5] = "Submit"
    BY <1>3, <2>2, <2>4
  <2>6. PromptFoci(mode) = {"Field", "Ipv4Field", "Ipv6Field", "Cancel", "Submit"}
    BY <1>4 DEF PromptFoci
  <2>7. \A i \in 1 .. 5 : i \in {1, 2, 3, 4, 5}
    OBVIOUS
  <2>8. InputOrder(mode) = order /\ n = 5 /\ DOMAIN order = 1 .. 5
    BY <1>2, <1>4, <2>1, <2>3, <2>4 DEF InputOrder
  <2>9. QED
    BY <2>4, <2>5, <2>6, <2>7, <2>8 DEF Fields
<1>5. CASE mode # "RelayOverrideInput"
  <2>1. PICK fields : fields = <<"Field">>
    OBVIOUS
  <2>2. fields \in Seq(S) /\ Len(fields) = 1 /\ fields[1] = "Field"
    BY <1>1, <2>1 DEF Fields
  <2>3. PICK order : order = fields \o buttons
    OBVIOUS
  <2>4. /\ order \in Seq(S) /\ Len(order) = 3
        /\ \A i \in 1 .. 3 : order[i] = IF i <= 1 THEN fields[i] ELSE buttons[i - 1]
    <3>1. /\ order \in Seq(S) /\ Len(order) = Len(fields) + Len(buttons)
          /\ \A i \in 1 .. Len(fields) + Len(buttons) :
                order[i] = IF i <= Len(fields) THEN fields[i] ELSE buttons[i - Len(fields)]
      BY <1>3, <2>2, <2>3, ConcatProperties, Zenon
    <3>2. QED
      BY <1>3, <2>2, <3>1
  <2>5. order[1] = "Field" /\ order[2] = "Cancel" /\ order[3] = "Submit"
    BY <1>3, <2>2, <2>4
  <2>6. PromptFoci(mode) = {"Field", "Cancel", "Submit"}
    BY <1>5 DEF PromptFoci
  <2>7. \A i \in 1 .. 3 : i \in {1, 2, 3}
    OBVIOUS
  <2>8. InputOrder(mode) = order /\ n = 3 /\ DOMAIN order = 1 .. 3
    BY <1>2, <1>5, <2>1, <2>3, <2>4 DEF InputOrder
  <2>9. QED
    BY <2>4, <2>5, <2>6, <2>7, <2>8 DEF Fields
<1>6. QED
  BY <1>4, <1>5

\* A key in an input prompt.
LEMMA PromptKeys ==
    ASSUME RunLoopTypeOK, PromptFocusKnown, NEW n, InputKey(n)
    PROVE  HandlerStep(focused)
<1>1. InputHasKeys /\ UNCHANGED quit /\ focused \in Focus /\ quit \in BOOLEAN /\ is_open(input)
      /\ overlay.kind = "None"
  BY FocusTypes DEF InputKey, InputHasKeys
<1>2. StayOnPage => PageStep(focused) /\ UNCHANGED navVars /\ UNCHANGED query
  BY FocusTypes DEF StayOnPage, PageStep, Stays, navVars
<1>3. CASE /\ \E f \in NextInputFocus : input' = [input EXCEPT !.focus = f]
           /\ UNCHANGED <<focused, overlay>> /\ StayOnPage
  <2>1. PICK f \in NextInputFocus : input' = [input EXCEPT !.focus = f]
    BY <1>3
  <2>2. f \in PromptFoci(input.mode) /\ f \in Fields \cup {"Cancel", "Submit"}
    <3>1. input.focus \in PromptFoci(input.mode)
      BY <1>1 DEF PromptFocusKnown
    <3>2. CASE input.mode = "RelayOverrideInput"
      <4>1. PICK order :
              /\ order = InputOrder(input.mode) /\ DOMAIN order = 1 .. 5 /\ Len(order) = 5
              /\ \A i \in 1 .. 5 :
                    order[i] \in PromptFoci(input.mode) \cap (Fields \cup {"Cancel", "Submit"})
              /\ \A g \in PromptFoci(input.mode) : \E i \in 1 .. 5 : order[i] = g
        <5>1. PICK len : len = 5
          OBVIOUS
        <5>2. len = IF input.mode = "RelayOverrideInput" THEN 5 ELSE 3
          BY <3>2, <5>1
        <5>3. /\ DOMAIN InputOrder(input.mode) = 1 .. len /\ Len(InputOrder(input.mode)) = len
              /\ \A i \in 1 .. len : InputOrder(input.mode)[i]
                    \in PromptFoci(input.mode) \cap (Fields \cup {"Cancel", "Submit"})
              /\ \A g \in PromptFoci(input.mode) :
                    \E i \in 1 .. len : InputOrder(input.mode)[i] = g
          BY <5>2, InputOrders
        <5>4. QED
          BY <5>1, <5>3
      <4>2. PICK at \in 1 .. 5 : at = CHOOSE i \in DOMAIN order : order[i] = input.focus
        BY <3>1, <4>1
      <4>3. f \in {order[(at % 5) + 1], order[((at + 5 - 2) % 5) + 1],
                   IF at > 5 - 2 THEN order[5 - 2] ELSE order[at]}
        BY <2>1, <4>1, <4>2 DEF NextInputFocus
      <4>4. (at % 5) + 1 \in 1 .. 5 /\ ((at + 5 - 2) % 5) + 1 \in 1 .. 5 /\ 5 - 2 \in 1 .. 5
        OBVIOUS
      <4>5. QED
        BY <4>1, <4>3, <4>4
    <3>3. CASE input.mode # "RelayOverrideInput"
      <4>1. PICK order :
              /\ order = InputOrder(input.mode) /\ DOMAIN order = 1 .. 3 /\ Len(order) = 3
              /\ \A i \in 1 .. 3 :
                    order[i] \in PromptFoci(input.mode) \cap (Fields \cup {"Cancel", "Submit"})
              /\ \A g \in PromptFoci(input.mode) : \E i \in 1 .. 3 : order[i] = g
        <5>1. PICK len : len = 3
          OBVIOUS
        <5>2. len = IF input.mode = "RelayOverrideInput" THEN 5 ELSE 3
          BY <3>3, <5>1
        <5>3. /\ DOMAIN InputOrder(input.mode) = 1 .. len /\ Len(InputOrder(input.mode)) = len
              /\ \A i \in 1 .. len : InputOrder(input.mode)[i]
                    \in PromptFoci(input.mode) \cap (Fields \cup {"Cancel", "Submit"})
              /\ \A g \in PromptFoci(input.mode) :
                    \E i \in 1 .. len : InputOrder(input.mode)[i] = g
          BY <5>2, InputOrders
        <5>4. QED
          BY <5>1, <5>3
      <4>2. PICK at \in 1 .. 3 : at = CHOOSE i \in DOMAIN order : order[i] = input.focus
        BY <3>1, <4>1
      <4>3. f \in {order[(at % 3) + 1], order[((at + 3 - 2) % 3) + 1],
                   IF at > 3 - 2 THEN order[3 - 2] ELSE order[at]}
        BY <2>1, <4>1, <4>2 DEF NextInputFocus
      <4>4. (at % 3) + 1 \in 1 .. 3 /\ ((at + 3 - 2) % 3) + 1 \in 1 .. 3 /\ 3 - 2 \in 1 .. 3
        OBVIOUS
      <4>5. QED
        BY <4>1, <4>3, <4>4
    <3>4. QED
      BY <3>2, <3>3
  <2>3. Edits
    BY <1>1, <1>3, <2>1, <2>2, InputFields DEF Edits
  <2>4. QED
    BY <1>1, <1>2, <1>3, <2>3 DEF HandlerStep, PopupStep
<1>4. CASE TypeText /\ UNCHANGED <<focused, overlay>> /\ StayOnPage
  <2>1. Edits
    BY <1>1, <1>4, InputFields DEF Edits, TypeText, PromptFocusKnown
  <2>2. QED
    BY <1>1, <1>2, <1>4, <2>1 DEF HandlerStep, PopupStep
<1>5. CASE CloseInput(focused) /\ StayOnPage
  <2>1. focused' \in Focus
    BY <1>1, <1>5, FocusTypes DEF CloseInput
  <2>2. QED
    BY <1>1, <1>2, <1>5, <2>1 DEF HandlerStep, PopupStep, Closes
<1>6. CASE SubmitInput(focused, n)
  BY <1>1, <1>6, Submitting
<1>7. QED
  BY <1>3, <1>4, <1>5, <1>6 DEF InputKey

\* An event that goes through handle_key_event or handle_mouse_event whole.
Event(w, n) ==
    /\ EventArm
    /\ HandlerStep(w)
    /\ AfterEvent(n)
    /\ Handled

\* Each user event goes through the handlers whole, but for the keys that a
\* text field of a page takes and a resize.
LEMMA UserEvents ==
    ASSUME IInv, UserEvent
    PROVE  \/ \E w \in Focus, n \in Sends : Event(w, n)
           \/ SearchKey \/ MtuKey \/ MtuEnter \/ Resize
<1> USE DEF IInv
<1>0. 0 \in Sends /\ focused \in Focus /\ quit \in BOOLEAN
  BY FocusTypes DEF Sends
<1>1. StayOnPage => PageStep(focused) /\ UNCHANGED navVars /\ UNCHANGED query
  BY FocusTypes DEF StayOnPage, PageStep, Stays, navVars
<1>2. ASSUME SlashKey PROVE Event(focused, 0)
  <2>1. focused' \in Focus
    BY <1>2, NamedWidgets DEF SlashKey, Focus
  <2>2. QED
    BY <1>0, <1>1, <1>2, <2>1 DEF SlashKey, Event, Listening, HandlerStep, PopupStep, Same
<1>3. ASSUME QuitKey PROVE Event(focused, 0)
  BY <1>0, <1>1, <1>3 DEF QuitKey, Event, Listening, HandlerStep, PopupStep, Same
<1>4. ASSUME CancelKey PROVE Event(focused, 0)
  <2>1. CASE overlay.kind # "None" /\ close_overlay_restoring_focus(focused) /\ StayOnPage
    <3>1. focused' \in Focus
      BY <2>1, FocusTypes DEF close_overlay_restoring_focus
    <3>2. QED
      BY <1>0, <1>1, <1>4, <2>1, <3>1 DEF CancelKey, Event, Listening, HandlerStep, PopupStep, Dismisses
  <2>2. CASE overlay.kind = "None" /\ stack # <<>> /\ leave_sub_page(focused) /\ UNCHANGED overlay
    <3>1. ~PopupOpen /\ NoPopupMoves
      BY <1>4, <2>2 DEF CancelKey, Listening, InputHasKeys, PopupOpen, NoPopupMoves
    <3>2. HandlerStep(focused)
      BY <1>0, <2>2, <3>1, Leaving
    <3>3. QED
      BY <1>4, <3>2 DEF CancelKey, Event, Listening
  <2>3. QED
    BY <1>4, <2>1, <2>2 DEF CancelKey
<1>5. ASSUME ActivateKey PROVE \E n \in Sends : Event(focused, n)
  <2>1. focused \in Ids(last_focus_registry)
    BY <1>5 DEF ActivateKey, Listening, EventArm, FocusOnFrame, Lands
  <2>2. QED
    BY <1>5, <2>1, Activated DEF ActivateKey, Event, Listening
<1>6. ASSUME InputPopupKey PROVE \E n \in Sends : Event(focused, n)
  BY <1>6, PromptKeys DEF InputPopupKey, Event
<1>7. ASSUME NEW key \in NavigationKeys, NavigationKey(key) PROVE Event(focused, 0)
  <2>1. focused' \in Focus
    BY <1>7, ReachesFocus DEF NavigationKey
  <2>2. QED
    BY <1>0, <1>1, <1>7, <2>1 DEF NavigationKey, Event, Listening, HandlerStep, PopupStep, Same
<1>8. ASSUME NEW page \in DOMAIN TabOf, NavigateTab(page) PROVE Event(focused, 0)
  <2>1. focused' \in Focus
    BY <1>8, NamedWidgets DEF NavigateTab, Focus, Tabs
  <2>2. ~PopupOpen
    BY <1>8 DEF NavigateTab, Listening, InputHasKeys, PopupOpen
  <2>3. PageStep(focused) /\ UNCHANGED query
    BY <1>8 DEF NavigateTab, navigate_to, PageStep, Jumps
  <2>4. QED
    BY <1>0, <1>8, <2>1, <2>2, <2>3 DEF NavigateTab, Event, Listening, HandlerStep, PopupStep, Same
<1>9. ASSUME NEW w \in Ids(last_focus_registry), Click(w) PROVE w \in Focus /\ \E n \in Sends : Event(w, n)
  BY <1>9, Activated, WidgetsInReach DEF Click, Event
<1>10. QED
  BY <1>0, <1>2, <1>3, <1>4, <1>5, <1>6, <1>7, <1>8, <1>9 DEF UserEvent

-----------------------------------------------------------------------------
(* What a step keeps of the invariant, part by part.                       *)

\* The type invariant in parts.
MtuTyped ==
    /\ notes \in 0 .. MaxNotes
    /\ draft \in Mtu \cup {BadMtu}
    /\ {cachedMtu, daemonMtu} \subseteq Mtu
    /\ pushes \in Seq(Mtu) /\ Len(pushes) <= MaxPushes
    /\ sent \in Seq(Mtu) /\ Len(sent) <= 1

PopupsTyped ==
    /\ overlay \in Overlay /\ input \in InputMode
    /\ {inputReturn, opener} \subseteq Focus /\ armed \in BOOLEAN

PageTyped ==
    /\ topPage \in DOMAIN TabOf
    /\ stack \in Seq([page : SubPages, return_focus : Focus])
    /\ view \in Views(current_page)

\* The type invariant in parts.
LEMMA TypeParts ==
    RunLoopTypeOK <=> /\ MtuTyped /\ PopupsTyped /\ PageTyped
                      /\ focused \in Focus /\ {query, drawn, small, quit} \subseteq BOOLEAN
BY DEF RunLoopTypeOK, MtuTyped, PopupsTyped, PageTyped

\* commit_pending_mtu keeps the types of the MTU, and the bounds.
LEMMA CommitTypes ==
    ASSUME MtuTyped, EventArm, NEW n \in Sends, commit_pending_mtu(n)
    PROVE  MtuTyped'
<1>1. /\ notes \in 0 .. MaxNotes /\ notes + 2 <= MaxNotes /\ MaxNotes \in Nat /\ n \in {0, 1}
      /\ pushes \in Seq(Mtu) /\ Len(pushes) < MaxPushes /\ MaxPushes \in Nat
      /\ draft \in Mtu \cup {BadMtu} /\ {cachedMtu, daemonMtu} \subseteq Mtu
      /\ sent \in Seq(Mtu) /\ Len(sent) <= 1
  BY RunLoopAssumption DEF MtuTyped, EventArm, Sends
<1>2. notes' \in {notes + n, notes + n + 1} /\ UNCHANGED <<draft, cachedMtu>>
  BY DEF commit_pending_mtu, mtuVars
<1>3. notes' \in 0 .. MaxNotes
  BY <1>1, <1>2
<1>4. pushes' = pushes \/ (pushes' = Append(pushes, draft) /\ draft \in Mtu)
  BY DEF commit_pending_mtu, mtuVars
<1>5. pushes' \in Seq(Mtu) /\ Len(pushes') <= MaxPushes
  BY <1>1, <1>4, AppendProperties
<1>6. sent' = sent \/ (sent' = <<draft>> /\ draft \in Mtu)
  BY DEF commit_pending_mtu, mtuVars
<1>7. sent' \in Seq(Mtu) /\ Len(sent') <= 1
  <2>1. CASE sent' = sent
    BY <1>1, <2>1
  <2>2. CASE sent' = <<draft>> /\ draft \in Mtu
    <3>1. sent' \in Seq(Mtu)
      BY <2>2
    <3>2. Len(sent') <= 1
      BY <2>2
    <3>3. QED
      BY <3>1, <3>2
  <2>3. QED
    BY <1>6, <2>1, <2>2
<1>8. daemonMtu' \in Mtu
  BY <1>1 DEF commit_pending_mtu, mtuVars
<1>9. QED
  BY <1>1, <1>2, <1>3, <1>5, <1>7, <1>8 DEF MtuTyped

\* So does the end of an event.
LEMMA AfterEventTypes ==
    ASSUME MtuTyped, EventArm, NEW n \in Sends, AfterEvent(n)
    PROVE  MtuTyped'
<1>1. CASE commit_pending_mtu(n)
  BY <1>1, CommitTypes
<1>2. CASE notes' = notes + n /\ UNCHANGED mtuVars
  <2>1. notes' \in 0 .. MaxNotes
    BY <1>2, RunLoopAssumption DEF MtuTyped, EventArm, Sends
  <2>2. QED
    BY <1>2, <2>1 DEF MtuTyped, mtuVars
<1>3. QED
  BY <1>1, <1>2 DEF AfterEvent

\* An edit that the event leaves behind is answered.
LEMMA CommitAnswers ==
    ASSUME MtuTyped, NEW n \in Sends, AfterEvent(n),
           mtu_field_focused, ~mtu_field_focused', mtu_field_dirty
    PROVE  notes' > notes \/ (Len(sent') = 1 /\ sent'[1] = draft)
<1>1. commit_pending_mtu(n) /\ draft # cachedMtu
  BY DEF AfterEvent, mtu_field_dirty
<1>2. CASE draft = BadMtu /\ notes' = notes + n + 1
  BY <1>2 DEF MtuTyped, Sends
<1>3. CASE sent' = <<draft>>
  BY <1>3
<1>4. QED
  BY <1>1, <1>2, <1>3 DEF commit_pending_mtu

\* A step of the popups keeps what is known about them, and the last one to
\* close puts the focus back on the opener.
LEMMA PopupsKept ==
    ASSUME IInv, NEW w \in Focus, PopupStep(w), focused' \in Focus, Remember, TrackPopups
    PROVE  /\ PopupsTyped' /\ ArmedByMove' /\ OpenerKept' /\ PromptFocusKnown'
           /\ PopupOpen /\ ~PopupOpen' /\ opener # NoWidget => focused' = opener
<1> USE DEF PopupOpen
<1>1. /\ overlay \in Overlay /\ input \in InputMode /\ inputReturn \in Focus /\ opener \in Focus
      /\ armed \in BOOLEAN /\ NoWidget \in Focus
      /\ ArmedByMove /\ OpenerKept /\ PromptFocusKnown
  BY DEF IInv, RunLoopTypeOK, Focus
<1>2. inputReturn' \in Focus /\ opener' \in Focus
  BY <1>1 DEF Remember, TrackPopups
<1>3. armed' \in BOOLEAN
  BY DEF TrackPopups
<1>4. CASE Same
  <2>1. inputReturn' = inputReturn /\ (PopupOpen => opener' = opener) /\ PopupOpen' = PopupOpen
    BY <1>4 DEF Same, Remember, TrackPopups
  <2>2. overlay.kind = "Confirm" => armed' = (armed \/ focused' # focused)
    BY <1>4 DEF Same, TrackPopups
  <2>3. PopupsTyped' /\ OpenerKept' /\ PromptFocusKnown'
    BY <1>1, <1>2, <1>3, <1>4, <2>1 DEF Same, PopupsTyped, OpenerKept, PromptFocusKnown
  <2>4. ArmedByMove'
    BY <1>1, <1>4, <2>2 DEF Same, ArmedByMove
  <2>5. QED
    BY <2>1, <2>3, <2>4
<1>5. CASE Asks(w)
  <2>1. PICK action \in ConfirmAction :
          overlay' = [kind |-> "Confirm", action |-> action, return_focus |-> w]
    BY <1>5 DEF Asks, Confirm
  <2>2. ~PopupOpen /\ input' = input /\ focused' = w /\ w # "ConfirmAccept"
    BY <1>5 DEF Asks
  <2>3. overlay' \in Overlay /\ overlay'.kind = "Confirm" /\ overlay'.return_focus = w
    BY <2>1 DEF Overlay
  <2>4. opener' = focused'
    BY <2>2, <2>3 DEF TrackPopups
  <2>5. QED
    BY <1>1, <1>2, <1>3, <2>2, <2>3, <2>4
       DEF PopupsTyped, ArmedByMove, OpenerKept, PromptFocusKnown
<1>6. CASE Prompts(w)
  <2>1. PICK mode \in InputModes, valid \in BOOLEAN :
          input' = [mode |-> mode, focus |-> "Field", valid |-> valid]
    BY <1>6 DEF Prompts, OpenInput
  <2>2. ~PopupOpen /\ overlay' = overlay /\ focused' = w
    BY <1>6 DEF Prompts
  <2>3. input' \in InputMode /\ is_open(input') /\ input'.focus \in PromptFoci(input'.mode)
    BY <2>1 DEF InputMode, Fields, InputModes, KeptWhileInvalid, is_open, PromptFoci
  <2>4. opener' = focused' /\ inputReturn' = focused'
    BY <2>2, <2>3 DEF TrackPopups, Remember
  <2>5. QED
    BY <1>1, <1>2, <1>3, <2>2, <2>3, <2>4
       DEF PopupsTyped, ArmedByMove, OpenerKept, PromptFocusKnown
<1>7. CASE Dismisses(w)
  <2>1. input' = input /\ overlay' = NoOverlay /\ overlay' \in Overlay /\ overlay'.kind = "None"
    BY <1>7 DEF Dismisses, close_overlay_restoring_focus, NoOverlay, Overlay, Focus
  <2>2. is_open(input) => inputReturn' = inputReturn /\ opener' = opener
    BY <2>1 DEF Remember, TrackPopups
  <2>3. overlay.kind # "None" /\ ~is_open(input) /\ opener # NoWidget => focused' = opener
    BY <1>1, <1>7 DEF OpenerKept, Dismisses, close_overlay_restoring_focus
  <2>4. QED
    BY <1>1, <1>2, <1>3, <2>1, <2>2, <2>3
       DEF PopupsTyped, ArmedByMove, OpenerKept, PromptFocusKnown
<1>8. CASE Closes(w)
  <2>1. overlay' = overlay /\ overlay.kind = "None" /\ input' = DefaultInput
    BY <1>8 DEF Closes, CloseInput
  <2>2. input' \in InputMode /\ ~is_open(input')
    BY <2>1 DEF InputMode, DefaultInput, is_open
  <2>3. is_open(input) /\ opener # NoWidget => focused' = opener
    BY <1>1, <1>8 DEF OpenerKept, Closes, CloseInput
  <2>4. QED
    BY <1>1, <1>2, <1>3, <2>1, <2>2, <2>3
       DEF PopupsTyped, ArmedByMove, OpenerKept, PromptFocusKnown
<1>9. CASE Edits
  <2>1. /\ overlay' = overlay /\ overlay.kind = "None" /\ input' \in InputMode
        /\ is_open(input) /\ is_open(input') /\ input'.focus \in PromptFoci(input'.mode)
    BY <1>9 DEF Edits, InputHasKeys, is_open
  <2>2. inputReturn' = inputReturn /\ opener' = opener
    BY <2>1 DEF Remember, TrackPopups
  <2>3. QED
    BY <1>1, <1>2, <1>3, <2>1, <2>2
       DEF PopupsTyped, ArmedByMove, OpenerKept, PromptFocusKnown
<1>10. QED
  BY <1>4, <1>5, <1>6, <1>7, <1>8, <1>9 DEF PopupStep

\* A step of the page keeps what is known about it.
LEMMA PageKept ==
    ASSUME IInv, NEW w \in Focus, PageStep(w)
    PROVE  PageTyped' /\ BreadcrumbTellsTheWayBack'
BY PageStepKeeps DEF IInv, PageTyped

\* An event keeps the invariant.
LEMMA EventKeeps ==
    ASSUME IInv, NEW w \in Focus, MtuTyped', Remember, Handled,
           PageStep(w), PopupStep(w), focused' \in Focus, {query, quit}' \subseteq BOOLEAN
    PROVE  IInv'
<1>1. PageTyped' /\ BreadcrumbTellsTheWayBack'
  BY PageKept
<1>2. PopupsTyped' /\ ArmedByMove' /\ OpenerKept' /\ PromptFocusKnown'
  BY PopupsKept DEF Handled
<1>3. drawn' = FALSE /\ small' = small /\ small \in BOOLEAN
  BY DEF Handled, IInv, RunLoopTypeOK
<1>4. RunLoopTypeOK'
  BY <1>1, <1>2, <1>3
     DEF RunLoopTypeOK, MtuTyped, PopupsTyped, PageTyped
<1>5. QED
  BY <1>1, <1>2, <1>3, <1>4 DEF IInv, FocusOnFrame

\* Drawing keeps it, and puts the focus on the frame.
LEMMA DrawKeeps ==
    ASSUME IInv, Draw
    PROVE  IInv'
<1> DEFINE reg == last_focus_registry
<1>1. /\ RunLoopTypeOK /\ BreadcrumbTellsTheWayBack /\ ArmedByMove /\ OpenerKept /\ PromptFocusKnown
      /\ MtuTyped /\ PopupsTyped /\ PageTyped /\ {query, small, quit} \subseteq BOOLEAN
  BY TypeParts DEF IInv
<1>2. /\ UNCHANGED <<topPage, stack, query, view, overlay, input, inputReturn, notes, small, quit,
                     cachedMtu, daemonMtu, pushes, opener, armed>>
      /\ focused' = set_focus_registry(reg) /\ drawn' = TRUE /\ sent' = <<>>
      /\ draft' \in {draft, cachedMtu}
  BY DEF Draw, navVars, history
<1>3. reg.rows \in Frames(Shown) /\ Lands(reg) \subseteq Focus
  BY <1>1, FrameShown
<1>4. reg' = reg /\ current_page' = current_page
  BY <1>2 DEF last_focus_registry, current_page
<1>5. focused' \in Lands(reg) /\ reg' = reg
  <2> HIDE DEF reg
  <2>1. \A id : contains(reg, id) => id \in Lands(reg)
    BY <1>3, ContainedIds DEF Lands
  <2>2. first_body_widget(reg) \in Lands(reg) /\ first(reg) \in Lands(reg)
    BY <1>3, FirstBodyLands, FirstLands
  <2>3. QED
    BY <1>2, <1>4, <2>1, <2>2 DEF set_focus_registry
<1>6. FocusOnFrame'
  BY <1>5 DEF FocusOnFrame, Lands, Ids, RowNumbers
<1>7. ArmedByMove'
  <2>1. SUFFICES ASSUME overlay.kind = "Confirm", focused' = "ConfirmAccept" PROVE armed
    BY <1>2 DEF ArmedByMove
  <2>2. ~small
    <3>1. small => reg = NothingRegistered
      BY <1>1 DEF last_focus_registry
    <3>2. NothingRegistered.rows = <<>>
      BY DEF NothingRegistered
    <3>3. small => Ids(reg) = {}
      <4>1. RowNumbers(NothingRegistered) = {}
        BY <3>2 DEF RowNumbers
      <4>2. QED
        BY <3>1, <4>1 DEF Ids
    <3>4. QED
      BY <1>5, <2>1, <3>3 DEF Lands, NoWidget
  <2>3. reg = ConfirmOverlay
    BY <2>1, <2>2 DEF last_focus_registry
  <2>4. first_body_widget(reg) = "ConfirmReject"
    BY <2>3, PopupFrames
  <2>5. contains(reg, focused)
    BY <1>2, <2>1, <2>4 DEF set_focus_registry, NoWidget
  <2>6. QED
    BY <1>1, <1>2, <2>1, <2>5 DEF set_focus_registry, ArmedByMove
<1>8. MtuTyped' /\ PopupsTyped' /\ PageTyped'
  BY <1>1, <1>2, <1>4 DEF MtuTyped, PopupsTyped, PageTyped
<1>9. RunLoopTypeOK'
  BY <1>1, <1>2, <1>3, <1>5, <1>8 DEF RunLoopTypeOK, MtuTyped, PopupsTyped, PageTyped
<1>10. BreadcrumbTellsTheWayBack' /\ OpenerKept' /\ PromptFocusKnown'
  BY <1>1, <1>2, <1>4 DEF BreadcrumbTellsTheWayBack, OpenerKept, PromptFocusKnown
<1>11. QED
  BY <1>6, <1>7, <1>9, <1>10 DEF IInv

\* A step that leaves the page, the focus and the popups alone.
Rests ==
    UNCHANGED <<topPage, stack, focused, overlay, input, inputReturn, opener>>

\* A step that rests keeps it.
LEMMA RestKeeps ==
    ASSUME IInv, Rests, MtuTyped', view' \in Views(current_page), {query, quit, small}' \subseteq BOOLEAN,
           \/ drawn' = FALSE
           \/ UNCHANGED <<drawn, small, view>>,
           UNCHANGED armed
    PROVE  IInv'
<1>1. /\ RunLoopTypeOK /\ BreadcrumbTellsTheWayBack /\ ArmedByMove /\ OpenerKept /\ PromptFocusKnown
      /\ PopupsTyped /\ PageTyped /\ FocusOnFrame /\ drawn \in BOOLEAN /\ focused \in Focus
  BY TypeParts DEF IInv, RunLoopTypeOK
<1>2. current_page' = current_page
  BY DEF Rests, current_page
<1>3. armed' \in BOOLEAN /\ ArmedByMove'
  BY <1>1 DEF Rests, PopupsTyped, ArmedByMove
<1>4. PopupsTyped' /\ PageTyped' /\ focused' \in Focus /\ drawn' \in BOOLEAN
  BY <1>1, <1>2, <1>3 DEF Rests, PopupsTyped, PageTyped
<1>5. RunLoopTypeOK'
  BY <1>4 DEF RunLoopTypeOK, MtuTyped, PopupsTyped, PageTyped
<1>6. BreadcrumbTellsTheWayBack' /\ OpenerKept' /\ PromptFocusKnown'
  BY <1>1, <1>2 DEF Rests, BreadcrumbTellsTheWayBack, OpenerKept, PromptFocusKnown
<1>7. FocusOnFrame'
  <2>1. CASE drawn' = FALSE
    BY <2>1 DEF FocusOnFrame
  <2>2. CASE UNCHANGED <<drawn, small, view>>
    <3>1. last_focus_registry' = last_focus_registry
      BY <1>2, <2>2 DEF Rests, last_focus_registry
    <3>2. QED
      BY <1>1, <2>2, <3>1 DEF Rests, FocusOnFrame, Lands, Ids, RowNumbers
  <2>3. QED
    BY <2>1, <2>2
<1>8. QED
  BY <1>3, <1>5, <1>6, <1>7 DEF IInv

\* A notification that replaces an overlay inherits its way back.
LEMMA ShowNotificationKeeps ==
    ASSUME IInv, ShowNotification
    PROVE  IInv'
<1>1. /\ RunLoopTypeOK /\ BreadcrumbTellsTheWayBack /\ OpenerKept /\ PromptFocusKnown
      /\ MtuTyped /\ PopupsTyped /\ PageTyped /\ {query, small, quit} \subseteq BOOLEAN
      /\ focused \in Focus /\ overlay.return_focus \in Focus
  BY TypeParts, FocusTypes DEF IInv, RunLoopTypeOK
<1>2. /\ UNCHANGED <<topPage, stack, focused, query, view, input, inputReturn, small, quit, draft,
                     cachedMtu, daemonMtu, pushes, sent>>
      /\ notes > 0 /\ notes' = notes - 1 /\ drawn' = FALSE /\ armed' = FALSE
      /\ overlay' = Notification(NotificationReturn)
      /\ opener' = IF PopupOpen THEN opener ELSE focused
  BY DEF ShowNotification, navVars, mtuVars
<1>3. current_page' = current_page
  BY <1>2 DEF current_page
<1>4. /\ NotificationReturn \in Focus /\ overlay' \in Overlay
      /\ overlay'.kind = "Notification" /\ overlay'.return_focus = NotificationReturn
  BY <1>1, <1>2 DEF NotificationReturn, Notification, Overlay
<1>5. OpenerKept'
  BY <1>1, <1>2, <1>4 DEF OpenerKept, NotificationReturn, PopupOpen
<1>6. notes' \in 0 .. MaxNotes
  BY <1>1, <1>2, RunLoopAssumption DEF MtuTyped
<1>7. MtuTyped' /\ PopupsTyped' /\ PageTyped'
  BY <1>1, <1>2, <1>3, <1>4, <1>6 DEF MtuTyped, PopupsTyped, PageTyped
<1>8. RunLoopTypeOK'
  BY <1>1, <1>2, <1>7 DEF RunLoopTypeOK, MtuTyped, PopupsTyped, PageTyped
<1>9. BreadcrumbTellsTheWayBack' /\ PromptFocusKnown' /\ FocusOnFrame' /\ ArmedByMove'
  BY <1>1, <1>2, <1>3, <1>4
     DEF BreadcrumbTellsTheWayBack, PromptFocusKnown, FocusOnFrame, ArmedByMove
<1>10. QED
  BY <1>5, <1>8, <1>9 DEF IInv

\* Every step keeps the invariant.
LEMMA StepKeeps ==
    ASSUME IInv, [Next]_vars
    PROVE  IInv'
<1>0. /\ RunLoopTypeOK /\ MtuTyped /\ {query, small, quit, drawn} \subseteq BOOLEAN
      /\ view \in Views(current_page) /\ focused \in Focus
  BY TypeParts DEF IInv, RunLoopTypeOK
<1>1. CASE Draw
  BY <1>1, DrawKeeps
<1>2. ASSUME NEW w \in Focus, NEW n \in Sends, Event(w, n) PROVE IInv'
  <2>1. {query, quit}' \subseteq BOOLEAN
    BY <1>0, <1>2 DEF Event, HandlerStep
  <2>2. MtuTyped' /\ Remember
    BY <1>0, <1>2, AfterEventTypes DEF Event, AfterEvent
  <2>3. QED
    BY <1>2, <2>1, <2>2, EventKeeps DEF Event, HandlerStep
<1>3. CASE SearchKey
  <2>1. /\ Handled /\ focused' = focused /\ {query, quit}' \subseteq BOOLEAN
    BY <1>0, <1>3 DEF SearchKey
  <2>2. MtuTyped' /\ Remember
    BY <1>0, <1>3, AfterEventTypes DEF SearchKey, Listening, Sends, AfterEvent
  <2>3. PageStep(focused) /\ PopupStep(focused)
    BY <1>0, <1>3 DEF SearchKey, PageStep, Stays, PopupStep, Same
  <2>4. QED
    BY <1>0, <2>1, <2>2, <2>3, EventKeeps
<1>4. ASSUME MtuKey \/ MtuEnter PROVE IInv'
  <2>1. /\ EventArm /\ Handled
        /\ UNCHANGED <<topPage, stack, focused, query, view, overlay, input, inputReturn, quit>>
    BY <1>4 DEF MtuKey, MtuEnter, Listening, navVars
  <2>2. MtuTyped'
    <3>1. CASE MtuKey
      <4>1. /\ sent' = <<>> /\ draft' \in Mtu \cup {BadMtu}
            /\ UNCHANGED <<notes, cachedMtu, daemonMtu, pushes>>
        BY <1>0, <3>1 DEF MtuKey, Typed, MtuTyped
      <4>2. QED
        BY <1>0, <4>1 DEF MtuTyped
    <3>2. CASE MtuEnter
      BY <1>0, <2>1, <3>2, CommitTypes DEF MtuEnter, Sends
    <3>3. QED
      BY <1>4, <3>1, <3>2
  <2>3. PageStep(focused) /\ PopupStep(focused)
    BY <1>0, <2>1 DEF PageStep, Stays, PopupStep, Same, navVars
  <2>4. Remember
    BY <2>1 DEF Remember
  <2>5. QED
    BY <1>0, <2>1, <2>2, <2>3, <2>4, EventKeeps
<1>5. CASE Resize
  <2>1. /\ Rests /\ drawn' = FALSE /\ small' \in BOOLEAN
        /\ UNCHANGED <<query, view, notes, quit, draft, cachedMtu, daemonMtu, pushes, sent, armed>>
    BY <1>0, <1>5 DEF Resize, Rests, navVars, mtuVars, history
  <2>2. MtuTyped'
    BY <1>0, <2>1 DEF MtuTyped
  <2>3. QED
    BY <1>0, <2>1, <2>2, RestKeeps
<1>6. CASE DataChanged
  <2>1. /\ Rests /\ drawn' = FALSE
        /\ UNCHANGED <<query, notes, small, quit, draft, cachedMtu, daemonMtu, pushes, sent, armed>>
    BY <1>6 DEF DataChanged, Rests, navVars, mtuVars, history
  <2>2. view' \in Views(current_page)
    BY <1>0, <1>6 DEF DataChanged, PushedViews, Views
  <2>3. MtuTyped'
    BY <1>0, <2>1 DEF MtuTyped
  <2>4. QED
    BY <1>0, <2>1, <2>2, <2>3, RestKeeps
<1>7. CASE SettingsChanged
  <2>1. /\ Rests /\ drawn' = FALSE
        /\ UNCHANGED <<query, view, notes, small, quit, draft, daemonMtu, sent, armed>>
        /\ pushes # <<>> /\ cachedMtu' = Head(pushes) /\ pushes' = Tail(pushes)
    BY <1>7 DEF SettingsChanged, Rests, navVars, history
  <2>2. /\ cachedMtu' \in Mtu /\ pushes' \in Seq(Mtu) /\ Len(pushes') = Len(pushes) - 1
    BY <1>0, <2>1, HeadTailProperties DEF MtuTyped
  <2>3. Len(pushes') <= MaxPushes
    BY <1>0, <2>2, RunLoopAssumption DEF MtuTyped
  <2>4. MtuTyped'
    BY <1>0, <2>1, <2>2, <2>3 DEF MtuTyped
  <2>5. QED
    BY <1>0, <2>1, <2>4, RestKeeps
<1>8. CASE ShowNotification
  BY <1>8, ShowNotificationKeeps
<1>9. CASE SetMtuElsewhere
  <2>1. /\ Rests /\ UNCHANGED <<query, view, notes, drawn, small, quit, draft, cachedMtu, sent, armed>>
        /\ Len(pushes) < MaxPushes /\ daemonMtu' \in Mtu /\ pushes' = Append(pushes, daemonMtu')
    BY <1>9 DEF SetMtuElsewhere, Rests, navVars, history
  <2>2. pushes' \in Seq(Mtu) /\ Len(pushes') <= MaxPushes
    BY <1>0, <2>1, AppendProperties, RunLoopAssumption DEF MtuTyped
  <2>3. MtuTyped'
    BY <1>0, <2>1, <2>2 DEF MtuTyped
  <2>4. QED
    BY <1>0, <2>1, <2>3, RestKeeps
<1>10. CASE UNCHANGED vars
  <2>1. /\ Rests /\ UNCHANGED <<query, view, notes, drawn, small, quit, draft, cachedMtu, daemonMtu,
                                 pushes, sent, armed>>
    BY <1>10 DEF vars, Rests
  <2>2. MtuTyped'
    BY <1>0, <2>1 DEF MtuTyped
  <2>3. QED
    BY <1>0, <2>1, <2>2, RestKeeps
<1>11. CASE UserEvent
  BY <1>2, <1>3, <1>4, <1>5, <1>11, UserEvents
<1>12. QED
  BY <1>1, <1>6, <1>7, <1>8, <1>9, <1>10, <1>11 DEF Next, Exited

\* The initial states satisfy the invariant.
LEMMA InitHolds == Init => IInv
<1> SUFFICES ASSUME Init PROVE IInv
  OBVIOUS
<1>1. /\ topPage = "Status" /\ stack = <<>> /\ focused = NoWidget /\ query = FALSE
      /\ view \in Views("Status") /\ overlay = NoOverlay /\ input = DefaultInput
      /\ inputReturn = NoWidget /\ notes = 0 /\ drawn = FALSE /\ small = FALSE /\ quit = FALSE
      /\ draft = NoMtu /\ daemonMtu \in Mtu /\ cachedMtu = daemonMtu /\ pushes = <<>>
      /\ opener = NoWidget /\ armed = FALSE /\ sent = <<>>
  BY DEF Init
<1>2. current_page = "Status"
  BY <1>1 DEF current_page
<1>3. MtuTyped
  <2>1. <<>> \in Seq(Mtu) /\ Len(<<>>) = 0
    OBVIOUS
  <2>2. QED
    BY <1>1, <2>1, RunLoopAssumption DEF MtuTyped, Mtu
<1>4. PopupsTyped
  BY <1>1 DEF PopupsTyped, NoOverlay, Overlay, InputMode, Focus
<1>5. PageTyped
  BY <1>1, <1>2 DEF PageTyped, TabOf
<1>6. RunLoopTypeOK
  BY <1>1, <1>3, <1>4, <1>5, TypeParts DEF Focus
<1>7. BreadcrumbTellsTheWayBack
  <2>1. "Status" \in DOMAIN TabOf
    BY DEF TabOf
  <2>2. [i \in DOMAIN stack |-> stack[i].page] = <<>>
    BY <1>1
  <2>3. QED
    BY <1>1, <1>2, <2>1, <2>2, Segments DEF BreadcrumbTellsTheWayBack
<1>8. FocusOnFrame /\ ArmedByMove /\ OpenerKept /\ PromptFocusKnown
  BY <1>1 DEF FocusOnFrame, ArmedByMove, OpenerKept, PromptFocusKnown, NoOverlay, DefaultInput,
              is_open
<1>9. QED
  BY <1>6, <1>7, <1>8 DEF IInv

\* The invariant holds throughout.
LEMMA Invariant == Spec => []IInv
<1>1. IInv /\ [Next]_vars => IInv'
  BY StepKeeps
<1>2. QED
  BY <1>1, InitHolds, PTL DEF Spec

\* Type correctness: every field of the App stays in its range, the focus is a
\* widget that exists, the shape shown is one of the current page's, and neither
\* the channel nor the feed outgrows its bound.
THEOREM TypeCorrect == Spec => []RunLoopTypeOK
BY Invariant, PTL DEF IInv

\* Once a frame is drawn the focus is on a widget of that frame, or nowhere: what
\* Enter activates is what the user sees, and set_focus_registry never leaves the
\* focus on a widget of the frame before.
THEOREM FocusLands == Spec => []FocusOnFrame
BY Invariant, PTL DEF IInv

\* The sub-page stack of NavigationState always is the chain of segments that
\* the breadcrumb renderer derives from the page alone, under the highlighted
\* tab, so what Esc and [<] pop is what the user reads.
THEOREM WayBack == Spec => []BreadcrumbTellsTheWayBack
BY Invariant, PTL DEF IInv

\* [Confirm] of a confirm overlay has the focus only after a move inside that
\* overlay, however the overlay came up: set_focus_registry snaps a focus left over
\* from before to ConfirmReject.
THEOREM NeedsAMove == Spec => []ConfirmNeedsAMove
<1>1. IInv => ConfirmNeedsAMove
  BY DEF IInv, ArmedByMove, ConfirmNeedsAMove
<1>2. QED
  BY <1>1, Invariant, PTL

\* The rows around a page's body hold chrome only.
LEMMA ChromeRowsOnly ==
    ASSUME NEW page \in PageId, NEW r \in 1 .. Len(ChromeRows(page))
    PROVE  Only(Chrome, ChromeRows(page)[r])
<1>0. /\ Tabs = {"StatusTab", "AccountTab", "SettingsTab", "LogsTab"}
      /\ \A i \in 1 .. 4 : TabOf[TopLevelPages[i]] \in Tabs
  <2>1. \A i \in 1 .. 4 : i \in {1, 2, 3, 4}
    OBVIOUS
  <2>2. Tabs = {"StatusTab", "AccountTab", "SettingsTab", "LogsTab"}
    BY DEF Tabs, TabOf
  <2>3. QED
    BY <2>1, <2>2 DEF TopLevelPages, TabOf
<1>1. Only(Chrome, Row(<<"WindowClose">>)) /\ Only(Chrome, BreadcrumbRow)
  <2>1. \A w : Len(Row(<<w>>)) = 1 /\ Row(<<w>>)[1].kind = KindOf(w)
    BY DEF Row, Widget
  <2>2. KindOf("WindowClose") = "WindowClose" /\ KindOf("BreadcrumbBack") = "BreadcrumbBack"
    BY <1>0 DEF KindOf, Countries
  <2>3. \A c \in 1 .. 1 : c = 1
    OBVIOUS
  <2>4. QED
    BY <2>1, <2>2, <2>3 DEF Only, Chrome, BreadcrumbRow
<1>2. Only(Chrome, TabRow)
  <2>1. \A w \in Tabs : KindOf(w) = "TabButton"
    BY <1>0 DEF KindOf, Countries
  <2>2. \A i \in 1 .. 4 : KindOf(TabOf[TopLevelPages[i]]) = "TabButton"
    BY <1>0, <2>1
  <2>3. /\ Len(TabRow) = 4
        /\ \A i \in 1 .. 4 : TabRow[i].kind = KindOf(TabOf[TopLevelPages[i]])
    BY DEF TabRow, Row, Widget
  <2>4. QED
    BY <2>2, <2>3 DEF Only, Chrome
<1>3. PICK close, tabs, back :
        close = Row(<<"WindowClose">>) /\ tabs = TabRow /\ back = BreadcrumbRow
  OBVIOUS
<1>4. ChromeRows(page) = <<close, tabs>> \o IF page \in SubPages THEN <<back>> ELSE <<>>
  BY <1>3 DEF ChromeRows
<1>5. CASE page \in SubPages
  <2>1. PICK rows : rows = <<close, tabs>> \o <<back>>
    OBVIOUS
  <2>2. Len(rows) = 3 /\ rows[1] = close /\ rows[2] = tabs /\ rows[3] = back
    BY <2>1
  <2>3. rows = ChromeRows(page)
    BY <1>4, <1>5, <2>1
  <2>4. r = 1 \/ r = 2 \/ r = 3
    <3>1. Len(ChromeRows(page)) = 3
      BY <2>2, <2>3, Zenon
    <3>2. QED
      BY <3>1
  <2>5. QED
    BY <1>1, <1>2, <1>3, <2>2, <2>3, <2>4
<1>6. CASE page \notin SubPages
  <2>1. PICK rows : rows = <<close, tabs>> \o <<>>
    OBVIOUS
  <2>2. Len(rows) = 2 /\ rows[1] = close /\ rows[2] = tabs
    BY <2>1
  <2>3. rows = ChromeRows(page)
    BY <1>4, <1>6, <2>1
  <2>4. r = 1 \/ r = 2
    <3>1. Len(ChromeRows(page)) = 2
      BY <2>2, <2>3, Zenon
    <3>2. QED
      BY <3>1
  <2>5. QED
    BY <1>1, <1>2, <1>3, <2>2, <2>3, <2>4
<1>7. QED
  BY <1>5, <1>6

\* A row of a page with something else on it is one of its body.
LEMMA BodyRow ==
    ASSUME NEW page \in PageId, NEW shape \in Views(page), NEW r, NEW rows,
           rows = PageRegistry[page][shape].rows, r \in 1 .. Len(rows), ~Only(Chrome, rows[r])
    PROVE  \A c \in DOMAIN rows[r] : rows[r][c].id \in BodyIds(page)
<1>1. PICK around : around = ChromeRows(page)
  OBVIOUS
<1>2. PICK body : body = Body(page, shape)
  OBVIOUS
<1>3. around \in Frames(ChromeIds(page)) /\ body \in Frames(BodyIds(page))
  BY <1>1, <1>2, ChromeFrame, BodyFrame
<1>4. rows = around \o body
  BY <1>1, <1>2, PageFrame
<1>5. around \in Frames(PageIds(page)) /\ body \in Frames(PageIds(page))
  BY <1>3, FramesGrow DEF PageIds
<1>6. /\ Len(around) \in Nat /\ Len(body) \in Nat
      /\ Len(rows) = Len(around) + Len(body)
      /\ \A i \in 1 .. Len(around) + Len(body) :
            rows[i] = IF i <= Len(around) THEN around[i] ELSE body[i - Len(around)]
  <2>1. around \in Seq(Seq(Cells(PageIds(page))) \ {<<>>}) /\ body \in Seq(Seq(Cells(PageIds(page))) \ {<<>>})
    BY <1>5 DEF Frames
  <2>2. Len(around) \in Nat /\ Len(body) \in Nat
    BY <2>1
  <2>3. /\ Len(around \o body) = Len(around) + Len(body)
        /\ \A i \in 1 .. Len(around) + Len(body) :
              (around \o body)[i] = IF i <= Len(around) THEN around[i] ELSE body[i - Len(around)]
    BY <2>1, ConcatProperties, Zenon
  <2>4. QED
    BY <1>4, <2>2, <2>3, Zenon
<1>7. r > Len(around)
  <2>1. ASSUME r \in 1 .. Len(around) PROVE FALSE
    <3>1. rows[r] = around[r]
      BY <1>6, <2>1
    <3>2. Only(Chrome, around[r])
      BY <1>1, <2>1, ChromeRowsOnly, Zenon
    <3>3. QED
      BY <3>1, <3>2
  <2>2. QED
    BY <1>6, <2>1
<1>8. r - Len(around) \in 1 .. Len(body) /\ rows[r] = body[r - Len(around)]
  BY <1>6, <1>7
<1>9. body[r - Len(around)] \in Seq(Cells(BodyIds(page)))
  BY <1>3, <1>8 DEF Frames
<1>10. \A cell \in Cells(BodyIds(page)) : cell.id \in BodyIds(page)
  BY DEF Cells
<1>11. QED
  <2> DEFINE S == Cells(BodyIds(page))
  <2>1. rows[r] \in Seq(S) /\ \A cell \in S : cell.id \in BodyIds(page)
    BY <1>8, <1>9, <1>10
  <2> HIDE DEF S
  <2>2. \A c \in DOMAIN rows[r] : rows[r][c] \in S
    BY <2>1
  <2>3. QED
    BY <2>1, <2>2

\* What components.rs claims of the overlay slice holds while the lists of the
\* pages are short: up to 30 rows on Linux, 14 elsewhere, the number of excluded
\* apps at which module WidgetIds still keeps [Remove] below the slice.
THEOREM IdsApart ==
    (ListRows <= 14 \/ (Linux /\ ListRows <= 30)) => (Spec => []OverlayIdsAreApart)
<1> SUFFICES ASSUME Apart PROVE Spec => []OverlayIdsAreApart
  BY DEF Apart
<1>1. RunLoopTypeOK => OverlayIdsAreApart
  <2> SUFFICES ASSUME RunLoopTypeOK, NEW r \in RowNumbers(last_focus_registry), drawn, ~PopupOpen,
                      ~Only(Chrome, last_focus_registry.rows[r]),
                      NEW c \in DOMAIN last_focus_registry.rows[r]
               PROVE  last_focus_registry.rows[r][c].id \notin OverlayIds
    BY DEF OverlayIdsAreApart
  <2>1. ~small
    <3>1. ASSUME small PROVE FALSE
      BY <3>1 DEF last_focus_registry, NothingRegistered, RowNumbers
    <3>2. QED
      BY <3>1
  <2>2. last_focus_registry = PageRegistry[current_page][view]
    BY <2>1 DEF last_focus_registry, PopupOpen
  <2>3. current_page \in PageId /\ view \in Views(current_page)
    BY CurrentPage DEF RunLoopTypeOK
  <2>4. r \in 1 .. Len(last_focus_registry.rows)
    BY DEF RowNumbers
  <2>5. last_focus_registry.rows[r][c].id \in BodyIds(current_page)
    BY <2>2, <2>3, <2>4, BodyRow
  <2>6. QED
    BY <2>3, <2>5, BodiesApart
<1>2. QED
  BY <1>1, TypeCorrect, PTL

\* No step but an event moves a page, closes a popup or takes the focus off
\* the field of a drawn frame.
LEMMA StillSteps ==
    ASSUME IInv, Next, ~UserEvent
    PROVE  /\ UNCHANGED <<topPage, stack, query>> /\ (PopupOpen => PopupOpen')
           /\ drawn => UNCHANGED focused
<1>1. CASE Draw
  BY <1>1 DEF Draw, navVars, PopupOpen
<1>2. CASE DataChanged \/ SettingsChanged \/ SetMtuElsewhere
  BY <1>2 DEF DataChanged, SettingsChanged, SetMtuElsewhere, navVars, PopupOpen
<1>3. CASE ShowNotification
  BY <1>3 DEF ShowNotification, Notification, navVars, PopupOpen
<1>4. CASE Exited
  BY <1>4 DEF Exited, vars, PopupOpen
<1>5. QED
  BY <1>1, <1>2, <1>3, <1>4 DEF Next

\* The keys of a text field, and a resize, move neither page nor popup.
LEMMA KeySteps ==
    ASSUME MtuKey \/ MtuEnter \/ Resize \/ SearchKey
    PROVE  UNCHANGED <<topPage, stack, focused, overlay, input>>
BY DEF MtuKey, MtuEnter, Resize, SearchKey, navVars

\* When the last popup closes, the focus is back on the page widget that the
\* first was opened from, through notifications that replaced or covered it.
THEOREM ReturnToOpener == Spec => PopupsReturnToOpener
<1> DEFINE A == PopupOpen /\ ~PopupOpen' /\ opener # NoWidget => focused' = opener
<1>1. ASSUME IInv, Next PROVE A
  <2>1. CASE ~UserEvent
    BY <1>1, <2>1, StillSteps
  <2>2. ASSUME NEW w \in Focus, NEW n \in Sends, Event(w, n) PROVE A
    BY <1>1, <2>2, PopupsKept DEF Event, HandlerStep, AfterEvent, Handled
  <2>3. CASE MtuKey \/ MtuEnter \/ Resize \/ SearchKey
    BY <2>3, KeySteps DEF PopupOpen
  <2>4. QED
    BY <1>1, <2>1, <2>2, <2>3, UserEvents
<1>2. IInv /\ [Next]_vars => [A]_vars
  BY <1>1
<1>3. QED
  BY <1>2, Invariant, PTL DEF Spec, PopupsReturnToOpener

\* While a popup is on the screen no key and no click moves the page under it or
\* edits its filter: handle_key_event_inner asks only some of its keys whether an
\* overlay is up, the others are kept off by what the frame registers.
THEOREM ShieldsPage == Spec => PopupShieldsPage
<1> DEFINE A == drawn /\ PopupOpen => UNCHANGED <<topPage, stack, query>>
<1>1. ASSUME IInv, Next PROVE A
  <2>1. CASE ~UserEvent
    BY <1>1, <2>1, StillSteps
  <2>2. ASSUME NEW w \in Focus, NEW n \in Sends, Event(w, n) PROVE A
    BY <2>2 DEF Event, HandlerStep, navVars
  <2>3. CASE SearchKey
    <3>1. SUFFICES ASSUME drawn, PopupOpen PROVE FALSE
      OBVIOUS
    <3>2. focused = "SearchAnchor"
      BY <2>3 DEF SearchKey, search_focused
    <3>3. focused \in Ids(last_focus_registry)
      BY <1>1, <3>1, <3>2 DEF IInv, FocusOnFrame, Lands, NoWidget
    <3>4. QED
      BY <1>1, <3>1, <3>2, <3>3, OverPopups DEF IInv
  <2>4. CASE MtuKey \/ MtuEnter \/ Resize
    BY <2>4 DEF MtuKey, MtuEnter, Resize, navVars
  <2>5. QED
    BY <1>1, <2>1, <2>2, <2>3, <2>4, UserEvents
<1>2. IInv /\ [Next]_vars => [A]_vars
  BY <1>1
<1>3. QED
  BY <1>2, Invariant, PTL DEF Spec, PopupShieldsPage

\* An event that takes the focus off a dirty MTU field, by whichever key or
\* click, sends the draft or says why not.
THEOREM FieldCommits == Spec => LeavingTheFieldCommits
<1> DEFINE A == drawn /\ mtu_field_focused /\ ~mtu_field_focused' /\ mtu_field_dirty =>
                  \/ notes' > notes
                  \/ Len(sent') = 1 /\ sent'[1] = draft
<1>1. ASSUME IInv, Next PROVE A
  <2>0. MtuTyped
    BY <1>1, TypeParts DEF IInv
  <2>1. CASE ~UserEvent
    BY <1>1, <2>1, StillSteps DEF mtu_field_focused, current_page
  <2>2. ASSUME NEW n \in Sends, AfterEvent(n) PROVE A
    BY <2>0, <2>2, CommitAnswers
  <2>3. CASE SearchKey
    BY <2>2, <2>3 DEF SearchKey, Sends
  <2>4. CASE MtuKey \/ MtuEnter \/ Resize
    BY <2>4, KeySteps DEF mtu_field_focused, current_page
  <2>5. QED
    BY <1>1, <2>1, <2>2, <2>3, <2>4, UserEvents DEF Event
<1>2. IInv /\ [Next]_vars => [A]_vars
  BY <1>1
<1>3. QED
  BY <1>2, Invariant, PTL DEF Spec, LeavingTheFieldCommits

-----------------------------------------------------------------------------
(* What the navigation keys lead to.                                       *)

\* Where they lead from each widget, as pairs.
Steps(page, reg, shielded) ==
    UNION {{<<v, Target(page, reg, shielded, v, key)>> : key \in NavigationKeys} : v \in Ids(reg)}

\* The widgets that m of the steps lead to: the recursion of Reachable.
Spreads(f, steps, w, m) ==
    f = [n \in 0 .. m |->
           IF n = 0 THEN {w}
           ELSE f[n - 1] \cup {step[2] : step \in {s \in steps : s[1] \in f[n - 1]}}]

\* There is such an f for every m.
LEMMA SpreadExists ==
    ASSUME NEW steps, NEW w, NEW m \in Nat
    PROVE  \E f : Spreads(f, steps, w, m)
<1> DEFINE R == {k \in 0 .. m : \E f : Spreads(f, steps, w, k)}
           more(X) == X \cup {step[2] : step \in {s \in steps : s[1] \in X}}
<1>1. 0 \in R
  <2>1. \A n \in 0 .. 0 : n = 0
    OBVIOUS
  <2>2. Spreads([n \in 0 .. 0 |-> {w}], steps, w, 0)
    BY <2>1 DEF Spreads
  <2>3. QED
    BY <2>2
<1>2. ASSUME NEW k \in 0 .. m - 1, k \in R PROVE k + 1 \in R
  <2>1. PICK f : Spreads(f, steps, w, k)
    BY <1>2
  <2> HIDE DEF R
  <2>2. f = [n \in 0 .. k |-> IF n = 0 THEN {w} ELSE more(f[n - 1])]
    BY <2>1 DEF Spreads
  <2> HIDE DEF more
  <2> DEFINE g == [n \in 0 .. k + 1 |-> IF n = k + 1 THEN more(f[k]) ELSE f[n]]
  <2>3. ASSUME NEW n \in 0 .. k + 1
        PROVE  g[n] = IF n = 0 THEN {w} ELSE more(g[n - 1])
    <3>1. CASE n = k + 1
      <4>1. n # 0 /\ n - 1 = k /\ k \in 0 .. k + 1 /\ k # k + 1
        BY <3>1
      <4>2. g[n] = more(f[k]) /\ g[k] = f[k]
        BY <3>1, <4>1
      <4>3. QED
        BY <4>1, <4>2
    <3>2. CASE n # k + 1
      <4>1. n \in 0 .. k /\ (n # 0 => n - 1 \in 0 .. k + 1 /\ n - 1 # k + 1)
        BY <3>2
      <4>2. g[n] = f[n] /\ (n # 0 => g[n - 1] = f[n - 1])
        BY <4>1, <3>2
      <4>3. f[n] = IF n = 0 THEN {w} ELSE more(f[n - 1])
        BY <2>2, <4>1
      <4>4. QED
        BY <4>1, <4>2, <4>3
    <3>3. QED
      BY <3>1, <3>2
  <2>4. g = [n \in 0 .. k + 1 |-> IF n = 0 THEN {w} ELSE more(g[n - 1])]
    <3>1. PICK h : h = g
      OBVIOUS
    <3>2. /\ h = [n \in 0 .. k + 1 |-> h[n]]
          /\ \A n \in 0 .. k + 1 : h[n] = IF n = 0 THEN {w} ELSE more(h[n - 1])
      BY <2>3, <3>1
    <3>3. h = [n \in 0 .. k + 1 |-> IF n = 0 THEN {w} ELSE more(h[n - 1])]
      BY <3>2
    <3>4. QED
      BY <3>1, <3>3
  <2>5. Spreads(g, steps, w, k + 1)
    BY <2>4 DEF Spreads, more
  <2>6. k + 1 \in 0 .. m
    OBVIOUS
  <2>7. QED
    BY <2>5, <2>6 DEF R
<1>3. 0 .. m \subseteq R
  <2> HIDE DEF R
  <2>1. QED
    BY <1>1, <1>2, StepsReachAll
<1>4. QED
  BY <1>3

\* Of a finite set D the steps within it (and to nowhere) reach, in as many rounds
\* as D has elements, a set that they do not leave.
LEMMA SpreadCloses ==
    ASSUME NEW D, IsFiniteSet(D), NEW nowhere, nowhere \notin D, NEW w \in D,
           NEW steps, \A s \in steps : s[2] \in D \cup {nowhere},
           NEW f, Spreads(f, steps, w, Cardinality(D))
    PROVE  /\ w \in f[Cardinality(D)] /\ f[Cardinality(D)] \subseteq D \cup {nowhere}
           /\ \A s \in steps : s[1] \in f[Cardinality(D)] => s[2] \in f[Cardinality(D)]
<1> DEFINE m == Cardinality(D)
           All == D \cup {nowhere}
           more(X) == X \cup {step[2] : step \in {s \in steps : s[1] \in X}}
<1>1. m \in Nat /\ IsFiniteSet(All) /\ Cardinality(All) = m + 1
  BY FS_CardinalityType, FS_AddElement
<1>2. /\ f[0] = {w}
      /\ \A n \in 1 .. m : f[n] = more(f[n - 1])
  <2>1. f = [n \in 0 .. m |-> IF n = 0 THEN {w} ELSE more(f[n - 1])]
    BY DEF Spreads
  <2> HIDE DEF m, more
  <2>2. 0 \in 0 .. m /\ \A n \in 1 .. m : n \in 0 .. m /\ n # 0
    BY <1>1
  <2>3. QED
    BY <2>1, <2>2
<1>3. ASSUME NEW X, X \subseteq All
      PROVE  /\ X \subseteq more(X) /\ more(X) \subseteq All
             /\ more(X) = X => \A s \in steps : s[1] \in X => s[2] \in X
  <2> HIDE DEF m
  <2>1. \A s \in steps : s[1] \in X => s[2] \in more(X)
    OBVIOUS
  <2>2. QED
    BY <1>3, <2>1
<1> DEFINE Grown(n) == /\ w \in f[n] /\ f[n] \subseteq All
                       /\ more(f[n]) = f[n] \/ Cardinality(f[n]) >= n + 1
           R == {n \in 0 .. m : Grown(n)}
<1> HIDE DEF m, All, more
<1>4. 0 \in R
  <2>1. Cardinality({w}) = 1
    BY FS_Singleton
  <2>2. w \in All
    BY DEF All
  <2>3. Grown(0)
    BY <1>2, <2>1, <2>2
  <2>4. QED
    BY <1>1, <2>3
<1>5. ASSUME NEW n \in 0 .. m - 1, n \in R PROVE n + 1 \in R
  <2>1. n + 1 \in 1 .. m /\ n + 1 \in 0 .. m /\ (n + 1) - 1 = n
    BY <1>1
  <2>2. f[n + 1] = more(f[n])
    BY <1>2, <2>1
  <2>3. f[n] \subseteq All /\ w \in f[n]
    BY <1>5
  <2>4. f[n] \subseteq f[n + 1] /\ f[n + 1] \subseteq All
    BY <1>3, <2>2, <2>3
  <2>5. CASE more(f[n]) = f[n]
    BY <2>1, <2>2, <2>3, <2>5
  <2>6. CASE more(f[n]) # f[n] /\ Cardinality(f[n]) >= n + 1
    <3>1. /\ IsFiniteSet(f[n]) /\ IsFiniteSet(f[n + 1])
          /\ Cardinality(f[n]) \in Nat /\ Cardinality(f[n + 1]) \in Nat
          /\ Cardinality(f[n]) <= Cardinality(f[n + 1])
          /\ Cardinality(f[n]) = Cardinality(f[n + 1]) => f[n] = f[n + 1]
      BY <1>1, <2>3, <2>4, FS_Subset, FS_CardinalityType
    <3>2. Cardinality(f[n + 1]) >= (n + 1) + 1
      BY <2>2, <2>6, <3>1
    <3>3. QED
      BY <2>1, <2>3, <2>4, <3>2
  <2>7. QED
    BY <1>5, <2>5, <2>6
<1>6. m \in R
  <2> HIDE DEF R
  <2>1. 0 .. m \subseteq R
    BY <1>1, <1>4, <1>5, StepsReachAll
  <2>2. QED
    BY <1>1, <2>1
<1>7. w \in f[m] /\ f[m] \subseteq All
  BY <1>6
<1>8. more(f[m]) = f[m]
  <2>1. CASE Cardinality(f[m]) >= m + 1
    <3>1. f[m] = All
      BY <1>1, <1>7, <2>1, FS_Subset, FS_CardinalityType
    <3>2. QED
      BY <1>3, <3>1
  <2>2. QED
    BY <1>6, <2>1
<1>9. \A s \in steps : s[1] \in f[m] => s[2] \in f[m]
  BY <1>3, <1>7, <1>8
<1>10. QED
  BY <1>7, <1>9 DEF m, All

\* A frame has finitely many widgets.
LEMMA IdsAreFinite ==
    ASSUME NEW S, NEW reg, reg.rows \in Frames(S)
    PROVE  IsFiniteSet(Ids(reg))
<1> DEFINE Of(r) == {reg.rows[r][c].id : c \in DOMAIN reg.rows[r]}
           rows == {Of(r) : r \in RowNumbers(reg)}
<1>1. Ids(reg) = UNION rows
  <2>1. ASSUME NEW id \in Ids(reg) PROVE id \in UNION rows
    BY ContainedIds, <2>1 DEF contains, IsAt
  <2>2. ASSUME NEW id \in UNION rows PROVE id \in Ids(reg)
    BY ContainedIds, <2>2 DEF contains, IsAt
  <2>3. QED
    BY <2>1, <2>2
<1>2. ASSUME NEW r \in RowNumbers(reg) PROVE IsFiniteSet(Of(r))
  <2>1. PICK n \in Nat : DOMAIN reg.rows[r] = 1 .. n
    BY RowOfFrame
  <2>2. IsFiniteSet(1 .. n)
    BY FS_Interval
  <2>3. PICK row : row = [c \in 1 .. n |-> reg.rows[r][c].id]
    OBVIOUS
  <2>4. IsFiniteSet({row[c] : c \in 1 .. n})
    BY <2>2, <2>3, ImageIsFinite
  <2>5. {row[c] : c \in 1 .. n} = Of(r)
    BY <2>1, <2>3
  <2>6. QED
    BY <2>4, <2>5
<1>3. IsFiniteSet(rows)
  <2> HIDE DEF Of
  <2>1. Len(reg.rows) \in Nat
    BY DEF Frames
  <2>2. IsFiniteSet(RowNumbers(reg))
    BY <2>1, FS_Interval DEF RowNumbers
  <2>3. PICK f : f = [r \in RowNumbers(reg) |-> Of(r)]
    OBVIOUS
  <2>4. IsFiniteSet({f[r] : r \in RowNumbers(reg)})
    BY <2>2, <2>3, ImageIsFinite
  <2>5. {f[r] : r \in RowNumbers(reg)} = rows
    BY <2>3
  <2>6. QED
    BY <2>4, <2>5
<1>4. \A T \in rows : IsFiniteSet(T)
  BY <1>2
<1> HIDE DEF rows
<1>5. QED
  BY <1>1, <1>3, <1>4, FS_UNION

\* The tab that prefer_active_tab lands on is on the frame whenever a tab is.
TabsShown(page, reg) == active_tab(page) \in Ids(reg) \/ Tabs \cap Ids(reg) = {}

\* No key leads out of C.
Closed(page, reg, shielded, C) ==
    \A v \in C \cap Ids(reg) : \A key \in NavigationKeys :
        Target(page, reg, shielded, v, key) \in C \cup {NoWidget}

\* A navigation key leads to a widget of the frame, or nowhere.
LEMMA TargetLands ==
    ASSUME NEW S, NEW reg, reg.rows \in Frames(S), Grouped(reg), NEW page, NEW shielded,
           TabsShown(page, reg), NEW w, NEW key \in NavigationKeys
    PROVE  Target(page, reg, shielded, w, key) \in Lands(reg)
<1>1. \A v \in Lands(reg) : prefer_active_tab(page, v) \in Lands(reg)
  <2>1. NoWidget \notin Tabs
    BY DEF Tabs, TabOf, NoWidget
  <2>2. QED
    BY <2>1 DEF prefer_active_tab, TabsShown, Lands
<1>2. key \in Arrows => navigate(reg, w, key) \in Lands(reg)
  BY NavigateLands
<1>3. Home(reg, w) \in Lands(reg) /\ End(reg, w) \in Lands(reg)
  BY HomeEndLand
<1>4. /\ move_rows(reg, w, 0 - PAGE_STEP_ROWS) \in Lands(reg)
      /\ move_rows(reg, w, PAGE_STEP_ROWS) \in Lands(reg)
  <2>1. PAGE_STEP_ROWS \in Int /\ 0 - PAGE_STEP_ROWS \in Int
    BY RunLoopAssumption
  <2>2. QED
    BY <2>1, MoveRowsLands
<1>5. cycle_pane(reg, w, TRUE) \in Lands(reg) /\ cycle_pane(reg, w, FALSE) \in Lands(reg)
  BY CyclePaneLands
<1>6. NoWidget \in Lands(reg)
  BY DEF Lands
<1>7. QED
  BY <1>1, <1>2, <1>3, <1>4, <1>5, <1>6 DEF Target, NavigationKeys, Arrows

\* Reachable is what its name says: a set with the widget in it that the keys do
\* not lead out of.
LEMMA ReachableCloses ==
    ASSUME NEW S, NoWidget \notin S, NEW reg, reg.rows \in Frames(S), Grouped(reg),
           NEW page, NEW shielded, TabsShown(page, reg), NEW w \in Ids(reg)
    PROVE  \E C : /\ Reachable(page, reg, shielded, w) = C \ {NoWidget}
                  /\ w \in C /\ Closed(page, reg, shielded, C)
<1> DEFINE D == Ids(reg)
           steps == Steps(page, reg, shielded)
           m == Cardinality(D)
           f == CHOOSE g : Spreads(g, steps, w, m)
<1>1. IsFiniteSet(D) /\ m \in Nat /\ NoWidget \notin D
  BY IdsAreFinite, IdsOfFrame, FS_CardinalityType
<1>2. Spreads(f, steps, w, m)
  <2> HIDE DEF m, steps
  <2> QED
    BY <1>1, SpreadExists
<1>3. Reachable(page, reg, shielded, w) = f[m] \ {NoWidget}
  BY DEF Reachable, Spreads, Steps
<1>4. \A v \in D : \A key \in NavigationKeys : <<v, Target(page, reg, shielded, v, key)>> \in steps
  BY DEF Steps
<1>5. \A s \in steps : s[2] \in D \cup {NoWidget}
  <2>1. ASSUME NEW s \in steps PROVE s[2] \in D \cup {NoWidget}
    <3>1. PICK v \in D : s \in {<<v, Target(page, reg, shielded, v, key)>> : key \in NavigationKeys}
      BY DEF Steps
    <3>2. PICK key \in NavigationKeys : s = <<v, Target(page, reg, shielded, v, key)>>
      BY <3>1
    <3>3. Target(page, reg, shielded, v, key) \in Lands(reg)
      BY TargetLands
    <3>4. QED
      BY <3>2, <3>3 DEF Lands
  <2>2. QED
    BY <2>1
<1> HIDE DEF steps, f
<1>6. /\ w \in f[m]
      /\ \A s \in steps : s[1] \in f[m] => s[2] \in f[m]
  <2> HIDE DEF D
  <2>1. w \in D
    BY DEF D
  <2>2. QED
    BY <1>1, <1>2, <1>5, <2>1, SpreadCloses
<1>7. Closed(page, reg, shielded, f[m])
  <2> HIDE DEF m
  <2>1. ASSUME NEW v \in f[m] \cap D, NEW key \in NavigationKeys
        PROVE  Target(page, reg, shielded, v, key) \in f[m]
    <3>1. PICK t : t = Target(page, reg, shielded, v, key)
      OBVIOUS
    <3>2. <<v, t>> \in steps
      BY <1>4, <3>1, Zenon
    <3>3. PICK s \in steps : s[1] = v /\ s[2] = t
      BY <3>2
    <3>4. QED
      BY <1>6, <2>1, <3>1, <3>3
  <2>2. QED
    BY <2>1, Zenon DEF Closed
<1>8. QED
  BY <1>3, <1>6, <1>7

-----------------------------------------------------------------------------
(* A frame whose widgets are all different is swept by the arrows.         *)

\* No widget is registered twice.
Distinct(rows) ==
    \A r \in 1 .. Len(rows) : \A q \in 1 .. Len(rows) :
      \A c \in DOMAIN rows[r] : \A d \in DOMAIN rows[q] :
        rows[r][c].id = rows[q][d].id => r = q /\ c = d

\* Where a widget of such a frame is.
LEMMA PositionIs ==
    ASSUME NEW S, NEW reg, reg.rows \in Frames(S), Distinct(reg.rows),
           NEW r \in RowNumbers(reg), NEW c \in DOMAIN reg.rows[r]
    PROVE  /\ contains(reg, reg.rows[r][c].id)
           /\ position(reg, reg.rows[r][c].id) = <<r, c>>
<1> DEFINE id == reg.rows[r][c].id
<1>1. \A q \in RowNumbers(reg) : \A d \in DOMAIN reg.rows[q] :
          IsAt(reg, id, q, d) => q = r /\ d = c
  BY Zenon DEF IsAt, Distinct, RowNumbers
<1>2. IsAt(reg, id, r, c)
  BY DEF IsAt
<1> HIDE DEF id
<1>3. {q \in RowNumbers(reg) : \E d \in DOMAIN reg.rows[q] : IsAt(reg, id, q, d)} = {r}
  BY <1>1, <1>2
<1>4. {d \in DOMAIN reg.rows[r] : IsAt(reg, id, r, d)} = {c}
  BY <1>1, <1>2
<1>5. Lowest({r}) = r /\ Lowest({c}) = c
  <2>1. r \in Nat /\ c \in Nat
    <3>1. r \in Nat
      BY RowOfFrame
    <3>2. PICK n \in Nat : DOMAIN reg.rows[r] = 1 .. n
      BY RowOfFrame
    <3>3. QED
      BY <3>1, <3>2
  <2>2. \A k \in Nat : Lowest({k}) \in {k}
    BY LowestOf
  <2>3. QED
    BY <2>1, <2>2
<1>6. position(reg, id) = <<r, c>>
  BY <1>3, <1>4, <1>5, Zenon DEF position
<1>7. contains(reg, id)
  BY <1>2, Zenon DEF contains
<1>8. QED
  BY <1>6, <1>7 DEF id

\* The place where a part of N meets the rest.
Meeting(N, R, Part) ==
    \E c \in Part : \E d \in N \ Part :
       /\ <<c, d>> \in R
       /\ \A e \in N : <<c, e>> \in R => e = d \/ <<d, e>> \in R

\* Between a part of a finite, strictly ordered set and the rest, when some of the
\* part comes before some of the rest, there is a place where they meet.
LEMMA PartMeetsRest ==
    ASSUME NEW N, IsFiniteSet(N), NEW R,
           \A c \in N : <<c, c>> \notin R,
           \A c, d, e \in N : <<c, d>> \in R /\ <<d, e>> \in R => <<c, e>> \in R,
           \A c, d \in N : c # d => <<c, d>> \in R \/ <<d, c>> \in R,
           NEW Part \in SUBSET N, NEW c0 \in Part, NEW d0 \in N \ Part, <<c0, d0>> \in R
    PROVE  Meeting(N, R, Part)
<1> DEFINE D == {d \in N \ Part : <<c0, d>> \in R}
<1>1. PICK d \in D : \A e \in D \ {d} : <<d, e>> \in R
  <2>1. D \subseteq N /\ D # {}
    OBVIOUS
  <2> HIDE DEF D
  <2>2. IsFiniteSet(D)
    BY <2>1, FS_Subset
  <2>3. /\ \A x \in D : <<x, x>> \notin R
        /\ \A x, y, z \in D : <<x, y>> \in R /\ <<y, z>> \in R => <<x, z>> \in R
        /\ \A x, y \in D : x # y => <<x, y>> \in R \/ <<y, x>> \in R
    BY <2>1, Zenon
  <2>4. QED
    BY <2>1, <2>2, <2>3, FirstOfOrder
<1> DEFINE C == {c \in Part : <<c, d>> \in R}
           Back == {p \in C \X C : <<p[2], p[1]>> \in R}
<1>2. d \in N \ Part /\ <<c0, d>> \in R
  OBVIOUS
<1>3. PICK c \in C : \A e \in C \ {c} : <<e, c>> \in R
  <2>1. C \subseteq N /\ C # {}
    BY <1>2
  <2>2. \A x \in C : \A y \in C : <<x, y>> \in Back <=> <<y, x>> \in R
    <3> HIDE DEF C
    <3> QED
      OBVIOUS
  <2> HIDE DEF C, Back, D
  <2>3. IsFiniteSet(C)
    BY <2>1, FS_Subset
  <2>4. /\ \A x \in C : <<x, x>> \notin Back
        /\ \A x, y, z \in C : <<x, y>> \in Back /\ <<y, z>> \in Back => <<x, z>> \in Back
        /\ \A x, y \in C : x # y => <<x, y>> \in Back \/ <<y, x>> \in Back
    BY <2>1, <2>2, Zenon
  <2>5. \E x \in C : \A y \in C \ {x} : <<x, y>> \in Back
    BY <2>1, <2>3, <2>4, FirstOfOrder
  <2>6. QED
    BY <2>2, <2>5, Zenon
<1>4. c \in Part /\ c \in N /\ <<c, d>> \in R
  OBVIOUS
<1>5. ASSUME NEW e \in N, <<c, e>> \in R, e # d, <<d, e>> \notin R PROVE FALSE
  <2>1. <<e, d>> \in R
    BY <1>2, <1>5, Zenon
  <2>2. CASE e \in Part
    <3>1. e \in C \ {c}
      BY <1>4, <1>5, <2>1, <2>2
    <3>2. <<e, c>> \in R
      BY <1>3, <3>1
    <3> HIDE DEF C, D
    <3>3. QED
      BY <1>4, <1>5, <3>2, Zenon
  <2>3. CASE e \notin Part
    <3>1. <<c0, e>> \in R
      <4>1. CASE c0 = c
        BY <1>5, <4>1
      <4>2. CASE c0 # c
        <5>1. <<c0, c>> \in R
          BY <1>2, <1>3, <4>2
        <5> HIDE DEF C, D
        <5>2. QED
          BY <1>4, <1>5, <5>1, Zenon
      <4>3. QED
        BY <4>1, <4>2
    <3>2. e \in D \ {d}
      BY <1>5, <2>3, <3>1
    <3>3. QED
      BY <1>1, <1>5, <3>2
  <2>4. QED
    BY <2>2, <2>3
<1> HIDE DEF C, D
<1>6. QED
  BY <1>2, <1>4, <1>5, Zenon DEF Meeting

\* What Right, or Left, looks for from column c of a row.
Beyond(row, c, right, d) == IF right THEN LeftOf(row, c, d) ELSE LeftOf(row, d, c)

\* The columns are in a strict order, as they are drawn.
LEMMA BeyondOrders ==
    ASSUME NEW S, NEW row \in Seq(Cells(S)), NEW right \in BOOLEAN
    PROVE  /\ \A c \in 1 .. Len(row) : ~Beyond(row, c, right, c)
           /\ \A c, d, e \in 1 .. Len(row) :
                 Beyond(row, c, right, d) /\ Beyond(row, d, right, e) => Beyond(row, c, right, e)
           /\ \A c, d \in 1 .. Len(row) :
                 c # d => Beyond(row, c, right, d) \/ Beyond(row, d, right, c)
<1>1. \A c \in 1 .. Len(row) : row[c].x \in Nat /\ c \in Nat
  <2>1. \A c \in 1 .. Len(row) : row[c] \in Cells(S)
    OBVIOUS
  <2>2. QED
    BY <2>1 DEF Cells
<1>2. PICK x : \A c \in 1 .. Len(row) : x[c] = row[c].x /\ x[c] \in Nat
  <2>1. \A c \in 1 .. Len(row) : [k \in 1 .. Len(row) |-> row[k].x][c] = row[c].x
    OBVIOUS
  <2>2. QED
    BY <1>1, <2>1
<1>3. ASSUME NEW c \in 1 .. Len(row), NEW d \in 1 .. Len(row)
      PROVE  LeftOf(row, c, d) <=> x[c] < x[d] \/ (x[c] = x[d] /\ c < d)
  BY <1>2 DEF LeftOf
<1>4. PICK n \in Nat : n = Len(row)
  OBVIOUS
<1>5. \A c, d \in 1 .. n : LeftOf(row, c, d) <=> x[c] < x[d] \/ (x[c] = x[d] /\ c < d)
  BY <1>3, <1>4, Zenon
<1>6. \A c \in 1 .. n : x[c] \in Nat
  BY <1>2, <1>4
<1>7. \A c \in 1 .. n : ~LeftOf(row, c, c)
  BY <1>5, <1>6
<1>8. \A c, d, e \in 1 .. n : LeftOf(row, c, d) /\ LeftOf(row, d, e) => LeftOf(row, c, e)
  BY <1>5, <1>6
<1>9. \A c, d \in 1 .. n : c # d => LeftOf(row, c, d) \/ LeftOf(row, d, c)
  BY <1>5, <1>6
<1>10. QED
  BY <1>4, <1>7, <1>8, <1>9, Zenon DEF Beyond

\* The next column is where Right, or Left, leads.
LEMMA NeighborIs ==
    ASSUME NEW S, NEW row \in Seq(Cells(S)), NEW right \in BOOLEAN,
           NEW c \in 1 .. Len(row), NEW d \in 1 .. Len(row), Beyond(row, c, right, d),
           \A e \in 1 .. Len(row) : Beyond(row, c, right, e) => e = d \/ Beyond(row, d, right, e)
    PROVE  horizontal_neighbor(row, c, right) = row[d].id
<1> DEFINE beyond == {e \in 1 .. Len(row) :
                        IF right THEN LeftOf(row, c, e) ELSE LeftOf(row, e, c)}
           nearest(b) == \A e \in beyond \ {b} :
                           IF right THEN LeftOf(row, b, e) ELSE LeftOf(row, e, b)
<1>1. \A e : e \in beyond <=> e \in 1 .. Len(row) /\ Beyond(row, c, right, e)
  BY DEF Beyond
<1>2. \A b : nearest(b) <=> \A e \in beyond \ {b} : Beyond(row, b, right, e)
  BY DEF Beyond
<1>3. d \in beyond
  BY <1>1
<1>4. horizontal_neighbor(row, c, right) = row[CHOOSE b \in beyond : nearest(b)].id
  BY <1>3 DEF horizontal_neighbor
<1> HIDE DEF beyond, nearest
<1>5. nearest(d)
  BY <1>1, <1>2, Zenon
<1>6. ASSUME NEW b \in beyond, nearest(b) PROVE b = d
  <2>1. SUFFICES ASSUME b # d PROVE FALSE
    OBVIOUS
  <2>2. Beyond(row, b, right, d) /\ Beyond(row, d, right, b)
    BY <1>1, <1>2, <1>3, <1>5, <1>6, <2>1
  <2>3. b \in 1 .. Len(row)
    BY <1>1
  <2>4. QED
    BY <2>2, <2>3, BeyondOrders, Zenon
<1>7. (CHOOSE b \in beyond : nearest(b)) = d
  BY <1>3, <1>5, <1>6
<1>8. QED
  BY <1>4, <1>7

\* Of Left and Right none leads out of C: a row with a widget of C is in C.
LEMMA RowOfColumns ==
    ASSUME NEW S, NEW row \in Seq(Cells(S)), NoWidget \notin S,
           \A c \in 1 .. Len(row) : \A d \in 1 .. Len(row) : row[c].id = row[d].id => c = d,
           NEW C, NEW c0 \in 1 .. Len(row), row[c0].id \in C,
           \A c \in 1 .. Len(row) : \A right \in BOOLEAN :
              row[c].id \in C => horizontal_neighbor(row, c, right) \in C \cup {NoWidget}
    PROVE  \A d \in 1 .. Len(row) : row[d].id \in C
<1> DEFINE N == 1 .. Len(row)
           Part == {c \in N : row[c].id \in C}
<1>1. SUFFICES ASSUME NEW d0 \in N, d0 \notin Part PROVE FALSE
  OBVIOUS
<1>2. PICK right \in BOOLEAN : Beyond(row, c0, right, d0)
  <2>1. c0 # d0
    BY <1>1
  <2>2. Beyond(row, c0, TRUE, d0) \/ Beyond(row, d0, TRUE, c0)
    BY <2>1, BeyondOrders
  <2>3. Beyond(row, d0, TRUE, c0) => Beyond(row, c0, FALSE, d0)
    BY DEF Beyond
  <2>4. QED
    BY <2>2, <2>3
<1> DEFINE R == {p \in N \X N : Beyond(row, p[1], right, p[2])}
<1>3. \A c \in N : \A d \in N : <<c, d>> \in R <=> Beyond(row, c, right, d)
  <2> HIDE DEF N
  <2> QED
    OBVIOUS
<1>4. IsFiniteSet(N) /\ c0 \in Part /\ d0 \in N \ Part /\ Part \in SUBSET N
  BY <1>1, FS_Interval
<1>5. /\ \A c \in N : <<c, c>> \notin R
      /\ \A c, d, e \in N : <<c, d>> \in R /\ <<d, e>> \in R => <<c, e>> \in R
      /\ \A c, d \in N : c # d => <<c, d>> \in R \/ <<d, c>> \in R
  <2>1. /\ \A c \in N : ~Beyond(row, c, right, c)
        /\ \A c, d, e \in N :
              Beyond(row, c, right, d) /\ Beyond(row, d, right, e) => Beyond(row, c, right, e)
        /\ \A c, d \in N : c # d => Beyond(row, c, right, d) \/ Beyond(row, d, right, c)
    BY BeyondOrders
  <2> HIDE DEF N, R
  <2>2. QED
    BY <1>3, <2>1, Zenon
<1>6. PICK c \in Part : \E d \in N \ Part :
              /\ <<c, d>> \in R
              /\ \A e \in N : <<c, e>> \in R => e = d \/ <<d, e>> \in R
  <2>1. <<c0, d0>> \in R
    BY <1>2, <1>3, <1>4, Zenon
  <2> HIDE DEF N, Part, R
  <2>2. Meeting(N, R, Part)
    BY <1>4, <1>5, <2>1, PartMeetsRest
  <2>3. QED
    BY <2>2, Zenon DEF Meeting
<1>7. PICK d \in N \ Part :
              /\ <<c, d>> \in R
              /\ \A e \in N : <<c, e>> \in R => e = d \/ <<d, e>> \in R
  BY <1>6
<1>8. c \in N /\ d \in N /\ row[c].id \in C /\ row[d].id \notin C
  BY <1>7
<1>9. horizontal_neighbor(row, c, right) = row[d].id
  <2>1. Beyond(row, c, right, d)
    BY <1>3, <1>7, <1>8, Zenon
  <2>2. \A e \in N : Beyond(row, c, right, e) => e = d \/ Beyond(row, d, right, e)
    BY <1>3, <1>7, <1>8, Zenon
  <2>3. QED
    BY <1>8, <2>1, <2>2, NeighborIs
<1>10. row[d].id # NoWidget
  <2>1. row[d] \in Cells(S)
    BY <1>8
  <2>2. QED
    BY <2>1 DEF Cells
<1>11. QED
  BY <1>8, <1>9, <1>10

\* A country has its row to itself.
Narrow(rows) ==
    \A r \in 1 .. Len(rows) : \A c \in DOMAIN rows[r] :
        rows[r][c].id \in Countries => Len(rows[r]) = 1

\* A row with a widget of C is in C, if no key leads out of it.
LEMMA RowSwept ==
    ASSUME NEW S, NoWidget \notin S, NEW reg, reg.rows \in Frames(S),
           Distinct(reg.rows), Narrow(reg.rows), NEW page, NEW shielded,
           NEW C, Closed(page, reg, shielded, C),
           NEW r \in RowNumbers(reg), NEW c0 \in DOMAIN reg.rows[r], reg.rows[r][c0].id \in C
    PROVE  \A d \in DOMAIN reg.rows[r] : reg.rows[r][d].id \in C
<1>1. PICK row \in Seq(Cells(S)) : row = reg.rows[r]
  BY RowOfFrame
<1>2. DOMAIN row = 1 .. Len(row) /\ Len(row) \in Nat /\ r \in 1 .. Len(reg.rows)
  BY DEF RowNumbers
<1>3. CASE Len(row) = 1
  <2>1. \A d \in 1 .. Len(row) : d = 1
    BY <1>3
  <2>2. QED
    BY <1>1, <1>2, <2>1
<1>4. CASE Len(row) # 1
  <2>1. \A c \in 1 .. Len(row) : row[c].id \notin Countries
    BY <1>1, <1>2, <1>4 DEF Narrow
  <2>2. ASSUME NEW c \in 1 .. Len(row), NEW right \in BOOLEAN, row[c].id \in C
        PROVE  horizontal_neighbor(row, c, right) \in C \cup {NoWidget}
    <3>1. PICK key \in {"Left", "Right"} : right = (key = "Right")
      OBVIOUS
    <3>2. PICK id : id = row[c].id
      OBVIOUS
    <3>3. contains(reg, id) /\ position(reg, id) = <<r, c>> /\ id \in Ids(reg)
      BY <1>1, <1>2, <3>2, PositionIs, CellOfFrame
    <3>4. navigate(reg, id, key) = horizontal_neighbor(row, c, right)
      BY <1>1, <3>1, <3>3 DEF navigate
    <3>5. Target(page, reg, shielded, id, key) = navigate(reg, id, key)
      BY <2>1, <3>1, <3>2 DEF Target
    <3>6. Target(page, reg, shielded, id, key) \in C \cup {NoWidget}
      BY <2>2, <3>1, <3>2, <3>3 DEF Closed, NavigationKeys, Arrows
    <3>7. QED
      BY <3>4, <3>5, <3>6
  <2>3. \A c \in 1 .. Len(row) : \A d \in 1 .. Len(row) : row[c].id = row[d].id => c = d
    BY <1>1, <1>2 DEF Distinct
  <2>4. \A d \in 1 .. Len(row) : row[d].id \in C
    BY <1>1, <1>2, <2>2, <2>3, RowOfColumns
  <2>5. QED
    BY <1>1, <1>2, <2>4
<1>5. QED
  BY <1>3, <1>4

\* The tabs share a row with that of the page.
TabsTogether(page, rows) ==
    \A r \in 1 .. Len(rows) : \A c \in DOMAIN rows[r] :
        rows[r][c].id \in Tabs =>
          \E d \in DOMAIN rows[r] : rows[r][d].id = active_tab(page)

\* Row r has a widget of C.
Meets(rows, C, r) == \E c \in DOMAIN rows[r] : rows[r][c].id \in C

\* So has the row above it, and the one below, if no key leads out of C.
LEMMA NextRowMet ==
    ASSUME NEW S, NoWidget \notin S, NEW reg, reg.rows \in Frames(S),
           Distinct(reg.rows), NEW page, page # "Logs", TabsTogether(page, reg.rows), NEW shielded,
           NEW C, Closed(page, reg, shielded, C),
           NEW r \in RowNumbers(reg), NEW q \in RowNumbers(reg), q = r - 1 \/ q = r + 1,
           Meets(reg.rows, C, r)
    PROVE  Meets(reg.rows, C, q)
<1>1. PICK c \in DOMAIN reg.rows[r] : reg.rows[r][c].id \in C
  BY DEF Meets
<1>2. PICK id : id = reg.rows[r][c].id
  OBVIOUS
<1>3. contains(reg, id) /\ position(reg, id) = <<r, c>> /\ id \in Ids(reg) /\ id \in C
  BY <1>1, <1>2, PositionIs, CellOfFrame
<1>4. c \in Nat \ {0}
  <2>1. PICK n \in Nat : DOMAIN reg.rows[r] = 1 .. n
    BY RowOfFrame
  <2>2. QED
    BY <2>1
<1>5. PICK key \in {"Up", "Down"} : q = IF key = "Up" THEN r - 1 ELSE r + 1
  OBVIOUS
<1>6. PICK n \in Nat \ {0} : n = Len(reg.rows[q]) /\ DOMAIN reg.rows[q] = 1 .. n
  BY RowOfFrame
<1>7. PICK d \in DOMAIN reg.rows[q] : Snap(reg, q, c) = reg.rows[q][d].id
  <2>1. Smaller(c, n) \in 1 .. n
    BY <1>4 DEF Smaller
  <2>2. QED
    BY <1>6, <2>1 DEF Snap
<1>8. navigate(reg, id, key) = reg.rows[q][d].id
  <2>1. key \notin {"Left", "Right"}
    OBVIOUS
  <2>2. navigate(reg, id, key) = Snap(reg, q, c)
    BY <1>3, <1>5, <2>1 DEF navigate
  <2>3. QED
    BY <1>7, <2>2
<1>9. PICK e \in DOMAIN reg.rows[q] :
         prefer_active_tab(page, reg.rows[q][d].id) = reg.rows[q][e].id
  <2>1. CASE reg.rows[q][d].id \in Tabs
    <3>1. q \in 1 .. Len(reg.rows)
      BY DEF RowNumbers
    <3>2. PICK e \in DOMAIN reg.rows[q] : reg.rows[q][e].id = active_tab(page)
      BY <2>1, <3>1, Zenon DEF TabsTogether
    <3>3. QED
      BY <2>1, <3>2 DEF prefer_active_tab
  <2>2. CASE reg.rows[q][d].id \notin Tabs
    BY <2>2 DEF prefer_active_tab
  <2>3. QED
    BY <2>1, <2>2
<1>10. Target(page, reg, shielded, id, key) = reg.rows[q][e].id
  BY <1>8, <1>9 DEF Target
<1>11. reg.rows[q][e].id \in C
  <2>1. Target(page, reg, shielded, id, key) \in C \cup {NoWidget}
    BY <1>3 DEF Closed, NavigationKeys, Arrows
  <2>2. reg.rows[q][e].id # NoWidget
    BY CellOfFrame, IdsOfFrame
  <2>3. QED
    BY <1>10, <2>1, <2>2
<1>12. QED
  BY <1>11 DEF Meets

\* From one row to all of them.
LEMMA RowsMet ==
    ASSUME NEW rows, NEW n \in Nat, n = Len(rows), NEW C, NEW r \in 1 .. n, Meets(rows, C, r),
           \A p \in 1 .. n : \A q \in 1 .. n :
              (q = p - 1 \/ q = p + 1) /\ Meets(rows, C, p) => Meets(rows, C, q)
    PROVE  \A q \in 1 .. n : Meets(rows, C, q)
<1> DEFINE Down == {k \in 0 .. n - r : Meets(rows, C, r + k)}
           Up == {k \in 0 .. r - 1 : Meets(rows, C, r - k)}
<1>1. 0 .. n - r \subseteq Down
  <2>1. 0 \in Down
    OBVIOUS
  <2>2. ASSUME NEW k \in 0 .. (n - r) - 1, k \in Down PROVE k + 1 \in Down
    <3>1. r + k \in 1 .. n /\ r + (k + 1) \in 1 .. n /\ r + (k + 1) = (r + k) + 1
          /\ k + 1 \in 0 .. n - r
      OBVIOUS
    <3>2. Meets(rows, C, r + k)
      BY <2>2
    <3>3. Meets(rows, C, r + (k + 1))
      BY <3>1, <3>2
    <3>4. QED
      BY <3>1, <3>3
  <2> HIDE DEF Down
  <2>3. PICK m \in Nat : m = n - r
    <3>1. n - r \in Nat
      OBVIOUS
    <3>2. QED
      BY <3>1, Zenon
  <2>4. \A k \in 0 .. m - 1 : k \in Down => k + 1 \in Down
    BY <2>2, <2>3
  <2>5. 0 .. m \subseteq Down
    BY <2>1, <2>4, StepsReachAll
  <2>6. QED
    BY <2>3, <2>5
<1>2. 0 .. r - 1 \subseteq Up
  <2>1. 0 \in Up
    OBVIOUS
  <2>2. ASSUME NEW k \in 0 .. (r - 1) - 1, k \in Up PROVE k + 1 \in Up
    <3>1. r - k \in 1 .. n /\ r - (k + 1) \in 1 .. n /\ r - (k + 1) = (r - k) - 1
          /\ k + 1 \in 0 .. r - 1
      OBVIOUS
    <3>2. Meets(rows, C, r - k)
      BY <2>2
    <3>3. Meets(rows, C, r - (k + 1))
      BY <3>1, <3>2
    <3>4. QED
      BY <3>1, <3>3
  <2> HIDE DEF Up
  <2>3. QED
    BY <2>1, <2>2, StepsReachAll
<1>3. ASSUME NEW q \in 1 .. n PROVE Meets(rows, C, q)
  <2>1. CASE q >= r
    <3>1. q - r \in 0 .. n - r /\ r + (q - r) = q
      BY <2>1
    <3>2. QED
      BY <1>1, <3>1
  <2>2. CASE q < r
    <3>1. r - q \in 0 .. r - 1 /\ r - (r - q) = q
      BY <2>2
    <3>2. QED
      BY <1>2, <3>1
  <2>3. QED
    BY <2>1, <2>2
<1>4. QED
  BY <1>3

\* So where the arrows move freely, they lead from each widget to every other.
LEMMA FrameSwept ==
    ASSUME NEW S, NoWidget \notin S, NEW reg, reg.rows \in Frames(S), Grouped(reg),
           Distinct(reg.rows), Narrow(reg.rows),
           NEW page, TabsTogether(page, reg.rows), TabsShown(page, reg), NEW shielded,
           page # "Logs" \/ Len(reg.rows) = 1, NEW w \in Ids(reg)
    PROVE  Ids(reg) \subseteq Reachable(page, reg, shielded, w)
<1>1. PICK C : /\ Reachable(page, reg, shielded, w) = C \ {NoWidget}
               /\ w \in C /\ Closed(page, reg, shielded, C)
  BY ReachableCloses
<1>2. PICK n \in Nat : n = Len(reg.rows) /\ RowNumbers(reg) = 1 .. n
  BY DEF Frames, RowNumbers
<1>3. PICK r \in 1 .. n : Meets(reg.rows, C, r)
  <2>1. contains(reg, w)
    BY ContainedIds
  <2>2. QED
    BY <1>1, <1>2, <2>1 DEF contains, IsAt, Meets
<1>4. \A q \in 1 .. n : Meets(reg.rows, C, q)
  <2>1. CASE n = 1
    BY <1>3, <2>1
  <2>2. CASE page # "Logs"
    <3>1. ASSUME NEW p \in 1 .. n, NEW q \in 1 .. n, q = p - 1 \/ q = p + 1, Meets(reg.rows, C, p)
          PROVE  Meets(reg.rows, C, q)
      BY <1>1, <1>2, <2>2, <3>1, NextRowMet
    <3>2. QED
      BY <1>2, <1>3, <3>1, RowsMet
  <2>3. QED
    BY <1>2, <2>1, <2>2
<1>5. ASSUME NEW id \in Ids(reg) PROVE id \in C /\ id # NoWidget
  <2>1. PICK q \in RowNumbers(reg) : \E d \in DOMAIN reg.rows[q] : IsAt(reg, id, q, d)
    BY ContainedIds DEF contains
  <2>2. PICK c \in DOMAIN reg.rows[q] : reg.rows[q][c].id \in C
    BY <1>2, <1>4, <2>1 DEF Meets
  <2>3. \A d \in DOMAIN reg.rows[q] : reg.rows[q][d].id \in C
    BY <1>1, <2>2, RowSwept
  <2>4. id \in C
    BY <2>1, <2>3 DEF IsAt
  <2>5. QED
    BY <2>4, IdsOfFrame
<1>6. QED
  BY <1>1, <1>5

-----------------------------------------------------------------------------
(* No page registers a widget twice.                                       *)

\* Rows of widgets out of S, none of them twice.
Sole(S, rows) == rows \in Frames(S) /\ Distinct(rows)

\* The widget of a cell is one of S.
LEMMA CellIn ==
    ASSUME NEW S, NEW rows \in Frames(S), NEW r \in 1 .. Len(rows), NEW c \in DOMAIN rows[r]
    PROVE  rows[r][c].id \in S
<1>1. PICK row \in Seq(Cells(S)) : row = rows[r]
  BY DEF Frames
<1>2. c \in DOMAIN row
  BY <1>1
<1>3. row[c] \in Cells(S)
  BY <1>2
<1>4. QED
  BY <1>1, <1>3 DEF Cells

\* Rows of different widgets, one above the other.
LEMMA SoleJoin ==
    ASSUME NEW S, NEW T, S \cap T = {}, NEW above, Sole(S, above), NEW below, Sole(T, below)
    PROVE  Sole(S \cup T, above \o below)
<1>0. above \in Frames(S) /\ below \in Frames(T) /\ Distinct(above) /\ Distinct(below)
  BY DEF Sole
<1>1. above \in Frames(S \cup T) /\ below \in Frames(S \cup T)
  BY <1>0, FramesGrow
<1>2. above \o below \in Frames(S \cup T)
  BY <1>1, FramesJoin
<1>3. PICK both : both = above \o below
  OBVIOUS
<1>4. PICK a \in Nat, b \in Nat : a = Len(above) /\ b = Len(below)
  BY <1>0 DEF Frames
<1>5. /\ Len(both) = a + b
      /\ \A i \in 1 .. a + b : both[i] = IF i <= a THEN above[i] ELSE below[i - a]
  BY <1>1, <1>3, <1>4, ConcatProperties DEF Frames
<1>6. ASSUME NEW r \in 1 .. a + b, NEW q \in 1 .. a + b,
             NEW c \in DOMAIN both[r], NEW d \in DOMAIN both[q], both[r][c].id = both[q][d].id
      PROVE  r = q /\ c = d
  <2>1. /\ r <= a => r \in 1 .. Len(above) /\ both[r] = above[r]
        /\ ~(r <= a) => r - a \in 1 .. Len(below) /\ both[r] = below[r - a]
        /\ q <= a => q \in 1 .. Len(above) /\ both[q] = above[q]
        /\ ~(q <= a) => q - a \in 1 .. Len(below) /\ both[q] = below[q - a]
    BY <1>4, <1>5
  <2>2. CASE r <= a /\ q <= a
    BY <1>0, <1>6, <2>1, <2>2 DEF Distinct
  <2>3. CASE ~(r <= a) /\ ~(q <= a)
    <3>1. r - a = q - a /\ c = d
      BY <1>0, <1>6, <2>1, <2>3 DEF Distinct
    <3>2. QED
      BY <1>4, <3>1
  <2>4. CASE r <= a /\ ~(q <= a)
    <3>1. both[r][c].id \in S /\ both[q][d].id \in T
      BY <1>0, <2>1, <2>4, CellIn
    <3>2. QED
      BY <1>6, <3>1
  <2>5. CASE ~(r <= a) /\ q <= a
    <3>1. both[r][c].id \in T /\ both[q][d].id \in S
      BY <1>0, <2>1, <2>5, CellIn
    <3>2. QED
      BY <1>6, <3>1
  <2>6. QED
    BY <2>2, <2>3, <2>4, <2>5
<1>7. Distinct(both)
  BY <1>5, <1>6 DEF Distinct
<1>8. QED
  BY <1>2, <1>3, <1>7 DEF Sole

\* No rows are rows of any set, and rows of a set are rows of a larger one.
LEMMA SoleGrows ==
    ASSUME NEW S
    PROVE  /\ Sole(S, <<>>)
           /\ \A T \in SUBSET S : \A rows : Sole(T, rows) => Sole(S, rows)
<1>1. <<>> \in Frames(S) /\ Distinct(<<>>)
  BY DEF Frames, Distinct
<1>2. QED
  BY <1>1, FramesGrow DEF Sole

\* The cells of a row.
LEMMA RowCells ==
    ASSUME NEW S, NEW ids \in Seq(S)
    PROVE  DOMAIN Row(ids) = 1 .. Len(ids) /\ \A c \in 1 .. Len(ids) : Row(ids)[c].id = ids[c]
BY DEF Row, Widget

\* A row, or a column, of different widgets.
LEMMA SoleRow ==
    ASSUME NEW S, NEW ids \in Seq(S), ids # <<>>, IsInjective(ids)
    PROVE  Sole(S, <<Row(ids)>>) /\ Sole(S, Column(ids))
<1>0. Len(ids) \in Nat /\ DOMAIN ids = 1 .. Len(ids)
  OBVIOUS
<1>1. <<Row(ids)>> \in Frames(S) /\ Column(ids) \in Frames(S)
  BY RowFrame, ColumnFrame
<1>2. Distinct(<<Row(ids)>>)
  <2>1. PICK row : row = Row(ids)
    OBVIOUS
  <2>2. \A c \in DOMAIN row : \A d \in DOMAIN row : row[c].id = row[d].id => c = d
    BY <1>0, <2>1, RowCells DEF IsInjective
  <2>3. Len(<<row>>) = 1 /\ <<row>>[1] = row /\ \A r \in 1 .. 1 : r = 1
    OBVIOUS
  <2>4. QED
    BY <2>1, <2>2, <2>3 DEF Distinct
<1>3. Distinct(Column(ids))
  <2>1. PICK rows : rows = Column(ids)
    OBVIOUS
  <2>2. Len(rows) = Len(ids) /\ \A r \in 1 .. Len(ids) : rows[r] = Row(<<ids[r]>>)
    BY <1>0, <2>1 DEF Column
  <2>3. ASSUME NEW r \in 1 .. Len(ids) PROVE DOMAIN rows[r] = 1 .. 1 /\ rows[r][1].id = ids[r]
    <3>1. PICK w : w = ids[r]
      OBVIOUS
    <3>2. rows[r] = Row(<<w>>)
      BY <2>2, <3>1
    <3>3. DOMAIN Row(<<w>>) = 1 .. 1 /\ Row(<<w>>)[1].id = w
      BY DEF Row, Widget
    <3>4. QED
      BY <3>1, <3>2, <3>3
  <2>4. ASSUME NEW r \in 1 .. Len(ids), NEW q \in 1 .. Len(ids),
               NEW c \in DOMAIN rows[r], NEW d \in DOMAIN rows[q], rows[r][c].id = rows[q][d].id
        PROVE  r = q /\ c = d
    <3>1. c = 1 /\ d = 1
      <4>1. DOMAIN rows[r] = 1 .. 1 /\ DOMAIN rows[q] = 1 .. 1
        BY <2>3, Zenon
      <4>2. QED
        BY <4>1
    <3>2. ids[r] = ids[q]
      BY <2>2, <2>3, <2>4, <3>1
    <3>3. QED
      BY <1>0, <3>1, <3>2 DEF IsInjective
  <2>5. Distinct(rows)
    BY <2>2, <2>4 DEF Distinct
  <2>6. QED
    BY <2>1, <2>5
<1>4. QED
  BY <1>1, <1>2, <1>3 DEF Sole

\* The buttons of a list, one in each row.
LEMMA SoleButtons ==
    ASSUME NEW S, NEW left \in [1 .. ListRows -> S], IsInjective(left)
    PROVE  Sole(S, ListOf(<<left>>))
<1>0. ListRows \in Nat
  BY ScreenAssumption
<1>1. ListOf(<<left>>) \in Frames(S)
  BY EntriesFrame
<1>2. \A i \in 1 .. ListRows : \A j \in 1 .. ListRows : left[i] = left[j] => i = j
  BY DEF IsInjective
<1>3. Distinct(ListOf(<<left>>))
  <2>1. PICK rows : rows = ListOf(<<left>>)
    OBVIOUS
  <2>2. /\ Len(rows) = ListRows
        /\ \A r \in 1 .. ListRows : DOMAIN rows[r] = 1 .. 1 /\ rows[r][1].id = left[r]
    BY <1>0, <2>1 DEF ListOf, Widget
  <2>3. ASSUME NEW r \in 1 .. ListRows, NEW q \in 1 .. ListRows,
               NEW c \in DOMAIN rows[r], NEW d \in DOMAIN rows[q], rows[r][c].id = rows[q][d].id
        PROVE  r = q /\ c = d
    <3>1. c = 1 /\ d = 1
      BY <2>2
    <3>2. QED
      BY <1>2, <2>2, <2>3, <3>1
  <2>4. Distinct(rows)
    BY <2>2, <2>3 DEF Distinct
  <2>5. QED
    BY <2>1, <2>4
<1>4. QED
  BY <1>1, <1>3 DEF Sole

\* Two in each.
LEMMA SoleList ==
    ASSUME NEW S, NEW T, S \cap T = {},
           NEW left \in [1 .. ListRows -> S], IsInjective(left),
           NEW right \in [1 .. ListRows -> T], IsInjective(right)
    PROVE  Sole(S \cup T, ListOf(<<left, right>>))
<1>0. ListRows \in Nat
  BY ScreenAssumption
<1>1. ListOf(<<left, right>>) \in Frames(S \cup T)
  <2>1. left \in [1 .. ListRows -> S \cup T] /\ right \in [1 .. ListRows -> S \cup T]
    OBVIOUS
  <2>2. /\ <<left, right>> \in Seq([1 .. ListRows -> S \cup T])
        /\ <<left, right>> # <<>>
    BY <2>1
  <2>3. QED
    BY <2>2, ListFrame
<1>2. /\ \A i \in 1 .. ListRows : \A j \in 1 .. ListRows :
            /\ left[i] = left[j] => i = j
            /\ right[i] = right[j] => i = j
            /\ left[i] # right[j]
  BY DEF IsInjective
<1>3. Distinct(ListOf(<<left, right>>))
  <2>1. PICK rows : rows = ListOf(<<left, right>>)
    OBVIOUS
  <2>2. /\ Len(rows) = ListRows
        /\ \A r \in 1 .. ListRows :
              DOMAIN rows[r] = 1 .. 2 /\ rows[r][1].id = left[r] /\ rows[r][2].id = right[r]
    BY <1>0, <2>1 DEF ListOf, Widget
  <2>3. ASSUME NEW r \in 1 .. ListRows, NEW q \in 1 .. ListRows,
               NEW c \in DOMAIN rows[r], NEW d \in DOMAIN rows[q], rows[r][c].id = rows[q][d].id
        PROVE  r = q /\ c = d
    <3>1. c \in {1, 2} /\ d \in {1, 2}
      BY <2>2
    <3>2. QED
      BY <1>2, <2>2, <2>3, <3>1
  <2>4. Distinct(rows)
    BY <2>2, <2>3 DEF Distinct
  <2>5. QED
    BY <2>1, <2>4
<1>4. QED
  BY <1>1, <1>3 DEF Sole

\* A toggle and the button that explains it.
LEMMA SoleToggle ==
    ASSUME NEW toggle, NEW info, toggle # info
    PROVE  Sole({toggle, info}, <<ToggleRow(toggle, info)>>)
<1>1. <<ToggleRow(toggle, info)>> \in Frames({toggle, info})
  <2>1. ToggleRow(toggle, info) \in Seq(Cells({toggle, info})) \ {<<>>}
    BY ToggleFrame
  <2>2. QED
    BY <2>1 DEF Frames
<1>2. PICK row : row = ToggleRow(toggle, info)
  OBVIOUS
<1>3. DOMAIN row = 1 .. 2 /\ row[1].id = toggle /\ row[2].id = info
  BY <1>2 DEF ToggleRow, Widget
<1>4. \A c \in DOMAIN row : \A d \in DOMAIN row : row[c].id = row[d].id => c = d
  <2>1. \A c \in 1 .. 2 : c \in {1, 2}
    OBVIOUS
  <2>2. QED
    BY <1>3, <2>1
<1>5. Len(<<row>>) = 1 /\ <<row>>[1] = row /\ \A r \in 1 .. 1 : r = 1
  OBVIOUS
<1>6. Distinct(<<row>>)
  BY <1>4, <1>5 DEF Distinct
<1>7. QED
  BY <1>1, <1>2, <1>6 DEF Sole

\* The buttons of a list's rows are all different, while none is an overlay's.
LEMMA ButtonsDiffer ==
    ASSUME NEW base \in Nat, NEW name \in RowBases, Below(base)
    PROVE  /\ RowButton(base, name) \in [1 .. ListRows -> RowNames(name)]
           /\ IsInjective(RowButton(base, name))
<1>1. ASSUME NEW i \in 1 .. ListRows
      PROVE  WidgetAt(base + i - 1, name \o ToString(i)) = name \o ToString(i)
  <2> DEFINE label == name \o ToString(i)
  <2>1. /\ base + i - 1 \notin OVERLAY_BASE .. OVERLAY_BASE + 7
        /\ base + i - 1 \notin INPUT_MODAL_FIELD_BASE .. INPUT_MODAL_FIELD_BASE + 2
    BY DEF Below
  <2> HIDE DEF label
  <2>2. WidgetAt(base + i - 1, label) = label
    BY <2>1 DEF WidgetAt
  <2>3. QED
    BY <2>2 DEF label
<1>2. PICK f : f = [i \in 1 .. ListRows |-> name \o ToString(i)]
  OBVIOUS
<1>3. RowButton(base, name) = f
  BY <1>1, <1>2 DEF RowButton
<1>4. f \in [1 .. ListRows -> RowNames(name)]
  BY <1>2 DEF RowNames
<1>5. IsInjective(f)
  BY <1>2, RowNamesDiffer DEF IsInjective
<1>6. QED
  BY <1>3, <1>4, <1>5

\* So each list of buttons.
LEMMA ListsDiffer ==
    ASSUME Apart
    PROVE  /\ RemoveDevice \in [1 .. ListRows -> RowNames("RemoveDevice")] /\ IsInjective(RemoveDevice)
           /\ EditAddress \in [1 .. ListRows -> RowNames("EditAddress")] /\ IsInjective(EditAddress)
           /\ RemoveAddress \in [1 .. ListRows -> RowNames("RemoveAddress")]
           /\ IsInjective(RemoveAddress)
           /\ MethodToggle \in [1 .. ListRows -> RowNames("MethodToggle")] /\ IsInjective(MethodToggle)
           /\ MethodUse \in [1 .. ListRows -> RowNames("MethodUse")] /\ IsInjective(MethodUse)
           /\ RemoveExcluded \in [1 .. ListRows -> RowNames(IF Linux THEN "RemovePid" ELSE "RemoveApp")]
           /\ IsInjective(RemoveExcluded)
           /\ RemoveOverride \in [1 .. ListRows -> RowNames("RemoveOverride")]
           /\ IsInjective(RemoveOverride)
<1>1. /\ RowBases = {"RemoveDevice", "EditAddress", "RemoveAddress", "MethodToggle", "MethodUse",
                     "RemoveApp", "RemovePid", "RemoveOverride"}
  BY DEF RowBases
<1>2. RemoveExcluded \in [1 .. ListRows -> RowNames(IF Linux THEN "RemovePid" ELSE "RemoveApp")]
      /\ IsInjective(RemoveExcluded)
  <2>1. CASE Linux
    BY <1>1, <2>1, SlicesBelow, ButtonsDiffer DEF RemoveExcluded
  <2>2. CASE ~Linux
    BY <1>1, <2>2, SlicesBelow, ButtonsDiffer DEF RemoveExcluded
  <2>3. QED
    BY <2>1, <2>2
<1>3. QED
  BY <1>1, <1>2, SlicesBelow, ButtonsDiffer
     DEF RemoveDevice, EditAddress, RemoveAddress, MethodToggle, MethodUse, RemoveOverride

\* Rows one above the other, whose widgets are some of U.
LEMMA SoleWithin ==
    ASSUME NEW U, NEW S \in SUBSET U, NEW T \in SUBSET U, S \cap T = {},
           NEW above, Sole(S, above), NEW below, Sole(T, below)
    PROVE  Sole(U, above \o below)
<1>1. Sole(S \cup T, above \o below)
  BY SoleJoin
<1>2. S \cup T \in SUBSET U
  OBVIOUS
<1>3. QED
  BY <1>1, <1>2, SoleGrows

\* A widget alone, in a column or a row.
LEMMA SoleOne ==
    ASSUME NEW a
    PROVE  Sole({a}, Column(<<a>>)) /\ Sole({a}, <<Row(<<a>>)>>)
<1>1. <<a>> \in Seq({a}) /\ <<a>> # <<>> /\ IsInjective(<<a>>)
  BY DEF IsInjective
<1>2. QED
  BY <1>1, SoleRow

\* Two widgets in a column or a row.
LEMMA SoleTwo ==
    ASSUME NEW a, NEW b, a # b
    PROVE  Sole({a, b}, Column(<<a, b>>)) /\ Sole({a, b}, <<Row(<<a, b>>)>>)
<1>1. <<a, b>> \in Seq({a, b}) /\ <<a, b>> # <<>> /\ IsInjective(<<a, b>>)
  BY DEF IsInjective
<1>2. QED
  BY <1>1, SoleRow

\* Rows one by one.
LEMMA RowByRow ==
    ASSUME NEW a, NEW b, NEW c
    PROVE  <<a>> \o <<b>> = <<a, b>> /\ <<a, b>> \o <<c>> = <<a, b, c>>
<1>1. PICK S : S = {a, b, c}
  OBVIOUS
<1>2. <<a>> \in Seq(S) /\ <<a, b>> \in Seq(S) /\ b \in S /\ c \in S
  BY <1>1
<1>3. Append(<<a>>, b) = <<a>> \o <<b>> /\ Append(<<a, b>>, c) = <<a, b>> \o <<c>>
  BY <1>2, AppendIsConcat
<1>4. Append(<<a>>, b) = <<a, b>>
  <2>1. PICK s : s = Append(<<a>>, b)
    OBVIOUS
  <2>2. s \in Seq(S) /\ Len(s) = 2 /\ s[1] = a /\ s[2] = b
    BY <1>2, <2>1, AppendProperties
  <2>3. \A i \in 1 .. 2 : i = 1 \/ i = 2
    OBVIOUS
  <2>4. Len(<<a, b>>) = 2 /\ \A i \in 1 .. 2 : s[i] = <<a, b>>[i]
    BY <2>2, <2>3
  <2>5. QED
    BY <1>2, <2>1, <2>2, <2>4, SeqEqual
<1>5. Append(<<a, b>>, c) = <<a, b, c>>
  <2>1. PICK s : s = Append(<<a, b>>, c)
    OBVIOUS
  <2>2. s \in Seq(S) /\ Len(s) = 3 /\ s[1] = a /\ s[2] = b /\ s[3] = c
    BY <1>2, <2>1, AppendProperties
  <2>3. \A i \in 1 .. 3 : i = 1 \/ i = 2 \/ i = 3
    OBVIOUS
  <2>4. Len(<<a, b, c>>) = 3 /\ \A i \in 1 .. 3 : s[i] = <<a, b, c>>[i]
    BY <2>2, <2>3
  <2>5. <<a, b, c>> \in Seq(S)
    BY <1>1
  <2>6. QED
    BY <2>1, <2>2, <2>4, <2>5, SeqEqual
<1>6. QED
  BY <1>3, <1>4, <1>5

\* Three rows of a toggle each.
LEMMA SoleToggles ==
    Sole({"Ipv6Toggle", "Ipv6Info", "KillSwitchToggle", "KillSwitchInfo", "LockdownToggle",
          "LockdownInfo"},
         <<ToggleRow("Ipv6Toggle", "Ipv6Info"), ToggleRow("KillSwitchToggle", "KillSwitchInfo"),
           ToggleRow("LockdownToggle", "LockdownInfo")>>)
<1> DEFINE S == {"Ipv6Toggle", "Ipv6Info"}
           T == {"KillSwitchToggle", "KillSwitchInfo"}
           V == {"LockdownToggle", "LockdownInfo"}
<1>1. PICK a : a = ToggleRow("Ipv6Toggle", "Ipv6Info")
  OBVIOUS
<1>2. PICK b : b = ToggleRow("KillSwitchToggle", "KillSwitchInfo")
  OBVIOUS
<1>3. PICK c : c = ToggleRow("LockdownToggle", "LockdownInfo")
  OBVIOUS
<1>4. Sole(S, <<a>>) /\ Sole(T, <<b>>) /\ Sole(V, <<c>>)
  BY <1>1, <1>2, <1>3, SoleToggle
<1>5. S \cap T = {} /\ (S \cup T) \cap V = {}
      /\ (S \cup T) \cup V = {"Ipv6Toggle", "Ipv6Info", "KillSwitchToggle", "KillSwitchInfo",
                              "LockdownToggle", "LockdownInfo"}
  OBVIOUS
<1>6. <<a>> \o <<b>> \o <<c>> = <<a, b, c>>
  BY RowByRow
<1> HIDE DEF S, T, V
<1>7. Sole(S \cup T, <<a>> \o <<b>>)
  BY <1>4, <1>5, SoleJoin
<1>8. Sole((S \cup T) \cup V, <<a>> \o <<b>> \o <<c>>)
  BY <1>4, <1>5, <1>7, SoleJoin
<1>9. QED
  BY <1>1, <1>2, <1>3, <1>5, <1>6, <1>8

\* The entries of a list, in each of its shapes.
LEMMA SoleEntries ==
    ASSUME NEW S, NEW T, S \cap T = {}, NEW shape,
           NEW left \in [1 .. ListRows -> S], IsInjective(left),
           NEW right \in [1 .. ListRows -> T], IsInjective(right)
    PROVE  Sole(S \cup T, Entries(shape, <<left, right>>))
<1>1. Sole(S \cup T, ListOf(<<left, right>>))
  BY SoleList
<1>2. QED
  BY <1>1, SoleGrows DEF Entries

\* The names of a list's rows are none of those of its page.
LEMMA NamesOfRows ==
    ASSUME NEW base \in RowBases, NEW other \in RowBases, base # other
    PROVE  /\ RowNames(base) \cap FixedIds = {}
           /\ RowNames(base) \cap RowNames(other) = {}
           /\ RowNames(base) \subseteq Buttons(base)
<1>1. RowNames(base) \cap (FixedIds \cup {NoWidget}) = {}
  BY RowNamesAssumption
<1>2. other \in RowBases \ {base}
  OBVIOUS
<1>3. RowNames(base) \cap RowNames(other) = {}
  BY <1>2, RowNamesDiffer
<1>4. QED
  BY <1>1, <1>3 DEF Buttons

\* No page registers a widget twice in its body, as long as its lists are short.
LEMMA BodySole ==
    ASSUME Apart, NEW page \in PageId, NEW shape
    PROVE  Sole(BodyIds(page), Body(page, shape))
<1> DEFINE U == BodyIds(page)
<1>0. Sole(U, <<>>)
  BY SoleGrows
<1>1. CASE page = "Status"
  <2>1. U = {"DetailsToggle", "SwitchLocation", "RefreshConnection", "ConnectDisconnect"}
    BY <1>1 DEF BodyIds
  <2> HIDE DEF U
  <2>2. /\ Sole({"DetailsToggle"}, Column(<<"DetailsToggle">>))
        /\ Sole({"ConnectDisconnect"}, Column(<<"ConnectDisconnect">>))
        /\ Sole({"SwitchLocation"}, <<Row(<<"SwitchLocation">>)>>)
        /\ Sole({"SwitchLocation", "RefreshConnection"},
                <<Row(<<"SwitchLocation", "RefreshConnection">>)>>)
    BY SoleOne, SoleTwo
  <2>3. Sole({"SwitchLocation", "RefreshConnection"}, <<TopActionRow(shape)>>)
    <3>1. {"SwitchLocation"} \in SUBSET {"SwitchLocation", "RefreshConnection"}
      OBVIOUS
    <3>2. Sole({"SwitchLocation", "RefreshConnection"}, <<Row(<<"SwitchLocation">>)>>)
      BY <2>2, <3>1, SoleGrows
    <3>3. QED
      BY <2>2, <3>2 DEF TopActionRow
  <2>4. Sole({"DetailsToggle"},
             IF shape = "Connected" THEN Column(<<"DetailsToggle">>) ELSE <<>>)
    BY <2>2, SoleGrows
  <2>5. Sole({"DetailsToggle", "SwitchLocation", "RefreshConnection"},
             (IF shape = "Connected" THEN Column(<<"DetailsToggle">>) ELSE <<>>)
               \o <<TopActionRow(shape)>>)
    <3>1. {"DetailsToggle"} \cap {"SwitchLocation", "RefreshConnection"} = {}
          /\ {"DetailsToggle"} \in SUBSET {"DetailsToggle", "SwitchLocation", "RefreshConnection"}
          /\ {"SwitchLocation", "RefreshConnection"}
               \in SUBSET {"DetailsToggle", "SwitchLocation", "RefreshConnection"}
      OBVIOUS
    <3>2. QED
      BY <2>3, <2>4, <3>1, SoleWithin
  <2>6. {"DetailsToggle", "SwitchLocation", "RefreshConnection"} \cap {"ConnectDisconnect"} = {}
        /\ {"DetailsToggle", "SwitchLocation", "RefreshConnection"} \in SUBSET U
        /\ {"ConnectDisconnect"} \in SUBSET U
    BY <2>1
  <2>7. Sole(U, StatusRows(shape))
    BY <2>2, <2>5, <2>6, SoleWithin DEF StatusRows
  <2>8. QED
    BY <1>1, <2>7 DEF Body, U
<1>2. CASE page = "SelectLocation"
  <2> DEFINE S == {"EntryTab", "ExitTab"}
             T == {"SearchAnchor", "FilterButton"}
             V == {"Country1", "Country2"}
  <2>1. S \in SUBSET U /\ T \in SUBSET (T \cup V) /\ V \in SUBSET (T \cup V) /\ T \cup V \in SUBSET U
        /\ S \cap (T \cup V) = {} /\ T \cap V = {}
    BY <1>2 DEF BodyIds, Countries
  <2>2. /\ Sole(S, <<Row(<<"EntryTab", "ExitTab">>)>>)
        /\ Sole(T, <<Row(<<"SearchAnchor", "FilterButton">>)>>)
        /\ Sole(V, Column(<<"Country1", "Country2">>))
    BY SoleOne, SoleTwo
  <2> HIDE DEF S, T, V, U
  <2>3. Sole(T \cup V, <<Row(<<"SearchAnchor", "FilterButton">>)>> \o Column(<<"Country1", "Country2">>))
    BY <2>1, <2>2, SoleWithin
  <2>4. /\ Sole(S, IF shape = "Single" THEN <<>> ELSE <<Row(<<"EntryTab", "ExitTab">>)>>)
        /\ Sole(T \cup V, IF shape = "EntryHidden" THEN <<>>
                          ELSE <<Row(<<"SearchAnchor", "FilterButton">>)>>
                                 \o Column(<<"Country1", "Country2">>))
    BY <2>2, <2>3, SoleGrows
  <2>5. Sole(U, SelectLocationRows(shape))
    BY <2>1, <2>4, SoleWithin DEF SelectLocationRows
  <2>6. QED
    BY <1>2, <2>5 DEF Body, U
<1>3. CASE page = "SelectLocationFilter"
  <2>1. Sole({"OwnershipAny", "ProvidersAll"}, Column(<<"OwnershipAny", "ProvidersAll">>))
    BY SoleOne, SoleTwo
  <2>2. QED
    BY <1>3, <2>1 DEF Body, FilterRows, BodyIds
<1>4. CASE page = "Account"
  <2>1. U = {"ManageDevices", "ShowAccount", "BuyCredit", "RedeemVoucher", "LogOut", "LogIn"}
    BY <1>4 DEF BodyIds
  <2> DEFINE ids == <<"ManageDevices", "ShowAccount", "BuyCredit", "RedeemVoucher", "LogOut">>
  <2>2. ids \in Seq(U) /\ ids # <<>> /\ IsInjective(ids)
    BY <2>1 DEF IsInjective
  <2> HIDE DEF U
  <2>3. Sole(U, LoggedInRows)
    BY <2>2, SoleRow DEF LoggedInRows
  <2>4. {"LogIn"} \in SUBSET U /\ Sole({"LogIn"}, LoggedOutRows)
    BY <2>1, SoleOne, SoleTwo DEF LoggedOutRows
  <2>5. Sole(U, AccountRows(shape))
    BY <2>3, <2>4, SoleGrows DEF AccountRows
  <2>6. QED
    BY <1>4, <2>5 DEF Body, U
<1>5. CASE page = "AccountDevices"
  <2> DEFINE T == RowNames("RemoveDevice")
  <2>1. U = {"RotateKey"} \cup Buttons("RemoveDevice")
    BY <1>5 DEF BodyIds
  <2>2. {"RotateKey"} \cap T = {} /\ {"RotateKey"} \in SUBSET U /\ T \in SUBSET U
    <3>1. "RemoveDevice" \in RowBases /\ "EditAddress" \in RowBases /\ "RotateKey" \in FixedIds
      BY DEF RowBases, FixedIds
    <3>2. T \cap FixedIds = {} /\ T \subseteq Buttons("RemoveDevice")
      BY <3>1, NamesOfRows
    <3>3. QED
      BY <2>1, <3>1, <3>2
  <2>3. Sole(T, ListOf(<<RemoveDevice>>))
    BY ListsDiffer, SoleButtons
  <2> HIDE DEF T, U
  <2>4. /\ Sole({"RotateKey"}, IF shape = "NoDevice" THEN <<>> ELSE Column(<<"RotateKey">>))
        /\ Sole(T, IF shape = "Others" THEN ListOf(<<RemoveDevice>>) ELSE <<>>)
    BY <2>3, SoleGrows, SoleOne, SoleTwo
  <2>5. Sole(U, DevicesRows(shape))
    BY <2>2, <2>4, SoleWithin DEF DevicesRows
  <2>6. QED
    BY <1>5, <2>5 DEF Body, U
<1>6. CASE page = "Settings"
  <2> DEFINE ids == <<"Daita", "Multihop", "VpnSettings", "SplitTunneling", "ApiAccess",
                      "DisconnectAndQuit">>
  <2>1. ids \in Seq(U) /\ ids # <<>> /\ IsInjective(ids)
    BY <1>6 DEF IsInjective, BodyIds
  <2> HIDE DEF U
  <2>2. Sole(U, SettingsRows)
    BY <2>1, SoleRow DEF SettingsRows
  <2>3. QED
    BY <1>6, <2>2 DEF Body, U
<1>7. CASE page = "SettingsDaita"
  <2> DEFINE S == {"BlurbNext", "BlurbPrev"}
             T == {"DaitaToggle", "DirectOnlyToggle"}
  <2>1. S \in SUBSET U /\ T \in SUBSET U /\ S \cap T = {}
        /\ {"BlurbNext"} \in SUBSET S /\ {"BlurbPrev"} \in SUBSET S
    BY <1>7 DEF BodyIds
  <2>2. /\ Sole({"BlurbNext"}, Column(<<"BlurbNext">>)) /\ Sole({"BlurbPrev"}, Column(<<"BlurbPrev">>))
        /\ Sole(T, Column(<<"DaitaToggle", "DirectOnlyToggle">>))
    BY SoleOne, SoleTwo
  <2> HIDE DEF S, T, U
  <2>3. Sole(S, BlurbPager(shape))
    BY <2>1, <2>2, SoleGrows DEF BlurbPager
  <2>4. Sole(U, DaitaRows(shape))
    BY <2>1, <2>2, <2>3, SoleWithin DEF DaitaRows
  <2>5. QED
    BY <1>7, <2>4 DEF Body, U
<1>8. CASE page = "SettingsMultihop"
  <2>1. Sole({"MultihopToggle"}, Column(<<"MultihopToggle">>))
    BY SoleOne, SoleTwo
  <2>2. QED
    BY <1>8, <2>1 DEF Body, MultihopRows, BodyIds
<1>9. CASE page = "SettingsVpn"
  <2> DEFINE A == {"DnsBlockers", "CustomDns"}
             B == {"Ipv6Toggle", "Ipv6Info", "KillSwitchToggle", "KillSwitchInfo",
                   "LockdownToggle", "LockdownInfo"}
             C == {"AntiCensorship"}
             D == {"DeviceIpAuto", "MtuEdit"}
             E == {"ServerIp"}
  <2>1. /\ A \cap B = {} /\ (A \cup B) \cap C = {} /\ (A \cup B \cup C) \cap D = {}
        /\ (A \cup B \cup C \cup D) \cap E = {} /\ A \cup B \cup C \cup D \cup E \in SUBSET U
    BY <1>9 DEF BodyIds
  <2>2. /\ Sole(A, Column(<<"DnsBlockers", "CustomDns">>))
        /\ Sole(C, Column(<<"AntiCensorship">>)) /\ Sole(E, Column(<<"ServerIp">>))
    BY SoleOne, SoleTwo
  <2>3. Sole(D, <<DeviceIpRadio, MtuInput>>)
    <3>1. PICK a : a = DeviceIpRadio
      OBVIOUS
    <3>2. PICK b : b = MtuInput
      OBVIOUS
    <3>3. Sole({"DeviceIpAuto"}, <<a>>) /\ Sole({"MtuEdit"}, <<b>>)
      BY <3>1, <3>2, SoleOne, SoleTwo DEF DeviceIpRadio, MtuInput
    <3>4. <<a>> \o <<b>> = <<a, b>>
      BY RowByRow
    <3>5. /\ {"DeviceIpAuto"} \cap {"MtuEdit"} = {}
          /\ {"DeviceIpAuto"} \in SUBSET D /\ {"MtuEdit"} \in SUBSET D
      OBVIOUS
    <3> HIDE DEF D
    <3>6. Sole(D, <<a>> \o <<b>>)
      BY <3>3, <3>5, SoleWithin
    <3>7. QED
      BY <3>1, <3>2, <3>4, <3>6
  <2>4. PICK a : a = Column(<<"DnsBlockers", "CustomDns">>)
    OBVIOUS
  <2>5. PICK b : b = <<ToggleRow("Ipv6Toggle", "Ipv6Info"),
                       ToggleRow("KillSwitchToggle", "KillSwitchInfo"),
                       ToggleRow("LockdownToggle", "LockdownInfo")>>
    OBVIOUS
  <2>6. PICK c : c = Column(<<"AntiCensorship">>)
    OBVIOUS
  <2>7. PICK d : d = <<DeviceIpRadio, MtuInput>>
    OBVIOUS
  <2>8. PICK e : e = Column(<<"ServerIp">>)
    OBVIOUS
  <2>9. Sole(A, a) /\ Sole(B, b) /\ Sole(C, c) /\ Sole(D, d) /\ Sole(E, e)
    BY <2>2, <2>3, <2>4, <2>5, <2>6, <2>7, <2>8, SoleToggles
  <2>10. VpnRows = a \o b \o c \o d \o e
    BY <2>4, <2>5, <2>6, <2>7, <2>8 DEF VpnRows
  <2> HIDE DEF A, B, C, D, E, U
  <2>11. Sole(A \cup B \cup C \cup D \cup E, a \o b \o c \o d \o e)
    BY <2>1, <2>9, SoleJoin
  <2>12. Sole(U, VpnRows)
    <3>1. Sole(A \cup B \cup C \cup D \cup E, VpnRows)
      BY <2>10, <2>11
    <3>2. PICK W : W = A \cup B \cup C \cup D \cup E
      OBVIOUS
    <3>3. W \in SUBSET U /\ Sole(W, VpnRows)
      BY <2>1, <3>1, <3>2, Zenon
    <3>4. QED
      BY <3>3, SoleGrows
  <2>13. QED
    BY <1>9, <2>12 DEF Body, U
<1>10. CASE page = "SettingsDnsBlockers"
  <2>1. Sole({"DnsBlockAds"}, Column(<<"DnsBlockAds">>))
    BY SoleOne, SoleTwo
  <2>2. QED
    BY <1>10, <2>1 DEF Body, DnsBlockersRows, BodyIds
<1>11. CASE page = "SettingsCustomDns"
  <2> DEFINE S == RowNames("EditAddress")
             T == RowNames("RemoveAddress")
  <2>1. U = {"CustomDnsToggle", "AddAddress"}
              \cup Buttons("EditAddress") \cup Buttons("RemoveAddress")
    BY <1>11 DEF BodyIds
  <2>2. /\ S \cap T = {} /\ {"CustomDnsToggle"} \cap (S \cup T) = {}
        /\ ({"CustomDnsToggle"} \cup (S \cup T)) \cap {"AddAddress"} = {}
        /\ {"CustomDnsToggle"} \cup (S \cup T) \cup {"AddAddress"} \in SUBSET U
    <3>1. /\ "EditAddress" \in RowBases /\ "RemoveAddress" \in RowBases
          /\ "CustomDnsToggle" \in FixedIds /\ "AddAddress" \in FixedIds
      BY DEF RowBases, FixedIds
    <3>2. /\ S \cap FixedIds = {} /\ S \subseteq Buttons("EditAddress")
          /\ T \cap FixedIds = {} /\ T \subseteq Buttons("RemoveAddress")
          /\ S \cap T = {}
      BY <3>1, NamesOfRows
    <3> HIDE DEF S, T, U
    <3>3. QED
      BY <2>1, <3>1, <3>2
  <2>3. Sole(S \cup T, Entries(shape, <<EditAddress, RemoveAddress>>))
    BY <2>2, ListsDiffer, SoleEntries
  <2>4. Sole({"CustomDnsToggle"}, Column(<<"CustomDnsToggle">>))
        /\ Sole({"AddAddress"}, Column(<<"AddAddress">>))
    BY SoleOne, SoleTwo
  <2> HIDE DEF S, T, U
  <2>5. Sole({"CustomDnsToggle"} \cup (S \cup T) \cup {"AddAddress"}, CustomDnsRows(shape))
    BY <2>2, <2>3, <2>4, SoleJoin DEF CustomDnsRows
  <2>6. Sole(U, CustomDnsRows(shape))
    BY <2>2, <2>5, SoleGrows
  <2>7. QED
    BY <1>11, <2>6 DEF Body, U
<1>12. CASE page = "SettingsAntiCensorship"
  <2>1. /\ Sole({"ModeAuto", "PortEdit"}, Column(<<"ModeAuto", "PortEdit">>))
        /\ Sole({"ModeAuto"}, Column(<<"ModeAuto">>))
    BY SoleOne, SoleTwo
  <2>2. {"ModeAuto"} \in SUBSET {"ModeAuto", "PortEdit"}
    OBVIOUS
  <2>3. Sole({"ModeAuto", "PortEdit"}, AntiCensorshipRows(shape))
    BY <2>1, <2>2, SoleGrows DEF AntiCensorshipRows
  <2>4. QED
    BY <1>12, <2>3 DEF Body, BodyIds
<1>13. CASE page = "SettingsApiAccess"
  <2> DEFINE S == RowNames("MethodToggle")
             T == RowNames("MethodUse")
  <2>1. U = Buttons("MethodToggle") \cup Buttons("MethodUse")
    BY <1>13 DEF BodyIds
  <2>2. S \cap T = {} /\ S \cup T \in SUBSET U
    <3>1. "MethodToggle" \in RowBases /\ "MethodUse" \in RowBases
      BY DEF RowBases
    <3>2. /\ S \subseteq Buttons("MethodToggle") /\ T \subseteq Buttons("MethodUse")
          /\ S \cap T = {}
      BY <3>1, NamesOfRows
    <3>3. QED
      BY <2>1, <3>2
  <2>3. Sole(S \cup T, Entries(shape, <<MethodToggle, MethodUse>>))
    BY <2>2, ListsDiffer, SoleEntries
  <2> HIDE DEF S, T, U
  <2>4. Sole(U, ApiAccessRows(shape))
    BY <2>2, <2>3, SoleGrows DEF ApiAccessRows
  <2>5. QED
    BY <1>13, <2>4 DEF Body, U
<1>14. CASE page = "SettingsSplitTunnel"
  <2> DEFINE S == RowNames(IF Linux THEN "RemovePid" ELSE "RemoveApp")
             T == {"AddApp", "AddPid"}
  <2>1. U = {"SplitTunnelToggle", "AddApp", "AddPid"}
              \cup Buttons("RemoveApp") \cup Buttons("RemovePid")
    BY <1>14 DEF BodyIds
  <2>2. /\ {"SplitTunnelToggle"} \cap S = {} /\ ({"SplitTunnelToggle"} \cup S) \cap T = {}
        /\ {"SplitTunnelToggle"} \cup S \cup T \in SUBSET U
        /\ {"AddApp"} \in SUBSET T /\ {"AddPid"} \in SUBSET T
    <3>1. /\ "RemoveApp" \in RowBases /\ "RemovePid" \in RowBases
          /\ "SplitTunnelToggle" \in FixedIds /\ T \subseteq FixedIds
      BY DEF RowBases, FixedIds
    <3>2. /\ RowNames("RemoveApp") \cap FixedIds = {}
          /\ RowNames("RemoveApp") \subseteq Buttons("RemoveApp")
          /\ RowNames("RemovePid") \cap FixedIds = {}
          /\ RowNames("RemovePid") \subseteq Buttons("RemovePid")
      BY <3>1, NamesOfRows
    <3>3. S \cap FixedIds = {} /\ S \subseteq Buttons("RemoveApp") \cup Buttons("RemovePid")
      BY <3>2
    <3>4. {"SplitTunnelToggle"} \subseteq U /\ T \subseteq U /\ S \subseteq U
      BY <2>1, <3>3
    <3>5. {"AddApp"} \in SUBSET T /\ {"AddPid"} \in SUBSET T /\ "SplitTunnelToggle" \notin T
      OBVIOUS
    <3> HIDE DEF S, T, U
    <3>6. QED
      BY <3>1, <3>3, <3>4, <3>5
  <2>3. Sole(S, Entries(shape, <<RemoveExcluded>>))
    <3>1. Sole(S, ListOf(<<RemoveExcluded>>))
      BY ListsDiffer, SoleButtons
    <3>2. QED
      BY <3>1, SoleGrows DEF Entries
  <2>4. Sole({"SplitTunnelToggle"}, Column(<<"SplitTunnelToggle">>))
        /\ Sole({"AddPid"}, Column(<<"AddPid">>)) /\ Sole({"AddApp"}, Column(<<"AddApp">>))
    BY SoleOne, SoleTwo
  <2> HIDE DEF S, T, U
  <2>5. Sole(T, Column(<<IF Linux THEN "AddPid" ELSE "AddApp">>))
    BY <2>2, <2>4, SoleGrows
  <2>6. Sole({"SplitTunnelToggle"} \cup S \cup T, SplitTunnelRows(shape))
    BY <2>2, <2>3, <2>4, <2>5, SoleJoin DEF SplitTunnelRows
  <2>7. Sole(U, SplitTunnelRows(shape))
    BY <2>2, <2>6, SoleGrows
  <2>8. QED
    BY <1>14, <2>7 DEF Body, U
<1>15. CASE page = "SettingsRelayOverrides"
  <2> DEFINE S == RowNames("RemoveOverride")
             T == {"AddOverride", "ClearOverrides"}
  <2>1. U = T \cup Buttons("RemoveOverride")
    BY <1>15 DEF BodyIds
  <2>2. S \cap T = {} /\ S \in SUBSET U /\ T \in SUBSET U
    <3>1. "RemoveOverride" \in RowBases /\ "EditAddress" \in RowBases /\ T \subseteq FixedIds
      BY DEF RowBases, FixedIds
    <3>2. S \cap FixedIds = {} /\ S \subseteq Buttons("RemoveOverride")
      BY <3>1, NamesOfRows
    <3>3. QED
      BY <2>1, <3>1, <3>2
  <2>3. Sole(S, Entries(shape, <<RemoveOverride>>))
    <3>1. Sole(S, ListOf(<<RemoveOverride>>))
      BY ListsDiffer, SoleButtons
    <3>2. QED
      BY <3>1, SoleGrows DEF Entries
  <2>4. Sole(T, <<OverridesFooter>>)
    BY SoleOne, SoleTwo DEF OverridesFooter
  <2> HIDE DEF S, T, U
  <2>5. Sole(U, RelayOverridesRows(shape))
    BY <2>2, <2>3, <2>4, SoleWithin DEF RelayOverridesRows
  <2>6. QED
    BY <1>15, <2>5 DEF Body, U
<1>16. CASE page = "Logs"
  BY <1>0, <1>16 DEF Body
<1>17. QED
  BY <1>1, <1>2, <1>3, <1>4, <1>5, <1>6, <1>7, <1>8, <1>9, <1>10, <1>11, <1>12, <1>13, <1>14, <1>15,
     <1>16, PagesApart

\* A country has its row to itself in rows that hold none.
LEMMA NarrowFrames ==
    ASSUME NEW S, S \cap Countries = {}, NEW rows \in Frames(S)
    PROVE  Narrow(rows)
<1>1. ASSUME NEW r \in 1 .. Len(rows), NEW c \in DOMAIN rows[r] PROVE rows[r][c].id \notin Countries
  BY CellIn
<1>2. QED
  BY <1>1 DEF Narrow

\* It has in a column, of a widget a row.
LEMMA NarrowColumn ==
    ASSUME NEW S, NEW ids \in Seq(S)
    PROVE  Narrow(Column(ids))
<1>1. PICK rows : rows = Column(ids)
  OBVIOUS
<1>2. \A w : Len(Row(<<w>>)) = 1
  BY DEF Row
<1>3. Len(rows) = Len(ids) /\ \A r \in 1 .. Len(ids) : rows[r] = Row(<<ids[r]>>)
  BY <1>1 DEF Column
<1>4. \A r \in 1 .. Len(rows) : Len(rows[r]) = 1
  BY <1>2, <1>3
<1>5. QED
  BY <1>1, <1>4 DEF Narrow

\* And in rows one above the other, if it has in each of the two.
LEMMA NarrowJoin ==
    ASSUME NEW S, NEW above \in Frames(S), Narrow(above), NEW below \in Frames(S), Narrow(below)
    PROVE  Narrow(above \o below)
<1>1. PICK both : both = above \o below
  OBVIOUS
<1>2. PICK a \in Nat, b \in Nat : a = Len(above) /\ b = Len(below)
  BY DEF Frames
<1>3. /\ Len(both) = a + b
      /\ \A i \in 1 .. a + b : both[i] = IF i <= a THEN above[i] ELSE below[i - a]
  BY <1>1, <1>2, ConcatProperties DEF Frames
<1>4. ASSUME NEW r \in 1 .. a + b, NEW c \in DOMAIN both[r], both[r][c].id \in Countries
      PROVE  Len(both[r]) = 1
  <2>1. CASE r <= a
    <3>1. r \in 1 .. Len(above) /\ both[r] = above[r]
      BY <1>2, <1>3, <2>1
    <3>2. QED
      BY <1>4, <3>1 DEF Narrow
  <2>2. CASE ~(r <= a)
    <3>1. r - a \in 1 .. Len(below) /\ both[r] = below[r - a]
      BY <1>2, <1>3, <2>2
    <3>2. QED
      BY <1>4, <3>1 DEF Narrow
  <2>3. QED
    BY <2>1, <2>2
<1>5. Narrow(both)
  BY <1>3, <1>4 DEF Narrow
<1>6. QED
  BY <1>1, <1>5

\* The chrome holds no widget twice, and no country; the tabs are its second row.
LEMMA ChromeSole ==
    ASSUME NEW page \in PageId
    PROVE  /\ Sole(ChromeIds(page), ChromeRows(page))
           /\ 2 \in 1 .. Len(ChromeRows(page)) /\ ChromeRows(page)[2] = TabRow
           /\ \A tab \in Tabs : \E c \in DOMAIN TabRow : TabRow[c].id = tab
<1> DEFINE crumbs == IF page \in SubPages THEN <<BreadcrumbRow>> ELSE <<>>
           B == IF page \in SubPages THEN {"BreadcrumbBack"} ELSE {}
<1>1. PICK a : a = Row(<<"WindowClose">>)
  OBVIOUS
<1>2. PICK f : f = [i \in 1 .. 4 |-> TabOf[TopLevelPages[i]]]
  OBVIOUS
<1>3. f = <<"StatusTab", "AccountTab", "SettingsTab", "LogsTab">>
      /\ Tabs = {"StatusTab", "AccountTab", "SettingsTab", "LogsTab"}
  <2>1. DOMAIN TabOf = {"Status", "Account", "Settings", "Logs"}
        /\ TabOf["Status"] = "StatusTab" /\ TabOf["Account"] = "AccountTab"
        /\ TabOf["Settings"] = "SettingsTab" /\ TabOf["Logs"] = "LogsTab"
    BY DEF TabOf
  <2>2. Tabs = {"StatusTab", "AccountTab", "SettingsTab", "LogsTab"}
    BY <2>1 DEF Tabs
  <2>3. f[1] = "StatusTab" /\ f[2] = "AccountTab" /\ f[3] = "SettingsTab" /\ f[4] = "LogsTab"
    BY <1>2, <2>1 DEF TopLevelPages
  <2>4. \A i \in 1 .. 4 : i = 1 \/ i = 2 \/ i = 3 \/ i = 4
    OBVIOUS
  <2>5. PICK g : g = <<"StatusTab", "AccountTab", "SettingsTab", "LogsTab">>
    OBVIOUS
  <2>6. /\ g \in Seq(Tabs) /\ Len(g) = 4 /\ g[1] = "StatusTab" /\ g[2] = "AccountTab"
        /\ g[3] = "SettingsTab" /\ g[4] = "LogsTab"
    BY <2>2, <2>5
  <2>7. \A i \in 1 .. 4 : f[i] = g[i]
    BY <2>3, <2>4, <2>6
  <2>8. \A i \in 1 .. 4 : g[i] \in Tabs
    BY <2>2, <2>4, <2>6
  <2>9. f \in Seq(Tabs) /\ Len(f) = 4
    <3>1. \A i \in 1 .. 4 : TabOf[TopLevelPages[i]] \in Tabs
      BY <1>2, <2>7, <2>8
    <3>2. QED
      BY <1>2, <3>1, IsASeq
  <2>10. f = g
    BY <2>6, <2>7, <2>9, SeqEqual
  <2>11. QED
    BY <2>2, <2>5, <2>10
<1>4. f \in Seq(Tabs) /\ f # <<>> /\ IsInjective(f) /\ Len(f) = 4
  BY <1>3 DEF IsInjective
<1>5. PICK t : t = TabRow
  OBVIOUS
<1>6. t = Row(f)
  BY <1>2, <1>5 DEF TabRow
<1>7. Sole({"WindowClose"}, <<a>>) /\ Sole(Tabs, <<t>>) /\ Sole(B, crumbs)
  BY <1>1, <1>4, <1>6, SoleOne, SoleRow, SoleGrows DEF BreadcrumbRow
<1>8. /\ {"WindowClose"} \cap Tabs = {} /\ ({"WindowClose"} \cup Tabs) \cap B = {}
      /\ ChromeIds(page) = ({"WindowClose"} \cup Tabs) \cup B
  BY <1>3 DEF ChromeIds
<1>9. <<a>> \o <<t>> = <<a, t>> /\ ChromeRows(page) = <<a, t>> \o crumbs
  BY <1>1, <1>5, RowByRow DEF ChromeRows
<1> HIDE DEF crumbs, B
<1>10. Sole({"WindowClose"} \cup Tabs, <<a, t>>)
  <2>1. Sole({"WindowClose"} \cup Tabs, <<a>> \o <<t>>)
    BY <1>7, <1>8, SoleJoin
  <2>2. QED
    BY <1>9, <2>1
<1>11. Sole(ChromeIds(page), <<a, t>> \o crumbs)
  BY <1>7, <1>8, <1>10, SoleJoin
<1>12. 2 \in 1 .. Len(<<a, t>> \o crumbs) /\ (<<a, t>> \o crumbs)[2] = t
  <2>1. PICK above : above = <<a, t>>
    OBVIOUS
  <2>2. Len(above) = 2 /\ above[2] = t
    BY <2>1
  <2>3. above \in Frames(ChromeIds(page)) /\ crumbs \in Frames(ChromeIds(page))
    <3>1. {"WindowClose"} \cup Tabs \subseteq ChromeIds(page) /\ B \subseteq ChromeIds(page)
      BY <1>8
    <3>2. QED
      BY <1>7, <1>10, <2>1, <3>1, FramesGrow DEF Sole
  <2>4. /\ Len(crumbs) \in Nat /\ Len(above \o crumbs) = Len(above) + Len(crumbs)
        /\ \A i \in 1 .. Len(above) + Len(crumbs) :
              (above \o crumbs)[i] = IF i <= Len(above) THEN above[i] ELSE crumbs[i - Len(above)]
    BY <2>3, ConcatProperties DEF Frames
  <2>5. QED
    BY <2>1, <2>2, <2>4
<1>13. \A tab \in Tabs : \E c \in DOMAIN t : t[c].id = tab
  <2>1. DOMAIN t = 1 .. 4 /\ \A c \in 1 .. 4 : t[c].id = f[c]
    BY <1>4, <1>6, RowCells
  <2>2. f[1] = "StatusTab" /\ f[2] = "AccountTab" /\ f[3] = "SettingsTab" /\ f[4] = "LogsTab"
    BY <1>3
  <2>3. QED
    BY <1>3, <2>1, <2>2
<1>14. QED
  BY <1>5, <1>9, <1>11, <1>12, <1>13

\* A page's tab is that of its root.
LEMMA ActiveTab ==
    ASSUME NEW page \in PageId
    PROVE  active_tab(page) \in Tabs
<1>1. top_level_root(page) \in DOMAIN TabOf
  BY PagesApart DEF top_level_root, SettingsPages, VpnPages, StatusPages
<1>2. QED
  BY <1>1 DEF active_tab, Tabs

\* A body holds no tab, and not the focus engine's None.
LEMMA BodiesOffTabs ==
    ASSUME NEW page \in PageId
    PROVE  BodyIds(page) \cap (Tabs \cup {NoWidget}) = {}
<1>1. Tabs = {"StatusTab", "AccountTab", "SettingsTab", "LogsTab"}
  BY DEF Tabs, TabOf
<1>2. ASSUME NEW base \in RowBases PROVE Buttons(base) \cap (Tabs \cup {NoWidget}) = {}
  <2>1. \A w \in RowNames(base) : w \notin FixedIds /\ w # NoWidget
    BY NamesApart
  <2>2. Tabs \subseteq FixedIds
    BY DEF FixedIds
  <2>3. OverlayIds \cap (Tabs \cup {NoWidget}) = {}
    BY <1>1, OverlayNames DEF NoWidget
  <2>4. QED
    BY <2>1, <2>2, <2>3 DEF Buttons
<1>3. PICK T : T = Tabs \cup {NoWidget}
  OBVIOUS
<1>4. /\ Buttons("RemoveDevice") \cap T = {} /\ Buttons("EditAddress") \cap T = {}
      /\ Buttons("RemoveAddress") \cap T = {} /\ Buttons("MethodToggle") \cap T = {}
      /\ Buttons("MethodUse") \cap T = {} /\ Buttons("RemoveApp") \cap T = {}
      /\ Buttons("RemovePid") \cap T = {} /\ Buttons("RemoveOverride") \cap T = {}
  BY <1>2, <1>3 DEF RowBases
<1>5. T = {"StatusTab", "AccountTab", "SettingsTab", "LogsTab", "NoWidget"}
  BY <1>1, <1>3 DEF NoWidget
<1>6. CASE page \in {"AccountDevices", "SettingsCustomDns", "SettingsApiAccess",
                     "SettingsSplitTunnel", "SettingsRelayOverrides"}
  <2>1. {"RotateKey", "CustomDnsToggle", "AddAddress", "SplitTunnelToggle", "AddApp", "AddPid",
         "AddOverride", "ClearOverrides"} \cap T = {}
    BY <1>5
  <2>2. BodyIds(page) \cap T = {}
    BY <1>4, <1>6, <2>1 DEF BodyIds
  <2>3. QED
    BY <1>3, <2>2
<1>7. CASE page \notin {"AccountDevices", "SettingsCustomDns", "SettingsApiAccess",
                        "SettingsSplitTunnel", "SettingsRelayOverrides"}
  <2>1. BodyIds(page) \cap T = {}
    BY <1>5, <1>7, PagesApart DEF BodyIds, Countries
  <2>2. QED
    BY <1>3, <2>1
<1>8. QED
  BY <1>6, <1>7

\* A country has its row of a body to itself.
LEMMA BodyNarrow ==
    ASSUME NEW page \in PageId, NEW shape
    PROVE  Narrow(Body(page, shape))
<1>1. Body(page, shape) \in Frames(BodyIds(page))
  BY BodyFrame
<1>2. CASE page # "SelectLocation"
  <2>1. \A id \in BodyIds(page) \cap Countries : page = "SelectLocation"
    BY WhereWidgetsAre DEF PageIds
  <2>2. BodyIds(page) \cap Countries = {}
    BY <1>2, <2>1
  <2>3. QED
    BY <1>1, <2>2, NarrowFrames
<1>3. CASE page = "SelectLocation"
  <2> DEFINE S == {"EntryTab", "ExitTab", "SearchAnchor", "FilterButton"}
             U == S \cup Countries
             tabs == IF shape = "Single" THEN <<>> ELSE <<Row(<<"EntryTab", "ExitTab">>)>>
             search == <<Row(<<"SearchAnchor", "FilterButton">>)>>
             tree == Column(<<"Country1", "Country2">>)
  <2>1. tabs \in Frames(S) /\ search \in Frames(S) /\ <<>> \in Frames(S)
    <3>1. <<"EntryTab", "ExitTab">> \in Seq(S) /\ <<"SearchAnchor", "FilterButton">> \in Seq(S)
      OBVIOUS
    <3>2. <<>> \in Frames(S)
      BY DEF Frames
    <3> HIDE DEF S
    <3>3. QED
      BY <3>1, <3>2, RowFrame
  <2>2. tree \in Frames(U) /\ Narrow(tree)
    <3>1. <<"Country1", "Country2">> \in Seq(U)
      BY DEF Countries
    <3> HIDE DEF U
    <3>2. QED
      BY <3>1, ColumnFrame, NarrowColumn
  <2>3. S \cap Countries = {} /\ S \subseteq U
    BY DEF Countries
  <2> HIDE DEF S, U, tabs, search, tree
  <2>4. /\ Narrow(tabs) /\ Narrow(search) /\ Narrow(<<>>)
        /\ tabs \in Frames(U) /\ search \in Frames(U) /\ <<>> \in Frames(U)
    BY <2>1, <2>3, NarrowFrames, FramesGrow
  <2>5. search \o tree \in Frames(U) /\ Narrow(search \o tree)
    BY <2>2, <2>4, NarrowJoin, FramesJoin
  <2>6. Narrow(tabs \o IF shape = "EntryHidden" THEN <<>> ELSE search \o tree)
    BY <2>4, <2>5, NarrowJoin
  <2>7. Narrow(SelectLocationRows(shape))
    BY <2>6 DEF SelectLocationRows, tabs, search, tree
  <2>8. QED
    BY <1>3, <2>7 DEF Body
<1>4. QED
  BY <1>2, <1>3

\* So the frame of a page holds none twice, gives a country its row, and has
\* the tabs together.
LEMMA PageSole ==
    ASSUME Apart, NEW page \in PageId, NEW shape \in Views(page), NEW rows,
           rows = PageRegistry[page][shape].rows
    PROVE  Sole(PageIds(page), rows) /\ Narrow(rows) /\ TabsTogether(page, rows)
<1> DEFINE above == ChromeRows(page)
           below == Body(page, shape)
<1>1. rows = above \o below
  BY PageFrame
<1>2. /\ Sole(ChromeIds(page), above) /\ Sole(BodyIds(page), below)
      /\ 2 \in 1 .. Len(above) /\ above[2] = TabRow
  BY ChromeSole, BodySole
<1>3. ChromeIds(page) \cap BodyIds(page) = {}
  <2>1. BodyIds(page) \cap OverlayIds = {}
    BY BodiesApart
  <2>2. "WindowClose" \in OverlayIds /\ "BreadcrumbBack" \in OverlayIds
    BY OverlayNames
  <2>3. BodyIds(page) \cap Tabs = {}
    BY BodiesOffTabs
  <2>4. QED
    BY <2>1, <2>2, <2>3 DEF ChromeIds
<1> HIDE DEF above, below
<1>4. Sole(PageIds(page), rows)
  BY <1>1, <1>2, <1>3, SoleJoin DEF PageIds
<1>5. /\ above \in Frames(ChromeIds(page)) /\ below \in Frames(BodyIds(page))
      /\ above \in Frames(PageIds(page)) /\ below \in Frames(PageIds(page))
  <2>1. ChromeIds(page) \subseteq PageIds(page) /\ BodyIds(page) \subseteq PageIds(page)
    BY DEF PageIds
  <2>2. QED
    BY <1>2, <2>1, FramesGrow DEF Sole
<1>6. Narrow(rows)
  <2>1. Narrow(above)
    <3>1. ChromeIds(page) \cap Countries = {}
      BY DEF ChromeIds, Countries, Tabs, TabOf
    <3>2. QED
      BY <1>5, <3>1, NarrowFrames
  <2>2. Narrow(below)
    BY BodyNarrow DEF below
  <2>3. QED
    BY <1>1, <1>5, <2>1, <2>2, NarrowJoin
<1>7. TabsTogether(page, rows)
  <2>1. 2 \in 1 .. Len(rows) /\ rows[2] = TabRow
    <3>1. /\ Len(above) \in Nat /\ Len(below) \in Nat /\ Len(rows) = Len(above) + Len(below)
          /\ \A i \in 1 .. Len(above) + Len(below) :
                rows[i] = IF i <= Len(above) THEN above[i] ELSE below[i - Len(above)]
      BY <1>1, <1>5, ConcatProperties DEF Frames
    <3>2. QED
      BY <1>2, <3>1
  <2>2. PICK tabs : tabs = TabRow
    OBVIOUS
  <2>3. active_tab(page) \in Tabs
    BY ActiveTab
  <2>4. \A tab \in Tabs : \E c \in DOMAIN tabs : tabs[c].id = tab
    BY <2>2, ChromeSole
  <2>5. ASSUME NEW r \in 1 .. Len(rows), NEW c \in DOMAIN rows[r], rows[r][c].id \in Tabs
        PROVE  \E d \in DOMAIN rows[r] : rows[r][d].id = active_tab(page)
    <3>1. PICK d \in DOMAIN tabs : tabs[d].id = rows[r][c].id
      BY <2>4, <2>5
    <3>2. rows[2] = tabs
      BY <2>1, <2>2
    <3>3. r = 2
      BY <1>4, <2>1, <3>1, <3>2 DEF Sole, Distinct
    <3>4. QED
      BY <2>3, <2>4, <3>2, <3>3
  <2>6. QED
    BY <2>5 DEF TabsTogether
<1>8. QED
  BY <1>4, <1>6, <1>7

-----------------------------------------------------------------------------
(* The frames, swept.                                                      *)

\* No page holds the focus engine's None.
LEMMA PageIdsReal ==
    ASSUME NEW page \in PageId
    PROVE  NoWidget \notin PageIds(page)
<1>1. NoWidget \notin BodyIds(page)
  BY BodiesOffTabs
<1>2. NoWidget \notin ChromeIds(page)
  BY DEF ChromeIds, Tabs, TabOf, NoWidget
<1>3. QED
  BY <1>1, <1>2 DEF PageIds

\* On a page the keys lead from each widget to all of them.
LEMMA PageSwept ==
    ASSUME Apart, NEW page \in PageId, page # "Logs", NEW shape \in Views(page), NEW reg,
           reg = PageRegistry[page][shape], NEW w \in Ids(reg)
    PROVE  Ids(reg) \subseteq Reachable(page, reg, FALSE, w)
<1>1. /\ reg.rows \in Frames(PageIds(page)) /\ Grouped(reg)
      /\ Tabs \subseteq Ids(reg)
  BY PageFrame
<1>2. Distinct(reg.rows) /\ Narrow(reg.rows) /\ TabsTogether(page, reg.rows)
  BY PageSole DEF Sole
<1>3. TabsShown(page, reg)
  BY <1>1, ActiveTab DEF TabsShown
<1>4. NoWidget \notin PageIds(page)
  BY PageIdsReal
<1>5. QED
  BY <1>1, <1>2, <1>3, <1>4, FrameSwept

\* The page of the logs is its chrome: the window's [x], and the tabs.
LEMMA LogsFrame ==
    ASSUME NEW reg, reg = PageRegistry["Logs"]["Plain"]
    PROVE  /\ "Logs" \in PageId /\ Views("Logs") = {"Plain"}
           /\ reg.rows \in Frames({"WindowClose"} \cup Tabs) /\ Grouped(reg)
           /\ Len(reg.rows) = 2 /\ reg.rows[1] = Row(<<"WindowClose">>) /\ reg.rows[2] = TabRow
           /\ Distinct(reg.rows) /\ Narrow(reg.rows) /\ TabsShown("Logs", reg)
           /\ Ids(reg) \subseteq {"WindowClose"} \cup Tabs /\ Tabs \subseteq Ids(reg)
<1>1. "Logs" \in PageId /\ Views("Logs") = {"Plain"} /\ "Logs" \notin SubPages
  BY PagesApart DEF Views
<1>2. BodyIds("Logs") = {} /\ PageIds("Logs") = {"WindowClose"} \cup Tabs
      /\ ChromeIds("Logs") = {"WindowClose"} \cup Tabs
  BY <1>1 DEF BodyIds, PageIds, ChromeIds
<1>3. /\ reg.rows = ChromeRows("Logs") \o <<>>
      /\ reg.rows \in Frames({"WindowClose"} \cup Tabs) /\ Grouped(reg)
      /\ Ids(reg) \subseteq {"WindowClose"} \cup Tabs /\ Tabs \subseteq Ids(reg)
  <2>1. "Plain" \in Views("Logs") /\ Body("Logs", "Plain") = <<>>
    BY <1>1 DEF Body
  <2>2. QED
    BY <1>1, <1>2, <2>1, PageFrame
<1>4. TabsShown("Logs", reg)
  BY <1>1, <1>3, ActiveTab DEF TabsShown
<1>5. Sole({"WindowClose"} \cup Tabs, ChromeRows("Logs"))
  BY <1>1, <1>2, ChromeSole
<1>6. PICK a : a = Row(<<"WindowClose">>)
  OBVIOUS
<1>7. PICK t : t = TabRow
  OBVIOUS
<1>8. ChromeRows("Logs") = <<a, t>> \o <<>>
  BY <1>1, <1>6, <1>7 DEF ChromeRows
<1>9. PICK rows : rows = <<a, t>>
  OBVIOUS
<1>10. rows \in Seq({a, t}) /\ Len(rows) = 2 /\ rows[1] = a /\ rows[2] = t
  BY <1>9
<1>11. rows \o <<>> = rows
  BY <1>10
<1>12. reg.rows = rows /\ ChromeRows("Logs") = rows
  BY <1>3, <1>8, <1>9, <1>11
<1>13. Distinct(reg.rows)
  BY <1>5, <1>12 DEF Sole
<1>14. Narrow(reg.rows)
  <2>1. ({"WindowClose"} \cup Tabs) \cap Countries = {}
    BY DEF Countries, Tabs, TabOf
  <2>2. QED
    BY <1>3, <2>1, NarrowFrames
<1>15. QED
  BY <1>1, <1>3, <1>4, <1>6, <1>7, <1>10, <1>12, <1>13, <1>14

\* From a tab the keys lead to the others.
LEMMA LogsSwept ==
    ASSUME NEW reg, reg = PageRegistry["Logs"]["Plain"], NEW w \in Tabs
    PROVE  Ids(reg) \ {"WindowClose"} \subseteq Reachable("Logs", reg, FALSE, w)
<1>1. NoWidget \notin {"WindowClose"} \cup Tabs
  BY DEF Tabs, TabOf, NoWidget
<1>2. PICK C : /\ Reachable("Logs", reg, FALSE, w) = C \ {NoWidget}
               /\ w \in C /\ Closed("Logs", reg, FALSE, C)
  <2>1. w \in Ids(reg)
    BY LogsFrame
  <2>2. QED
    BY <1>1, <2>1, LogsFrame, ReachableCloses
<1>3. 2 \in RowNumbers(reg)
  BY LogsFrame DEF RowNumbers
<1>4. PICK c \in DOMAIN reg.rows[2] : reg.rows[2][c].id = w
  <2>1. "Logs" \in PageId
    BY LogsFrame
  <2>2. \A tab \in Tabs : \E c \in DOMAIN TabRow : TabRow[c].id = tab
    BY <2>1, ChromeSole
  <2>3. QED
    BY <2>2, LogsFrame
<1>5. \A d \in DOMAIN reg.rows[2] : reg.rows[2][d].id \in C
  BY <1>1, <1>2, <1>3, <1>4, LogsFrame, RowSwept
<1>6. ASSUME NEW tab \in Tabs PROVE tab \in C
  <2>1. "Logs" \in PageId
    BY LogsFrame
  <2>2. PICK d \in DOMAIN TabRow : TabRow[d].id = tab
    BY <2>1, ChromeSole
  <2>3. QED
    BY <1>5, <2>2, LogsFrame
<1>7. Ids(reg) \subseteq {"WindowClose"} \cup Tabs
  BY LogsFrame
<1>8. QED
  BY <1>1, <1>2, <1>6, <1>7

\* On a popup the keys lead from each button to the others.
LEMMA PopupSwept ==
    ASSUME NEW S, S \cap (Tabs \cup Countries \cup {NoWidget}) = {},
           NEW ids \in Seq(S), ids # <<>>, IsInjective(ids), NEW reg, reg = Popup(ids),
           NEW page, NEW shielded, NEW w \in Ids(reg)
    PROVE  Ids(reg) \subseteq Reachable(page, reg, shielded, w)
<1>1. reg.rows \in Frames(S) /\ reg.rows = <<Row(ids)>> /\ Grouped(reg)
  BY PopupFrame
<1>2. Distinct(reg.rows)
  BY <1>1, SoleRow DEF Sole
<1>3. Narrow(reg.rows)
  BY <1>1, NarrowFrames
<1>4. \A r \in 1 .. Len(reg.rows) : \A c \in DOMAIN reg.rows[r] : reg.rows[r][c].id \in S
  BY <1>1, CellIn
<1>5. TabsTogether(page, reg.rows)
  BY <1>4 DEF TabsTogether
<1>6. Tabs \cap Ids(reg) = {}
  BY <1>1, IdsOfFrame
<1>7. TabsShown(page, reg)
  BY <1>6 DEF TabsShown
<1>8. Len(reg.rows) = 1
  BY <1>1
<1>9. QED
  BY <1>1, <1>2, <1>3, <1>5, <1>7, <1>8, FrameSwept

-----------------------------------------------------------------------------
(* Where the focus is.                                                     *)

\* Once a frame is drawn the focus is on it, and the loop goes on.
FocusIsOn == drawn => (small \/ focused # NoWidget) /\ ~quit

\* What a popup returns to is forgotten when it closes.
PopupsForget ==
    /\ overlay.kind = "None" => overlay.return_focus = NoWidget
    /\ ~is_open(input) => inputReturn = NoWidget

\* On Logs no key leads to the window's [x], and a click on it ends the loop.
LogsOffClose ==
    topPage = "Logs" /\ ~quit => "WindowClose" \notin {focused, overlay.return_focus, inputReturn}

RInv == IInv /\ FocusIsOn /\ PopupsForget /\ LogsOffClose

\* The page is Logs exactly under its tab.
LEMMA LogsIsAlone ==
    ASSUME RunLoopTypeOK, BreadcrumbTellsTheWayBack, topPage = "Logs"
    PROVE  stack = <<>> /\ current_page = "Logs"
<1>1. current_page \in PageId /\ topPage = top_level_root(current_page)
  BY CurrentPage DEF BreadcrumbTellsTheWayBack
<1>2. current_page \notin SubPages
  BY <1>1, PagesApart DEF top_level_root, StatusPages, SettingsPages, VpnPages
<1>3. QED
  BY <1>2, CurrentPage

\* What an event does to the focus.
Refocuses ==
    \/ quit'
    \/ focused' \in Focus \ {"WindowClose"}
    \/ UNCHANGED topPage /\ focused' \in {focused, overlay.return_focus, inputReturn}
    \/ UNCHANGED topPage /\ (stack # <<>> \/ topPage # "Logs")

\* What a handler of a widget does to it.
LEMMA ActivateRefocuses ==
    ASSUME IInv, NEW w \in Ids(last_focus_registry), NEW n, Activate(w, n)
    PROVE  Refocuses
<1> USE DEF Refocuses
<1>0. w \in Focus /\ RunLoopTypeOK
  BY WidgetsInReach DEF IInv
<1>1. \A base \in RowBases : "WindowClose" \notin RowNames(base)
  <2>1. "WindowClose" \in FixedIds
    BY OverlayNames DEF FixedIds
  <2>2. QED
    BY <2>1, NamesApart
<1>2. CASE w = "WindowClose"
  <2>1. w \notin Tabs /\ w \notin Countries /\ w \notin DOMAIN OpensPage
    BY <1>2 DEF Tabs, TabOf, Countries, OpensPage
  <2>2. Quit(w, n)
    <3>1. ~ActivateStatus(w, n) /\ ~ActivateSelectLocation(w, n) /\ ~ActivateFilter(w, n)
      BY <1>2, <2>1 DEF ActivateStatus, ActivateSelectLocation, ActivateFilter
    <3>2. ~ActivateAccount(w, n) /\ ~ActivateRow(w, n)
      BY <1>1, <1>2 DEF ActivateAccount, ActivateRow, RowBases
    <3>3. ~ActivateSettings(w, n)
      BY <1>2, <2>1 DEF ActivateSettings, Toggles
    <3>4. ActivateOverlay(w, n)
      BY <3>1, <3>2, <3>3 DEF Activate
    <3>5. QED
      BY <1>2, <2>1, <3>4 DEF ActivateOverlay
  <2>3. QED
    BY <2>2 DEF Quit
<1>3. CASE w # "WindowClose"
  <2>0. focused' = w => Refocuses
    BY <1>0, <1>3
  <2>1. CASE ActivateOverlay(w, n)
    <3>1. CASE close_overlay_restoring_focus(w) /\ StayOnPage
      BY <2>0, <3>1 DEF close_overlay_restoring_focus, StayOnPage, navVars
    <3>2. CASE CloseInput(w) /\ StayOnPage
      BY <2>0, <3>2 DEF CloseInput, StayOnPage, navVars
    <3>3. CASE SubmitInput(w, n)
      BY <2>0, <3>3 DEF SubmitInput, CloseInput, StayOnPage, RefreshPage, navVars
    <3>4. CASE w = "BreadcrumbBack" /\ leave_sub_page(w)
      <4>1. w \in PageIds(current_page)
        BY <1>0, <3>4, WidgetsInReach
      <4>2. stack # <<>>
        BY <1>0, <3>4, <4>1, BackOnSubPages, BreadcrumbButton, CurrentPage DEF IInv
      <4>3. QED
        BY <3>4, <4>2 DEF leave_sub_page
    <3>5. QED
      BY <2>0, <2>1, <3>1, <3>2, <3>3, <3>4 DEF ActivateOverlay, Remain, Quit
  <2>2. CASE ActivateStatus(w, n)
    <3>1. "ExitTab" \in Focus \ {"WindowClose"} /\ Countries \subseteq Focus \ {"WindowClose"}
      BY NamedWidgets DEF Focus, Countries
    <3>2. QED
      BY <2>0, <2>2, <3>1, <1>3, <1>0 DEF ActivateStatus, Remain, Call, Ask
  <2>3. CASE ActivateSelectLocation(w, n)
    <3>1. Countries \subseteq Focus \ {"WindowClose"}
      BY NamedWidgets DEF Focus, Countries
    <3>2. CASE w \in Countries /\ leave_sub_page(w)
      <4>1. w \notin OverlayIds
        BY <3>2, OverlayNames DEF Countries
      <4>2. w \in PageIds(current_page)
        BY <1>0, <4>1, WidgetsInReach
      <4>3. current_page = "SelectLocation"
        BY <1>0, <3>2, <4>2, WhereWidgetsAre, CurrentPage
      <4>4. stack # <<>>
        BY <1>0, <4>3, BreadcrumbButton DEF IInv, SubPages, StatusPages
      <4>5. QED
        BY <3>2, <4>4 DEF leave_sub_page
    <3>3. QED
      BY <1>0, <1>3, <2>0, <2>3, <3>1, <3>2 DEF ActivateSelectLocation, Remain, Enter, Show
  <2>4. CASE ActivateFilter(w, n) \/ ActivateAccount(w, n) \/ ActivateRow(w, n)
    BY <2>0, <2>4 DEF ActivateFilter, ActivateAccount, ActivateRow, Remain, Call, CallAndRefetch, Show,
                      Prompt, Ask
  <2>5. CASE ActivateSettings(w, n)
    BY <2>0, <2>5 DEF ActivateSettings, Enter, Remain, Call, Show, Prompt, Ask, Quit
  <2>6. QED
    BY <2>1, <2>2, <2>3, <2>4, <2>5 DEF Activate
<1>4. QED
  BY <1>2, <1>3

\* What the frame shows on Logs: the chrome, unless a popup is over it.
LEMMA LogsShown ==
    ASSUME RunLoopTypeOK, BreadcrumbTellsTheWayBack, topPage = "Logs"
    PROVE  \/ /\ ~small /\ ~PopupOpen
              /\ last_focus_registry = PageRegistry["Logs"]["Plain"]
           \/ /\ small \/ PopupOpen
              /\ "WindowClose" \notin Lands(last_focus_registry)
              /\ Tabs \cap Ids(last_focus_registry) = {}
<1>1. /\ current_page = "Logs" /\ view = "Plain" /\ overlay.kind \in {"None", "Confirm", "Notification"}
      /\ small \in BOOLEAN
  BY LogsIsAlone, LogsFrame, FocusTypes DEF RunLoopTypeOK
<1>2. CASE ~small /\ ~PopupOpen
  BY <1>1, <1>2 DEF last_focus_registry, PopupOpen
<1>3. CASE small \/ PopupOpen
  <2>1. Ids(last_focus_registry) \subseteq Shown
    BY FrameShown
  <2>2. "WindowClose" \notin Shown
    BY <1>1, <1>3 DEF Shown, PopupOpen, ConfirmIds, PromptIds
  <2>3. Tabs \cap Shown = {}
    BY <1>1, <1>3 DEF Shown, PopupOpen, ConfirmIds, PromptIds, Tabs, TabOf
  <2>4. QED
    BY <1>3, <2>1, <2>2, <2>3 DEF Lands, NoWidget
<1>4. QED
  BY <1>2, <1>3

\* The tabs are a frame of their own.
LEMMA TabsFrame == <<TabRow>> \in Frames(Tabs)
<1>1. PICK f : f = [i \in 1 .. 4 |-> TabOf[TopLevelPages[i]]]
  OBVIOUS
<1>2. \A c \in 1 .. 4 : TabOf[TopLevelPages[c]] \in Tabs
  <2>1. \A c \in 1 .. 4 : c \in {1, 2, 3, 4}
    OBVIOUS
  <2>2. Tabs = {"StatusTab", "AccountTab", "SettingsTab", "LogsTab"}
    BY DEF Tabs, TabOf
  <2>3. QED
    BY <2>1, <2>2 DEF TopLevelPages, TabOf
<1>3. f \in Seq(Tabs) /\ Len(f) = 4
  BY <1>1, <1>2, IsASeq
<1>4. f # <<>>
  BY <1>3
<1>5. QED
  BY <1>1, <1>3, <1>4, RowFrame DEF TabRow

\* Logs has no body.
LEMMA LogsBody == first_body_widget(PageRegistry["Logs"]["Plain"]) = NoWidget
<1>1. PICK reg : reg = PageRegistry["Logs"]["Plain"]
  OBVIOUS
<1>2. PICK rows : rows = ChromeRows("Logs")
  OBVIOUS
<1>3. "Logs" \in PageId /\ "Plain" \in Views("Logs")
  BY LogsFrame
<1>4. rows \in Frames(ChromeIds("Logs")) /\ reg.rows = rows \o <<>>
  <2>1. Body("Logs", "Plain") = <<>>
    BY DEF Body
  <2>2. QED
    BY <1>1, <1>2, <1>3, <2>1, PageFrame, ChromeFrame
<1>5. reg.rows = rows
  BY <1>4 DEF Frames
<1>6. \A r \in RowNumbers(reg) : Only(Chrome, reg.rows[r])
  BY <1>2, <1>3, <1>5, ChromeRowsOnly DEF RowNumbers
<1>7. {r \in RowNumbers(reg) : ~Only(Chrome, reg.rows[r])} = {}
  BY <1>6
<1>8. QED
  BY <1>1, <1>7 DEF first_body_widget

\* A frame with a row begins with a widget.
LEMMA FirstCell ==
    ASSUME NEW S, NEW reg, reg.rows \in Frames(S), reg.rows # <<>>
    PROVE  1 \in RowNumbers(reg) /\ 1 \in DOMAIN reg.rows[1]
<1>1. 1 \in RowNumbers(reg)
  BY EmptySeq DEF Frames, RowNumbers
<1>2. PICK row \in Seq(Cells(S)) : row = reg.rows[1] /\ row # <<>>
  BY <1>1 DEF Frames, RowNumbers
<1>3. QED
  BY <1>1, <1>2, EmptySeq

\* There is a row on each frame but that of a small terminal.
LEMMA FramesNotEmpty ==
    ASSUME RunLoopTypeOK, ~small
    PROVE  last_focus_registry.rows # <<>>
<1>1. /\ current_page \in PageId /\ view \in Views(current_page)
      /\ overlay.kind \in {"None", "Confirm", "Notification"}
  BY CurrentPage, FocusTypes
<1>2. \A ids : Popup(ids).rows # <<>>
  BY DEF Popup
<1>3. PageRegistry[current_page][view].rows # <<>>
  <2>1. PICK rows : rows = PageRegistry[current_page][view].rows
    OBVIOUS
  <2>2. PICK tab \in Tabs : TRUE
    BY DEF Tabs, TabOf
  <2>3. contains(PageRegistry[current_page][view], tab)
    BY <1>1, PageFrame, ContainedIds
  <2>4. QED
    BY <2>3 DEF contains, RowNumbers
<1>4. QED
  BY <1>1, <1>2, <1>3
     DEF last_focus_registry, ConfirmOverlay, NotificationOverlay, InputPrompt, MultiFieldInputPrompt

\* Left and Right along the tabs of Logs.
LEMMA AlongTheTabs ==
    ASSUME NEW reg, reg = PageRegistry["Logs"]["Plain"], NEW w \in Tabs, NEW dir \in {"Left", "Right"}
    PROVE  navigate(reg, w, dir) \in Tabs \cup {NoWidget}
<1>1. "Logs" \in PageId
  BY LogsFrame
<1>2. PICK d \in DOMAIN TabRow : TabRow[d].id = w
  BY <1>1, ChromeSole
<1>3. 2 \in RowNumbers(reg) /\ reg.rows[2] = TabRow
  BY LogsFrame DEF RowNumbers
<1>4. contains(reg, w) /\ position(reg, w) = <<2, d>>
  <2>1. d \in DOMAIN reg.rows[2] /\ reg.rows[2][d].id = w
    BY <1>2, <1>3
  <2>2. reg.rows \in Frames({"WindowClose"} \cup Tabs) /\ Distinct(reg.rows)
    BY LogsFrame
  <2>3. QED
    BY <1>3, <2>1, <2>2, PositionIs
<1>5. navigate(reg, w, dir) = horizontal_neighbor(TabRow, d, dir = "Right")
  BY <1>3, <1>4 DEF navigate
<1>6. PICK alone : alone = [rows |-> <<TabRow>>, groups |-> <<>>]
  OBVIOUS
<1>7. alone.rows = <<TabRow>> /\ 1 \in RowNumbers(alone) /\ alone.rows[1] = TabRow
  BY <1>6 DEF RowNumbers
<1>8. alone.rows \in Frames(Tabs)
  BY <1>7, TabsFrame
<1>9. horizontal_neighbor(alone.rows[1], d, dir = "Right") \in Lands(alone)
  <2>1. (dir = "Right") \in BOOLEAN /\ d \in DOMAIN alone.rows[1]
    BY <1>2, <1>7
  <2>2. QED
    BY <1>7, <1>8, <2>1, HorizontalLands
<1>10. Ids(alone) \subseteq Tabs
  BY <1>8, IdsOfFrame
<1>11. QED
  BY <1>5, <1>7, <1>9, <1>10 DEF Lands

\* Tab and Shift+Tab have nowhere to go on Logs: it is one pane.
LEMMA OnePaneOnLogs ==
    ASSUME NEW reg, reg = PageRegistry["Logs"]["Plain"], NEW w, NEW forward \in BOOLEAN
    PROVE  cycle_pane(reg, w, forward) = NoWidget
<1>0. PICK bar : bar = <<"TabBar", 0>>
  OBVIOUS
<1>1. reg.rows \in Frames({"WindowClose"} \cup Tabs) /\ RowNumbers(reg) = 1 .. 2
  BY LogsFrame DEF RowNumbers
<1>2. ASSUME NEW r \in 1 .. 2 PROVE pane_kind_of_row(reg, r) = bar
  <2>1. Only({"TabButton", "WindowClose"}, reg.rows[r])
    <3>1. \A id \in {"WindowClose"} \cup Tabs : KindOf(id) \in {"TabButton", "WindowClose"}
      <4>1. Tabs = {"StatusTab", "AccountTab", "SettingsTab", "LogsTab"}
        BY DEF Tabs, TabOf
      <4>2. QED
        BY <4>1 DEF KindOf, Countries
    <3>2. r = 1 \/ r = 2
      OBVIOUS
    <3>3. CASE r = 1
      <4>1. PICK ids : ids = <<"WindowClose">>
        OBVIOUS
      <4>2. Len(Row(ids)) = 1 /\ \A c \in 1 .. 1 : Row(ids)[c].kind = KindOf("WindowClose")
        <5>1. \A c \in 1 .. 1 : c = 1
          OBVIOUS
        <5>2. QED
          BY <4>1, <5>1 DEF Row, Widget
      <4>3. reg.rows[r] = Row(ids)
        BY <3>3, <4>1, LogsFrame
      <4>4. QED
        BY <3>1, <4>2, <4>3 DEF Only
    <3>4. CASE r = 2
      <4>1. Len(TabRow) = 4 /\ \A c \in 1 .. 4 : TabRow[c].kind = KindOf(TabOf[TopLevelPages[c]])
        BY DEF TabRow, Row, Widget
      <4>2. \A c \in 1 .. 4 : TabOf[TopLevelPages[c]] \in Tabs
        <5>1. \A c \in 1 .. 4 : c \in {1, 2, 3, 4}
          OBVIOUS
        <5>2. Tabs = {"StatusTab", "AccountTab", "SettingsTab", "LogsTab"}
          BY DEF Tabs, TabOf
        <5>3. QED
          BY <5>1, <5>2 DEF TopLevelPages, TabOf
      <4>3. reg.rows[r] = TabRow
        BY <3>4, LogsFrame
      <4>4. QED
        BY <3>1, <4>1, <4>2, <4>3 DEF Only
    <3>5. QED
      BY <3>2, <3>3, <3>4
  <2>2. QED
    <3>1. ~Only({"BreadcrumbBack"}, reg.rows[r])
      <4>1. 1 \in DOMAIN reg.rows[r]
        <5>1. PICK S : reg.rows \in Frames(S)
          BY <1>1
        <5>2. Len(reg.rows[r]) \in Nat \ {0} /\ DOMAIN reg.rows[r] = 1 .. Len(reg.rows[r])
          BY <1>1, <5>1, RowOfFrame
        <5>3. QED
          BY <5>2
      <4>2. reg.rows[r][1].kind # "BreadcrumbBack"
        BY <2>1, <4>1 DEF Only
      <4>3. QED
        BY <4>1, <4>2 DEF Only
    <3>2. PICK p, q : pane_kind_of_row(reg, r) =
                        CASE Only({"TabButton", "WindowClose"}, reg.rows[r]) -> bar
                          [] Only({"BreadcrumbBack"}, reg.rows[r]) -> p
                          [] OTHER -> q
      BY <1>0, Zenon DEF pane_kind_of_row
    <3>3. QED
      BY <2>1, <3>1, <3>2
<1>3. PaneStarts(reg) = {1}
  <2>1. \A r \in 1 .. 2 : r = 1 \/ (r = 2 /\ r - 1 = 1)
    OBVIOUS
  <2>2. 1 \in 1 .. 2 /\ 2 \in 1 .. 2
    OBVIOUS
  <2>3. pane_kind_of_row(reg, 2) = pane_kind_of_row(reg, 1)
    BY <1>2, <2>2
  <2>4. QED
    BY <1>1, <2>1, <2>2, <2>3 DEF PaneStarts
<1>4. Cardinality(PaneStarts(reg)) < 2
  BY <1>3, FS_Singleton
<1>5. QED
  BY <1>4 DEF cycle_pane

\* No key leads to the window's [x] on Logs.
LEMMA KeysOffClose ==
    ASSUME RInv, EventArm, topPage = "Logs", NEW key \in NavigationKeys
    PROVE  Reaches(key) # "WindowClose"
<1> DEFINE reg == last_focus_registry
           shielded == overlay.kind # "None"
<1>1. /\ RunLoopTypeOK /\ BreadcrumbTellsTheWayBack /\ current_page = "Logs" /\ drawn /\ ~quit
      /\ focused \in Lands(reg)
  BY LogsIsAlone DEF RInv, IInv, EventArm, FocusOnFrame
<1>2. /\ reg.rows \in Frames(Shown) /\ Grouped(reg)
  BY <1>1, FrameShown
<1>3. Reaches(key) = Target("Logs", reg, shielded, focused, key)
  BY <1>1 DEF Reaches
<1>4. CASE small \/ PopupOpen
  <2>1. "WindowClose" \notin Lands(reg) /\ TabsShown("Logs", reg)
    BY <1>1, <1>4, LogsShown DEF TabsShown
  <2>2. Target("Logs", reg, shielded, focused, key) \in Lands(reg)
    BY <1>2, <2>1, TargetLands
  <2>3. QED
    BY <1>3, <2>1, <2>2
<1>5. CASE ~small /\ ~PopupOpen
  <2>1. reg = PageRegistry["Logs"]["Plain"] /\ ~shielded
    BY <1>1, <1>5, LogsShown DEF PopupOpen
  <2>2. focused \in Tabs
    <3>1. focused # NoWidget /\ focused # "WindowClose"
      BY <1>1, <1>5 DEF RInv, FocusIsOn, LogsOffClose
    <3>2. Ids(reg) \subseteq {"WindowClose"} \cup Tabs
      BY <2>1, LogsFrame
    <3>3. QED
      BY <1>1, <3>1, <3>2 DEF Lands
  <2>3. focused \notin Countries
    BY <2>2 DEF Tabs, TabOf, Countries
  <2>4. NoWidget # "WindowClose" /\ "WindowClose" \notin Tabs /\ NoWidget \notin Tabs
    BY DEF NoWidget, Tabs, TabOf
  <2> HIDE DEF reg, shielded
  <2>5. CASE key \in {"Left", "Right"}
    <3>1. Target("Logs", reg, shielded, focused, key) = navigate(reg, focused, key)
      BY <2>3, <2>5 DEF Target
    <3>2. QED
      BY <1>3, <2>1, <2>2, <2>4, <2>5, <3>1, AlongTheTabs
  <2>6. CASE key \in {"Up", "Down", "Home", "End", "PageUp", "PageDown"}
    <3>1. Target("Logs", reg, shielded, focused, key) = NoWidget
      BY <2>1, <2>6 DEF Target
    <3>2. QED
      BY <1>3, <2>4, <3>1
  <2>7. CASE key \in {"Tab", "BackTab"}
    <3>1. cycle_pane(reg, focused, TRUE) = NoWidget /\ cycle_pane(reg, focused, FALSE) = NoWidget
      BY <2>1, OnePaneOnLogs
    <3>2. Target("Logs", reg, shielded, focused, key) = NoWidget
      BY <2>4, <2>7, <3>1 DEF Target, prefer_active_tab
    <3>3. QED
      BY <1>3, <2>4, <3>2
  <2>8. QED
    BY <2>5, <2>6, <2>7 DEF NavigationKeys, Arrows
<1>6. QED
  BY <1>4, <1>5

\* What each event does to the focus.
LEMMA EventRefocuses ==
    ASSUME RInv, UserEvent
    PROVE  Refocuses
<1> USE DEF Refocuses
<1>0. IInv /\ RunLoopTypeOK
  BY DEF RInv, IInv
<1>1. CASE SearchKey \/ MtuKey \/ MtuEnter \/ Resize \/ QuitKey
  BY <1>1 DEF SearchKey, MtuKey, MtuEnter, Resize, QuitKey, navVars, StayOnPage
<1>2. CASE SlashKey
  <2>1. "SearchAnchor" \in Focus
    BY NamedWidgets DEF Focus
  <2>2. QED
    BY <1>2, <2>1 DEF SlashKey
<1>3. CASE CancelKey
  BY <1>3 DEF CancelKey, close_overlay_restoring_focus, StayOnPage, leave_sub_page, navVars
<1>4. CASE ActivateKey
  <2>1. focused \in Ids(last_focus_registry)
    BY <1>0, <1>4 DEF ActivateKey, Listening, EventArm, IInv, FocusOnFrame, Lands
  <2>2. QED
    BY <1>0, <1>4, <2>1, ActivateRefocuses DEF ActivateKey
<1>5. CASE InputPopupKey
  BY <1>5 DEF InputPopupKey, InputKey, CloseInput, SubmitInput, StayOnPage, RefreshPage, navVars
<1>6. ASSUME NEW key \in NavigationKeys, NavigationKey(key) PROVE Refocuses
  <2>1. EventArm /\ focused' = Reaches(key) /\ UNCHANGED topPage
    BY <1>6 DEF NavigationKey, Listening, StayOnPage, navVars
  <2>2. focused' \in Focus
    BY <1>0, <2>1, ReachesFocus
  <2>3. QED
    BY <2>1, <2>2, KeysOffClose
<1>7. ASSUME NEW page \in DOMAIN TabOf, NavigateTab(page) PROVE Refocuses
  <2>1. focused' \in Tabs
    BY <1>7 DEF NavigateTab, Tabs
  <2>2. Tabs \subseteq Focus \ {"WindowClose"}
    BY NamedWidgets DEF Focus, Tabs, TabOf
  <2>3. QED
    BY <2>1, <2>2
<1>8. ASSUME NEW w \in Ids(last_focus_registry), Click(w) PROVE Refocuses
  BY <1>0, <1>8, ActivateRefocuses DEF Click
<1>9. QED
  BY <1>1, <1>2, <1>3, <1>4, <1>5, <1>6, <1>7, <1>8 DEF UserEvent

-----------------------------------------------------------------------------
(* The steps.                                                              *)

\* An event keeps it.
LEMMA EventKeepsFocus ==
    ASSUME RInv, NEW w \in Focus, NEW n, Event(w, n), Refocuses
    PROVE  FocusIsOn' /\ PopupsForget' /\ LogsOffClose'
<1>1. /\ RunLoopTypeOK /\ BreadcrumbTellsTheWayBack /\ PopupsForget /\ LogsOffClose
      /\ overlay.kind \in {"None", "Confirm", "Notification"}
  BY FocusTypes DEF RInv, IInv
<1>2. ~quit /\ drawn' = FALSE /\ PopupStep(w) /\ Remember /\ (PopupOpen => UNCHANGED topPage)
  BY DEF Event, EventArm, Handled, HandlerStep, AfterEvent, navVars
<1>3. FocusIsOn'
  BY <1>2 DEF FocusIsOn
<1>4. \/ overlay' = overlay
      \/ overlay'.kind = "None" /\ overlay'.return_focus = NoWidget
      \/ overlay'.kind = "Confirm" /\ overlay'.return_focus = focused'
  BY <1>2 DEF PopupStep, Same, Asks, Prompts, Dismisses, Closes, Edits, Confirm,
              close_overlay_restoring_focus, NoOverlay, CloseInput
<1>5. /\ inputReturn' \in {inputReturn, NoWidget, focused'}
      /\ ~is_open(input') => \/ is_open(input) /\ inputReturn' = NoWidget
                             \/ ~is_open(input) /\ inputReturn' = inputReturn
  BY <1>2 DEF Remember
<1>6. PopupsForget'
  BY <1>1, <1>4, <1>5 DEF PopupsForget
<1>7. LogsOffClose'
  <2>1. SUFFICES ASSUME topPage' = "Logs", ~quit'
                 PROVE  "WindowClose" \notin {focused', overlay'.return_focus, inputReturn'}
    BY DEF LogsOffClose
  <2>2. CASE topPage = "Logs"
    <3>1. "WindowClose" \notin {focused, overlay.return_focus, inputReturn} /\ stack = <<>>
      BY <1>1, <1>2, <2>2, LogsIsAlone DEF LogsOffClose
    <3>2. focused' # "WindowClose"
      BY <2>1, <2>2, <3>1 DEF Refocuses
    <3>3. QED
      BY <1>4, <1>5, <3>1, <3>2 DEF NoWidget
  <2>3. CASE topPage # "Logs"
    <3>1. ~PopupOpen /\ focused' # "WindowClose"
      BY <1>2, <2>1, <2>3 DEF Refocuses
    <3>2. overlay.return_focus = NoWidget /\ inputReturn = NoWidget
      BY <1>1, <3>1 DEF PopupOpen, PopupsForget
    <3>3. QED
      BY <1>4, <1>5, <3>1, <3>2 DEF NoWidget
  <2>4. QED
    BY <2>2, <2>3
<1>8. QED
  BY <1>3, <1>6, <1>7

\* Drawing puts the focus on the frame, and not on the window's [x] of Logs.
LEMMA DrawKeepsFocus ==
    ASSUME RInv, Draw
    PROVE  FocusIsOn' /\ PopupsForget' /\ LogsOffClose'
<1> DEFINE reg == last_focus_registry
<1>1. /\ RunLoopTypeOK /\ BreadcrumbTellsTheWayBack /\ PopupsForget /\ LogsOffClose
      /\ small \in BOOLEAN /\ current_page \in PageId
  BY CurrentPage DEF RInv, IInv, RunLoopTypeOK
<1>2. /\ UNCHANGED <<topPage, stack, overlay, input, inputReturn, small, quit>> /\ ~quit
      /\ focused' = set_focus_registry(reg) /\ drawn' = TRUE
  BY DEF Draw, navVars
<1>3. reg.rows \in Frames(Shown) /\ Ids(reg) \subseteq Shown /\ NoWidget \notin Shown
  <2>1. NoWidget \notin Shown
    BY <1>1, PageIdsReal DEF Shown, ConfirmIds, PromptIds, NoWidget
  <2>2. QED
    BY <1>1, <2>1, FrameShown
<1>4. ASSUME ~small PROVE set_focus_registry(reg) # NoWidget
  <2>1. \A id : contains(reg, id) => id # NoWidget
    BY <1>3, ContainedIds
  <2>2. reg.rows # <<>>
    BY <1>1, <1>4, FramesNotEmpty
  <2>3. first(reg) # NoWidget
    <3>1. 1 \in RowNumbers(reg) /\ 1 \in DOMAIN reg.rows[1]
      BY <1>3, <2>2, FirstCell
    <3>2. first(reg) = reg.rows[1][1].id
      BY <2>2 DEF first
    <3>3. QED
      BY <1>3, <3>1, <3>2, CellOfFrame
  <2>4. active_tab(current_page) # NoWidget
    BY <1>1, ActiveTab DEF Tabs, TabOf, NoWidget
  <2> HIDE DEF reg
  <2>5. QED
    BY <2>1, <2>3, <2>4 DEF set_focus_registry
<1>5. FocusIsOn'
  BY <1>2, <1>4 DEF FocusIsOn
<1>6. PopupsForget'
  BY <1>1, <1>2 DEF PopupsForget
<1>7. LogsOffClose'
  <2>1. SUFFICES ASSUME topPage = "Logs" PROVE focused' # "WindowClose"
    BY <1>1, <1>2 DEF LogsOffClose
  <2>2. focused # "WindowClose" /\ current_page = "Logs"
    BY <1>1, <1>2, <2>1, LogsIsAlone DEF LogsOffClose
  <2>3. active_tab(current_page) \in Tabs /\ "WindowClose" \notin Tabs
    BY <1>1, ActiveTab DEF Tabs, TabOf
  <2>4. CASE small \/ PopupOpen
    <3>1. "WindowClose" \notin Lands(reg)
      BY <1>1, <2>1, <2>4, LogsShown
    <3>2. first_body_widget(reg) \in Lands(reg) /\ first(reg) \in Lands(reg)
      BY <1>3, FirstBodyLands, FirstLands
    <3> HIDE DEF reg
    <3>3. QED
      BY <1>2, <2>2, <2>3, <3>1, <3>2 DEF set_focus_registry
  <2>5. CASE ~small /\ ~PopupOpen
    <3>1. reg = PageRegistry["Logs"]["Plain"]
      BY <1>1, <2>1, <2>5, LogsShown
    <3>2. first_body_widget(reg) = NoWidget
      BY <3>1, LogsBody
    <3>3. contains(reg, active_tab(current_page))
      BY <2>3, <3>1, LogsFrame, ContainedIds
    <3> HIDE DEF reg
    <3>4. QED
      BY <1>2, <2>2, <2>3, <3>2, <3>3 DEF set_focus_registry
  <2>6. QED
    BY <2>4, <2>5
<1>8. QED
  BY <1>5, <1>6, <1>7

\* A step that moves neither the tab, the focus nor a popup keeps it.
LEMMA RestKeepsFocus ==
    ASSUME RInv, UNCHANGED <<topPage, focused, overlay, input, inputReturn, quit>>,
           drawn' = FALSE \/ UNCHANGED <<drawn, small>>
    PROVE  FocusIsOn' /\ PopupsForget' /\ LogsOffClose'
<1>1. FocusIsOn /\ PopupsForget /\ LogsOffClose
  BY DEF RInv
<1>2. FocusIsOn'
  BY <1>1 DEF FocusIsOn
<1>3. PopupsForget'
  BY <1>1 DEF PopupsForget
<1>4. LogsOffClose'
  BY <1>1 DEF LogsOffClose
<1>5. QED
  BY <1>2, <1>3, <1>4

\* The widget a notification returns to is one that the focus or the overlay had.
LEMMA NotificationKeepsFocus ==
    ASSUME RInv, ShowNotification
    PROVE  FocusIsOn' /\ PopupsForget' /\ LogsOffClose'
<1>1. FocusIsOn /\ PopupsForget /\ LogsOffClose
  BY DEF RInv
<1>2. /\ UNCHANGED <<topPage, focused, input, inputReturn, quit>> /\ drawn' = FALSE
      /\ overlay'.kind = "Notification"
      /\ overlay'.return_focus \in {focused, overlay.return_focus}
  BY DEF ShowNotification, Notification, NotificationReturn, navVars
<1>3. FocusIsOn'
  BY <1>2 DEF FocusIsOn
<1>4. PopupsForget'
  BY <1>1, <1>2 DEF PopupsForget
<1>5. LogsOffClose'
  BY <1>1, <1>2 DEF LogsOffClose
<1>6. QED
  BY <1>3, <1>4, <1>5

\* Every step keeps it.
LEMMA StepKeepsFocus ==
    ASSUME RInv, [Next]_vars
    PROVE  RInv'
<1>1. IInv'
  BY StepKeeps DEF RInv
<1>2. SUFFICES FocusIsOn' /\ PopupsForget' /\ LogsOffClose'
  BY <1>1 DEF RInv
<1>3. CASE UserEvent
  <2>1. IInv /\ Refocuses
    BY <1>3, EventRefocuses DEF RInv
  <2>2. CASE \E w \in Focus, n \in Sends : Event(w, n)
    <3>1. PICK w \in Focus, n \in Sends : Event(w, n)
      BY <2>2
    <3>2. QED
      BY <2>1, <3>1, EventKeepsFocus
  <2>3. CASE SearchKey
    <3>1. /\ UNCHANGED <<topPage, focused, overlay, input, quit>> /\ drawn' = FALSE
          /\ Remember
      BY <2>3 DEF SearchKey, navVars, AfterEvent, Handled
    <3>2. UNCHANGED inputReturn
      BY <3>1 DEF Remember
    <3>3. QED
      BY <3>1, <3>2, RestKeepsFocus
  <2>4. CASE MtuKey \/ MtuEnter \/ Resize
    BY <2>4, RestKeepsFocus DEF MtuKey, MtuEnter, Resize, Handled, navVars
  <2>5. QED
    BY <1>3, <2>1, <2>2, <2>3, <2>4, UserEvents
<1>4. CASE Draw
  BY <1>4, DrawKeepsFocus
<1>5. CASE DataChanged \/ SettingsChanged \/ SetMtuElsewhere
  BY <1>5, RestKeepsFocus DEF DataChanged, SettingsChanged, SetMtuElsewhere, navVars
<1>6. CASE ShowNotification
  BY <1>6, NotificationKeepsFocus
<1>7. CASE UNCHANGED vars
  BY <1>7, RestKeepsFocus DEF vars
<1>8. QED
  BY <1>3, <1>4, <1>5, <1>6, <1>7 DEF Next, Exited

\* The strengthened invariant holds of the initial states.
LEMMA InitHoldsFocus == Init => RInv
<1> SUFFICES ASSUME Init PROVE RInv
  OBVIOUS
<1>1. IInv
  BY InitHolds
<1>2. FocusIsOn /\ PopupsForget /\ LogsOffClose
  BY DEF Init, FocusIsOn, PopupsForget, LogsOffClose, NoOverlay
<1>3. QED
  BY <1>1, <1>2 DEF RInv

\* The strengthened invariant, for every value of the constants.
LEMMA FocusInvariant == Spec => []RInv
<1>1. Init => RInv
  BY InitHoldsFocus
<1>2. RInv /\ [Next]_vars => RInv'
  BY StepKeepsFocus
<1>3. QED
  BY <1>1, <1>2, PTL DEF Spec

\* The overlays are popups of buttons of their own.
LEMMA OverlaySwept ==
    ASSUME NEW reg, reg = ConfirmOverlay \/ reg = NotificationOverlay,
           NEW page, NEW w \in Ids(reg)
    PROVE  Ids(reg) \subseteq Reachable(page, reg, TRUE, w)
<1> DEFINE S == {"ConfirmReject", "ConfirmAccept", "NotificationDismiss"}
<1>1. S \cap (Tabs \cup Countries \cup {NoWidget}) = {}
  BY DEF Tabs, TabOf, Countries, NoWidget
<1>2. PICK ids \in Seq(S) : ids # <<>> /\ IsInjective(ids) /\ reg = Popup(ids)
  <2>1. CASE reg = ConfirmOverlay
    <3>1. PICK ids : ids = <<"ConfirmReject", "ConfirmAccept">>
      OBVIOUS
    <3>2. ids \in Seq(S) /\ Len(ids) = 2 /\ ids[1] = "ConfirmReject" /\ ids[2] = "ConfirmAccept"
      BY <3>1
    <3>3. IsInjective(ids)
      BY <3>2 DEF IsInjective
    <3>4. ids # <<>> /\ reg = Popup(ids)
      BY <2>1, <3>1, <3>2 DEF ConfirmOverlay
    <3>5. QED
      BY <3>2, <3>3, <3>4
  <2>2. CASE reg = NotificationOverlay
    <3>1. PICK ids : ids = <<"NotificationDismiss">>
      OBVIOUS
    <3>2. ids \in Seq(S) /\ Len(ids) = 1
      BY <3>1
    <3>3. IsInjective(ids)
      BY <3>2 DEF IsInjective
    <3>4. ids # <<>> /\ reg = Popup(ids)
      BY <2>2, <3>1, <3>2 DEF NotificationOverlay
    <3>5. QED
      BY <3>2, <3>3, <3>4
  <2>3. QED
    BY <2>1, <2>2
<1> HIDE DEF S
<1>3. QED
  BY <1>1, <1>2, PopupSwept

\* Nothing on a frame is for the mouse only: from wherever the keys, the clicks
\* and the snap of set_focus_registry have left the focus, the keys of focus.rs
\* lead to every widget of the frame, with the exceptions that the property
\* names.  The lists of the pages are as short as for IdsApart: past that a
\* row's [Remove] has the id of an overlay's button, and that the widgets of a
\* frame differ is not proved.
THEOREM WidgetsReachable ==
    (ListRows <= 14 \/ (Linux /\ ListRows <= 30)) => (Spec => []EveryWidgetIsReachable)
<1> SUFFICES ASSUME Apart PROVE Spec => []EveryWidgetIsReachable
  BY DEF Apart
<1>1. RInv => EveryWidgetIsReachable
  <2> DEFINE reg == last_focus_registry
             page == PageRegistry[current_page][view]
             except == IF current_page = "Logs" THEN {"WindowClose"} ELSE {}
  <2> SUFFICES ASSUME RInv, drawn, ~small, ~InputHasKeys
               PROVE  /\ contains(reg, focused)
                      /\ Ids(reg) \ except
                           \subseteq IF overlay.kind = "None" THEN PageReach[current_page][view][focused]
                                     ELSE Reachable(current_page, reg, TRUE, focused)
    BY DEF EveryWidgetIsReachable
  <2>1. /\ RunLoopTypeOK /\ BreadcrumbTellsTheWayBack /\ current_page \in PageId
        /\ view \in Views(current_page) /\ ~quit /\ focused \in Ids(reg)
        /\ overlay.kind \in {"None", "Confirm", "Notification"}
    BY CurrentPage, FocusTypes DEF RInv, IInv, FocusOnFrame, FocusIsOn, Lands
  <2>2. contains(reg, focused)
    BY <2>1, FrameShown, ContainedIds
  <2>3. CASE overlay.kind # "None"
    <3>1. reg = ConfirmOverlay \/ reg = NotificationOverlay
      BY <2>1, <2>3 DEF last_focus_registry
    <3> HIDE DEF reg, except
    <3>2. QED
      BY <2>1, <2>2, <2>3, <3>1, OverlaySwept
  <2>4. CASE overlay.kind = "None"
    <3>1. reg = page /\ ~PopupOpen
      BY <2>1, <2>4 DEF last_focus_registry, InputHasKeys, PopupOpen
    <3>2. PageReach[current_page][view][focused] = Reachable(current_page, page, FALSE, focused)
      <4>1. focused \in Ids(page)
        BY <2>1, <3>1
      <4>2. QED
        BY <2>1, <4>1 DEF PageReach
    <3>3. CASE current_page # "Logs"
      <4>1. Ids(page) \subseteq Reachable(current_page, page, FALSE, focused)
        BY <2>1, <3>1, <3>3, PageSwept
      <4> HIDE DEF reg, page, except
      <4>2. QED
        BY <2>2, <2>4, <3>1, <3>2, <4>1
    <3>4. CASE current_page = "Logs"
      <4>1. topPage = "Logs"
        <5>1. current_page \notin SubPages
          BY <3>4, LogsFrame, PagesApart DEF SubPages, StatusPages, SettingsPages, VpnPages
        <5>2. QED
          BY <2>1, <3>4, <5>1, CurrentPage
      <4>2. page = PageRegistry["Logs"]["Plain"]
        BY <2>1, <3>4, LogsFrame
      <4>3. focused \in Tabs
        <5>1. focused # "WindowClose"
          BY <2>1, <4>1 DEF RInv, LogsOffClose
        <5>2. Ids(page) \subseteq {"WindowClose"} \cup Tabs
          BY <4>2, LogsFrame
        <5>3. QED
          BY <2>1, <3>1, <5>1, <5>2
      <4>4. Ids(page) \ {"WindowClose"} \subseteq Reachable("Logs", page, FALSE, focused)
        BY <4>2, <4>3, LogsSwept
      <4>5. QED
        BY <2>2, <2>4, <3>1, <3>2, <3>4, <4>4
    <3>5. QED
      BY <3>3, <3>4
  <2>5. QED
    BY <2>3, <2>4
<1>2. QED
  BY <1>1, FocusInvariant, PTL
=============================================================================
