----------------------------- MODULE LogsProofs -----------------------------
(***************************************************************************)
(* Proofs about module Logs, for any capacities, heights and bounds: the   *)
(* types; what a pinned view shows stays when an entry arrives; no line of *)
(* a stream is lost between the daemon and the ring buffer (LineInv says   *)
(* where the last line stands); no key of a leaked mouse report reaches a  *)
(* handler (FilterInv keeps the filter in step with the report).           *)
(***************************************************************************)
EXTENDS Logs, SequenceLemmas

-----------------------------------------------------------------------------
(* Rows.                                                                   *)

Row == Entry \X Nat

RowsIn(entry) == [r \in 1 .. RowsOf(entry) |-> <<entry, r>>]

\* The rows of any buffer
Wrapped(b) == FlattenSeq([i \in 1 .. Len(b) |-> RowsIn(b[i])])

Total(b) == IF b = <<>> THEN 1 ELSE Len(Wrapped(b))

LEMMA RowsAreWrapped ==
    /\ WrappedRows = Wrapped(buffer)
    /\ TotalRows = Total(buffer)
BY DEF WrappedRows, Wrapped, RowsIn, TotalRows, Total

LEMMA RowsAreWrappedNext ==
    /\ WrappedRows' = Wrapped(buffer')
    /\ TotalRows' = Total(buffer')
BY DEF WrappedRows, Wrapped, RowsIn, TotalRows, Total

LEMMA RowsOfEntry ==
    ASSUME NEW e \in Entry
    PROVE  RowsIn(e) \in Seq(Row) /\ Len(RowsIn(e)) \in {1, 2}
<1>1. RowsOf(e) \in {1, 2}
  BY DEF RowsOf
<1>2. PICK n \in {1, 2} : n = RowsOf(e)
  BY <1>1
<1>3. \A r \in 1 .. n : <<e, r>> \in Row
  BY <1>2 DEF Row
<1> DEFINE rows == [r \in 1 .. n |-> <<e, r>>]
<1>4. rows \in Seq(Row) /\ Len(rows) = n
  BY <1>2, <1>3
<1> HIDE DEF rows
<1>5. RowsIn(e) = rows
  BY <1>2 DEF RowsIn, rows
<1>6. QED
  BY <1>2, <1>4, <1>5

RowMap == [e \in Entry |-> RowsIn(e)]

LEMMA WrappedIsFlatMap ==
    /\ RowMap \in [Entry -> Seq(Row)]
    /\ \A b \in Seq(Entry) : Wrapped(b) = FlatMap(RowMap, b)
<1>1. RowMap \in [Entry -> Seq(Row)]
  BY RowsOfEntry DEF RowMap
<1>2. ASSUME NEW b \in Seq(Entry) PROVE Wrapped(b) = FlatMap(RowMap, b)
  <2>1. \A i \in 1 .. Len(b) : b[i] \in Entry
    OBVIOUS
  <2>2. Images(RowMap, b) = [i \in 1 .. Len(b) |-> RowsIn(b[i])]
    BY <2>1, Zenon DEF Images, RowMap
  <2>3. QED
    BY <2>2, Zenon DEF Wrapped, FlatMap
<1>3. QED
  BY <1>1, <1>2

\* An entry that arrives adds its rows below the others.
LEMMA WrappedAppend ==
    ASSUME NEW b \in Seq(Entry), NEW e \in Entry
    PROVE  /\ Wrapped(b) \in Seq(Row)
           /\ Wrapped(Append(b, e)) = Wrapped(b) \o RowsIn(e)
<1>1. <<e>> \in Seq(Entry) /\ Append(b, e) = b \o <<e>> /\ Append(b, e) \in Seq(Entry)
  OBVIOUS
<1>2. FlatMap(RowMap, b) \in Seq(Row) /\ FlatMapSplits(RowMap, b, <<e>>)
  BY <1>1, WrappedIsFlatMap, FlatMapConcat, Zenon
<1>3. FlatMapOfOne(RowMap, e)
  BY WrappedIsFlatMap, FlatMapFew, Zenon
<1>4. RowMap[e] = RowsIn(e)
  BY DEF RowMap
<1>5. QED
  BY <1>1, <1>2, <1>3, <1>4, WrappedIsFlatMap, Zenon DEF FlatMapSplits, FlatMapOfOne

LEMMA TotalType ==
    ASSUME NEW b \in Seq(Entry)
    PROVE  Total(b) \in Nat
<1>1. FlatMap(RowMap, b) \in Seq(Row)
  BY WrappedIsFlatMap, FlatMapConcat, Zenon
<1>2. Wrapped(b) \in Seq(Row)
  BY <1>1, WrappedIsFlatMap, Zenon
<1>3. Len(Wrapped(b)) \in Nat
  BY <1>2
<1>4. QED
  BY <1>3 DEF Total

-----------------------------------------------------------------------------
(* Types.                                                                  *)

LEMMA EntryTypes ==
    ASSUME TypeOK
    PROVE  DaemonLine \in Entry /\ TracedEvent \in Entry
BY DEF TypeOK, Entry, DaemonLine, TracedEvent

\* The six things pass does
LEMMA PassCases ==
    ASSUME NEW f, NEW key
    PROVE  \/ f.at = "Swallow" /\ key \in {"M", "m"} /\ pass(f, key) = Verdict(Idle, FALSE)
           \/ f.at = "Swallow" /\ key \notin {"M", "m"} /\ pass(f, key) = Verdict(Swallowed(f), FALSE)
           \/ f = AfterEscBracket /\ key = "<" /\ pass(f, key) = Verdict(Swallow(0), FALSE)
           \/ f = AfterEsc /\ key = "[" /\ pass(f, key) = Verdict(AfterEscBracket, FALSE)
           \/ f.at # "Swallow" /\ key = "Esc" /\ pass(f, key) = Verdict(AfterEsc, TRUE)
           \/ /\ f.at # "Swallow" /\ key # "Esc" /\ pass(f, key) = Verdict(Idle, TRUE)
              /\ ~(f = AfterEscBracket /\ key = "<") /\ ~(f = AfterEsc /\ key = "[")
<1>1. AfterEscBracket.at # "Swallow" /\ AfterEsc.at # "Swallow"
  BY DEF AfterEscBracket, AfterEsc
<1>2. QED
  BY <1>1 DEF pass

\* The filter stays one, and a key never takes it further than one step.
LEMMA PassType ==
    ASSUME NEW f \in SgrLeakFilter, NEW key
    PROVE  pass(f, key).filter \in SgrLeakFilter /\ pass(f, key).forward \in BOOLEAN
<1> USE InputFilterAssumption
<1>1. ASSUME NEW g \in SgrLeakFilter, NEW b \in BOOLEAN
      PROVE  Verdict(g, b).filter \in SgrLeakFilter /\ Verdict(g, b).forward \in BOOLEAN
  BY DEF Verdict
<1>2. {Idle, AfterEsc, AfterEscBracket, Swallow(0)} \subseteq SgrLeakFilter
  BY DEF SgrLeakFilter
<1>3. f.at = "Swallow" => Swallowed(f) \in SgrLeakFilter
  <2> SUFFICES ASSUME f.at = "Swallow" PROVE Swallowed(f) \in SgrLeakFilter
    OBVIOUS
  <2>1. PICK n \in 0 .. SGR_LEAK_MAX_SWALLOW - 1 : f = Swallow(n)
    BY DEF SgrLeakFilter, Idle, AfterEsc, AfterEscBracket
  <2>2. f.n = n
    BY <2>1 DEF Swallow
  <2>3. n + 1 >= SGR_LEAK_MAX_SWALLOW \/ n + 1 \in 0 .. SGR_LEAK_MAX_SWALLOW - 1
    OBVIOUS
  <2>4. QED
    BY <1>2, <2>2, <2>3 DEF Swallowed, SgrLeakFilter
<1> HIDE DEF SgrLeakFilter
<1>4. \E g \in SgrLeakFilter, b \in BOOLEAN : pass(f, key) = Verdict(g, b)
  BY <1>2, <1>3, PassCases, Zenon
<1>5. QED
  BY <1>1, <1>4

\* The frame records natural numbers.
LEMMA RenderType ==
    ASSUME TypeOK, Render, buffer' \in Seq(Entry), height' \in Heights
    PROVE  dims' \in [total : Nat, viewport : Nat]
<1>1. TotalRows' \in Nat
  BY RowsAreWrappedNext, TotalType, Zenon
<1>2. height' \in Nat
  BY LogsAssumption
<1> HIDE DEF TotalRows
<1>3. CASE page' = "Logs" /\ height' > 0
  BY <1>1, <1>2, <1>3 DEF Render
<1>4. CASE ~(page' = "Logs" /\ height' > 0)
  BY <1>4 DEF Render, TypeOK
<1>5. QED
  BY <1>3, <1>4

OffsetType(o) == o \in Seq(Nat) /\ Len(o) <= 1

LEMMA MaxOffsetType ==
    ASSUME NEW total \in Nat, NEW viewport \in Nat
    PROVE  MaxOffset(total, viewport) \in Nat
BY DEF MaxOffset

LEMMA EffectiveType ==
    ASSUME TypeOK, NEW total \in Nat, NEW viewport \in Nat
    PROVE  effective_scroll(total, viewport) \in Nat
<1>1. offset = Tailing \/ offset[1] \in Nat
  BY DEF TypeOK, Tailing
<1>2. QED
  BY <1>1, MaxOffsetType DEF effective_scroll, Least

LEMMA ScrolledType ==
    ASSUME TypeOK, NEW n \in Nat, scroll_up_by(n) \/ scroll_down_by(n)
    PROVE  OffsetType(offset')
<1>1. dims.total \in Nat /\ dims.viewport \in Nat
  BY DEF TypeOK
<1>2. PICK cur \in Nat : cur = effective_scroll(dims.total, dims.viewport)
  BY <1>1, EffectiveType
<1>3. \A m \in Nat : OffsetType(Pin(m))
  BY DEF OffsetType, Pin
<1>4. OffsetType(Tailing)
  BY DEF OffsetType, Tailing
<1>5. CASE scroll_up_by(n)
  <2>1. (IF cur > n THEN cur - n ELSE 0) \in Nat
    OBVIOUS
  <2>2. offset' = Pin(IF cur > n THEN cur - n ELSE 0)
    BY <1>2, <1>5, Zenon DEF scroll_up_by
  <2>3. QED
    BY <1>3, <2>1, <2>2, Zenon
<1>6. CASE scroll_down_by(n)
  <2>1. PICK next \in Nat : next = cur + n
    OBVIOUS
  <2>2. offset' = Tailing \/ offset' = Pin(next)
    BY <1>2, <1>6, <2>1, Zenon DEF scroll_down_by
  <2>3. QED
    BY <1>3, <1>4, <2>2
<1>7. QED
  BY <1>5, <1>6

LEMMA ScrollKeyType ==
    ASSUME TypeOK, NEW key, ScrollKey(key)
    PROVE  OffsetType(offset')
<1>1. dims.viewport \in Nat
  BY DEF TypeOK
<1>2. OffsetType(Pin(0)) /\ OffsetType(Tailing)
  BY DEF OffsetType, Pin, Tailing
<1>3. QED
  BY <1>1, <1>2, ScrolledType DEF ScrollKey

LEMMA KeyTypes ==
    ASSUME TypeOK, NEW key \in TypedKeys, KeyEvent(key), leak' \in Seq(TypedKeys),
           whole' \in BOOLEAN
    PROVE  TypeOK'
<1>0. /\ UNCHANGED <<lines, stream, fresh, held, traces, channel, buffer, busy, height>>
      /\ Render
  BY DEF KeyEvent, taskVars
<1>1. filter' \in SgrLeakFilter
  BY PassType DEF KeyEvent, TypeOK
<1>2. /\ quit' \in BOOLEAN /\ popup' \in BOOLEAN
      /\ page' \in {"Status", "Logs"} /\ OffsetType(offset')
  <2>1. OffsetType(offset)
    BY DEF TypeOK, OffsetType
  <2>2. CASE HandleKey(key)
    <3>1. OffsetType(offset')
      BY <2>1, <2>2, ScrollKeyType DEF HandleKey
    <3>2. QED
      BY <2>2, <3>1 DEF HandleKey, TypeOK
  <2>3. CASE UNCHANGED <<quit, popup, page, offset>>
    BY <2>1, <2>3 DEF TypeOK
  <2>4. QED
    BY <2>2, <2>3 DEF KeyEvent
<1>3. since' \in 0 .. Reach + 1
  <2>1. Reach \in Nat /\ Reach >= 1 /\ since \in Nat
    BY InputFilterAssumption DEF Reach, TypeOK
  <2>2. Least(since + 1, Reach + 1) \in 0 .. Reach + 1
    BY <2>1 DEF Least
  <2>3. since' \in {0, 1, Least(since + 1, Reach + 1)}
    BY DEF KeyEvent
  <2>4. QED
    BY <2>1, <2>2, <2>3
<1>4. dims' \in [total : Nat, viewport : Nat]
  BY <1>0, RenderType DEF TypeOK
<1>5. QED
  BY <1>0, <1>1, <1>2, <1>3, <1>4 DEF TypeOK, OffsetType

\* A report is [, < and a body, of which the terminator may be lost.
ReportShape(r, n) ==
    /\ r \in Seq(TypedKeys)
    /\ Len(r) \in {n + 2, n + 3}
    /\ r[1] = "[" /\ r[2] = "<"
    /\ \A i \in 3 .. n + 2 : r[i] = "1"
    /\ Len(r) = n + 3 => r[n + 3] = "M"

LEMMA ReportShapes ==
    ASSUME NEW r \in Reports
    PROVE  \E n \in 1 .. LongestReport : ReportShape(r, n)
<1>1. PICK n \in 1 .. LongestReport, stop \in {<<>>, <<"M">>} :
         r = Report(n, stop)
  BY DEF Reports
<1>2. PICK K : K = TypedKeys /\ {"[", "<", "1", "M"} \subseteq K
  BY DEF TypedKeys
<1>3. n \in Nat /\ n >= 1
  BY LogsAssumption
<1>4. PICK a : a = <<"[", "<">>
  OBVIOUS
<1>5. a \in Seq(K) /\ Len(a) = 2 /\ a[1] = "[" /\ a[2] = "<"
  BY <1>2, <1>4
<1>6. PICK b : b = [i \in 1 .. n |-> "1"]
  OBVIOUS
<1>7. b \in Seq(K) /\ Len(b) = n /\ \A i \in 1 .. n : b[i] = "1"
  BY <1>2, <1>3, <1>6
<1>8. stop \in Seq(K) /\ Len(stop) \in {0, 1} /\ (Len(stop) = 1 => stop[1] = "M")
  <2>1. CASE stop = <<>>
    BY <2>1
  <2>2. CASE stop = <<"M">>
    BY <1>2, <2>2
  <2>3. QED
    BY <2>1, <2>2
<1>9. PICK d : d = a \o b
  OBVIOUS
<1>10. /\ d \in Seq(K) /\ Len(d) = Len(a) + Len(b)
       /\ \A i \in 1 .. Len(a) + Len(b) : d[i] = IF i <= Len(a) THEN a[i] ELSE b[i - Len(a)]
  BY <1>5, <1>7, <1>9, ConcatProperties, Zenon
<1>11. r = d \o stop
  BY <1>1, <1>4, <1>6, <1>9, Zenon DEF Report
<1>12. /\ r \in Seq(K) /\ Len(r) = Len(d) + Len(stop)
       /\ \A i \in 1 .. Len(d) + Len(stop) : r[i] = IF i <= Len(d) THEN d[i] ELSE stop[i - Len(d)]
  <2>1. PICK x : x = stop
    OBVIOUS
  <2>2. x \in Seq(K) /\ r = d \o x
    BY <1>8, <1>11, <2>1, Zenon
  <2>3. r \in Seq(K) /\ Joins(r, d, x)
    BY <1>10, <2>2, JoinedSeqs, Zenon
  <2>4. QED
    BY <2>1, <2>3, Zenon DEF Joins
<1>13. Len(d) = n + 2 /\ d[1] = "[" /\ d[2] = "<" /\ \A i \in 3 .. n + 2 : d[i] = "1"
  <2>1. Len(d) = n + 2 /\ d[1] = "[" /\ d[2] = "<"
    BY <1>3, <1>5, <1>7, <1>10
  <2>2. ASSUME NEW i \in 3 .. n + 2 PROVE d[i] = "1"
    <3>1. i \in 1 .. Len(a) + Len(b) /\ ~(i <= Len(a)) /\ i - Len(a) \in 1 .. n
      BY <1>3, <1>5, <1>7
    <3>2. QED
      BY <3>1, <1>7, <1>10
  <2>3. QED
    BY <2>1, <2>2
<1>14. Len(r) \in {n + 2, n + 3} /\ \A i \in 1 .. n + 2 : r[i] = d[i]
  BY <1>3, <1>8, <1>12, <1>13
<1>15. Len(r) = n + 3 => r[n + 3] = "M"
  <2> SUFFICES ASSUME Len(r) = n + 3 PROVE r[n + 3] = "M"
    OBVIOUS
  <2>1. Len(stop) = 1 /\ n + 3 \in 1 .. Len(d) + Len(stop) /\ ~(n + 3 <= Len(d)) /\ (n + 3) - Len(d) = 1
    BY <1>3, <1>8, <1>12, <1>13
  <2>2. QED
    BY <2>1, <1>8, <1>12
<1>16. r[1] = "[" /\ r[2] = "<" /\ \A i \in 3 .. n + 2 : r[i] = "1"
  BY <1>3, <1>13, <1>14
<1>17. QED
  BY <1>2, <1>12, <1>14, <1>15, <1>16, Zenon DEF ReportShape

LEMMA ReportTypes ==
    \A r \in Reports : r \in Seq(TypedKeys)
BY ReportShapes DEF ReportShape

LEMMA SentTypes ==
    ASSUME NEW S, NEW a \in Seq(S), NEW b \in Seq(S), NEW n \in Nat,
           Len(a) < n, Len(b) <= 1
    PROVE  a \o b \in Seq(S) /\ Len(a \o b) <= n
OBVIOUS

LEMMA AppendTypes ==
    ASSUME NEW S, NEW a \in Seq(S), NEW e \in S, NEW n \in Nat, Len(a) < n
    PROVE  Append(a, e) \in Seq(S) /\ Len(Append(a, e)) <= n
OBVIOUS

LEMMA TailTypes ==
    ASSUME NEW S, NEW a \in Seq(S), a # <<>>
    PROVE  Head(a) \in S /\ Tail(a) \in Seq(S) /\ Len(Tail(a)) = Len(a) - 1
OBVIOUS

LEMMA TracingTypes ==
    ASSUME TypeOK, on_event
    PROVE  traces' \in 0 .. MaxTraces /\ channel' \in Seq(Entry) /\ Len(channel') <= ChannelCapacity
<1>1. traces' \in 0 .. MaxTraces
  BY LogsAssumption DEF TypeOK, on_event
<1>2. CASE Len(channel) < ChannelCapacity
  <2>1. /\ Append(channel, TracedEvent) \in Seq(Entry)
        /\ Len(Append(channel, TracedEvent)) <= ChannelCapacity
    BY <1>2, EntryTypes, AppendTypes, LogsAssumption DEF TypeOK
  <2>2. QED
    BY <1>1, <2>1 DEF on_event, TypeOK
<1>3. CASE ~(Len(channel) < ChannelCapacity)
  BY <1>1, <1>3 DEF on_event, TypeOK
<1>4. QED
  BY <1>2, <1>3

LEMMA ReceivedTypes ==
    ASSUME TypeOK, channel # <<>>, append_log_entry(Head(channel))
    PROVE  buffer' \in Seq(Entry) /\ Len(buffer') <= LOG_BUFFER_CAPACITY
<1>1. Head(channel) \in Entry
  BY TailTypes DEF TypeOK
<1>2. PICK cap \in Nat \ {0} : cap = LOG_BUFFER_CAPACITY
  BY LogsAssumption
<1>3. CASE Len(buffer) = cap
  <2>1. buffer # <<>> /\ Tail(buffer) \in Seq(Entry) /\ Len(Tail(buffer)) < cap
    BY <1>2, <1>3, TailTypes DEF TypeOK
  <2>2. QED
    BY <1>1, <1>2, <1>3, <2>1, AppendTypes DEF append_log_entry
<1>4. CASE Len(buffer) # cap
  <2>1. Len(buffer) < cap
    BY <1>2, <1>4 DEF TypeOK
  <2>2. QED
    BY <1>1, <1>2, <1>4, <2>1, AppendTypes DEF append_log_entry, TypeOK
<1>5. QED
  BY <1>3, <1>4

LEMMA OtherInputTypes ==
    ASSUME TypeOK, OtherInput
    PROVE  /\ filter' \in SgrLeakFilter /\ whole' \in BOOLEAN
           /\ since' \in 0 .. Reach + 1 /\ leak' \in Seq(TypedKeys)
<1>1. filter' = Idle
  BY DEF OtherInput, pass_other_event, Verdict
<1>2. 0 \in 0 .. Reach + 1
  BY InputFilterAssumption DEF Reach
<1>3. QED
  BY <1>1, <1>2 DEF OtherInput, TypeOK, SgrLeakFilter

LEMMA StepTypes ==
    ASSUME TypeOK, [Next]_vars
    PROVE  TypeOK'
<1>1. CASE drain_log_lines_next
  <2>1. lines + 1 \in 0 .. MaxLines
    BY <1>1, LogsAssumption DEF TypeOK, drain_log_lines_next
  <2>2. <<DaemonLine>> \in Seq(Entry) /\ Len(<<DaemonLine>>) <= 1
    BY EntryTypes
  <2> HIDE DEF DaemonLine
  <2>3. QED
    BY <1>1, <2>1, <2>2, Zenon DEF TypeOK, drain_log_lines_next, loopVars, inputVars
<1>2. CASE drain_log_lines_send
  <2>1. channel' \in Seq(Entry) /\ Len(channel') <= ChannelCapacity
    <3>1. Len(channel) < ChannelCapacity =>
             channel \o held \in Seq(Entry) /\ Len(channel \o held) <= ChannelCapacity
      BY SentTypes, LogsAssumption DEF TypeOK
    <3>2. QED
      BY <1>2, <3>1, Zenon DEF TypeOK, drain_log_lines_send
  <2>2. held' \in Seq(Entry) /\ Len(held') <= 1
    BY <1>2 DEF drain_log_lines_send
  <2>3. stream' \in {"Open", "Broken", "None"}
    BY <1>2 DEF drain_log_lines_send, TypeOK
  <2>4. QED
    BY <1>2, <2>1, <2>2, <2>3, Zenon DEF TypeOK, drain_log_lines_send, loopVars, inputVars
<1>3. CASE BreakStream
  BY <1>3, Zenon DEF TypeOK, BreakStream, loopVars, inputVars
<1>4. CASE Reconnect
  <2>1. lines' \in 0 .. MaxLines
    BY <1>4, LogsAssumption DEF Reconnect, TypeOK
  <2>2. stream' \in {"Open", "Broken", "None"} /\ fresh' \in BOOLEAN
    BY <1>4 DEF Reconnect
  <2>3. QED
    BY <1>4, <2>1, <2>2, Zenon DEF TypeOK, Reconnect, loopVars, inputVars
<1>5. CASE TraceElsewhere
  BY <1>5, TracingTypes DEF TraceElsewhere, TypeOK, taskVars, loopVars, inputVars
<1>6. CASE ReceiveLog
  <2>1. buffer' \in Seq(Entry) /\ Len(buffer') <= LOG_BUFFER_CAPACITY
    BY <1>6, ReceivedTypes DEF ReceiveLog
  <2>2. channel' \in Seq(Entry) /\ Len(channel') <= ChannelCapacity
    BY <1>6, TailTypes, LogsAssumption DEF ReceiveLog, TypeOK
  <2>3. dims' \in [total : Nat, viewport : Nat]
    BY <1>6, <2>1, RenderType DEF ReceiveLog, TypeOK
  <2>4. QED
    BY <1>6, <2>1, <2>2, <2>3, Zenon DEF ReceiveLog, TypeOK, taskVars, inputVars
<1>7. CASE StartHandler
  BY <1>7, Zenon DEF StartHandler, TypeOK, taskVars, inputVars
<1>8. CASE HandlerReturns
  <2>1. traces' \in 0 .. MaxTraces /\ channel' \in Seq(Entry) /\ Len(channel') <= ChannelCapacity
    BY <1>8, TracingTypes DEF HandlerReturns, TypeOK
  <2>2. dims' \in [total : Nat, viewport : Nat]
    BY <1>8, RenderType DEF HandlerReturns, TypeOK
  <2>3. QED
    BY <1>8, <2>1, <2>2, Zenon DEF HandlerReturns, TypeOK, taskVars, inputVars
<1>9. CASE ShowNotification
  <2>1. dims' \in [total : Nat, viewport : Nat]
    BY <1>9, RenderType DEF ShowNotification, TypeOK
  <2>2. QED
    BY <1>9, <2>1, Zenon DEF ShowNotification, TypeOK, taskVars, inputVars
<1>10. CASE Resize
  <2>1. height' \in Heights
    BY <1>10 DEF Resize
  <2>2. dims' \in [total : Nat, viewport : Nat]
    BY <1>10, <2>1, RenderType DEF Resize, TypeOK
  <2>3. /\ filter' \in SgrLeakFilter /\ whole' \in BOOLEAN
        /\ since' \in 0 .. Reach + 1 /\ leak' \in Seq(TypedKeys)
    BY <1>10, OtherInputTypes DEF Resize
  <2>4. QED
    BY <1>10, <2>1, <2>2, <2>3, Zenon DEF Resize, TypeOK, taskVars
<1>11. CASE Wheel
  <2>1. OffsetType(offset')
    BY <1>11, ScrolledType, LogsAssumption DEF Wheel, TypeOK, OffsetType
  <2>2. dims' \in [total : Nat, viewport : Nat]
    BY <1>11, RenderType DEF Wheel, TypeOK
  <2>3. /\ filter' \in SgrLeakFilter /\ whole' \in BOOLEAN
        /\ since' \in 0 .. Reach + 1 /\ leak' \in Seq(TypedKeys)
    BY <1>11, OtherInputTypes DEF Wheel
  <2>4. QED
    BY <1>11, <2>1, <2>2, <2>3, Zenon DEF Wheel, TypeOK, OffsetType, taskVars
<1>12. CASE TypeKey
  <2>1. PICK key \in TypedKeys :
           /\ KeyEvent(key)
           /\ \/ leak' = <<>> /\ whole' = FALSE
              \/ key = "Esc" /\ leak' \in Reports /\ whole' = (filter' = AfterEsc)
    BY <1>12 DEF TypeKey
  <2>2. leak' \in Seq(TypedKeys) /\ whole' \in BOOLEAN
    <3>1. <<>> \in Seq(TypedKeys)
      OBVIOUS
    <3>2. QED
      BY <2>1, <3>1, ReportTypes, Zenon
  <2>3. QED
    BY <2>1, <2>2, KeyTypes
<1>13. CASE LeakedKey
  <2>1. Head(leak) \in TypedKeys /\ leak' \in Seq(TypedKeys) /\ whole' \in BOOLEAN
    BY <1>13, TailTypes DEF LeakedKey, TypeOK
  <2>2. QED
    BY <1>13, <2>1, KeyTypes DEF LeakedKey
<1>14. CASE UNCHANGED vars
  BY <1>14, Zenon DEF vars, TypeOK
<1>15. QED
  BY <1>1, <1>2, <1>3, <1>4, <1>5, <1>6, <1>7, <1>8, <1>9, <1>10, <1>11, <1>12,
     <1>13, <1>14 DEF Next

LEMMA InitTypes == Init => TypeOK
<1> SUFFICES ASSUME Init PROVE TypeOK
  OBVIOUS
<1>1. 0 \in 0 .. MaxLines /\ 0 \in 0 .. MaxTraces /\ 0 \in 0 .. Reach + 1
  BY LogsAssumption, InputFilterAssumption DEF Reach
<1>2. /\ <<>> \in Seq(Entry) /\ <<>> \in Seq(Nat) /\ <<>> \in Seq(TypedKeys)
      /\ Len(<<>>) <= 1 /\ Len(<<>>) <= ChannelCapacity /\ Len(<<>>) <= LOG_BUFFER_CAPACITY
  BY LogsAssumption
<1>3. [total |-> 0, viewport |-> 0] \in [total : Nat, viewport : Nat]
  OBVIOUS
<1>4. Idle \in SgrLeakFilter
  BY DEF SgrLeakFilter
<1>5. QED
  BY <1>1, <1>2, <1>3, <1>4 DEF Init, TypeOK, Tailing

\* The channel and the ring buffer never hold more than their capacities, the
\* scroll offset and the recorded dimensions are natural numbers, and the
\* filter counts no further than its cap (logging::init, append_log_entry,
\* SgrLeakFilter::pass).
THEOREM LogsTypes == Spec => []TypeOK
BY InitTypes, StepTypes, PTL DEF Spec

-----------------------------------------------------------------------------
(* The scrolled page.                                                      *)

\* Rows added below a window leave what it shows a prefix.
LEMMA WindowStays ==
    ASSUME NEW S, NEW w \in Seq(S), NEW r \in Seq(S), NEW f \in Nat, NEW h \in Nat
    PROVE  IsPrefix(SubSeq(w, f + 1, Least(f + h, Len(w))),
                    SubSeq(w \o r, f + 1, Least(f + h, Len(w \o r))))
<1>1. PICK c : c = w \o r
  OBVIOUS
<1>2. c \in Seq(S) /\ Joins(c, w, r)
  BY <1>1, JoinedSeqs, Zenon
<1>3. PICK m \in Nat, n \in Nat : m = Len(w) /\ n = Len(r)
  OBVIOUS
<1>4. Len(c) = m + n /\ \A i \in 1 .. m : c[i] = w[i]
  BY <1>2, <1>3 DEF Joins
<1>5. PICK k \in Nat, l \in Nat :
         k = Least(f + h, m) /\ l = Least(f + h, m + n) /\ k <= l /\ k <= m /\ l <= m + n
  <2>1. Least(f + h, m) \in Nat /\ Least(f + h, m + n) \in Nat
    BY DEF Least
  <2>2. Least(f + h, m) <= Least(f + h, m + n) /\ Least(f + h, m) <= m /\ Least(f + h, m + n) <= m + n
    BY DEF Least
  <2>3. QED
    BY <2>1, <2>2
<1>6. PICK u, v : u = SubSeq(w, f + 1, k) /\ v = SubSeq(c, f + 1, l)
  OBVIOUS
<1>7. /\ u \in Seq(S) /\ Len(u) = (IF f + 1 <= k THEN k - f ELSE 0)
      /\ \A i \in 1 .. k - f : u[i] = w[f + i]
  <2>1. \A i \in f + 1 .. k : w[i] \in S
    BY <1>3, <1>5
  <2>2. /\ SubSeq(w, f + 1, k) \in Seq(S)
        /\ Len(SubSeq(w, f + 1, k)) = (IF f + 1 <= k THEN k - (f + 1) + 1 ELSE 0)
        /\ \A i \in 1 .. k - (f + 1) + 1 : SubSeq(w, f + 1, k)[i] = w[f + 1 + i - 1]
    BY <2>1, SubSeqProperties
  <2>3. k - (f + 1) + 1 = k - f /\ \A i \in 1 .. k - f : f + 1 + i - 1 = f + i
    OBVIOUS
  <2>4. QED
    BY <1>6, <2>2, <2>3
<1>8. /\ v \in Seq(S) /\ Len(v) = (IF f + 1 <= l THEN l - f ELSE 0)
      /\ \A i \in 1 .. l - f : v[i] = c[f + i]
  <2>1. \A i \in f + 1 .. l : c[i] \in S
    BY <1>2, <1>4, <1>5
  <2>2. /\ SubSeq(c, f + 1, l) \in Seq(S)
        /\ Len(SubSeq(c, f + 1, l)) = (IF f + 1 <= l THEN l - (f + 1) + 1 ELSE 0)
        /\ \A i \in 1 .. l - (f + 1) + 1 : SubSeq(c, f + 1, l)[i] = c[f + 1 + i - 1]
    BY <2>1, SubSeqProperties
  <2>3. l - (f + 1) + 1 = l - f /\ \A i \in 1 .. l - f : f + 1 + i - 1 = f + i
    OBVIOUS
  <2>4. QED
    BY <1>6, <2>2, <2>3
<1>9. Len(u) <= Len(v) /\ \A i \in 1 .. Len(u) : u[i] = v[i]
  <2>1. Len(u) <= Len(v)
    BY <1>5, <1>7, <1>8
  <2>2. ASSUME NEW i \in 1 .. Len(u) PROVE u[i] = v[i]
    <3>1. i \in 1 .. k - f /\ i \in 1 .. l - f /\ f + i \in 1 .. m
      BY <1>5, <1>7
    <3>2. QED
      BY <3>1, <1>4, <1>7, <1>8
  <2>3. QED
    BY <2>1, <2>2
<1>10. IsPrefix(u, v)
  <2>1. SubSeq(u, 1, Len(u)) = u
    BY <1>7, SubSeqFull
  <2>2. PICK x : x = SubSeq(v, 1, Len(u))
    OBVIOUS
  <2>3. x \in Seq(S) /\ Len(x) = Len(u) /\ \A i \in 1 .. Len(u) : x[i] = v[i]
    BY <1>7, <1>8, <1>9, <2>2
  <2>4. x = u
    BY <1>7, <1>9, <2>3, SeqEqual
  <2>5. QED
    BY <1>9, <2>1, <2>2, <2>4, Zenon DEF IsPrefix
<1>11. QED
  BY <1>1, <1>3, <1>4, <1>5, <1>6, <1>10, Zenon

LEMMA MaxOffsetGrows ==
    ASSUME NEW t \in Nat, NEW u \in Nat, NEW h \in Nat, t <= u
    PROVE  /\ MaxOffset(t, h) \in Nat /\ MaxOffset(u, h) \in Nat
           /\ MaxOffset(t, h) <= MaxOffset(u, h)
<1>1. CASE t > h
  BY <1>1 DEF MaxOffset
<1>2. CASE ~(t > h) /\ u > h
  BY <1>2 DEF MaxOffset
<1>3. CASE ~(u > h)
  BY <1>3 DEF MaxOffset
<1>4. QED
  BY <1>1, <1>2, <1>3

\* The rows only grow while the buffer has room.
LEMMA TotalGrows ==
    ASSUME NEW b \in Seq(Entry), NEW e \in Entry
    PROVE  Total(b) <= Total(Append(b, e))
<1>1. PICK w \in Seq(Row), r \in Seq(Row) : w = Wrapped(b) /\ r = RowsIn(e)
  BY WrappedAppend, RowsOfEntry
<1>2. Wrapped(Append(b, e)) = w \o r
  BY <1>1, WrappedAppend
<1>3. PICK m \in Nat, n \in Nat : m = Len(w) /\ n = Len(r) /\ n \in {1, 2}
  <2>1. Len(r) \in {1, 2}
    BY <1>1, RowsOfEntry, Zenon
  <2>2. Len(w) \in Nat /\ Len(r) \in Nat
    OBVIOUS
  <2>3. QED
    BY <2>1, <2>2, Zenon
<1>4. PICK c : c = w \o r /\ Len(c) = m + n
  BY <1>3, JoinedSeqs DEF Joins
<1>5. Append(b, e) # <<>>
  OBVIOUS
<1>6. Total(Append(b, e)) = m + n
  BY <1>2, <1>4, <1>5, Zenon DEF Total
<1>7. CASE b = <<>>
  BY <1>3, <1>6, <1>7 DEF Total
<1>8. CASE b # <<>>
  <2>1. Total(b) = m
    BY <1>1, <1>3, <1>8, Zenon DEF Total
  <2>2. QED
    BY <1>3, <1>6, <2>1
<1>9. QED
  BY <1>7, <1>8

LEMMA PinnedStep ==
    ASSUME TypeOK, [Next]_vars, Pinned, buffer' # buffer, Len(buffer) < LOG_BUFFER_CAPACITY
    PROVE  IsPrefix(Shown, Shown')
<1>1. ReceiveLog
  BY DEF Next, vars, loopVars, drain_log_lines_next, drain_log_lines_send, BreakStream,
         Reconnect, TraceElsewhere, StartHandler, HandlerReturns, ShowNotification,
         Resize, Wheel, TypeKey, LeakedKey, KeyEvent
<1>2. PICK e \in Entry, b \in Seq(Entry) :
         b = buffer /\ buffer' = Append(b, e) /\ offset' = offset /\ height' = height
  <2>1. Head(channel) \in Entry
    BY <1>1, TailTypes DEF ReceiveLog, TypeOK
  <2>2. Len(buffer) # LOG_BUFFER_CAPACITY
    BY LogsAssumption DEF TypeOK
  <2>3. QED
    BY <1>1, <2>1, <2>2 DEF ReceiveLog, append_log_entry, TypeOK
<1>3. PICK w \in Seq(Row), r \in Seq(Row) :
         w = Wrapped(b) /\ r = RowsIn(e) /\ Wrapped(Append(b, e)) = w \o r
  BY WrappedAppend, RowsOfEntry
<1>4. WrappedRows = w /\ WrappedRows' = w \o r
  BY <1>2, <1>3, RowsAreWrapped, RowsAreWrappedNext, Zenon
<1>5. PICK t \in Nat, u \in Nat :
         t = TotalRows /\ u = TotalRows' /\ t <= u
  <2>1. Append(b, e) \in Seq(Entry)
    OBVIOUS
  <2>2. Total(b) \in Nat /\ Total(Append(b, e)) \in Nat /\ Total(b) <= Total(Append(b, e))
    BY <2>1, TotalType, TotalGrows
  <2>3. TotalRows = Total(b) /\ TotalRows' = Total(Append(b, e))
    BY <1>2, RowsAreWrapped, RowsAreWrappedNext, Zenon
  <2>4. QED
    BY <2>2, <2>3, Zenon
<1>6. PICK h \in Nat : h = height /\ h = height'
  BY <1>2, LogsAssumption DEF TypeOK
<1>7. PICK f \in Nat : offset # Tailing /\ f = offset[1] /\ f <= MaxOffset(t, h)
  <2>1. offset # Tailing /\ offset[1] \in Nat
    BY DEF Pinned, TypeOK, Tailing
  <2>2. offset[1] <= MaxOffset(t, h)
    BY <1>5, <1>6, Zenon DEF Pinned
  <2>3. QED
    BY <2>1, <2>2
<1>8. MaxOffset(t, h) \in Nat /\ MaxOffset(u, h) \in Nat /\ MaxOffset(t, h) <= MaxOffset(u, h)
  BY <1>5, MaxOffsetGrows
<1>9. Least(f, MaxOffset(t, h)) = f /\ Least(f, MaxOffset(u, h)) = f
  BY <1>7, <1>8 DEF Least
<1>10. Shown = SubSeq(w, f + 1, Least(f + h, Len(w)))
  <2>1. effective_scroll(TotalRows, height) = f
    BY <1>5, <1>6, <1>7, <1>9, Zenon DEF effective_scroll
  <2>2. QED
    BY <1>4, <1>6, <2>1, Zenon DEF Shown
<1>11. Shown' = SubSeq(w \o r, f + 1, Least(f + h, Len(w \o r)))
  <2>1. effective_scroll(TotalRows, height)' = f
    BY <1>2, <1>5, <1>6, <1>7, <1>9, Zenon DEF effective_scroll
  <2>2. QED
    BY <1>4, <1>6, <2>1, Zenon DEF Shown
<1>12. QED
  BY <1>10, <1>11, WindowStays, Zenon

\* While the user has scrolled up and the buffer has room, an entry that
\* arrives leaves every row shown where it is: effective_scroll counts from the
\* top, and append_log_entry adds at the bottom (app/pages/logs.rs).
THEOREM PinnedViewsStay == Spec => PinnedViewStays
<1>1. TypeOK /\ [Next]_vars =>
        [Pinned /\ buffer' # buffer /\ Len(buffer) < LOG_BUFFER_CAPACITY
           => IsPrefix(Shown, Shown')]_vars
  BY PinnedStep
<1>2. QED
  BY <1>1, LogsTypes, PTL DEF Spec, PinnedViewStays

-----------------------------------------------------------------------------
(* The daemon's lines.                                                     *)

\* Those among any entries
LinesIn(s) == FlattenSeq([i \in 1 .. Len(s) |-> OfDaemon(s[i])])

LineMap == [e \in Entry |-> OfDaemon(e)]

LEMMA LinesAreFlatMap ==
    /\ LineMap \in [Entry -> Seq(Entry)]
    /\ \A s \in Seq(Entry) : LinesIn(s) = FlatMap(LineMap, s)
<1>1. \A e \in Entry : OfDaemon(e) \in Seq(Entry)
  <2> TAKE e \in Entry
  <2>1. <<e>> \in Seq(Entry) /\ <<>> \in Seq(Entry)
    OBVIOUS
  <2>2. QED
    BY <2>1, Zenon DEF OfDaemon
<1>2. LineMap \in [Entry -> Seq(Entry)]
  BY <1>1 DEF LineMap
<1>3. ASSUME NEW s \in Seq(Entry) PROVE LinesIn(s) = FlatMap(LineMap, s)
  <2>1. \A i \in 1 .. Len(s) : s[i] \in Entry
    OBVIOUS
  <2>2. Images(LineMap, s) = [i \in 1 .. Len(s) |-> OfDaemon(s[i])]
    BY <2>1, Zenon DEF Images, LineMap
  <2>3. QED
    BY <2>2, Zenon DEF LinesIn, FlatMap
<1>4. QED
  BY <1>2, <1>3

LinesSplit(a, b) == LinesIn(a \o b) = LinesIn(a) \o LinesIn(b)

LEMMA LinesConcat ==
    ASSUME NEW a \in Seq(Entry), NEW b \in Seq(Entry)
    PROVE  LinesIn(a) \in Seq(Entry) /\ LinesSplit(a, b)
<1>1. a \o b \in Seq(Entry)
  BY ConcatProperties
<1>2. FlatMap(LineMap, a) \in Seq(Entry) /\ FlatMapSplits(LineMap, a, b)
  BY LinesAreFlatMap, FlatMapConcat, Zenon
<1>3. QED
  BY <1>1, <1>2, LinesAreFlatMap, Zenon DEF FlatMapSplits, LinesSplit

LEMMA LinesOfFew ==
    ASSUME NEW e \in Entry
    PROVE  LinesIn(<<>>) = <<>> /\ LinesIn(<<e>>) = OfDaemon(e) /\ OfDaemon(e) \in Seq(Entry)
<1>1. <<>> \in Seq(Entry) /\ <<e>> \in Seq(Entry)
  OBVIOUS
<1>2. FlatMapOfOne(LineMap, e) /\ LineMap[e] = OfDaemon(e)
  BY LinesAreFlatMap, FlatMapFew, Zenon DEF LineMap
<1>3. OfDaemon(e) \in Seq(Entry)
  BY <1>1, Zenon DEF OfDaemon
<1>4. QED
  BY <1>1, <1>2, <1>3, LinesAreFlatMap, FlatMapOfNothing, Zenon DEF FlatMapOfOne

Rebracketed(x, y, z) == (x \o y) \o z = x \o (y \o z)

LEMMA Rebracket ==
    \A x, y, z \in Seq(Entry) : Rebracketed(x, y, z)
BY ConcatAssociative DEF Rebracketed

\* The lines of three stretches
LEMMA LinesOfPath ==
    ASSUME NEW b \in Seq(Entry), NEW c \in Seq(Entry), NEW h \in Seq(Entry)
    PROVE  /\ LinesIn((b \o c) \o h) = (LinesIn(b) \o LinesIn(c)) \o LinesIn(h)
           /\ LinesIn((b \o c) \o h) \in Seq(Entry)
<1>1. PICK x \in Seq(Entry) : x = b \o c
  BY ConcatProperties
<1>2. x \o h \in Seq(Entry)
  BY ConcatProperties
<1>3. LinesIn(x \o h) = LinesIn(x) \o LinesIn(h) /\ LinesIn(x) = LinesIn(b) \o LinesIn(c)
  BY <1>1, LinesConcat, Zenon DEF LinesSplit
<1>4. LinesIn(x \o h) \in Seq(Entry)
  BY <1>2, LinesConcat, Zenon
<1>5. QED
  BY <1>1, <1>3, <1>4, Zenon

Path == (buffer \o channel) \o held

LEMMA DaemonLinesOfPath ==
    /\ DaemonLines = LinesIn(Path)
    /\ DaemonLines' = LinesIn(Path')
BY DEF DaemonLines, LinesIn, Path

\* How DaemonLines moves: a line that is read comes last, a line that leaves
\* the ring buffer was the first, and one that a task about to return still
\* holds is the last.
LinesMove ==
    \/ DaemonLines' = DaemonLines
    \/ DaemonLines # <<>> /\ DaemonLines' = Tail(DaemonLines)
    \/ /\ \E x \in Seq(Entry) : DaemonLines = DaemonLines' \o x
       /\ stream' = "None"

LEMMA TracedIsNoLine ==
    ASSUME NEW c \in Seq(Entry), TracedEvent \in Entry
    PROVE  LinesIn(Append(c, TracedEvent)) = LinesIn(c)
<1>1. <<TracedEvent>> \in Seq(Entry) /\ Append(c, TracedEvent) = c \o <<TracedEvent>>
  OBVIOUS
<1>2. OfDaemon(TracedEvent) = <<>>
  BY DEF OfDaemon, TracedEvent
<1> HIDE DEF TracedEvent
<1>3. LinesSplit(c, <<TracedEvent>>) /\ LinesIn(c) \in Seq(Entry)
  BY <1>1, LinesConcat, Zenon
<1>4. \A x \in Seq(Entry) : x \o <<>> = x
  BY ConcatEmptySeq
<1>5. LinesIn(<<TracedEvent>>) = <<>>
  BY <1>2, LinesOfFew, Zenon
<1>6. LinesIn(c \o <<TracedEvent>>) = LinesIn(c) \o <<>>
  BY <1>3, <1>5, Zenon DEF LinesSplit
<1>7. QED
  BY <1>1, <1>3, <1>4, <1>6, Zenon

LEMMA TracingLines ==
    ASSUME TypeOK, on_event, UNCHANGED <<buffer, held>>
    PROVE  DaemonLines' = DaemonLines
<1>1. PICK b \in Seq(Entry), c \in Seq(Entry), h \in Seq(Entry), d \in Seq(Entry) :
         /\ b = buffer /\ c = channel /\ h = held /\ d = channel'
         /\ b = buffer' /\ h = held'
  BY TracingTypes DEF TypeOK
<1>2. LinesIn(d) = LinesIn(c)
  <2>1. TracedEvent \in Entry
    BY EntryTypes
  <2> HIDE DEF TracedEvent
  <2>2. d = c \/ d = Append(c, TracedEvent)
    BY <1>1, Zenon DEF on_event
  <2>3. QED
    BY <2>1, <2>2, TracedIsNoLine, Zenon
<1>3. Path = (b \o c) \o h /\ Path' = (b \o d) \o h
  BY <1>1, Zenon DEF Path
<1>4. LinesIn((b \o c) \o h) = (LinesIn(b) \o LinesIn(c)) \o LinesIn(h)
  BY LinesOfPath
<1>5. LinesIn((b \o d) \o h) = (LinesIn(b) \o LinesIn(d)) \o LinesIn(h)
  BY LinesOfPath
<1>6. QED
  BY <1>2, <1>3, <1>4, <1>5, DaemonLinesOfPath, Zenon

LEMMA SendingLines ==
    ASSUME TypeOK, drain_log_lines_send
    PROVE  LinesMove
<1>1. PICK b \in Seq(Entry), c \in Seq(Entry), h \in Seq(Entry) :
         b = buffer /\ c = channel /\ h = held /\ b = buffer'
  BY DEF TypeOK, drain_log_lines_send, loopVars
<1>2. Path = (b \o c) \o h /\ held' = <<>>
  BY <1>1, Zenon DEF Path, drain_log_lines_send
<1>3. \A x \in Seq(Entry) : x \o <<>> = x /\ <<>> \o x = x
  BY ConcatEmptySeq
<1>4. PICK bc \in Seq(Entry), ch \in Seq(Entry) : bc = b \o c /\ ch = c \o h
  BY ConcatProperties
<1>5. CASE channel' = ch
  <2>1. b \o ch \in Seq(Entry)
    BY ConcatProperties
  <2>2. Path' = b \o ch
    BY <1>1, <1>2, <1>3, <1>5, <2>1, Zenon DEF Path
  <2>3. b \o ch = (b \o c) \o h
    <3>1. Rebracketed(b, c, h)
      BY Rebracket, Zenon
    <3>2. QED
      BY <1>4, <3>1, Zenon DEF Rebracketed
  <2>4. QED
    BY <1>2, <2>2, <2>3, DaemonLinesOfPath, Zenon DEF LinesMove
<1>6. CASE channel' = c /\ stream' = "None"
  <2>1. Path' = bc
    BY <1>1, <1>2, <1>3, <1>4, <1>6, Zenon DEF Path
  <2>2. Path = bc \o h
    BY <1>2, <1>4, Zenon
  <2>3. LinesIn(Path) = LinesIn(bc) \o LinesIn(h) /\ LinesIn(h) \in Seq(Entry)
    BY <1>4, <2>2, LinesConcat, Zenon DEF LinesSplit
  <2>4. QED
    BY <1>6, <2>1, <2>3, DaemonLinesOfPath, Zenon DEF LinesMove
<1>7. QED
  BY <1>1, <1>4, <1>5, <1>6, Zenon DEF drain_log_lines_send

LEMMA ReceivingLines ==
    ASSUME TypeOK, ReceiveLog
    PROVE  LinesMove
<1>1. PICK b \in Seq(Entry), e \in Entry, c \in Seq(Entry), h \in Seq(Entry) :
         /\ b = buffer /\ e = Head(channel) /\ c = Tail(channel) /\ c = channel'
         /\ h = held /\ h = held' /\ channel = <<e>> \o c
  <2>1. channel # <<>> /\ channel \in Seq(Entry)
    BY DEF TypeOK, ReceiveLog
  <2>2. Head(channel) \in Entry /\ Tail(channel) \in Seq(Entry)
        /\ channel = <<Head(channel)>> \o Tail(channel)
    BY <2>1
  <2>3. QED
    BY <2>2, Zenon DEF TypeOK, ReceiveLog, taskVars
<1>2. PICK kept \in Seq(Entry), gone \in Seq(Entry) :
         /\ buffer' = Append(kept, e) /\ b = gone \o kept
         /\ gone = <<>> \/ \E x \in Entry : gone = <<x>>
  <2>1. CASE Len(b) = LOG_BUFFER_CAPACITY
    <3>1. b # <<>>
      BY <2>1, LogsAssumption
    <3>2. Head(b) \in Entry /\ Tail(b) \in Seq(Entry) /\ b = <<Head(b)>> \o Tail(b)
          /\ <<Head(b)>> \in Seq(Entry)
      BY <3>1
    <3>3. buffer' = Append(Tail(b), e)
      BY <1>1, <2>1, Zenon DEF ReceiveLog, append_log_entry
    <3>4. QED
      BY <3>2, <3>3, Zenon
  <2>2. CASE Len(b) # LOG_BUFFER_CAPACITY
    <3>1. buffer' = Append(b, e)
      BY <1>1, <2>2, Zenon DEF ReceiveLog, append_log_entry
    <3>2. <<>> \in Seq(Entry) /\ b = <<>> \o b
      OBVIOUS
    <3>3. QED
      BY <3>1, <3>2, Zenon
  <2>3. QED
    BY <2>1, <2>2
<1>3. <<e>> \in Seq(Entry) /\ Append(kept, e) = kept \o <<e>>
  OBVIOUS
<1>4. PICK ec \in Seq(Entry), kec \in Seq(Entry), rest \in Seq(Entry) :
         ec = <<e>> \o c /\ kec = kept \o ec /\ rest = kec \o h
  <2>1. PICK ec \in Seq(Entry) : ec = <<e>> \o c
    BY <1>3, ConcatProperties
  <2>2. PICK kec \in Seq(Entry) : kec = kept \o ec
    BY ConcatProperties
  <2>3. PICK rest \in Seq(Entry) : rest = kec \o h
    BY ConcatProperties
  <2>4. QED
    BY <2>1, <2>2, <2>3, Zenon
<1>5. Path' = rest
  <2>1. Path' = ((kept \o <<e>>) \o c) \o h
    BY <1>1, <1>2, <1>3, Zenon DEF Path
  <2>2. (kept \o <<e>>) \o c = kec
    <3>1. Rebracketed(kept, <<e>>, c)
      BY <1>3, Rebracket, Zenon
    <3>2. QED
      BY <1>4, <3>1, Zenon DEF Rebracketed
  <2>3. QED
    BY <1>4, <2>1, <2>2, Zenon
<1>6. Path = gone \o rest
  <2>1. Path = ((gone \o kept) \o ec) \o h
    BY <1>1, <1>2, <1>4, Zenon DEF Path
  <2>2. (gone \o kept) \o ec = gone \o kec
    <3>1. Rebracketed(gone, kept, ec)
      BY Rebracket, Zenon
    <3>2. QED
      BY <1>4, <3>1, Zenon DEF Rebracketed
  <2>3. (gone \o kec) \o h = gone \o rest
    <3>1. Rebracketed(gone, kec, h)
      BY Rebracket, Zenon
    <3>2. QED
      BY <1>4, <3>1, Zenon DEF Rebracketed
  <2>4. QED
    BY <2>1, <2>2, <2>3, Zenon
<1>7. PICK l \in Seq(Entry), g \in Seq(Entry) :
         l = LinesIn(rest) /\ g = LinesIn(gone) /\ DaemonLines = g \o l /\ DaemonLines' = l
  <2>1. LinesIn(gone \o rest) = LinesIn(gone) \o LinesIn(rest)
    BY LinesConcat, Zenon DEF LinesSplit
  <2>2. LinesIn(gone) \in Seq(Entry) /\ LinesIn(rest) \in Seq(Entry)
    BY LinesConcat, Zenon
  <2>3. QED
    BY <1>5, <1>6, <2>1, <2>2, DaemonLinesOfPath, Zenon
<1>8. g = <<>> \/ \E x \in Entry : g = <<x>>
  <2>1. CASE gone = <<>>
    BY <1>1, <1>7, <2>1, LinesOfFew, Zenon
  <2>2. ASSUME NEW x \in Entry, gone = <<x>> PROVE g = <<>> \/ g = <<x>>
    BY <1>7, <2>2, LinesOfFew, Zenon DEF OfDaemon
  <2>3. QED
    BY <1>2, <2>1, <2>2
<1>9. CASE g = <<>>
  <2>1. g \o l = l
    BY <1>9, ConcatEmptySeq
  <2>2. QED
    BY <1>7, <2>1, Zenon DEF LinesMove
<1>10. ASSUME NEW x \in Entry, g = <<x>> PROVE LinesMove
  <2>1. g \o l # <<>> /\ Tail(g \o l) = l
    BY <1>10
  <2>2. QED
    BY <1>7, <2>1, Zenon DEF LinesMove
<1>11. QED
  BY <1>8, <1>9, <1>10
-----------------------------------------------------------------------------
(* The numbers along the daemon's lines.                                   *)

NoGaps(s) ==
    \A i \in 1 .. Len(s) - 1 :
        s[i + 1].n = s[i].n + 1 \/ (s[i + 1].n > s[i].n /\ s[i + 1].first)

\* The last line is the last one written, or a stream has been opened since.
ReachedBy(s, l, new) ==
    s # <<>> => s[Len(s)].n <= l /\ (new \/ s[Len(s)].n = l)

LineInv ==
    /\ NoGaps(DaemonLines)
    /\ stream # "None" => ReachedBy(DaemonLines, lines, fresh)

LEMMA LineRead ==
    ASSUME NEW s \in Seq(Entry), NEW e \in Entry, NEW l \in Nat, NEW new \in BOOLEAN,
           NoGaps(s), ReachedBy(s, l, new), e.n = l + 1, e.first = new
    PROVE  NoGaps(Append(s, e)) /\ ReachedBy(Append(s, e), l + 1, FALSE)
<1>1. PICK k \in Nat : k = Len(s)
  OBVIOUS
<1>2. PICK t \in Seq(Entry) : t = Append(s, e)
  BY AppendProperties, Zenon
<1>3. Len(t) = k + 1 /\ t[k + 1] = e /\ \A i \in 1 .. k : t[i] = s[i]
  BY <1>1, <1>2
<1>4. ASSUME NEW i \in 1 .. k
      PROVE  t[i + 1].n = t[i].n + 1 \/ (t[i + 1].n > t[i].n /\ t[i + 1].first)
  <2>1. CASE i < k
    <3>1. i \in 1 .. Len(s) - 1 /\ i \in 1 .. k /\ i + 1 \in 1 .. k
      BY <1>1, <2>1
    <3>2. t[i] = s[i] /\ t[i + 1] = s[i + 1]
      BY <1>3, <3>1
    <3>3. s[i + 1].n = s[i].n + 1 \/ (s[i + 1].n > s[i].n /\ s[i + 1].first)
      BY <3>1, Zenon DEF NoGaps
    <3>4. QED
      BY <3>2, <3>3, Zenon
  <2>2. CASE i = k
    <3>1. s # <<>> /\ s[k] \in Entry /\ t[k] = s[k] /\ t[k + 1] = e
      BY <1>1, <1>3, <2>2
    <3>2. s[k].n <= l /\ (new \/ s[k].n = l) /\ s[k].n \in Nat
      BY <1>1, <3>1 DEF ReachedBy, Entry
    <3>3. QED
      BY <2>2, <3>1, <3>2
  <2>3. QED
    BY <2>1, <2>2
<1>5. NoGaps(t)
  BY <1>3, <1>4 DEF NoGaps
<1>6. ReachedBy(t, l + 1, FALSE)
  BY <1>3 DEF ReachedBy
<1>7. QED
  BY <1>2, <1>5, <1>6, Zenon

LEMMA LineLeaves ==
    ASSUME NEW s \in Seq(Entry), s # <<>>, NoGaps(s), NEW l, NEW new
    PROVE  NoGaps(Tail(s)) /\ (ReachedBy(s, l, new) => ReachedBy(Tail(s), l, new))
<1>1. PICK k \in Nat : k = Len(s) /\ k >= 1
  OBVIOUS
<1>2. PICK t \in Seq(Entry) : t = Tail(s)
  BY TailTypes, Zenon
<1>3. Len(t) = k - 1 /\ \A i \in 1 .. k - 1 : t[i] = s[i + 1]
  BY <1>1, <1>2
<1>4. ASSUME NEW i \in 1 .. Len(t) - 1
      PROVE  t[i + 1].n = t[i].n + 1 \/ (t[i + 1].n > t[i].n /\ t[i + 1].first)
  <2>1. PICK j \in 1 .. Len(s) - 1 : j = i + 1 /\ j \in 1 .. k - 1 /\ i \in 1 .. k - 1
    BY <1>1, <1>3
  <2>2. t[j] = s[j + 1] /\ t[i] = s[j]
    BY <1>3, <2>1
  <2>3. s[j + 1].n = s[j].n + 1 \/ (s[j + 1].n > s[j].n /\ s[j + 1].first)
    BY Zenon DEF NoGaps
  <2>4. QED
    BY <2>1, <2>2, <2>3, Zenon
<1>5. NoGaps(t)
  BY <1>4, Zenon DEF NoGaps
<1>6. ASSUME ReachedBy(s, l, new), t # <<>> PROVE t[Len(t)].n <= l /\ (new \/ t[Len(t)].n = l)
  <2>1. k - 1 \in 1 .. k - 1 /\ (k - 1) + 1 = k
    BY <1>1, <1>3, <1>6
  <2>2. t[Len(t)] = s[Len(s)]
    BY <1>1, <1>3, <2>1
  <2>3. QED
    BY <1>6, <2>2, Zenon DEF ReachedBy
<1>7. QED
  BY <1>2, <1>5, <1>6, Zenon DEF ReachedBy

LEMMA LinesCut ==
    ASSUME NEW s \in Seq(Entry), NEW x \in Seq(Entry), NoGaps(s \o x)
    PROVE  NoGaps(s)
<1>1. PICK k \in Nat : k = Len(s)
  OBVIOUS
<1>2. PICK t \in Seq(Entry) : t = s \o x
  BY ConcatProperties
<1>3. k <= Len(t) /\ \A i \in 1 .. k : t[i] = s[i]
  BY <1>1, <1>2
<1>4. ASSUME NEW i \in 1 .. k - 1
      PROVE  s[i + 1].n = s[i].n + 1 \/ (s[i + 1].n > s[i].n /\ s[i + 1].first)
  <2>1. i \in 1 .. Len(t) - 1 /\ i \in 1 .. k /\ i + 1 \in 1 .. k
    BY <1>3
  <2>2. t[i + 1].n = t[i].n + 1 \/ (t[i + 1].n > t[i].n /\ t[i + 1].first)
    BY <1>2, <2>1, Zenon DEF NoGaps
  <2>3. t[i] = s[i] /\ t[i + 1] = s[i + 1]
    BY <1>3, <2>1
  <2>4. QED
    BY <2>2, <2>3, Zenon
<1>5. QED
  BY <1>1, <1>4, Zenon DEF NoGaps

\* What the task reads comes last.
LEMMA ReadingLines ==
    ASSUME TypeOK, drain_log_lines_next
    PROVE  DaemonLines' = Append(DaemonLines, DaemonLine)
<1>1. PICK b \in Seq(Entry), c \in Seq(Entry) :
         b = buffer /\ c = channel /\ b = buffer' /\ c = channel'
  BY DEF TypeOK, drain_log_lines_next, loopVars
<1>2. PICK d \in Entry, h \in Seq(Entry) : d = DaemonLine /\ h = <<d>> /\ h = held'
  <2>1. DaemonLine \in Entry
    BY EntryTypes
  <2> HIDE DEF DaemonLine
  <2>2. <<DaemonLine>> \in Seq(Entry)
    BY <2>1
  <2>3. QED
    BY <2>1, <2>2, Zenon DEF drain_log_lines_next
<1>3. OfDaemon(d) = <<d>>
  <2>1. d.source = "Daemon"
    BY <1>2 DEF DaemonLine
  <2>2. QED
    BY <2>1, Zenon DEF OfDaemon
<1>4. PICK bc \in Seq(Entry) : bc = b \o c
  BY ConcatProperties
<1>5. Path = bc /\ Path' = bc \o h
  <2>1. held = <<>>
    BY DEF drain_log_lines_next
  <2>2. bc \o <<>> = bc
    BY ConcatEmptySeq
  <2>3. QED
    BY <1>1, <1>2, <1>4, <2>1, <2>2, Zenon DEF Path
<1>6. LinesIn(h) = h
  BY <1>2, <1>3, LinesOfFew, Zenon
<1>7. LinesSplit(bc, h) /\ LinesIn(bc) \in Seq(Entry)
  BY LinesConcat, Zenon
<1>8. PICK l \in Seq(Entry) : l = DaemonLines /\ DaemonLines' = l \o h
  BY <1>5, <1>6, <1>7, DaemonLinesOfPath, Zenon DEF LinesSplit
<1>9. l \o h = Append(l, d)
  BY <1>2
<1>10. QED
  BY <1>2, <1>8, <1>9, Zenon

LEMMA LinesType ==
    ASSUME TypeOK
    PROVE  DaemonLines \in Seq(Entry)
<1>1. PICK b \in Seq(Entry), c \in Seq(Entry), h \in Seq(Entry) :
         b = buffer /\ c = channel /\ h = held
  BY DEF TypeOK
<1>2. LinesIn((b \o c) \o h) \in Seq(Entry)
  BY LinesOfPath
<1>3. QED
  BY <1>1, <1>2, DaemonLinesOfPath, Zenon DEF Path

LEMMA LinesTypeNext ==
    ASSUME TypeOK'
    PROVE  DaemonLines' \in Seq(Entry)
<1>1. PICK b \in Seq(Entry), c \in Seq(Entry), h \in Seq(Entry) :
         b = buffer' /\ c = channel' /\ h = held'
  BY DEF TypeOK
<1>2. LinesIn((b \o c) \o h) \in Seq(Entry)
  BY LinesOfPath
<1>3. QED
  BY <1>1, <1>2, DaemonLinesOfPath, Zenon DEF Path

\* However they move, no gap opens.
LEMMA MovingKeepsLines ==
    ASSUME TypeOK, TypeOK', LineInv, LinesMove, UNCHANGED <<lines, fresh>>,
           stream' # "None" => stream # "None"
    PROVE  LineInv'
<1>1. PICK s \in Seq(Entry), t \in Seq(Entry) : s = DaemonLines /\ t = DaemonLines'
  BY LinesType, LinesTypeNext
<1>2. NoGaps(s) /\ (stream # "None" => ReachedBy(s, lines, fresh))
  BY <1>1, Zenon DEF LineInv
<1>3. CASE t = s
  BY <1>1, <1>2, <1>3, Zenon DEF LineInv
<1>4. CASE s # <<>> /\ t = Tail(s)
  <2>1. NoGaps(t) /\ (ReachedBy(s, lines, fresh) => ReachedBy(t, lines, fresh))
    BY <1>2, <1>4, LineLeaves, Zenon
  <2>2. QED
    BY <1>1, <1>2, <2>1, Zenon DEF LineInv
<1>5. ASSUME NEW x \in Seq(Entry), s = t \o x, stream' = "None" PROVE LineInv'
  <2>1. NoGaps(t)
    BY <1>2, <1>5, LinesCut, Zenon
  <2>2. QED
    BY <1>1, <1>5, <2>1, Zenon DEF LineInv
<1>6. QED
  BY <1>1, <1>3, <1>4, <1>5, Zenon DEF LinesMove

LEMMA StillLines ==
    ASSUME UNCHANGED <<buffer, channel, held>>
    PROVE  DaemonLines' = DaemonLines
BY DaemonLinesOfPath, Zenon DEF Path

LEMMA LineStep ==
    ASSUME TypeOK, TypeOK', LineInv, [Next]_vars
    PROVE  LineInv'
<1>1. CASE drain_log_lines_next
  <2>1. PICK s \in Seq(Entry), d \in Entry :
           s = DaemonLines /\ d = DaemonLine /\ DaemonLines' = Append(s, d)
    BY <1>1, LinesType, ReadingLines, EntryTypes, Zenon
  <2>2. PICK l \in Nat, new \in BOOLEAN :
           l = lines /\ new = fresh /\ lines' = l + 1 /\ fresh' = FALSE
    BY <1>1, LogsAssumption DEF TypeOK, drain_log_lines_next
  <2>3. d.n = l + 1 /\ d.first = new
    BY <2>1, <2>2 DEF DaemonLine
  <2>4. NoGaps(s) /\ ReachedBy(s, l, new)
    <3>1. stream # "None"
      BY <1>1 DEF drain_log_lines_next
    <3>2. QED
      BY <2>1, <2>2, <3>1, Zenon DEF LineInv
  <2>5. NoGaps(Append(s, d)) /\ ReachedBy(Append(s, d), l + 1, FALSE)
    BY <2>3, <2>4, LineRead
  <2>6. QED
    BY <2>1, <2>2, <2>5, Zenon DEF LineInv
<1>2. CASE drain_log_lines_send
  <2>1. LinesMove
    BY <1>2, SendingLines
  <2>2. UNCHANGED <<lines, fresh>> /\ (stream' # "None" => stream # "None")
    BY <1>2, Zenon DEF drain_log_lines_send
  <2>3. QED
    BY <2>1, <2>2, MovingKeepsLines
<1>3. CASE ReceiveLog
  <2>1. UNCHANGED <<lines, fresh, stream>>
    BY <1>3 DEF ReceiveLog, taskVars
  <2>2. QED
    BY <1>3, <2>1, ReceivingLines, MovingKeepsLines
<1>4. CASE Reconnect
  <2>1. PICK l \in Nat, m \in Nat : l = lines /\ m = lines' /\ l <= m /\ fresh' = TRUE /\ stream # "None"
    BY <1>4, LogsAssumption DEF Reconnect, TypeOK
  <2>2. PICK s \in Seq(Entry) : s = DaemonLines /\ s = DaemonLines'
    BY <1>4, LinesType, StillLines DEF Reconnect, loopVars
  <2>3. NoGaps(s) /\ ReachedBy(s, l, fresh)
    BY <2>1, <2>2, Zenon DEF LineInv
  <2>4. ReachedBy(s, m, TRUE)
    <3> SUFFICES ASSUME s # <<>> PROVE s[Len(s)].n <= m
      BY DEF ReachedBy
    <3>1. s[Len(s)] \in Entry
      OBVIOUS
    <3>2. s[Len(s)].n \in Nat /\ s[Len(s)].n <= l
      BY <2>3, <3>1 DEF ReachedBy, Entry
    <3>3. QED
      BY <2>1, <3>2
  <2>5. QED
    BY <2>1, <2>2, <2>3, <2>4, Zenon DEF LineInv
<1>5. CASE on_event /\ UNCHANGED <<taskVars, buffer>>
  <2>1. UNCHANGED <<lines, fresh, stream, held, buffer>>
    BY <1>5 DEF taskVars
  <2>2. QED
    BY <1>5, <2>1, TracingLines, MovingKeepsLines DEF LinesMove
<1>6. CASE UNCHANGED <<buffer, channel, held, lines, fresh>> /\ (stream' # "None" => stream # "None")
  BY <1>6, StillLines, MovingKeepsLines DEF LinesMove
<1>7. QED
  <2>1. CASE BreakStream
    BY <1>6, <2>1 DEF BreakStream, loopVars
  <2>2. CASE TraceElsewhere
    BY <1>5, <2>2 DEF TraceElsewhere, loopVars
  <2>3. CASE HandlerReturns
    BY <1>5, <1>6, <2>3 DEF HandlerReturns, taskVars
  <2>4. CASE StartHandler \/ ShowNotification \/ Resize \/ Wheel
    BY <1>6, <2>4 DEF StartHandler, ShowNotification, Resize, Wheel, taskVars
  <2>5. CASE TypeKey \/ LeakedKey
    BY <1>6, <2>5 DEF TypeKey, LeakedKey, KeyEvent, taskVars
  <2>6. CASE UNCHANGED vars
    BY <1>6, <2>6 DEF vars
  <2>7. QED
    BY <1>1, <1>2, <1>3, <1>4, <2>1, <2>2, <2>3, <2>4, <2>5, <2>6 DEF Next

LEMMA LineInit == Init => LineInv
<1> SUFFICES ASSUME Init PROVE LineInv
  OBVIOUS
<1>1. DaemonLines = <<>>
  <2>1. Path = <<>>
    BY DEF Init, Path
  <2>2. \E e : e \in Entry
    BY InitTypes, EntryTypes, Zenon
  <2>3. QED
    BY <2>1, <2>2, LinesOfFew, DaemonLinesOfPath, Zenon
<1>2. NoGaps(<<>>) /\ ReachedBy(<<>>, lines, fresh)
  BY DEF NoGaps, ReachedBy
<1>3. QED
  BY <1>1, <1>2, Zenon DEF LineInv

\* No line of a stream is lost, doubled or overtaken between the daemon and the
\* ring buffer, for a channel of any capacity and lines of any number:
\* drain_log_lines awaits room, one line at a time (integration/rpc.rs).
THEOREM NoGapsInAStream == Spec => []NoGapInAStream
<1>1. LineInv => NoGapInAStream
  BY DEF LineInv, NoGaps, NoGapInAStream
<1>2. QED
  BY <1>1, LineInit, LineStep, LogsTypes, PTL DEF Spec
-----------------------------------------------------------------------------
(* The filter and the keys of a report.                                    *)

\* How many keys, the Esc included, have brought a filter to where it is.
KeysTo(f) ==
    IF f = Idle THEN 0 ELSE IF f = AfterEsc THEN 1 ELSE IF f = AfterEscBracket THEN 2 ELSE 3 + f.n

LEMMA FilterStates ==
    /\ Idle # AfterEsc /\ Idle # AfterEscBracket /\ AfterEsc # AfterEscBracket
    /\ \A n \in Nat : /\ Swallow(n) \notin {Idle, AfterEsc, AfterEscBracket}
                      /\ Swallow(n).n = n /\ Swallow(n).at = "Swallow"
    /\ Idle.at # "Swallow" /\ AfterEsc.at # "Swallow" /\ AfterEscBracket.at # "Swallow"
BY DEF Idle, AfterEsc, AfterEscBracket, Swallow

LEMMA KeysToStates ==
    /\ KeysTo(Idle) = 0 /\ KeysTo(AfterEsc) = 1 /\ KeysTo(AfterEscBracket) = 2
    /\ \A n \in Nat : KeysTo(Swallow(n)) = 3 + n
<1>1. KeysTo(Idle) = 0 /\ KeysTo(AfterEsc) = 1 /\ KeysTo(AfterEscBracket) = 2
  BY FilterStates, Zenon DEF KeysTo
<1>2. ASSUME NEW n \in Nat PROVE KeysTo(Swallow(n)) = 3 + n
  BY FilterStates, Zenon DEF KeysTo
<1>3. QED
  BY <1>1, <1>2

LEMMA FilterCases ==
    ASSUME NEW f \in SgrLeakFilter
    PROVE  \/ f \in {Idle, AfterEsc, AfterEscBracket}
           \/ \E n \in Nat : f = Swallow(n) /\ n + 1 <= SGR_LEAK_MAX_SWALLOW
BY InputFilterAssumption DEF SgrLeakFilter

LEMMA SwallowedCases ==
    ASSUME NEW f \in SgrLeakFilter, f.at = "Swallow"
    PROVE  \E n \in Nat : /\ f = Swallow(n) /\ n + 1 <= SGR_LEAK_MAX_SWALLOW
                          /\ \/ Swallowed(f) = Idle /\ n + 1 = SGR_LEAK_MAX_SWALLOW
                             \/ Swallowed(f) = Swallow(n + 1) /\ n + 2 <= SGR_LEAK_MAX_SWALLOW
<1>1. PICK n \in Nat : f = Swallow(n) /\ n + 1 <= SGR_LEAK_MAX_SWALLOW
  BY FilterCases, FilterStates, Zenon
<1>2. f.n = n
  BY <1>1, FilterStates
<1>3. CASE n + 1 = SGR_LEAK_MAX_SWALLOW
  <2>1. f.n + 1 >= SGR_LEAK_MAX_SWALLOW
    BY <1>2, <1>3
  <2>2. QED
    BY <1>1, <1>3, <2>1, Zenon DEF Swallowed
<1>4. CASE n + 1 # SGR_LEAK_MAX_SWALLOW
  <2>1. ~(f.n + 1 >= SGR_LEAK_MAX_SWALLOW) /\ n + 2 <= SGR_LEAK_MAX_SWALLOW
    BY <1>1, <1>2, <1>4, InputFilterAssumption
  <2>2. Swallowed(f) = Swallow(n + 1)
    BY <1>2, <2>1, Zenon DEF Swallowed
  <2>3. QED
    BY <1>1, <2>1, <2>2, Zenon
<1>5. QED
  BY <1>3, <1>4

LEMMA SinceOfKey ==
    ASSUME NEW key, KeyEvent(key)
    PROVE  /\ filter' = pass(filter, key).filter
           /\ filter' = Idle => since' = 0
           /\ filter' = AfterEsc => since' = 1
           /\ filter' \notin {Idle, AfterEsc} => since' = Least(since + 1, Reach + 1)
<1>1. PICK g : g = pass(filter, key).filter /\ filter' = g
  BY Zenon DEF KeyEvent
<1>2. since' = CASE g = Idle -> 0 [] g = AfterEsc -> 1 [] OTHER -> Least(since + 1, Reach + 1)
  BY <1>1 DEF KeyEvent
<1>3. g = Idle => since' = 0
  BY <1>2, FilterStates
<1>4. g = AfterEsc => since' = 1
  BY <1>2, FilterStates
<1>5. g \notin {Idle, AfterEsc} => since' = Least(since + 1, Reach + 1)
  BY <1>2
<1>6. QED
  BY <1>1, <1>3, <1>4, <1>5, Zenon

\* What a key does to the filter comes with what it does to the count.
LEMMA KeySince ==
    ASSUME TypeOK, since = KeysTo(filter), NEW key, KeyEvent(key)
    PROVE  since' = KeysTo(filter')
<1>1. PICK f \in SgrLeakFilter : f = filter
  BY DEF TypeOK
<1>2. PICK n \in Nat \ {0} : n = SGR_LEAK_MAX_SWALLOW
  BY InputFilterAssumption
<1>3. Reach = n + 2
  BY <1>2 DEF Reach
<1>4. \A g, b : Verdict(g, b).filter = g
  BY DEF Verdict
<1>5. \/ filter' \in {Idle, AfterEsc}
      \/ f = AfterEsc /\ filter' = AfterEscBracket
      \/ f = AfterEscBracket /\ filter' = Swallow(0)
      \/ f.at = "Swallow" /\ filter' = Swallowed(f)
  <2>1. PICK g, b : /\ pass(f, key) = Verdict(g, b)
                    /\ \/ g = Idle \/ g = AfterEsc
                       \/ f = AfterEsc /\ g = AfterEscBracket
                       \/ f = AfterEscBracket /\ g = Swallow(0)
                       \/ f.at = "Swallow" /\ g = Swallowed(f)
    BY PassCases, Zenon
  <2>2. filter' = g
    BY <1>1, <1>4, <2>1, SinceOfKey
  <2>3. QED
    BY <2>1, <2>2, Zenon
<1>6. CASE filter' \in {Idle, AfterEsc}
  BY <1>6, KeysToStates, SinceOfKey, Zenon
<1>7. CASE f = AfterEsc /\ filter' = AfterEscBracket
  <2>1. since = 1 /\ since' = Least(since + 1, Reach + 1) /\ KeysTo(filter') = 2
    BY <1>1, <1>7, FilterStates, KeysToStates, SinceOfKey, Zenon
  <2>2. QED
    BY <1>3, <2>1 DEF Least
<1>8. CASE f = AfterEscBracket /\ filter' = Swallow(0)
  <2>1. filter' \notin {Idle, AfterEsc} /\ KeysTo(filter') = 3
    BY <1>8, FilterStates, KeysToStates
  <2>2. since = 2 /\ since' = Least(since + 1, Reach + 1)
    BY <1>1, <1>8, <2>1, KeysToStates, SinceOfKey, Zenon
  <2>3. QED
    BY <1>2, <1>3, <2>1, <2>2 DEF Least
<1>9. CASE f.at = "Swallow" /\ filter' = Swallowed(f)
  <2>1. PICK m \in Nat : /\ f = Swallow(m) /\ m + 1 <= n
                         /\ \/ filter' = Idle
                            \/ filter' = Swallow(m + 1) /\ m + 2 <= n
    BY <1>2, <1>9, SwallowedCases, Zenon
  <2>2. CASE filter' = Idle
    BY <2>2, KeysToStates, SinceOfKey, Zenon
  <2>3. CASE filter' = Swallow(m + 1) /\ m + 2 <= n
    <3>1. m + 1 \in Nat
      OBVIOUS
    <3>2. filter' \notin {Idle, AfterEsc} /\ KeysTo(filter') = 3 + (m + 1) /\ KeysTo(f) = 3 + m
      BY <2>1, <2>3, <3>1, FilterStates, KeysToStates, Zenon
    <3>3. since = 3 + m /\ since' = Least(since + 1, Reach + 1)
      BY <1>1, <3>2, SinceOfKey, Zenon
    <3>4. QED
      BY <1>3, <2>3, <3>2, <3>3 DEF Least
  <2>4. QED
    BY <2>1, <2>2, <2>3
<1>10. QED
  BY <1>5, <1>6, <1>7, <1>8, <1>9

\* The filter when p keys of a report have followed its Esc
FilterAt(p) ==
    IF p = 0 THEN AfterEsc ELSE IF p = 1 THEN AfterEscBracket ELSE Swallow(p - 2)

\* s is what is left of r after p of its keys.
LeftOf(s, r, p) ==
    /\ p \in 0 .. Len(r) - 1
    /\ Len(s) = Len(r) - p
    /\ \A i \in 1 .. Len(s) : s[i] = r[p + i]

InStep(s, f) ==
    \E n \in 1 .. LongestReport, r \in Seq(TypedKeys) :
       ReportShape(r, n) /\ \E p \in Nat : LeftOf(s, r, p) /\ f = FilterAt(p)

FilterInv ==
    /\ since = KeysTo(filter)
    /\ whole /\ leak # <<>> => InStep(leak, filter)

\* A key of a report is dropped, and takes the filter on to where the next one
\* is dropped.
LEMMA KeyOfReport ==
    ASSUME NEW s \in Seq(TypedKeys), s # <<>>, NEW f \in SgrLeakFilter, InStep(s, f)
    PROVE  /\ ~pass(f, Head(s)).forward
           /\ Tail(s) # <<>> => InStep(Tail(s), pass(f, Head(s)).filter)
<1>1. PICK n \in 1 .. LongestReport, r \in Seq(TypedKeys), p \in Nat :
         ReportShape(r, n) /\ LeftOf(s, r, p) /\ f = FilterAt(p)
  BY DEF InStep
<1>2. PICK k \in Nat : k = Len(r) /\ k \in {n + 2, n + 3} /\ p + 1 <= k
  BY <1>1, LogsAssumption DEF ReportShape, LeftOf
<1>3. PICK key : key = Head(s) /\ key = r[p + 1]
  <2>1. 1 \in 1 .. Len(s) /\ Head(s) = s[1]
    OBVIOUS
  <2>2. QED
    BY <1>1, <2>1 DEF LeftOf
<1>4. PICK t \in Seq(TypedKeys) : t = Tail(s)
  BY TailTypes, Zenon
<1>5. t # <<>> => p + 2 <= k /\ LeftOf(t, r, p + 1)
  <2> SUFFICES ASSUME t # <<>> PROVE p + 2 <= k /\ LeftOf(t, r, p + 1)
    OBVIOUS
  <2>1. PICK l \in Nat : l = Len(s) /\ l = k - p /\ Len(t) = l - 1 /\ l >= 2
    BY <1>1, <1>2, <1>4 DEF LeftOf
  <2>2. ASSUME NEW i \in 1 .. Len(t) PROVE t[i] = r[(p + 1) + i]
    <3>1. t[i] = s[i + 1]
      BY <1>4
    <3>2. i + 1 \in 1 .. Len(s) /\ p + (i + 1) = (p + 1) + i
      BY <2>1
    <3>3. QED
      BY <1>1, <3>1, <3>2 DEF LeftOf
  <2>3. p + 1 \in 0 .. Len(r) - 1 /\ Len(t) = Len(r) - (p + 1)
    BY <1>2, <2>1
  <2>4. QED
    BY <1>2, <2>1, <2>2, <2>3 DEF LeftOf
<1>6. \A g, b : Verdict(g, b).filter = g /\ Verdict(g, b).forward = b
  BY DEF Verdict
<1>7. SUFFICES ASSUME NEW g, pass(f, key) = Verdict(g, FALSE), p + 2 <= k => g = FilterAt(p + 1)
               PROVE  /\ ~pass(f, Head(s)).forward
                      /\ Tail(s) # <<>> => InStep(Tail(s), pass(f, Head(s)).filter)
  <2> SUFFICES \E g : pass(f, key) = Verdict(g, FALSE) /\ (p + 2 <= k => g = FilterAt(p + 1))
    BY <1>7, Zenon
  <2> USE FilterStates
  <2>1. CASE p = 0
    <3>1. f = AfterEsc /\ key = "[" /\ FilterAt(p + 1) = AfterEscBracket
      BY <1>1, <1>3, <2>1 DEF ReportShape, FilterAt
    <3>2. pass(f, key) = Verdict(AfterEscBracket, FALSE)
      BY <3>1, PassCases
    <3>3. QED
      BY <3>1, <3>2
  <2>2. CASE p = 1
    <3>1. f = AfterEscBracket /\ key = "<" /\ FilterAt(p + 1) = Swallow(0)
      BY <1>1, <1>3, <2>2 DEF ReportShape, FilterAt
    <3>2. pass(f, key) = Verdict(Swallow(0), FALSE)
      BY <3>1, PassCases
    <3>3. QED
      BY <3>1, <3>2
  <2>3. CASE p >= 2
    <3>1. PICK m \in Nat : m = p - 2 /\ f = Swallow(m)
      BY <1>1, <2>3 DEF FilterAt
    <3>2. f.at = "Swallow"
      BY <3>1
    <3>3. CASE p + 2 <= k
      <4>1. key = "1"
        <5>1. p + 1 \in 3 .. n + 2
          BY <1>2, <2>3, <3>3
        <5>2. QED
          BY <1>1, <1>3, <5>1 DEF ReportShape
      <4>2. pass(f, key) = Verdict(Swallowed(f), FALSE)
        <5>1. key \notin {"M", "m"}
          BY <4>1
        <5>2. QED
          BY <3>2, <5>1, PassCases, FilterStates, Zenon
      <4>3. Swallowed(f) = Swallow(m + 1)
        <5>1. f.n = m /\ ~(m + 1 >= SGR_LEAK_MAX_SWALLOW)
          BY <1>2, <3>1, <3>3, LogsAssumption, InputFilterAssumption
        <5>2. QED
          BY <5>1, Zenon DEF Swallowed
      <4>4. FilterAt(p + 1) = Swallow(m + 1)
        BY <2>3, <3>1 DEF FilterAt
      <4>5. QED
        BY <4>2, <4>3, <4>4
    <3>4. CASE ~(p + 2 <= k)
      <4>1. f # AfterEsc /\ f # AfterEscBracket
        BY <3>2, Zenon
      <4>2. pass(f, key) \in {Verdict(Idle, FALSE), Verdict(Swallowed(f), FALSE)}
        <5>1. CASE key \in {"M", "m"}
          BY <3>2, <4>1, <5>1, PassCases, Zenon
        <5>2. CASE key \notin {"M", "m"}
          BY <3>2, <4>1, <5>2, PassCases, Zenon
        <5>3. QED
          BY <5>1, <5>2, Zenon
      <4>3. QED
        BY <3>4, <4>2, Zenon
    <3>5. QED
      BY <3>3, <3>4, Zenon
  <2>4. p = 0 \/ p = 1 \/ p >= 2
    OBVIOUS
  <2>5. QED
    BY <2>1, <2>2, <2>3, <2>4, Zenon
<1>8. ASSUME t # <<>> PROVE InStep(t, g)
  <2>1. p + 1 \in Nat /\ g = FilterAt(p + 1) /\ LeftOf(t, r, p + 1)
    BY <1>5, <1>7, <1>8
  <2>2. QED
    BY <1>1, <2>1, Zenon DEF InStep
<1>9. pass(f, Head(s)).filter = g /\ pass(f, Head(s)).forward = FALSE
  <2>1. pass(f, Head(s)) = Verdict(g, FALSE)
    BY <1>3, <1>7, Zenon
  <2>2. QED
    BY <2>1 DEF Verdict
<1>10. QED
  BY <1>4, <1>8, <1>9, Zenon

\* A report begins in step when its Esc has armed the filter.
LEMMA ReportBegins ==
    ASSUME NEW r \in Reports
    PROVE  InStep(r, AfterEsc)
<1>1. PICK n \in 1 .. LongestReport : ReportShape(r, n)
  BY ReportShapes
<1>2. r \in Seq(TypedKeys) /\ Len(r) >= 3
  BY <1>1, LogsAssumption DEF ReportShape
<1>3. LeftOf(r, r, 0)
  BY <1>2 DEF LeftOf
<1>4. FilterAt(0) = AfterEsc
  BY DEF FilterAt
<1>5. QED
  BY <1>1, <1>2, <1>3, <1>4 DEF InStep

LEMMA FilterStep ==
    ASSUME TypeOK, FilterInv, [Next]_vars
    PROVE  FilterInv'
<1>1. CASE UNCHANGED inputVars
  BY <1>1, Zenon DEF inputVars, FilterInv
<1>2. CASE OtherInput
  <2>1. filter' = Idle /\ since' = 0 /\ ~whole'
    BY <1>2 DEF OtherInput, pass_other_event, Verdict
  <2>2. QED
    BY <2>1, KeysToStates, Zenon DEF FilterInv
<1>3. CASE TypeKey
  <2>1. PICK key \in TypedKeys :
           /\ KeyEvent(key)
           /\ \/ leak' = <<>> /\ whole' = FALSE
              \/ key = "Esc" /\ leak' \in Reports /\ whole' = (filter' = AfterEsc)
    BY <1>3 DEF TypeKey
  <2>2. since' = KeysTo(filter')
    BY <2>1, KeySince DEF FilterInv
  <2>3. whole' /\ leak' # <<>> => InStep(leak', filter')
    BY <2>1, ReportBegins, Zenon
  <2>4. QED
    BY <2>2, <2>3, Zenon DEF FilterInv
<1>4. CASE LeakedKey
  <2>1. PICK key \in TypedKeys : key = Head(leak) /\ KeyEvent(key) /\ leak # <<>>
    BY <1>4, TailTypes DEF LeakedKey, TypeOK
  <2>2. since' = KeysTo(filter')
    BY <2>1, KeySince DEF FilterInv
  <2>3. whole' = whole /\ leak' = Tail(leak) /\ filter' = pass(filter, Head(leak)).filter
    BY <1>4, <2>1, SinceOfKey, Zenon DEF LeakedKey
  <2>4. whole /\ leak' # <<>> => InStep(leak', filter')
    BY <2>1, <2>3, KeyOfReport, Zenon DEF FilterInv, TypeOK
  <2>5. QED
    BY <2>2, <2>3, <2>4, Zenon DEF FilterInv
<1>5. QED
  BY <1>1, <1>2, <1>3, <1>4
  DEF Next, drain_log_lines_next, drain_log_lines_send, BreakStream, Reconnect, TraceElsewhere,
      ReceiveLog, StartHandler, HandlerReturns, ShowNotification, Resize, Wheel, vars, inputVars

LEMMA FilterInit == Init => FilterInv
BY KeysToStates, Zenon DEF Init, FilterInv

LEMMA FilterSuffices ==
    ASSUME TypeOK, FilterInv
    PROVE  FilterTellsApart
<1>1. leak # <<>> /\ whole => ~pass(filter, Head(leak)).forward
  BY KeyOfReport, Zenon DEF FilterInv, TypeOK
<1>2. ASSUME NEW key \in TypedKeys, ~pass(filter, key).forward PROVE since <= Reach
  <2>1. PICK f \in SgrLeakFilter : f = filter
    BY DEF TypeOK
  <2>2. CASE f \in {Idle, AfterEsc, AfterEscBracket}
    <3>1. since \in {0, 1, 2}
      BY <2>1, <2>2, KeysToStates DEF FilterInv
    <3>2. QED
      BY <3>1, InputFilterAssumption DEF Reach
  <2>3. ASSUME NEW n \in Nat, f = Swallow(n), n + 1 <= SGR_LEAK_MAX_SWALLOW
        PROVE  since <= Reach
    <3>1. since = 3 + n
      BY <2>1, <2>3, KeysToStates, Zenon DEF FilterInv
    <3>2. QED
      BY <2>3, <3>1, InputFilterAssumption DEF Reach
  <2>4. QED
    BY <2>2, <2>3, FilterCases
<1>3. QED
  BY <1>1, <1>2 DEF FilterTellsApart

\* No key of a report that began at rest and was not interrupted reaches a
\* handler, and no key is dropped beyond the reach of an Esc: SgrLeakFilter
\* (tui/mod.rs), for a cap of any size and reports shorter than it.
THEOREM FilterTellsReports == Spec => []FilterTellsApart
BY FilterInit, FilterStep, FilterSuffices, LogsTypes, PTL DEF Spec
=============================================================================
