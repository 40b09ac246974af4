-------------------------------- MODULE Logs --------------------------------
(***************************************************************************)
(* The log: entries from the daemon's log_listen stream (a task of its     *)
(* own, integration/rpc.rs) and from the TUI's own tracing (logging.rs)    *)
(* share one bounded channel, which the run loop drains into a ring        *)
(* buffer; the Logs page shows a window of it (app/pages/logs.rs,          *)
(* tui/pages/logs.rs), moved by keys that have passed the input filter.    *)
(*                                                                         *)
(* The run loop is the channel's only consumer and one of its producers:   *)
(* a handler traces while the loop waits for it.  Of an entry the model    *)
(* keeps its source, its number and how many rows it wraps to; of the      *)
(* pages Logs and Status; of the popups a notification.  The frame that    *)
(* follows every event is part of the event's action.                      *)
(***************************************************************************)
EXTENDS InputFilter, SequencesExt

CONSTANTS
    ChannelCapacity,        \* of logging::init
    LOG_BUFFER_CAPACITY,
    Heights,                \* the panel's inner heights; 0: the terminal is too small
    LINES_PER_NOTCH,
    LongestReport,          \* bound: keys between [< and M of a leaked report
    MaxLines,               \* bound: lines the daemon writes
    MaxTraces               \* bound: events the TUI traces

ASSUME LogsAssumption ==
    /\ {ChannelCapacity, LOG_BUFFER_CAPACITY, LINES_PER_NOTCH} \subseteq Nat \ {0}
    /\ Heights \subseteq Nat /\ Heights # {}
    /\ LongestReport \in 1 .. SGR_LEAK_MAX_SWALLOW - 1
    /\ {MaxLines, MaxTraces} \subseteq Nat

VARIABLES
    lines,          \* lines the daemon has written
    stream,         \* "Open", "Broken", or "None": the task has not started or is over
    fresh,          \* no line has been read from this stream yet
    held,           \* the entry in tx.send, if any
    traces,         \* events traced by the TUI
    channel,
    buffer,         \* App.log_buffer
    busy,           \* a handler is awaited
    quit,           \* should_quit
    page, popup,
    height,         \* of the panel
    offset,         \* PageState.scroll_offset
    dims,           \* last_total_rows, last_viewport
    filter,         \* the SgrLeakFilter
    leak,           \* keys of a leaked report still to come
    \* History, for the properties only.
    whole,          \* the report began at rest and nothing came in between
    since           \* keys from the Esc on, while the filter is not at rest

taskVars == <<lines, stream, fresh, held>>
loopVars == <<buffer, busy, quit, page, popup, height, offset, dims>>
inputVars == <<filter, leak, whole, since>>
vars == <<lines, stream, fresh, held, traces, channel, buffer, busy, quit, page,
          popup, height, offset, dims, filter, leak, whole, since>>

Entry == [source : {"Daemon", "Tui"}, n : Nat, first : BOOLEAN]

\* scroll_offset: None follows the newest entry, Some(n) pins a row.
Tailing == <<>>
Pin(n) == <<n>>

\* What the user types, and a report leaks.
TypedKeys ==
    {"Up", "Down", "Home", "End", "PageUp", "PageDown", "Esc", "[", "<", "1", "4", "M", "q"}

\* The Esc, [, < and all but the last key of a body: as far as a key can be
\* from the Esc and leave the filter armed.
Reach == SGR_LEAK_MAX_SWALLOW + 2

TypeOK ==
    /\ lines \in 0 .. MaxLines /\ traces \in 0 .. MaxTraces
    /\ stream \in {"Open", "Broken", "None"}
    /\ {fresh, busy, quit, popup, whole} \subseteq BOOLEAN
    /\ held \in Seq(Entry) /\ Len(held) <= 1
    /\ channel \in Seq(Entry) /\ Len(channel) <= ChannelCapacity
    /\ buffer \in Seq(Entry) /\ Len(buffer) <= LOG_BUFFER_CAPACITY
    /\ page \in {"Status", "Logs"}
    /\ height \in Heights
    /\ offset \in Seq(Nat) /\ Len(offset) <= 1
    /\ dims \in [total : Nat, viewport : Nat]
    /\ filter \in SgrLeakFilter
    /\ leak \in Seq(TypedKeys)
    /\ since \in 0 .. Reach + 1

Init ==
    /\ lines = 0 /\ stream \in {"Open", "None"} /\ fresh = TRUE /\ held = <<>>
    /\ traces = 0 /\ channel = <<>> /\ buffer = <<>>
    /\ busy = FALSE /\ quit = FALSE
    /\ page = "Status" /\ popup = FALSE
    /\ height \in Heights
    /\ offset = Tailing /\ dims = [total |-> 0, viewport |-> 0]
    /\ filter = Idle /\ leak = <<>>
    /\ whole = FALSE /\ since = 0

-----------------------------------------------------------------------------
(* The two producers.                                                      *)

DaemonLine == [source |-> "Daemon", n |-> lines + 1, first |-> fresh]

\* drain_log_lines reads a line; the next is read when this one is sent.
drain_log_lines_next ==
    /\ stream = "Open" /\ held = <<>> /\ lines < MaxLines
    /\ lines' = lines + 1
    /\ held' = <<DaemonLine>>
    /\ fresh' = FALSE
    /\ UNCHANGED <<stream, traces, channel, loopVars, inputVars>>

\* Mutant: a full channel drops the line.
drain_log_lines_try_send ==
    /\ held # <<>>
    /\ channel' = IF Len(channel) < ChannelCapacity THEN channel \o held ELSE channel
    /\ held' = <<>>
    /\ UNCHANGED <<lines, stream, fresh, traces, loopVars, inputVars>>

\* tx.send(..).await waits for room; without a receiver the task returns.
drain_log_lines_send ==
    /\ held # <<>>
    /\ \/ /\ ~quit /\ Len(channel) < ChannelCapacity
          /\ channel' = channel \o held /\ UNCHANGED stream
       \/ quit /\ stream' = "None" /\ UNCHANGED channel
    /\ held' = <<>>
    /\ UNCHANGED <<lines, fresh, traces, loopVars, inputVars>>

\* The stream ends or errs while the task waits for a line; after the last
\* line of the bound nothing would follow.
BreakStream ==
    /\ stream = "Open" /\ held = <<>> /\ lines < MaxLines
    /\ stream' = "Broken"
    /\ UNCHANGED <<lines, fresh, held, traces, channel, loopVars, inputVars>>

\* log_listener_loop: reconnect_with_backoff, and listen again.  What the
\* daemon has written meanwhile is lost.
Reconnect ==
    /\ stream = "Broken"
    /\ stream' = "Open" /\ fresh' = TRUE
    /\ lines' \in lines .. MaxLines
    /\ UNCHANGED <<held, traces, channel, loopVars, inputVars>>

TracedEvent == [source |-> "Tui", n |-> traces + 1, first |-> FALSE]

\* Mutant: the emitter waits for room.
on_event_send ==
    /\ traces < MaxTraces
    /\ traces' = traces + 1
    /\ Len(channel) < ChannelCapacity
    /\ channel' = Append(channel, TracedEvent)

\* RingBufferLayer::on_event: try_send, and a full channel drops the entry.
on_event ==
    /\ traces < MaxTraces
    /\ traces' = traces + 1
    /\ channel' = IF Len(channel) < ChannelCapacity /\ ~quit
                  THEN Append(channel, TracedEvent) ELSE channel

\* An event of another task or thread.
TraceElsewhere == on_event /\ UNCHANGED <<taskVars, loopVars, inputVars>>

-----------------------------------------------------------------------------
(* The page.                                                               *)

\* How many rows an entry wraps to.
RowsOf(entry) == IF entry.n % 2 = 1 THEN 2 ELSE 1

WrappedRows ==
    FlattenSeq([i \in 1 .. Len(buffer) |-> [r \in 1 .. RowsOf(buffer[i]) |-> <<buffer[i], r>>]])

\* An empty buffer is drawn as one line that says so.
TotalRows == IF buffer = <<>> THEN 1 ELSE Len(WrappedRows)

Least(m, n) == IF m < n THEN m ELSE n

MaxOffset(total, viewport) == IF total > viewport THEN total - viewport ELSE 0

effective_scroll(total, viewport) ==
    IF offset = Tailing THEN MaxOffset(total, viewport)
    ELSE Least(offset[1], MaxOffset(total, viewport))

scroll_up_by(n) ==
    LET current == effective_scroll(dims.total, dims.viewport)
    IN  offset' = Pin(IF current > n THEN current - n ELSE 0)

scroll_down_by(n) ==
    LET next == effective_scroll(dims.total, dims.viewport) + n
    IN  offset' = IF next >= MaxOffset(dims.total, dims.viewport) THEN Tailing ELSE Pin(next)

\* What the panel shows.
Shown ==
    LET first == effective_scroll(TotalRows, height)
    IN  SubSeq(WrappedRows, first + 1, Least(first + height, Len(WrappedRows)))

\* The frame after an event records the panel's dimensions, under a popup as
\* well, but not on another page or a terminal that is too small.
Render ==
    dims' = IF page' = "Logs" /\ height' > 0
            THEN [total |-> TotalRows', viewport |-> height'] ELSE dims

-----------------------------------------------------------------------------
(* The arms of the run loop.                                               *)

Selecting == ~busy /\ ~quit

\* Mutant: one entry short of the capacity.
append_log_entry_off_by_one(entry) ==
    buffer' = Append(IF Len(buffer) + 1 = LOG_BUFFER_CAPACITY THEN Tail(buffer) ELSE buffer, entry)

append_log_entry(entry) ==
    buffer' = Append(IF Len(buffer) = LOG_BUFFER_CAPACITY THEN Tail(buffer) ELSE buffer, entry)

ReceiveLog ==
    /\ Selecting /\ channel # <<>>
    /\ append_log_entry(Head(channel))
    /\ channel' = Tail(channel)
    /\ UNCHANGED <<taskVars, traces, busy, quit, page, popup, height, offset, inputVars>>
    /\ Render

\* An input or a push whose handler awaits an RPC.
StartHandler ==
    /\ Selecting
    /\ busy' = TRUE
    /\ UNCHANGED <<taskVars, traces, channel, buffer, quit, page, popup, height,
                   offset, dims, inputVars>>

\* It returns, after a warning or without one.
HandlerReturns ==
    /\ busy
    /\ busy' = FALSE
    /\ on_event \/ (traces = MaxTraces /\ UNCHANGED <<traces, channel>>)
    /\ UNCHANGED <<taskVars, buffer, quit, page, popup, height, offset, inputVars>>
    /\ Render

ShowNotification ==
    /\ Selecting /\ ~popup
    /\ popup' = TRUE
    /\ UNCHANGED <<taskVars, traces, channel, buffer, busy, quit, page, height,
                   offset, inputVars>>
    /\ Render

\* What an event that is no key does to the filter and to a report under way.
OtherInput ==
    /\ filter' = pass_other_event.filter
    /\ whole' = FALSE /\ since' = 0
    /\ UNCHANGED leak

\* A signal, not a byte: it can come between the keys of a report.
Resize ==
    /\ Selecting
    /\ \E h \in Heights \ {height} : height' = h
    /\ OtherInput
    /\ UNCHANGED <<taskVars, traces, channel, buffer, busy, quit, page, popup, offset>>
    /\ Render

\* A report that was parsed as one.
Wheel ==
    /\ Selecting /\ leak = <<>>
    /\ IF page = "Logs" /\ ~popup
       THEN scroll_up_by(LINES_PER_NOTCH) \/ scroll_down_by(LINES_PER_NOTCH)
       ELSE UNCHANGED offset
    /\ OtherInput
    /\ UNCHANGED <<taskVars, traces, channel, buffer, busy, quit, page, popup, height>>
    /\ Render

ScrollKey(key) ==
    \/ key = "Up" /\ scroll_up_by(1)
    \/ key = "Down" /\ scroll_down_by(1)
    \/ key = "Home" /\ offset' = Pin(0)
    \/ key = "End" /\ offset' = Tailing
    \/ key = "PageUp" /\ scroll_up_by(dims.viewport)
    \/ key = "PageDown" /\ scroll_down_by(dims.viewport)

\* The arrows scroll whatever is above the panel, the other keys do not.
Scrolls(key) ==
    /\ page = "Logs"
    /\ \/ key \in {"Up", "Down"}
       \/ ~popup /\ key \in {"Home", "End", "PageUp", "PageDown"}

\* handle_key_event for a key that the filter has let through.
HandleKey(key) ==
    /\ quit' = (quit \/ key = "q")
    /\ popup' = (popup /\ key # "Esc")
    /\ page' = IF popup THEN page
               ELSE IF key = "1" THEN "Status" ELSE IF key = "4" THEN "Logs" ELSE page
    /\ IF Scrolls(key) THEN ScrollKey(key) ELSE UNCHANGED offset

KeyEvent(key) ==
    /\ Selecting
    /\ LET verdict == pass(filter, key)
       IN  /\ filter' = verdict.filter
           /\ IF verdict.forward THEN HandleKey(key)
              ELSE UNCHANGED <<quit, popup, page, offset>>
           /\ since' = CASE verdict.filter = Idle -> 0
                         [] verdict.filter = AfterEsc -> 1
                         [] OTHER -> Least(since + 1, Reach + 1)
    /\ UNCHANGED <<taskVars, traces, channel, buffer, busy, height>>
    /\ Render

\* The rest of a report, its terminator possibly lost.  Of the numbers and
\* semicolons a digit is what a handler would act on.
Report(n, terminator) == <<"[", "<">> \o [i \in 1 .. n |-> "1"] \o terminator

Reports ==
    {Report(n, terminator) : n \in 1 .. LongestReport, terminator \in {<<>>, <<"M">>}}

\* The user types, the parser keeping a report apart from an Esc or not.
TypeKey ==
    /\ leak = <<>>
    /\ \E key \in TypedKeys :
         /\ KeyEvent(key)
         /\ \/ leak' = <<>> /\ whole' = FALSE
            \/ key = "Esc" /\ leak' \in Reports /\ whole' = (filter' = AfterEsc)

LeakedKey ==
    /\ leak # <<>>
    /\ KeyEvent(Head(leak))
    /\ leak' = Tail(leak)
    /\ UNCHANGED whole

Next ==
    \/ drain_log_lines_next \/ drain_log_lines_send
    \/ BreakStream \/ Reconnect
    \/ TraceElsewhere
    \/ ReceiveLog \/ StartHandler \/ HandlerReturns
    \/ ShowNotification \/ Resize \/ Wheel \/ TypeKey \/ LeakedKey

\* A handler does return.
Fairness == WF_vars(HandlerReturns)

Spec == Init /\ [][Next]_vars /\ Fairness

-----------------------------------------------------------------------------
(* Properties.                                                             *)

\* The daemon's lines from the page's oldest row to the task.
OfDaemon(entry) == IF entry.source = "Daemon" THEN <<entry>> ELSE <<>>

DaemonLines ==
    LET path == buffer \o channel \o held
    IN  FlattenSeq([i \in 1 .. Len(path) |-> OfDaemon(path[i])])

\* No line of a stream is lost, doubled or overtaken on its way into the
\* buffer, however full the channel is: lines are missing only where the
\* stream broke.
NoGapInAStream ==
    \A i \in 1 .. Len(DaemonLines) - 1 :
        LET this == DaemonLines[i]
            next == DaemonLines[i + 1]
        IN  \/ next.n = this.n + 1
            \/ next.n > this.n /\ next.first

\* The run loop, which alone empties the channel and traces into it, never
\* waits there for room.
LoopComesBack == busy ~> ~busy

Pinned == offset # Tailing /\ offset[1] <= MaxOffset(TotalRows, height)

\* While the user has scrolled up and the buffer has room, an entry that
\* arrives leaves every row shown where it is.
PinnedViewStays ==
    [][Pinned /\ buffer' # buffer /\ Len(buffer) < LOG_BUFFER_CAPACITY
         => IsPrefix(Shown, Shown')]_vars

\* As app/pages/logs.rs has it: entries below the user's position do not
\* disturb the view.
PinnedViewIsUndisturbed ==
    [][Pinned /\ buffer' # buffer => IsPrefix(Shown, Shown')]_vars

\* The filter tells a report from typing: no key of a report that began at
\* rest and was not interrupted reaches a handler, and a typed key is dropped
\* only within the reach of an Esc.
FilterTellsApart ==
    /\ leak # <<>> /\ whole => ~pass(filter, Head(leak)).forward
    /\ \A key \in TypedKeys : ~pass(filter, key).forward => since <= Reach
=============================================================================
