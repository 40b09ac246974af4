----------------------------- MODULE InputFilter -----------------------------
(***************************************************************************)
(* SgrLeakFilter of tui/mod.rs.  A terminal reports the mouse as           *)
(* ESC [ < button ; column ; row M.  When an Esc key lands right before    *)
(* the report the parser resolves both ESC bytes as keys and the rest of   *)
(* the report arrives as if it had been typed; the filter drops it.        *)
(***************************************************************************)
EXTENDS Naturals

CONSTANT SGR_LEAK_MAX_SWALLOW

ASSUME InputFilterAssumption == SGR_LEAK_MAX_SWALLOW \in Nat \ {0}

Idle == [at |-> "Idle", n |-> 0]
AfterEsc == [at |-> "AfterEsc", n |-> 0]
AfterEscBracket == [at |-> "AfterEscBracket", n |-> 0]
Swallow(n) == [at |-> "Swallow", n |-> n]

SgrLeakFilter ==
    {Idle, AfterEsc, AfterEscBracket}
      \cup {Swallow(n) : n \in 0 .. SGR_LEAK_MAX_SWALLOW - 1}

\* What comes of one event: the filter's next state, and whether the event
\* goes on to the handlers.
Verdict(filter, forward) == [filter |-> filter, forward |-> forward]

\* Mutant: the cap is never reached.
Swallowed_for_ever(filter) == filter

\* One more key of the report; the cap gives up on a lost terminator.
Swallowed(filter) ==
    IF filter.n + 1 >= SGR_LEAK_MAX_SWALLOW THEN Idle ELSE Swallow(filter.n + 1)

\* The press of a key; a release passes and changes nothing.
pass(filter, key) ==
    CASE filter.at = "Swallow" /\ key \in {"M", "m"} -> Verdict(Idle, FALSE)
      [] filter.at = "Swallow" /\ key \notin {"M", "m"} -> Verdict(Swallowed(filter), FALSE)
      [] filter = AfterEscBracket /\ key = "<" -> Verdict(Swallow(0), FALSE)
      [] filter = AfterEsc /\ key = "[" -> Verdict(AfterEscBracket, FALSE)
      [] filter.at # "Swallow" /\ key = "Esc" -> Verdict(AfterEsc, TRUE)
      [] OTHER -> Verdict(Idle, TRUE)

\* Anything that is no key ends a report.
pass_other_event == Verdict(Idle, TRUE)
=============================================================================
