------------------------------ MODULE Polling ------------------------------
(***************************************************************************)
(* A page that asks again and again (usePolling.js, the timer of           *)
(* ReportPanel.tsx).  The timer does not wait for an answer, so several    *)
(* requests can be on their way, and they are answered in any order: asked *)
(* holds what the requests not yet served ask for, got the answers that    *)
(* have not reached the page, in the order in which the server gave them.  *)
(***************************************************************************)
EXTENDS Naturals, Sequences
LOCAL INSTANCE SequencesExt

CONSTANT MaxPolls   \* bound on the requests of a page on their way

ASSUME PollAssumption == MaxPolls \in Nat

VARIABLES
  polls,  \* the requests of the page that is open
  stale   \* auxiliary: an answer was shown that was overtaken or about something else

NoPolls == [asked |-> <<>>, got |-> <<>>]

InFlight(p) == Len(p.asked) + Len(p.got)

\* tick: one request more.
Ask(p, of) == [p EXCEPT !.asked = Append(@, of)]

\* A request is served: is is what the server answers at that moment.
Reply(p, i, is) ==
  [asked |-> RemoveAt(p.asked, i),
   got   |-> Append(p.got, [of |-> p.asked[i], is |-> is, late |-> FALSE])]

\* An answer reaches the page: those the server gave before it have been overtaken.
Taken(p, i) ==
  [p EXCEPT !.got = [k \in 1 .. Len(@) - 1 |->
     IF k < i THEN [p.got[k] EXCEPT !.late = TRUE] ELSE p.got[k + 1]]]
=============================================================================
