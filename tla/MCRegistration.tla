--------------------------- MODULE MCRegistration ---------------------------
\* A small instance of Registration for TLC: two apps of two versions each.
EXTENDS Registration

Fn(id, event, onFailure, timeout) ==
  [id |-> <<id>>, event |-> event, cron |-> FALSE, of |-> <<>>, onFailure |-> onFailure,
   timeout |-> timeout]
Typo     == [as |-> "string", valid |-> FALSE]
Minutes  == [as |-> "string", valid |-> TRUE]
Negative == [as |-> "number", valid |-> FALSE]

\* The second version of a takes over a function of b and drops one of its own;
\* the second version of b has a negative timeout, which its SDK throws on.
TwoApps == [u \in {"a", "b"} |->
  IF u = "a" THEN << <<Fn("order", "paid", TRUE, Typo), Fn("old", "paid", FALSE, Unset)>>,
                     <<Fn("order", "sent", TRUE, Minutes), Fn("mail", "paid", FALSE, Unset)>> >>
             ELSE << <<Fn("mail", "sent", TRUE, Minutes)>>, <<Fn("log", "paid", FALSE, Negative)>> >>]
SameKey == [u \in {"a", "b"} |-> "key"]
Ahead   == [u \in {"a", "b"} |-> IF u = "a" THEN 0 ELSE 5]
OnlyB   == <<"b">>
=============================================================================
