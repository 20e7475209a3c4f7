------------------------------ MODULE MCAgent -------------------------------
\* Small instances of AgentRun for TLC: the replies of the model and the hook.
EXTENDS AgentRun

Reply(calls, used) == [calls |-> calls, used |-> used]
FewReplies == {Reply(<<>>, 1), Reply(<<"search", "search">>, 1), Reply(<<"search", "fetch">>, 2),
               Reply(<<"search", "unknown">>, 1)}

\* A hook that starts the history again after a large reply.
Compacts(msgs, it, prev) == IF prev > 1 THEN <<msgs[1]>> ELSE msgs
=============================================================================
