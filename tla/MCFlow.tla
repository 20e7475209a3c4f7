------------------------------- MODULE MCFlow -------------------------------
\* A small instance of Flow for TLC: a debounced function and one with batches, each
\* subscribed to an event of its own.
EXTENDS Flow

ByName == [paid |-> <<"merge">>, sent |-> <<"collect">>]
=============================================================================
