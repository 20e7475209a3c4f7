------------------------------ MODULE MCPages ------------------------------
\* A small instance of Pages for TLC.
EXTENDS Pages

=============================================================================
