------------------------ MODULE MCConnectionLifecycle ------------------------
(* Model-checking instances of ConnectionLifecycle.                        *)
EXTENDS ConnectionLifecycle

\* One database: its five goroutines already interleave in every way; the
\* proofs cover any number of databases.
OneDatabase == 1
=============================================================================
