------------------------------ MODULE MCStartup ------------------------------
(* Startup with two threads and a heap that has room for two small blocks. *)
EXTENDS Startup

CONSTANTS t1, t2

MCThreads == {t1, t2}
\* An ordinary size, and one whose total wraps.
MCSizes   == {1, 31}

=============================================================================
