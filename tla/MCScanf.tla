------------------------------- MODULE MCScanf -------------------------------
(***************************************************************************)
(* Formats that mix %m conversions with suppressed, literal and %n ones:   *)
(* "%ms%n%mc", "%*s%ms%%%m[", "%1$ms%1$ms", "%d%mlc" and "%d".             *)
(***************************************************************************)
EXTENDS Scanf, TLC

CONSTANTS t1, t2

MCThreads == {t1, t2}
Symmetry  == Permutations(MCThreads)

D(spec, suppressed, alloc, long, arg) ==
    [spec |-> spec, suppressed |-> suppressed, alloc |-> alloc, long |-> long,
     arg |-> arg]

Plain(spec, arg) == D(spec, FALSE, FALSE, FALSE, arg)
M(spec, arg)     == D(spec, FALSE, TRUE, FALSE, arg)
ML(spec, arg)    == D(spec, FALSE, TRUE, TRUE, arg)
Skip(spec)       == D(spec, TRUE, FALSE, FALSE, 0)

MCFormats ==
    {<<M("s", 1), Plain("n", 2), M("c", 3)>>,
     <<Skip("s"), M("s", 1), Plain("lit", 0), M("[", 2)>>,
     <<M("s", 1), M("s", 1)>>,
     <<Plain("d", 1), ML("c", 2)>>,
     <<Plain("d", 1)>>}

=============================================================================
