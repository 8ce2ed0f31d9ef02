-------------------------------- MODULE Copies --------------------------------
(***************************************************************************)
(* The sizes that the stateless overrides ask malloc for: the cpu set of   *)
(* sched_overrides.c, and the copies of string_overrides.c. Sizes are      *)
(* unsigned and wrap: m is SIZE_MAX + 1. An unsigned long has 8 bytes.     *)
(***************************************************************************)
EXTENDS Integers

Wrapped(n, m) == n % m

ao_cpu_alloc_size(count, m) ==
    Wrapped(8 * Wrapped((count \div 64) + (Wrapped((count % 64) + 63, m) \div 64), m), m)

\* strdup and strndup (a unit is 1) and wcsdup (4) of len units and a terminator.
dup_size(len, unit, m) == Wrapped(Wrapped(len + 1, m) * unit, m)

=============================================================================
