--------------------------- MODULE MCMockAllocator ---------------------------
(* MockAllocator with threads and addresses as interchangeable values. *)
EXTENDS MockAllocator, TLC

CONSTANTS t1, t2, a1, a2, a3, a4

MCThreads  == {t1, t2}
TwoAddr    == {a1, a2}
FourAddr   == {a1, a2, a3, a4}
Symmetry2  == Permutations(MCThreads) \cup Permutations(TwoAddr)
Symmetry4  == Permutations(MCThreads) \cup Permutations(FourAddr)

SizesZeroTwo == {0, 2}

OwnershipCalls == {"malloc", "realloc", "free", "libc", "bridge"}
RaceCalls      == {"malloc", "realloc"}
CountingCalls  == {"malloc", "calloc", "realloc_null", "realloc", "free",
                   "libc", "begin", "end", "reset"}

=============================================================================
