------------------------------ MODULE MCScandir ------------------------------
(* A directory of up to four entries, an array that can hold three of them    *)
(* (it grows to 1, 3, 7, ... pointers), an int that can count two.            *)
EXTENDS Scandir

MCDirectories == {<<>>, <<1>>, <<2, 1>>, <<3, 1, 2>>, <<2, 4, 1, 3>>}
MCErrors      == {12, 5}

=============================================================================
