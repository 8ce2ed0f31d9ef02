---------------------------- MODULE MCLineReader ----------------------------
(* Two threads that read lines; "n" is the delimiter. *)
EXTENDS LineReader

CONSTANTS t1, t2

MCThreads == {t1, t2}
MCChars   == {"a", "b", "c", "d", "n"}
MCTexts   == {<<"a", "b", "c", "n", "n", "d">>, <<"n", "a", "n">>, <<"a", "b">>, <<>>}
MCBuffers == {0, 1, 3}

=============================================================================
