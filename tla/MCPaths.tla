------------------------------- MODULE MCPaths -------------------------------
(* Every path of up to five tokens over two names, on file systems with links *)
(* up, down, to the root, to "//", to themselves, and through files.          *)
EXTENDS PathLookup

n1 == <<"a">>
n2 == <<"b">>
ab == <<"a", "b">>
aa == <<"a", "a">>
aab == <<"a", "a", "b">>

\* Directories whose paths come close to PATH_MAX.
Deep == {aa \o [i \in 1 .. n |-> "a"] : n \in 1 .. 3}

Tree(rest_of) == [x \in {<<>>, OUTSIDE} \cup DOMAIN rest_of |->
                    IF x \in DOMAIN rest_of THEN rest_of[x] ELSE DIR]

\* Links down and up, a chain of them as long as SYMLOOP_MAX (b/b) and one that is
\* shorter by one (a/a/b), and a deep directory.
F1 == Tree([x \in {n1, n2, aa, ab, aab} \cup Deep |->
        CASE x \in {n1} \cup Deep -> DIR [] x = n2 -> LINK(<<"a", "/", "a">>)
          [] x = aa -> DIR [] x = ab -> LINK(<<"..", "/", "..", "/", "b", "/", ".">>)
          [] x = aab -> LINK(<<"..", "/", "b">>)])
\* An absolute link with a slash at its end, a file, a link to itself.
F2 == Tree([x \in {n1, n2, aa, ab} |->
        CASE x = n1 -> DIR [] x = n2 -> LINK(<<"/", "a", "/">>)
          [] x = aa -> FILE [] x = ab -> LINK(<<"b">>)])
\* The root with two slashes, a link through a link, an empty link.
F3 == Tree([x \in {n1, n2, aa, ab} |->
        CASE x = n1 -> DIR [] x = n2 -> LINK(<<"/", "/", "a">>)
          [] x = aa -> LINK(<<"..", "/", "b", "/", "b">>) [] x = ab -> LINK(<<>>)])

MCFileSystems == {F1, F2, F3}
MCLocations   == {<<>>, n1, aa, OUTSIDE}

MCTokens == {"a", "b", ".", "..", "/"}

\* Texts of n tokens in which a slash stands between any two components.
OfLength(n) == {t \in [1 .. n -> MCTokens] : \A i \in 1 .. n - 1 : "/" \in {t[i], t[i + 1]}}

Filenames == UNION {OfLength(n) : n \in 0 .. 5} \cup
             {<<"a", "/", "..", "/", "..", "/", "b">>, <<"..", "/", "..", "/", "b", "/", "b">>,
              <<"b", "/", "..", "/", "..", "/", "a">>, <<"a", "/", "b", "/", "b", "/", "b">>,
              <<"..", "/", "..", "/", "..", "/", "..", "/">>}

MCCalls ==
         [op : {"realpath"}, filename : Filenames \cup {NONE}, resolved : {FALSE}]
    \cup [op : {"realpath"}, filename : OfLength(2) \cup OfLength(3), resolved : {TRUE}]
    \cup [op : {"getcwd"}, size : {NONE, 0, 2, 5}]
    \cup [op : {"get_current_dir_name"}, pwd : UNION {OfLength(n) : n \in {0, 1, 2, 4}} \cup {NONE}]
    \cup [op : {"tempnam"}, names : {{"a"}, {"a", "c"}},
          dir : {<<"b">>, <<"/", "a">>, <<"/", "a", "/", ".", "/", ".", "/", ".", "/", ".">>}]

=============================================================================
