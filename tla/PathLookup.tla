----------------------------- MODULE PathLookup -----------------------------
(***************************************************************************)
(* How the kernel finds a file, as path_overrides.c relies on it, and      *)
(* hence what realpath has to return.                                      *)
(*                                                                         *)
(* A file system maps the places of its files, as sequences of names from  *)
(* the root, to DIR, FILE or a link with its text. OUTSIDE is a place that *)
(* a process has as its working directory but cannot reach by name.        *)
(***************************************************************************)
EXTENDS Paths

CONSTANT
    MaxSymlinks   \* the links that a lookup of the kernel may follow: Linux has 40

ASSUME MaxSymlinksAssumption == MaxSymlinks \in Nat

OUTSIDE == <<"outside">>

DIR        == [kind |-> "dir"]
FILE       == [kind |-> "file"]
LINK(text) == [kind |-> "link", text |-> text]

\* Not so of a working directory that has been removed.
IsDir(f, place) == place \in DOMAIN f /\ f[place] = DIR

Above(place) == IF place \in {<<>>, OUTSIDE} THEN place ELSE SubSeq(place, 1, Len(place) - 1)

\* Where a lookup stands: the directory it is at, the text that is left, the
\* number of slashes of the last absolute text met, the number and the length of
\* the links followed.
Walks == [at : Seq(Names), todo : Texts, root : 0 .. 2, links : Nat, spent : Nat]

\* text is looked up from the place from on. A link at the very end is followed
\* if last says so. An error has the number of links followed before it.
Lookup(f, from, text, last) ==
    LET Walk[w \in Walks] ==
            LET No(error) == [error |-> error, links |-> w.links]
                todo == w.todo
                tail == Tail(todo)
                next == Append(w.at, todo[1])
                link == f[next].text
                To(place) == Walk[[w EXCEPT !.at = place, !.todo = Stripped(tail)]]
            IN  IF todo = <<>> THEN w
                ELSE IF todo[1] = "/"
                THEN Walk[[w EXCEPT !.at = <<>>, !.todo = Stripped(todo),
                            !.root = IF Len(todo) - Len(Stripped(todo)) = 2 THEN 2 ELSE 1]]
                ELSE IF ~IsDir(f, w.at) THEN No("ENOENT")
                ELSE IF todo[1] = "." THEN To(w.at)
                ELSE IF todo[1] = ".." THEN To(Above(w.at))
                ELSE IF next \notin DOMAIN f THEN No("ENOENT")
                ELSE IF f[next].kind = "link" /\ (last \/ tail # <<>>)
                THEN IF link = <<>> THEN No("ENOENT")
                     ELSE IF w.links = MaxSymlinks THEN No("ELOOP")
                     ELSE Walk[[w EXCEPT
                            !.todo  = link \o (IF EndsInSlash(link) THEN Stripped(tail)
                                               ELSE tail),
                            !.links = @ + 1, !.spent = @ + Size(link)]]
                ELSE IF f[next] = FILE /\ tail # <<>> THEN No("ENOTDIR")
                ELSE To(next)
    IN  Walk[[at |-> from, todo |-> text, root |-> 0, links |-> 0, spent |-> 0]]

\* readlink, stat and getcwd.
KernelReadLink(f, from, text) ==
    LET w == Lookup(f, from, text, FALSE)
    IN  IF "error" \in DOMAIN w THEN [error |-> w.error]
        ELSE IF f[w.at].kind = "link" THEN [text |-> f[w.at].text] ELSE [error |-> "EINVAL"]

KernelIdentity(f, from, text) ==
    LET w == Lookup(f, from, text, TRUE)
    IN  IF "error" \in DOMAIN w THEN NONE ELSE w.at

\* The text that names a place, after the slashes of a root.
TextOf(slashes, place) ==
    [i \in 1 .. slashes |-> "/"] \o
    (IF place = <<>> THEN <<>>
     ELSE [i \in 1 .. 2 * Len(place) - 1 |->
             IF i % 2 = 1 THEN place[(i + 1) \div 2] ELSE "/"])

KernelCwdText(f, from) ==
    IF ~IsDir(f, from) THEN [error |-> "ENOENT"]
    ELSE [text |-> IF from = OUTSIDE THEN from ELSE TextOf(1, from)]

-----------------------------------------------------------------------------
Untouched(op) == pc = "over" /\ call.op = op /\ moves = 0

\* What realpath must return for a path that is not too long.
Expected ==
    LET w == Lookup(fs, cwd, call.filename, TRUE)
    IN  IF "error" \in DOMAIN w THEN [error |-> w.error]
        ELSE IF w.root # 0 THEN [text |-> TextOf(w.root, w.at)]
        ELSE IF GetCwd(PathMax + 1) # KernelCwdText(fs, cwd) THEN [error |-> "ENOENT"]
        ELSE [text |-> TextOf(1, w.at)]

\* The links that the kernel follows before it finds the file or gives up.
LinksOnTheWay == Lookup(fs, cwd, call.filename, TRUE).links

\* Nothing near PATH_MAX comes up on the way: the path, the links it leads
\* through and the working directory are short enough together.
Short ==
    LET w     == Lookup(fs, cwd, call.filename, TRUE)
        spent == IF "error" \in DOMAIN w THEN 0 ELSE w.spent
    IN  Size(call.filename) + spent + Size(TextOf(1, cwd)) + 2 < PathMax

\* realpath finds the file that the kernel finds, though it only cancels ".."
\* in a text, accumulates leading ".." (line 157) and skips readlink where it
\* thinks it may (162): it returns that file's path, or the kernel's error, or
\* that the path is too long, that it has too many links or that memory has run
\* out. Too long is only said when the texts involved come close to PATH_MAX, too
\* many only when the kernel would follow SYMLOOP_MAX of them or more: the code
\* gives up at that link (line 199), the kernel at the one after it.
Resolves ==
    Untouched("realpath") /\ call.filename \notin {NONE, <<>>} =>
        \/ result = Expected
        \/ result = [error |-> "ENAMETOOLONG"] /\ (~Short \/ "error" \in DOMAIN Expected)
        \/ result = [error |-> "ELOOP"] /\ LinksOnTheWay >= SymloopMax
        \/ result = [error |-> "ENOMEM"] /\ ~call.resolved

\* A stale or misleading $PWD is not passed on (line 67): what
\* get_current_dir_name returns leads back to the working directory, as does
\* what getcwd returns.
NamesCwd ==
    \A op \in {"get_current_dir_name", "getcwd"} :
        Untouched(op) /\ "text" \in DOMAIN result =>
            KernelIdentity(fs, cwd, result.text) = cwd

=============================================================================
