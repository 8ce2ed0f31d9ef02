-------------------------------- MODULE Paths --------------------------------
(***************************************************************************)
(* path_overrides.c: one call of realpath, getcwd, get_current_dir_name or *)
(* tempnam, while other processes may change the file system.              *)
(*                                                                         *)
(* A text is a sequence of tokens: a file name, ".", ".." or "/", with at  *)
(* least one "/" between two components. A name is one character long, so  *)
(* that Size is a text's strlen. realpath's stack holds at its end the     *)
(* text still to resolve (rest, from index p on) and output, from its      *)
(* start, what has been resolved (q characters).                           *)
(*                                                                         *)
(* What the kernel answers is given by constant operators.                 *)
(***************************************************************************)
EXTENDS Integers, Sequences, FiniteSets

CONSTANTS
    Names,                  \* the names that files may have
    FileSystems,            \* the states of the file system
    Locations,              \* the directories that may be the working directory
    Calls,                  \* the calls that may be made, see realpath, getcwd, ...
    PathMax,                \* PATH_MAX
    SymloopMax,             \* SYMLOOP_MAX
    MaxTries,               \* MAXTRIES
    NONE,                   \* a null pointer
    MaxMoves,               \* bound on the changes that others make
    ReadLink(_, _, _),      \* (fs, cwd, text): a link's text, or an error
    Identity(_, _, _),      \* (fs, cwd, text): the file that stat finds, or NONE
    CwdText(_, _)           \* (fs, cwd): the text of the working directory, or an error

ASSUME PathsAssumption ==
    /\ PathMax \in Nat \ {0} /\ SymloopMax \in Nat \ {0}
    /\ MaxTries \in Nat \ {0} /\ MaxMoves \in Nat
    /\ Names \cap {".", "..", "/"} = {}

Texts == Seq(Names \cup {".", "..", "/"})

VARIABLES
    fs, cwd, moves,             \* the world: its state, where we are, its changes
    call,                       \* the call, with its arguments
    rest, output,               \* realpath's two texts
    check_dir, pending_up, loop_count,
    attempt,                    \* tempnam's loop counter
    pc, result                  \* result: [error |-> ...] or [text |-> ...]

world  == <<fs, cwd, moves>>
flags  == <<check_dir, pending_up, loop_count>>
vars   == <<world, call, rest, output, flags, attempt, pc, result>>

Size(text) == Len(text) + Cardinality({i \in DOMAIN text : text[i] = ".."})

EndsInSlash(text) == text # <<>> /\ text[Len(text)] = "/"
Absolute(text)    == text # <<>> /\ text[1] = "/"

\* "/a/b": one slash before each name, and none at the end.
FromRoot(text) ==
    /\ Len(text) = 1 \/ Len(text) % 2 = 0
    /\ \A i \in DOMAIN text : text[i] \in IF i % 2 = 1 THEN {"/"} ELSE Names

\* A path is a null pointer or a text.
ASSUME CallsAssumption ==
    \A c \in Calls : c.op = "realpath" => c.filename = NONE \/ c.filename \in Texts

\* The kernel's text for a directory that can be reached from the root.
ASSUME CwdAssumption ==
    \A f \in FileSystems, c \in Locations :
        LET t == CwdText(f, c)
        IN  \/ t \in [error : STRING]
            \/ /\ t \in [text : Texts]
               /\ Absolute(t.text) => FromRoot(t.text)

\* ao_slash_len: text without its leading slashes.
Stripped(text) ==
    LET others == {i \in DOMAIN text : text[i] # "/"}
        first  == CHOOSE i \in others : \A j \in others : i <= j
    IN  IF others = {} THEN <<>> ELSE SubSeq(text, first, Len(text))

\* The call returns an error or a text; a text goes to the caller's buffer or is
\* copied by strdup, which may fail.
Return(r)   == result' = r /\ pc' = "over"
Fail(error) == Return([error |-> error])
Deliver(r, mine) ==
    \/ Return(r)
    \/ ~mine /\ "text" \in DOMAIN r /\ Fail("ENOMEM")

-----------------------------------------------------------------------------
(* realpath: [op |-> "realpath", filename |-> text or NONE, resolved |->   *)
(* whether there is a buffer].                                             *)

realpath ==
    /\ pc = "call" /\ call.op = "realpath"
    /\ LET f == call.filename
       IN  \/ f = NONE /\ Fail("EINVAL") /\ UNCHANGED rest
           \/ f = <<>> /\ Fail("ENOENT") /\ UNCHANGED rest
           \/ f # NONE /\ Size(f) >= PathMax /\ Fail("ENAMETOOLONG") /\ UNCHANGED rest
           \/ /\ f # NONE /\ f # <<>> /\ Size(f) < PathMax
              /\ rest' = f
              /\ pc' = "loop"
              /\ UNCHANGED result
    /\ UNCHANGED <<world, call, output, flags, attempt>>

p == PathMax - Size(rest)
q == Size(output)

Looping == pc = "loop"

\* Mutant: a link to an absolute text leaves the count of pending ".." alone.
Mutant_PendingAtRoot == pending_up

\* pending_up when the text turns out to be absolute.
PendingAtRoot == 0

\* An absolute text, also that of a link met on the way. Two slashes, and no
\* third, are a root of their own.
root ==
    /\ Looping /\ Absolute(rest)
    /\ output' = IF Len(rest) > 1 /\ rest[2] = "/" /\ ~(Len(rest) > 2 /\ rest[3] = "/")
                 THEN <<"/", "/">> ELSE <<"/">>
    /\ rest' = Stripped(rest)
    /\ check_dir' = FALSE
    /\ pending_up' = PendingAtRoot
    /\ UNCHANGED <<world, call, loop_count, attempt, pc, result>>

\* The next component; empty when check_dir asks for one more look at the last.
Component == IF rest = <<>> THEN <<>> ELSE <<Head(rest)>>
Following == IF rest = <<>> THEN <<>> ELSE Tail(rest)

AtComponent == Looping /\ ~Absolute(rest) /\ (rest # <<>> \/ check_dir)

dot ==
    /\ AtComponent /\ Component = <<".">>
    /\ rest' = Stripped(Following)
    /\ UNCHANGED <<world, call, output, flags, attempt, pc, result>>

\* The component with the separator that it needs.
Piece == (IF output = <<>> \/ EndsInSlash(output) THEN <<>> ELSE <<"/">>) \o Component

Refused == (Piece # Component /\ p = 0) \/ q + Size(Piece) >= PathMax

Accepted == AtComponent /\ Component # <<".">> /\ ~Refused
Up       == Component = <<"..">>

\* output is nothing but the ".." that are pending.
NothingToCancel == q <= 3 * pending_up

\* A ".." that the working directory will have to answer for.
pend ==
    /\ Accepted /\ Up /\ NothingToCancel
    /\ pending_up' = pending_up + 1
    /\ output' = output \o Piece
    /\ rest' = Stripped(Following)
    /\ UNCHANGED <<world, call, check_dir, loop_count, attempt, pc, result>>

\* output without its last component: the characters up to the last slash go,
\* then that slash, unless it belongs to the root.
Popped ==
    LET slashes == {i \in DOMAIN output : output[i] = "/"}
        last    == CHOOSE i \in slashes : \A j \in slashes : j <= i
    IN  IF slashes = {} THEN <<>>
        ELSE IF last > 1 /\ (last > 2 \/ ~Absolute(output))
             THEN SubSeq(output, 1, last - 1) ELSE SubSeq(output, 1, last)

\* A ".." after what is known to be a directory.
up ==
    /\ Accepted /\ Up /\ ~NothingToCancel /\ ~check_dir
    /\ output' = Popped
    /\ rest' = Stripped(Following)
    /\ UNCHANGED <<world, call, flags, attempt, pc, result>>

\* Any other component is put to the kernel, at the end of output. readlink
\* writes to the start of the stack, before what follows the component.
Asked  == Accepted /\ ~(Up /\ (NothingToCancel \/ ~check_dir))
Answer == ReadLink(fs, cwd, output \o Piece)
IsLink == Answer \in [text : Texts]

\* Mutant: what is left of the text is not looked at.
Mutant_CheckDirAfter == FALSE

\* A name that more text follows must turn out to be a directory.
CheckDirAfter == ~Up /\ Following # <<>>

not_a_link ==
    /\ Asked /\ ~IsLink
    /\ Answer.error = "EINVAL"
    /\ output' = IF Up THEN Popped
                 ELSE IF Component = <<>> THEN output ELSE output \o Piece
    /\ check_dir' = CheckDirAfter
    /\ rest' = Stripped(Following)
    /\ UNCHANGED <<world, call, pending_up, loop_count, attempt, pc, result>>

\* Mutant: a link that fills the stack is taken as it is.
Mutant_Fits(link) == TRUE

\* readlink left room in the p characters it was given.
Fits(link) == Size(link) < PathMax - Size(Following)

\* Mutant: the links followed are not counted.
Mutant_Counted == loop_count

Counted == loop_count + 1

\* The link's text takes the place of the component.
follow ==
    /\ Asked /\ IsLink
    /\ LET link == Answer.text
       IN  /\ Fits(link) /\ link # <<>> /\ Counted # SymloopMax
           /\ rest' = link \o (IF EndsInSlash(link) THEN Stripped(Following) ELSE Following)
    /\ loop_count' = Counted
    /\ UNCHANGED <<world, call, output, check_dir, pending_up, attempt, pc, result>>

\* The ways in which a component ends the call.
refuse ==
    /\ \/ AtComponent /\ Component # <<".">> /\ Refused /\ Fail("ENAMETOOLONG")
       \/ Asked /\ ~IsLink /\ Answer.error # "EINVAL" /\ Fail(Answer.error)
       \/ /\ Asked /\ IsLink
          /\ LET link == Answer.text
             IN  \/ ~Fits(link) /\ Fail("ENAMETOOLONG")
                 \/ link = <<>> /\ Fail("ENOENT")
                 \/ Fits(link) /\ link # <<>> /\ Counted = SymloopMax /\ Fail("ELOOP")
    /\ UNCHANGED <<world, call, rest, output, flags, attempt>>

Finished == Looping /\ rest = <<>> /\ ~check_dir

absolute ==
    /\ Finished /\ Absolute(output)
    /\ Deliver([text |-> output], call.resolved)
    /\ UNCHANGED <<world, call, rest, output, flags, attempt>>

-----------------------------------------------------------------------------
(* getcwd: [op |-> "getcwd", size |-> the size of the buffer, or NONE].    *)

\* What getcwd finds out with a buffer of n characters.
GetCwd(n) ==
    LET t == CwdText(fs, cwd)
    IN  IF "error" \in DOMAIN t THEN t
        ELSE IF Size(t.text) + 1 > n THEN [error |-> "ERANGE"]
        ELSE IF ~Absolute(t.text) THEN [error |-> "ENOENT"] ELSE t

getcwd ==
    /\ pc = "call" /\ call.op = "getcwd"
    /\ \/ call.size = NONE /\ Deliver(GetCwd(PathMax), FALSE)
       \/ call.size = 0 /\ Fail("EINVAL")
       \/ call.size \notin {NONE, 0} /\ Return(GetCwd(call.size))
    /\ UNCHANGED <<world, call, rest, output, flags, attempt>>

\* t without its last component; the root stays.
Parent(t) ==
    LET name == IF Len(t) > 1 /\ ~EndsInSlash(t) THEN SubSeq(t, 1, Len(t) - 1) ELSE t
    IN  IF Len(name) > 1 THEN SubSeq(name, 1, Len(name) - 1) ELSE name

\* The loop over pending_up: the directory n levels above dir.
Ancestor(dir, n) ==
    LET above[k \in Nat] == IF k = 0 THEN dir ELSE Parent(above[k - 1])
    IN  above[n]

\* A relative text is put after the working directory, as many levels up as it
\* has ".." in front, which go.
Joined(dir) ==
    LET base == Ancestor(dir, pending_up)
        skip == IF 2 * pending_up < Len(output) THEN 2 * pending_up ELSE Len(output)
        kept == SubSeq(output, skip + 1, Len(output))
    IN  base \o (IF kept # <<>> /\ ~EndsInSlash(base) THEN <<"/">> ELSE <<>>) \o kept

relative ==
    /\ Finished /\ ~Absolute(output)
    /\ LET c == GetCwd(PathMax + 1)
       IN  \/ "error" \in DOMAIN c /\ Return(c)
           \/ /\ "text" \in DOMAIN c
              /\ Size(Joined(c.text)) + 1 >= PathMax
              /\ Fail("ENAMETOOLONG")
           \/ /\ "text" \in DOMAIN c
              /\ Size(Joined(c.text)) + 1 < PathMax
              /\ Deliver([text |-> Joined(c.text)], call.resolved)
    /\ UNCHANGED <<world, call, rest, output, flags, attempt>>

-----------------------------------------------------------------------------
(* get_current_dir_name: [op |-> ..., pwd |-> $PWD, or NONE].              *)

\* Mutant: $PWD is believed if there is such a file.
Mutant_Same(pwd) == Identity(fs, cwd, pwd) # NONE

\* $PWD and "." are the same file.
Same(pwd) ==
    /\ Identity(fs, cwd, pwd) # NONE
    /\ Identity(fs, cwd, pwd) = Identity(fs, cwd, <<".">>)

get_current_dir_name ==
    /\ pc = "call" /\ call.op = "get_current_dir_name"
    /\ LET good == call.pwd # NONE /\ call.pwd # <<>> /\ Same(call.pwd)
       IN  \/ good /\ Deliver([text |-> call.pwd], FALSE)
           \/ ~good /\ Deliver(GetCwd(PathMax), FALSE)
    /\ UNCHANGED <<world, call, rest, output, flags, attempt>>

-----------------------------------------------------------------------------
(* tempnam: [op |-> "tempnam", dir |-> text, names |-> the names that pfx  *)
(* and ao_randname may make].                                              *)

\* What the clock and the thread id make of the template; names may come again.
ao_randname == call.names

InDir(name) == call.dir \o <<"/", name>>

tempnam ==
    /\ pc = "call" /\ call.op = "tempnam"
    /\ LET long == \E name \in ao_randname : Size(InDir(name)) >= PathMax
       IN  \/ long /\ Fail("ENAMETOOLONG")
           \/ ~long /\ pc' = "try" /\ UNCHANGED result
    /\ UNCHANGED <<world, call, rest, output, flags, attempt>>

\* One more name. Only one that the kernel says is missing will do.
try ==
    /\ pc = "try"
    /\ attempt < MaxTries
    /\ attempt' = attempt + 1
    /\ \E name \in ao_randname :
          LET free == ReadLink(fs, cwd, InDir(name)) = [error |-> "ENOENT"]
          IN  \/ free /\ Deliver([text |-> InDir(name)], FALSE)
              \/ ~free /\ UNCHANGED <<pc, result>>
    /\ UNCHANGED <<world, call, rest, output, flags>>

\* Nothing sets errno.
give_up ==
    /\ pc = "try"
    /\ attempt = MaxTries
    /\ Fail(NONE)
    /\ UNCHANGED <<world, call, rest, output, flags, attempt>>

-----------------------------------------------------------------------------
\* Other processes rename, create and remove files; another thread changes the
\* working directory.
others ==
    /\ pc # "over" /\ moves < MaxMoves
    /\ moves' = moves + 1
    /\ \/ fs' \in FileSystems \ {fs} /\ UNCHANGED cwd
       \/ cwd' \in Locations \ {cwd} /\ UNCHANGED fs
    /\ UNCHANGED <<call, rest, output, flags, attempt, pc, result>>

Init ==
    /\ fs \in FileSystems /\ cwd \in Locations /\ moves = 0
    /\ call \in Calls
    /\ rest = <<>> /\ output = <<>>
    /\ check_dir = FALSE /\ pending_up = 0 /\ loop_count = 0 /\ attempt = 0
    /\ pc = "call" /\ result = [error |-> NONE]

Resolve == \/ root \/ dot \/ pend \/ up \/ not_a_link \/ follow \/ refuse
           \/ absolute \/ relative

Step == realpath \/ Resolve \/ getcwd \/ get_current_dir_name \/ tempnam \/ try \/ give_up

Next == Step \/ others

\* The call runs on its thread to its end; nobody else need do anything.
Spec == Init /\ [][Next]_vars /\ WF_vars(Step)

-----------------------------------------------------------------------------
\* Both texts stay inside their arrays: the stack always has a character to spare
\* before p (lines 139 and 210) and output one for its terminator (152, 215), also
\* when links put more text on the stack than the caller's path had.
BuffersHold ==
    /\ pc \in {"call", "loop", "try", "over"}
    /\ check_dir \in BOOLEAN /\ loop_count \in 0 .. SymloopMax - 1 /\ attempt \in 0 .. MaxTries
    /\ p \in 1 .. PathMax
    /\ q \in 0 .. PathMax - 1
    /\ pending_up \in 0 .. PathMax

\* Whatever the kernel answers and however often its answer changes during the
\* call, a path that realpath returns is absolute, names no "." or "..", and has
\* no empty component: every ".." was cancelled against a name of output or
\* against the working directory.
Canonical ==
    pc = "over" /\ call.op = "realpath" /\ "text" \in DOMAIN result =>
        LET t == result.text
        IN  /\ Absolute(t) /\ Size(t) < PathMax
            /\ \A i \in DOMAIN t : t[i] \notin {".", ".."}
            /\ \A i \in 3 .. Len(t) : t[i] = "/" => t[i - 1] # "/" /\ i < Len(t)

\* Every call comes to its end: links that lead to themselves are given up
\* (line 199), and so are names that are always taken (line 288).
Terminates == <>(pc = "over")

=============================================================================
