------------------------------ MODULE MCShell -------------------------------
(* Sessions at a small machine.                                            *)
EXTENDS Shell

Binaries == (<<"i">> :> 1) @@ (<<"s", "h">> :> 1) @@ (<<"e">> :> 1) @@ (<<"c">> :> 1)

Session(typing, pageCounts, prints) ==
  {[keys |-> typing, pages |-> n, out |-> prints] : n \in pageCounts}

MixedSessions ==
  UNION {
    \* e xx|c, with mistakes corrected on the way
    Session(<<"q", "^H", "^H", "e", " ", "x", "x", "|", "c", "\n">>, {64}, {3}),
    \* the same with too little memory for all of its processes
    Session(<<"e", " ", "x", "|", "c", "\n">>, 30 .. 56, 0 .. 2),
    \* two pipelines in one, with too few entries of ftable and ptable
    Session(<<"e", " ", "x", "|", "c", "|", "c", "\n">>, {64}, {0, 2}),
    \* a block, whose commands share the pipe
    Session(<<"(", "e", " ", "x", ";", "e", ")", "|", "c", "\n">>, {48, 64}, {0, 2}),
    \* a file is written and read back, and one that is not there
    Session(<<"e", " ", "x", ">", "f", ";", "c", " ", "f", "\n">>, {64}, {2}),
    Session(<<"c", "<", "g", "\n">>, {64}, {0}),
    \* a background command while the shell goes on
    Session(<<"e", " ", "x", "&", "\n", "e", " ", "y", "\n">>, 36 .. 46 \cup {64}, 0 .. 4),
    \* cat reads the console until the end of file; another one ends the shell
    Session(<<"c", "\n", "x", "y", "^U", "z", "\n", "^D", "^D">>, {64}, {2}),
    \* cat fills a pipe that nobody reads, and fails
    Session(<<"c", "|", "e", " ", "z", "\n", "x", "\n", "y", "\n">>, {64}, {2}),
    \* a line longer than the input buffer of the console
    Session(<<"e", " ", "x", "x", "x", "x", "x", "x", "x", "x", "x", "x", "x", "\n">>, {64}, {}),
    \* a line longer than the buffer of the shell, which takes it for two
    \* commands; the next line wraps around in the buffer of the console
    Session(<<"e", " ", "x", " ", " ", " ", " ", " ", " ", " ", "c", "\n", "^D",
              "e", " ", "q", "^H", "y", "\n">>, {64}, {4}),
    \* lines that are not in the grammar, or have too many words
    Session(<<"(", "e", "\n", "^H", "e", " ", "x", " ", "y", "\n">>, {64}, {0})
  }

Tok == {"a", " ", "|", ";", "&", "(", ")", "<", ">"}
Upto(n) == UNION {[1 .. k -> Tok] : k \in 0 .. n}
ShortLines == Upto(5) \cup {<<"(">> \o l \o <<")">> \o r : l \in Upto(2), r \in Upto(2)}
=============================================================================
