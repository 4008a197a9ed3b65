------------------------------ MODULE Console -------------------------------
(***************************************************************************)
(* The console input of console.c, as functions on a record c: the ring    *)
(* buffer and its indices.  Keys from r to w are lines that wait for a     *)
(* reader, keys from w to e the line that is still edited.  Both functions *)
(* run under cons.lock.                                                    *)
(***************************************************************************)
EXTENDS Integers, Sequences

LOCAL INSTANCE FiniteSetsExt
LOCAL INSTANCE SequencesExt

CONSTANT INPUT_BUF

Newline == "\n"
EOF == "^D"
Kill == "^U"
Backspace == "^H"

(* consoleinit.                                                            *)
consoleinit == [buf |-> [i \in 0 .. INPUT_BUF - 1 |-> ""], r |-> 0, w |-> 0, e |-> 0]

(* Where the edit index falls back to when the line is killed.             *)
KillTo(c) ==
  LET stops == {i \in c.w + 1 .. c.e : c.buf[(i - 1) % INPUT_BUF] = Newline}
  IN IF stops = {} THEN c.w ELSE Max(stops)

(* An ordinary key: kept if there is room; a newline, an EOF or a full     *)
(* buffer hands all there is to the readers.                               *)
Insert(c, key) ==
  LET d == [c EXCEPT !.buf[c.e % INPUT_BUF] = key, !.e = @ + 1]
  IN IF c.e - c.r >= INPUT_BUF THEN c
     ELSE IF key \in {Newline, EOF} \/ d.e = d.r + INPUT_BUF THEN [d EXCEPT !.w = d.e] ELSE d

(* Faulty: a backspace goes on past the start of the line being edited.    *)
consoleintrPast(c, key) ==
  CASE key = Kill -> [c EXCEPT !.e = KillTo(c)]
    [] key = Backspace -> IF c.e # c.r THEN [c EXCEPT !.e = @ - 1] ELSE c
    [] OTHER -> Insert(c, key)

(* One key of the keyboard or the serial line.                             *)
consoleintr(c, key) ==
  CASE key = Kill -> [c EXCEPT !.e = KillTo(c)]
    [] key = Backspace -> IF c.e # c.w THEN [c EXCEPT !.e = @ - 1] ELSE c
    [] OTHER -> Insert(c, key)

(* The keys that wait for a reader.                                        *)
Waiting(c) == [i \in 1 .. c.w - c.r |-> c.buf[(c.r + i - 1) % INPUT_BUF]]

(* consoleread: what a call that still wants n of target keys gets before  *)
(* it returns or sleeps.  It stops after a newline and at an EOF, which is *)
(* left for the next call if this one has something to return.             *)
consoleread(c, n, target) ==
  LET keys == Waiting(c)
      stop == SelectInSeq(keys, LAMBDA k : k \in {Newline, EOF})
      k == Min({n, Len(keys)} \cup (IF stop = 0 THEN {} ELSE {stop}))
      eof == k > 0 /\ keys[k] = EOF
      got == SubSeq(keys, 1, IF eof THEN k - 1 ELSE k)
      keep == eof /\ n - Len(got) < target
  IN [c |-> [c EXCEPT !.r = @ + (IF keep THEN k - 1 ELSE k)],
      got |-> got,
      done |-> n = Len(got) \/ (k > 0 /\ keys[k] \in {Newline, EOF})]

-----------------------------------------------------------------------------
(* Reference: what is handed to the readers of a console with room for     *)
(* every line, by the keys typed so far.                                   *)
Edited(keys) ==
  LET type(line, key) ==   \* <<what is handed over, the line being edited>>
        CASE key = Kill -> <<line[1], <<>>>>
          [] key = Backspace -> <<line[1], IF line[2] = <<>> THEN <<>> ELSE Front(line[2])>>
          [] key \in {Newline, EOF} -> <<line[1] \o Append(line[2], key), <<>>>>
          [] OTHER -> <<line[1], Append(line[2], key)>>
  IN FoldLeft(type, <<<<>>, <<>>>>, keys)
=============================================================================
