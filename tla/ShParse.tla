------------------------------ MODULE ShParse -------------------------------
(***************************************************************************)
(* The parser of the shell (sh.c), on a line of characters.  gettoken cuts *)
(* the line into tokens: a record of its kind (a symbol, "+" for >>, or    *)
(* "a" for a word) and its word.  A parse function returns the command it  *)
(* has built and the tokens that are left; after a panic ok is FALSE.      *)
(***************************************************************************)
EXTENDS Naturals, Sequences

LOCAL INSTANCE SequencesExt

CONSTANT MAXARGS

Whitespace == {" ", "\t", "\r", "\n"}
Symbols == {"<", "|", ">", "&", ";", "(", ")"}

(* F(v), with v evaluated once.                                            *)
LOCAL With(v, F(_)) == CHOOSE r \in {F(x) : x \in {v}} : TRUE

(* execcmd, redircmd, pipecmd, listcmd, backcmd.                           *)
execcmd(argv) == [type |-> "EXEC", argv |-> argv]
redircmd(cmd, file, create, fd) ==
  [type |-> "REDIR", cmd |-> cmd, file |-> file, create |-> create, fd |-> fd]
pipecmd(l, r) == [type |-> "PIPE", left |-> l, right |-> r]
listcmd(l, r) == [type |-> "LIST", left |-> l, right |-> r]
backcmd(cmd) == [type |-> "BACK", cmd |-> cmd]

Panicked == [type |-> "PANIC"]
Failed == [ok |-> FALSE, cmd |-> Panicked, rest |-> <<>>]
Parsed(cmd, rest) == [ok |-> TRUE, cmd |-> cmd, rest |-> rest]

-----------------------------------------------------------------------------
(* gettoken: the length of the word at the start of s.                     *)
WordLength(s) ==
  LET stop == SelectInSeq(s, LAMBDA c : c \in Whitespace \cup Symbols)
  IN IF stop = 0 THEN Len(s) ELSE stop - 1

RECURSIVE Tokens(_)
Tokens(s) ==
  LET token(t, word, n) ==
        <<[t |-> t, word |-> word]>> \o With(SubSeq(s, n + 1, Len(s)), LAMBDA r : Tokens(r))
  IN CASE s = <<>> -> <<>>
       [] s # <<>> /\ s[1] \in Whitespace -> With(Tail(s), LAMBDA r : Tokens(r))
       [] s # <<>> /\ s[1] \in Symbols ->
            IF s[1] = ">" /\ Len(s) > 1 /\ s[2] = ">" THEN token("+", <<>>, 2) ELSE token(s[1], <<>>, 1)
       [] OTHER -> token("a", SubSeq(s, 1, WordLength(s)), WordLength(s))

peek(ts, kinds) == ts # <<>> /\ Head(ts).t \in kinds

-----------------------------------------------------------------------------
(* The redirections at the start of ts, wrapped around cmd one by one.     *)
RECURSIVE parseredirs(_, _)
parseredirs(cmd, ts) ==
  CASE ~ peek(ts, {"<", ">", "+"}) -> Parsed(cmd, ts)
    [] peek(ts, {"<", ">", "+"}) /\ ~ peek(Tail(ts), {"a"}) -> Failed
    [] OTHER ->
         parseredirs(redircmd(cmd, ts[2].word, ts[1].t # "<", IF ts[1].t = "<" THEN 0 ELSE 1),
                     SubSeq(ts, 3, Len(ts)))

(* The command with redirections around it gets one more argument.         *)
RECURSIVE AddArg(_, _)
AddArg(cmd, word) ==
  IF cmd.type = "EXEC" THEN execcmd(Append(cmd.argv, word))
  ELSE [cmd EXCEPT !.cmd = AddArg(@, word)]

RECURSIVE Args(_, _, _)
Args(cmd, argc, ts) ==
  CASE ts = <<>> \/ peek(ts, {"|", ")", "&", ";"}) -> Parsed(cmd, ts)
    [] ts # <<>> /\ peek(ts, {"a"}) /\ argc + 1 < MAXARGS ->
         With(parseredirs(AddArg(cmd, Head(ts).word), Tail(ts)),
              LAMBDA r : IF r.ok THEN Args(r.cmd, argc + 1, r.rest) ELSE Failed)
    [] OTHER -> Failed

RECURSIVE parseline(_)

parseblock(ts) ==
  With(parseline(Tail(ts)),
       LAMBDA r : IF r.ok /\ peek(r.rest, {")"}) THEN parseredirs(r.cmd, Tail(r.rest)) ELSE Failed)

parseexec(ts) ==
  IF peek(ts, {"("}) THEN parseblock(ts)
  ELSE With(parseredirs(execcmd(<<>>), ts), LAMBDA r : IF r.ok THEN Args(r.cmd, 0, r.rest) ELSE Failed)

RECURSIVE parsepipe(_)
parsepipe(ts) ==
  With(parseexec(ts),
       LAMBDA l : IF ~ (l.ok /\ peek(l.rest, {"|"})) THEN l
                  ELSE With(parsepipe(Tail(l.rest)),
                            LAMBDA r : IF r.ok THEN Parsed(pipecmd(l.cmd, r.cmd), r.rest) ELSE Failed))

RECURSIVE Backs(_)
Backs(r) == IF r.ok /\ peek(r.rest, {"&"}) THEN Backs(Parsed(backcmd(r.cmd), Tail(r.rest))) ELSE r

(* Faulty: what follows a ";" is only a pipeline.                          *)
ListOfTwo(ts) ==
  With(Backs(parsepipe(ts)),
       LAMBDA l : IF ~ (l.ok /\ peek(l.rest, {";"})) THEN l
                  ELSE With(parsepipe(Tail(l.rest)),
                            LAMBDA r : IF r.ok THEN Parsed(listcmd(l.cmd, r.cmd), r.rest) ELSE Failed))

parseline(ts) ==
  With(Backs(parsepipe(ts)),
       LAMBDA l : IF ~ (l.ok /\ peek(l.rest, {";"})) THEN l
                  ELSE With(parseline(Tail(l.rest)),
                            LAMBDA r : IF r.ok THEN Parsed(listcmd(l.cmd, r.cmd), r.rest) ELSE Failed))

(* The whole line, or a panic.  nulterminate ends the words in place.      *)
parsecmd(s) ==
  With(With(Tokens(s), LAMBDA ts : parseline(ts)),
       LAMBDA r : IF r.ok /\ r.rest = <<>> THEN r.cmd ELSE Panicked)

-----------------------------------------------------------------------------
(* Reference: the tree of a line, found from the outside in.               *)

(* The tokens of kind t in ts that no parenthesis encloses.                *)
Depth(ts, i) ==
  Len(SelectSeq(SubSeq(ts, 1, i - 1), LAMBDA k : k.t = "("))
    - Len(SelectSeq(SubSeq(ts, 1, i - 1), LAMBDA k : k.t = ")"))
TopLevel(ts, t) == {i \in 1 .. Len(ts) : ts[i].t = t /\ Depth(ts, i) = 0}

(* Left and right of position i.                                           *)
Before(ts, i) == SubSeq(ts, 1, i - 1)
After(ts, i) == SubSeq(ts, i + 1, Len(ts))

Least(S) == CHOOSE i \in S : \A j \in S : i <= j

(* A simple command: its words and its redirections, or a block followed   *)
(* by redirections, the first redirection innermost.                       *)
Redirs(ts) == {i \in 1 .. Len(ts) : ts[i].t \in {"<", ">", "+"}}
Words(ts) ==
  LET isArg(i) == {i, i - 1} \cap Redirs(ts) = {}
  IN SelectSeq([i \in 1 .. Len(ts) |-> i], isArg)
WellFormed(ts) ==
  \A i \in 1 .. Len(ts) : IF i \in Redirs(ts) THEN peek(After(ts, i), {"a"}) ELSE ts[i].t = "a"

RECURSIVE Wrap(_, _, _)
Wrap(cmd, ts, rs) ==
  IF rs = {} THEN cmd
  ELSE LET i == Least(rs)
       IN Wrap(redircmd(cmd, ts[i + 1].word, ts[i].t # "<", IF ts[i].t = "<" THEN 0 ELSE 1),
               ts, rs \ {i})

RefExec(ts) ==
  IF ~ WellFormed(ts) \/ Len(Words(ts)) >= MAXARGS THEN Panicked
  ELSE Wrap(execcmd([k \in 1 .. Len(Words(ts)) |-> ts[Words(ts)[k]].word]), ts, Redirs(ts))

RECURSIVE RefLine(_)
RefBlock(ts) ==
  LET closing == {i \in 1 .. Len(ts) : ts[i].t = ")" /\ Depth(ts, i) = 1}
      rest == After(ts, Least(closing))
      inner == RefLine(Tail(Before(ts, Least(closing))))
  IN IF closing = {} THEN Panicked
     ELSE IF ~ WellFormed(rest) \/ Words(rest) # <<>> \/ inner = Panicked THEN Panicked
     ELSE Wrap(inner, rest, Redirs(rest))

RefLine(ts) ==
  LET semi == TopLevel(ts, ";")
      back == TopLevel(ts, "&")
      pipes == TopLevel(ts, "|")
      around(i, F(_, _)) ==
        LET l == RefLine(Before(ts, i))
            r == RefLine(After(ts, i))
        IN IF Panicked \in {l, r} THEN Panicked ELSE F(l, r)
  IN CASE semi # {} -> around(Least(semi), listcmd)
       [] semi = {} /\ back # {} ->
            LET c == RefLine(Front(ts))
            IN IF Last(ts).t = "&" /\ c # Panicked THEN backcmd(c) ELSE Panicked
       [] semi = {} /\ back = {} /\ pipes # {} -> around(Least(pipes), pipecmd)
       [] OTHER -> IF peek(ts, {"("}) THEN RefBlock(ts) ELSE RefExec(ts)
=============================================================================
