-------------------------------- MODULE MCFs --------------------------------
(***************************************************************************)
(* Instances of Fs for TLC: which calls the two processes make.            *)
(***************************************************************************)
EXTENDS Fs

CONSTANTS p1, p2

Abs(names) == [root |-> TRUE, names |-> names]
Rel(names) == [root |-> FALSE, names |-> names]

OneProgram == <<<<"cat", <<<<"datum", 1>>>>>>>>

Call(op, path) == [op |-> op, path |-> path]
Link(old, new) == [op |-> "link", path |-> old, to |-> new]
close == [op |-> "close"]
write == [op |-> "write", n |-> 3]

d == Abs(<<"d">>)
dx == Abs(<<"d", "x">>)
x == Rel(<<"x">>)
cat == Abs(<<"cat">>)

(* p1 makes, fills and removes a directory, or works with files; p2 works  *)
(* on the same names, "." and ".." among them.                             *)
MixedScripts ==
  [p \in {p1, p2} |->
     IF p = p1
     THEN {<<Call("mkdir", d), Call("create", dx), write, close, Call("unlink", d)>>,
           <<Call("mkdir", d), Call("chdir", d), Call("unlink", d), Call("chdir", Abs(<<>>))>>,
           <<Call("create", x), write, Call("mkdir", d), close>>,
           <<Call("mknod", x), Link(x, dx), Call("unlink", x)>>,
           <<Call("unlink", cat), Call("mkdir", cat), Call("create", x)>>}
     ELSE {<<Call("chdir", d), Link(x, cat), Call("unlink", x)>>,
           <<Call("open", x), [op |-> "read"], Call("unlink", x), close>>,
           <<Call("openrw", d), Call("open", dx), Call("unlink", dx), close>>,
           <<Call("create", x), Link(x, Abs(<<"y">>)), Call("create", x), close>>,
           <<Call("openrw", cat), write, Call("chdir", cat), Call("unlink", x), close>>,
           <<Link(cat, Abs(<<"d", "..">>)), Link(cat, Abs(<<"d", ".">>))>>}]

(* Both have the file open that p1 removes.                                *)
OrphanScripts ==
  [p \in {p1, p2} |->
     IF p = p1 THEN {<<Call("open", cat), Call("unlink", cat), close>>}
     ELSE {<<Call("open", cat), close>>}]
=============================================================================
