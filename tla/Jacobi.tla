------------------------------- MODULE Jacobi -------------------------------
(***************************************************************************)
(* The parallel Jacobi iteration of jacob.c: a parent and P children that  *)
(* own the interior rows of an N x N grid.  In every round a child sends   *)
(* its first and last row to its neighbours, receives theirs, computes its *)
(* rows, and reports its largest change to the parent; the parent collects *)
(* all reports and tells the children to carry on or to send their rows    *)
(* and exit.                                                               *)
(*                                                                         *)
(* A number of the grid is abstracted to the row it belongs to and how     *)
(* often that row has been computed.  A computation from rows of different *)
(* rounds gives Junk.  Whether a change is at most E is a free choice.     *)
(*                                                                         *)
(* A pipe holds units of 4 bytes: a number, or an int.  A write puts in    *)
(* what fits and waits for room for the rest; a read waits for one unit    *)
(* and returns as many as there are, up to what it asked for.              *)
(***************************************************************************)
EXTENDS Integers, Sequences, FiniteSets, FiniteSetsExt

CONSTANTS
  N,        \* the grid is N x N
  P,        \* the number of children asked for
  L,        \* the round after which the parent gives up
  PipeUnits \* PIPESIZE / 4

ASSUME JacobiAssumption ==
  /\ N \in Nat /\ N > 2
  /\ P \in Nat \ {0}
  /\ L \in Nat /\ PipeUnits \in Nat \ {0}

-----------------------------------------------------------------------------
(* The division of the rows 1 .. n - 2 of an n x n grid among p children.  *)

works(n, p, i) == Cardinality({k \in 0 .. (n - 3) : k % p = i})

end_index(n, p, i) == MapThenSumSet(LAMBDA j : works(n, p, j), 0 .. i)

start_index(n, p, i) == IF i = 0 THEN 1 ELSE end_index(n, p, i - 1) + 1

unused(n, p) == Cardinality({i \in 1 .. (p - 1) : start_index(n, p, i) > end_index(n, p, i)})

-----------------------------------------------------------------------------
Children == 0 .. (P - unused(N, P) - 1)

LastChild == P - unused(N, P) - 1

Parent == -1

start_indices == [i \in Children |-> start_index(N, P, i)]

end_indices == [i \in Children |-> end_index(N, P, i)]

RowsOf(c) == start_indices[c] .. end_indices[c]

Interior == 1 .. (N - 2)

(* The units that travel through the pipes and fill the rows.  A row of    *)
(* the border never changes.                                               *)
Number(r, k) == <<"number", r, k>>

Junk == <<"number", 0, -1>>

Row(r, k) == [j \in 1 .. N |-> Number(r, IF r \in Interior THEN k ELSE 0)]

Diff(k, large) == <<"diff", k, large>>

Order(o) == <<"order", o, 0>>

VARIABLES
  pipe,    \* the units in each pipe
  u,       \* the grid of each process
  pc,      \* where each process is
  out,     \* what a process still has to write in the write it is in
  row,     \* the row a child sends next at the end
  i, j,    \* the loop variables of the parent
  count,   \* the rounds the parent has counted
  recv_diff,  \* the last reports it has received
  printed, \* it has printed its grid
  reaped   \* the children it has waited for

parentVars == <<i, j, count, recv_diff, printed, reaped>>
vars == <<pipe, u, pc, out, row, parentVars>>

(* cp_pipe, pc_pipe: from and to each child.  cc_up[c], cc_down[c]:        *)
(* between the children c and c + 1.                                       *)
Pipes == {"cp", "pc", "up", "down"} \X Children

Goto(p, loc) == pc' = [pc EXCEPT ![p] = loc]

Init ==
  /\ pipe = [x \in Pipes |-> <<>>]
  /\ u = [p \in Children \cup {Parent} |-> [r \in 0 .. (N - 1) |-> Row(r, 0)]]
  /\ pc = [p \in Children \cup {Parent} |-> IF p = Parent THEN "fork" ELSE "unborn"]
  /\ out = [p \in Children \cup {Parent} |-> <<>>]
  /\ row = start_indices
  /\ i = 0 /\ j = 0
  /\ count = 0
  /\ recv_diff = [c \in Children |-> Diff(0, 0)]
  /\ printed = FALSE
  /\ reaped = {}

(* write(x, units): as much as there is room for; the process is at next   *)
(* when all is written.                                                    *)
Write(p, x, units, next) ==
  LET left == IF out[p] = <<>> THEN units ELSE out[p]
      k == Min({Len(left), PipeUnits - Len(pipe[x])})
  IN  /\ k > 0
      /\ pipe' = [pipe EXCEPT ![x] = @ \o SubSeq(left, 1, k)]
      /\ out' = [out EXCEPT ![p] = SubSeq(left, k + 1, Len(left))]
      /\ Goto(p, IF k = Len(left) THEN next ELSE pc[p])

(* What read(x, n) returns, and its effect on the pipe.                    *)
Returned(x, n) == SubSeq(pipe[x], 1, Min({n, Len(pipe[x])}))

Consume(x, n) ==
  /\ pipe[x] # <<>>
  /\ pipe' = [pipe EXCEPT ![x] = SubSeq(@, Len(Returned(x, n)) + 1, Len(@))]

(* read(x, u[r], 4 * N): a short read leaves the rest of the row alone.    *)
ReadRow(p, x, r) ==
  /\ Consume(x, N)
  /\ u' = [u EXCEPT ![p][r] =
             [col \in 1 .. N |-> IF col <= Len(Returned(x, N)) THEN Returned(x, N)[col] ELSE @[col]]]

-----------------------------------------------------------------------------
(* A child.  The first and the last child have only one neighbour.         *)

RecvBelow(c) == IF c < LastChild THEN "recv_below" ELSE "compute"

RecvAbove(c) == IF c > 0 THEN "recv_above" ELSE RecvBelow(c)

SendDown(c) == IF c < LastChild THEN "send_down" ELSE RecvAbove(c)

RoundStart(c) == IF c > 0 THEN "send_up" ELSE SendDown(c)

(* Faulty: the upper neighbour is sent the last row.                       *)
SendGhostUpLast(c) ==
  /\ pc[c] = "send_up"
  /\ Write(c, <<"up", c - 1>>, u[c][end_indices[c]], SendDown(c))
  /\ UNCHANGED <<u, parentVars>>

SendGhostUp(c) ==
  /\ pc[c] = "send_up"
  /\ Write(c, <<"up", c - 1>>, u[c][start_indices[c]], SendDown(c))
  /\ UNCHANGED <<u, parentVars>>

SendGhostDown(c) ==
  /\ pc[c] = "send_down"
  /\ Write(c, <<"down", c>>, u[c][end_indices[c]], RecvAbove(c))
  /\ UNCHANGED <<u, parentVars>>

RecvGhostAbove(c) ==
  /\ pc[c] = "recv_above"
  /\ ReadRow(c, <<"down", c - 1>>, start_indices[c] - 1)
  /\ Goto(c, RecvBelow(c))
  /\ UNCHANGED <<out, parentVars>>

RecvGhostBelow(c) ==
  /\ pc[c] = "recv_below"
  /\ ReadRow(c, <<"up", c>>, end_indices[c] + 1)
  /\ Goto(c, "compute")
  /\ UNCHANGED <<out, parentVars>>

(* The new value of row r of the child's grid.                             *)
NewRow(c, r) ==
  LET k == u[c][r][1][3] IN
  IF \A q \in {r - 1, r, r + 1} : u[c][q] = Row(q, k)
    THEN Row(r, k + 1)
    ELSE [col \in 1 .. N |-> Junk]

(* The computation into w, the copy back to u, and the diff sent to the    *)
(* parent: large is 1 if it is more than E.                                *)
ComputeAndReport(c) ==
  /\ pc[c] = "compute"
  /\ u' = [u EXCEPT ![c] = [r \in DOMAIN @ |-> IF r \in RowsOf(c) THEN NewRow(c, r) ELSE @[r]]]
  /\ \E large \in {0, 1} :
       Write(c, <<"cp", c>>, <<Diff(u'[c][start_indices[c]][1][3], large)>>, "recv_order")
  /\ UNCHANGED parentVars

RecvOrder(c) ==
  /\ pc[c] = "recv_order"
  /\ Consume(<<"pc", c>>, 1)
  /\ Goto(c, IF Returned(<<"pc", c>>, 1)[1] = Order(1) THEN "send_rows" ELSE RoundStart(c))
  /\ UNCHANGED <<u, out, parentVars>>

(* The rows one after the other, then exit.                                *)
SendRow(c) ==
  /\ pc[c] = "send_rows"
  /\ Write(c, <<"cp", c>>, u[c][row[c]], IF row[c] = end_indices[c] THEN "exited" ELSE "send_rows")
  /\ row' = [row EXCEPT ![c] = IF out'[c] = <<>> THEN @ + 1 ELSE @]
  /\ UNCHANGED <<u, parentVars>>

Child(c) ==
  \/ /\ \/ SendGhostUp(c) \/ SendGhostDown(c) \/ RecvGhostAbove(c) \/ RecvGhostBelow(c)
        \/ ComputeAndReport(c) \/ RecvOrder(c)
     /\ UNCHANGED row
  \/ SendRow(c)

-----------------------------------------------------------------------------
(* The parent.                                                             *)

(* Step a loop over the children: on to the next one at the same place, or *)
(* to next with i = 0.                                                     *)
Loop(next) ==
  IF i < LastChild
    THEN i' = i + 1 /\ UNCHANGED pc
    ELSE i' = 0 /\ Goto(Parent, next)

fork ==
  /\ pc[Parent] = "fork"
  /\ IF i < LastChild
       THEN i' = i + 1 /\ pc' = [pc EXCEPT ![i] = RoundStart(i)]
       ELSE i' = 0 /\ pc' = [pc EXCEPT ![i] = RoundStart(i), ![Parent] = "recv_diff"]
  /\ UNCHANGED <<pipe, u, out, row, j, count, recv_diff, printed, reaped>>

RecvDiff ==
  /\ pc[Parent] = "recv_diff"
  /\ Consume(<<"cp", i>>, 1)
  /\ recv_diff' = [recv_diff EXCEPT ![i] = Returned(<<"cp", i>>, 1)[1]]
  /\ Loop("decide")
  /\ UNCHANGED <<u, out, row, j, count, printed, reaped>>

(* Faulty: the parent stops as soon as one child has converged.            *)
DecideAny ==
  /\ pc[Parent] = "decide"
  /\ count' = count + 1
  /\ Goto(Parent,
          IF (\E c \in Children : recv_diff[c][3] = 0) \/ count' > L
            THEN "tell_done" ELSE "tell_carryon")
  /\ UNCHANGED <<pipe, u, out, row, i, j, recv_diff, printed, reaped>>

(* count++, the maximum of the reports, and the test of the exit condition.*)
Decide ==
  /\ pc[Parent] = "decide"
  /\ count' = count + 1
  /\ Goto(Parent,
          IF (\A c \in Children : recv_diff[c][3] = 0) \/ count' > L
            THEN "tell_done" ELSE "tell_carryon")
  /\ UNCHANGED <<pipe, u, out, row, i, j, recv_diff, printed, reaped>>

(* An order to child i.                                                    *)
Tell(order, loc, next) ==
  /\ pc[Parent] = loc
  /\ Len(pipe[<<"pc", i>>]) < PipeUnits
  /\ pipe' = [pipe EXCEPT ![<<"pc", i>>] = Append(@, Order(order))]
  /\ Loop(next)

TellCarryOn ==
  /\ Tell(0, "tell_carryon", "recv_diff")
  /\ UNCHANGED <<u, out, row, j, count, recv_diff, printed, reaped>>

TellDone ==
  /\ Tell(1, "tell_done", "recv_rows")
  /\ j' = start_indices[0]
  /\ UNCHANGED <<u, out, row, count, recv_diff, printed, reaped>>

(* Faulty: one row too many is asked of every child.                       *)
RecvRowsOver ==
  /\ pc[Parent] = "recv_rows"
  /\ ReadRow(Parent, <<"cp", i>>, j)
  /\ IF j <= end_indices[i]
       THEN j' = j + 1 /\ UNCHANGED <<i, pc>>
       ELSE j' = (IF i < LastChild THEN start_indices[i + 1] ELSE 0) /\ Loop("print")
  /\ UNCHANGED <<out, row, count, recv_diff, printed, reaped>>

RecvRows ==
  /\ pc[Parent] = "recv_rows"
  /\ ReadRow(Parent, <<"cp", i>>, j)
  /\ IF j < end_indices[i]
       THEN j' = j + 1 /\ UNCHANGED <<i, pc>>
       ELSE j' = (IF i < LastChild THEN start_indices[i + 1] ELSE 0) /\ Loop("print")
  /\ UNCHANGED <<out, row, count, recv_diff, printed, reaped>>

PrintGrid ==
  /\ pc[Parent] = "print"
  /\ printed' = TRUE
  /\ Goto(Parent, "wait")
  /\ UNCHANGED <<pipe, u, out, row, i, j, count, recv_diff, reaped>>

(* wait for a child that has exited; the parent exits after the last one.  *)
wait ==
  /\ pc[Parent] = "wait"
  /\ \E c \in Children \ reaped : pc[c] = "exited" /\ reaped' = reaped \cup {c}
  /\ Loop("exited")
  /\ UNCHANGED <<pipe, u, out, row, j, count, recv_diff, printed>>

ParentStep ==
  fork \/ RecvDiff \/ Decide \/ TellCarryOn \/ TellDone \/ RecvRows \/ PrintGrid \/ wait

-----------------------------------------------------------------------------
Next == ParentStep \/ \E c \in Children : Child(c)

(* The kernel schedules every process, and a read or write that can go on  *)
(* does.                                                                   *)
Spec ==
  /\ Init /\ [][Next]_vars
  /\ WF_vars(ParentStep)
  /\ \A c \in Children : WF_vars(Child(c))

-----------------------------------------------------------------------------
(* Properties.                                                             *)

Version(c) == u[c][start_indices[c]][1][3]

(* The parallel program computes what the sequential one does: the rows of *)
(* a child are always those of one round of the iteration.  They would be  *)
(* Junk if it had computed with a neighbour's row of another round.        *)
RowsOfOneRound == \A c \in Children : \A r \in RowsOf(c) : u[c][r] = Row(r, Version(c)) /\ u[c][r][1] # Junk

(* What the parent prints is the whole grid after the rounds it has        *)
(* counted, and it stopped either at the limit or because no row of that   *)
(* very round changed by more than E.                                      *)
ResultIsSequential ==
  printed =>
    /\ \A r \in 0 .. (N - 1) : u[Parent][r] = Row(r, count)
    /\ count = L + 1 \/ \A c \in Children : recv_diff[c] = Diff(count, 0)

(* The program terminates: no read and no write waits for ever.            *)
Terminates == <>(\A p \in DOMAIN pc : pc[p] = "exited")
=============================================================================
