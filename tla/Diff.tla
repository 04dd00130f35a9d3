-------------------------------- MODULE Diff --------------------------------
(***************************************************************************)
(* internal/diff: the changes between two sequences of lines.  An edit is  *)
(* a path in the grid of both: x lines of a and y lines of b are behind    *)
(* it, and diagonal k holds the points with x - y = k.                     *)
(***************************************************************************)
EXTENDS Integers, Sequences, FiniteSets, SequencesExt

RECURSIVE Slide(_, _, _, _)
Slide(a, b, x, y) ==
    IF x < Len(a) /\ y < Len(b) /\ a[x + 1] = b[y + 1] THEN Slide(a, b, x + 1, y + 1) ELSE x

\* Not what the code does: down where neither is further.
GoesDownTie(V, k, d) == k = -d \/ (k /= d /\ V[k - 1] <= V[k + 1])

\* From distance d - 1 to diagonal k: down from k + 1, or right from k - 1, whichever is further.
GoesDown(V, k, d) == k = -d \/ (k /= d /\ V[k - 1] < V[k + 1])

\* The diagonals of distance d in turn; done once the end is reached.
RECURSIVE Furthest(_, _, _, _, _)
Furthest(a, b, V, k, d) ==
    IF k > d THEN [V |-> V, done |-> FALSE]
    ELSE LET x0 == IF GoesDown(V, k, d) THEN V[k + 1] ELSE V[k - 1] + 1
             x == Slide(a, b, x0, x0 - k)
             W == [V EXCEPT ![k] = x]
         IN  IF x = Len(a) /\ x - k = Len(b) THEN [V |-> W, done |-> TRUE]
             ELSE Furthest(a, b, W, k + 2, d)

\* myersShortestSeq: the furthest points of every distance, up to the one of the end.
RECURSIVE MyersShortestSeq(_, _, _, _)
MyersShortestSeq(a, b, V, trace) ==
    LET d == Len(trace)
        step == Furthest(a, b, V, -d, d)
    IN  IF step.done THEN Append(trace, step.V) ELSE MyersShortestSeq(a, b, step.V, Append(trace, step.V))

\* myersBacktrack: the point of each distance on the path, from the end back.
RECURSIVE MyersBacktrack(_, _, _, _)
MyersBacktrack(trace, x, y, snakes) ==
    LET d == Len(trace) - 1
        V == trace[d + 1]
        k == x - y
        kPrev == IF GoesDown(V, k, d) THEN k + 1 ELSE k - 1
        at == <<<<x, y>>>> \o snakes
    IN  IF d <= 0 \/ x < 0 \/ y < 0 THEN IF x < 0 \/ y < 0 THEN snakes ELSE at
        ELSE MyersBacktrack(SubSeq(trace, 1, d), V[kPrev], V[kPrev] - kPrev, at)

Op(kind, x1, y1, x2, y2) == [kind |-> kind, x1 |-> x1, y1 |-> y1, x2 |-> x2, y2 |-> y2]

\* An operation, or an operation of the same kind made longer.
AddOp(ops, op) ==
    LET n == Len(ops)
    IN  IF n > 0 /\ ops[n].kind = op.kind /\ ops[n].x2 = op.x1 /\ ops[n].y2 = op.y1
        THEN [ops EXCEPT ![n].x2 = op.x2, ![n].y2 = op.y2] ELSE Append(ops, op)

\* One line, then the lines that are equal.
ApplySnake(s, snake, a, b) ==
    LET right == snake[1] - snake[2] > s.x - s.y
        down == snake[1] - snake[2] < s.x - s.y
        x == IF right THEN s.x + 1 ELSE s.x
        y == IF down THEN s.y + 1 ELSE s.y
        op == Op(IF right THEN "delete" ELSE "insert", s.x, s.y, x, y)
        equal == IF snake[1] > x THEN snake[1] - x ELSE 0
    IN  IF s.done THEN s
        ELSE [x |-> x + equal, y |-> y + equal, done |-> x + equal >= Len(a) /\ y + equal >= Len(b),
              ops |-> IF (right /\ x <= Len(a)) \/ (down /\ y <= Len(b)) THEN AddOp(s.ops, op) ELSE s.ops]

MyersOperations(a, b) ==
    LET V == [k \in -(Len(a) + Len(b)) - 1 .. Len(a) + Len(b) + 1 |-> 0]
        snakes == MyersBacktrack(MyersShortestSeq(a, b, V, <<>>), Len(a), Len(b), <<>>)
        start == [x |-> 0, y |-> 0, done |-> FALSE, ops |-> <<>>]
    IN  IF a = <<>> /\ b = <<>> THEN <<>>
        ELSE FoldLeft(LAMBDA s, snake : ApplySnake(s, snake, a, b), start, snakes).ops
-----------------------------------------------------------------------------
(* Diff: sets of changes that are close, with the lines around them.       *)

Lines(sign, s, from, to) == [i \in 1 .. to - from |-> <<sign, s[from + i]>>]

\* A set of changes is written with its context, which stops at the ends of a.
AddSet(c, a, conf) ==
    LET cA == IF c.x1 - conf.a < 0 \/ conf.full THEN c.x1 ELSE conf.a
        cB == IF c.x2 + conf.b > Len(a) \/ conf.full THEN Len(a) - c.x2 ELSE conf.b
        hunk == [x |-> c.x1 - cA + 1, xn |-> c.x2 + cA + cB - c.x1, y |-> c.y1 - cA + 1, yn |-> c.y2 + cA + cB - c.y1,
                 lines |-> Lines(" ", a, c.x1 - cA, c.x1) \o c.set \o Lines(" ", a, c.x2, c.x2 + cB)]
    IN  IF c.set = <<>> THEN c ELSE [c EXCEPT !.set = <<>>, !.hunks = Append(@, hunk)]

\* A gap of at most the larger context is part of the set, a larger one begins another set.
AddChange(c, op, a, b, conf) ==
    LET dX == op.x1 - c.x2
        dY == op.y1 - c.y2
        far == dX /= dY \/ (dX > conf.a /\ dX > conf.b /\ ~conf.full)
        into == IF far THEN [AddSet(c, a, conf) EXCEPT !.x1 = op.x1, !.y1 = op.y1]
                ELSE [c EXCEPT !.set = @ \o Lines(" ", a, c.x2, op.x1)]
        lines == IF op.kind = "delete" THEN Lines("-", a, op.x1, op.x2) ELSE Lines("+", b, op.y1, op.y2)
    IN  [into EXCEPT !.set = @ \o lines, !.x2 = op.x2, !.y2 = op.y2]

DiffOf(a, b, conf) ==
    LET start == [x1 |-> 0, x2 |-> 0, y1 |-> 0, y2 |-> 0, set |-> <<>>, hunks |-> <<>>]
        all == FoldLeft(LAMBDA c, op : AddChange(c, op, a, b, conf), start, MyersOperations(a, b))
    IN  AddSet(all, a, conf).hunks
-----------------------------------------------------------------------------
(* What they should do.                                                    *)

RECURSIVE Lcs(_, _)
Lcs(a, b) ==
    IF a = <<>> \/ b = <<>> THEN 0
    ELSE IF Head(a) = Head(b) THEN 1 + Lcs(Tail(a), Tail(b))
    ELSE LET m == Lcs(Tail(a), b) n == Lcs(a, Tail(b)) IN IF m > n THEN m ELSE n

\* The operations lead from a to b, and none that are fewer do.
RECURSIVE Patched(_, _, _, _)
Patched(a, b, ops, x) ==
    IF ops = <<>> THEN SubSeq(a, x + 1, Len(a))
    ELSE LET op == Head(ops)
         IN  SubSeq(a, x + 1, op.x1) \o SubSeq(b, op.y1 + 1, op.y2) \o Patched(a, b, Tail(ops), op.x2)

Shortest(a, b, ops) ==
    FoldLeft(LAMBDA n, op : n + (op.x2 - op.x1) + (op.y2 - op.y1), 0, ops) = Len(a) + Len(b) - 2 * Lcs(a, b)

\* A reader of the text finds each set of changes where its header says.
Side(lines, sign) == SelectSeq(lines, LAMBDA l : l[1] \in {" ", sign})
HunkFits(h, a, b) ==
    /\ Side(h.lines, "-") = [i \in 1 .. h.xn |-> <<Side(h.lines, "-")[i][1], a[h.x + i - 1]>>]
    /\ Side(h.lines, "+") = [i \in 1 .. h.yn |-> <<Side(h.lines, "+")[i][1], b[h.y + i - 1]>>]
=============================================================================
