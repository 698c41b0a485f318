------------------------------ MODULE Geometry ------------------------------
(***************************************************************************)
(* strategy/simulation/geometry.py: the cells a shot passes, by the three  *)
(* rules the simulation knows, and the cone of a gatling.  A position is   *)
(* <<x, y>>, the centre of its cell.                                       *)
(***************************************************************************)
EXTENDS Integers, Sequences, FiniteSets

Distance(n, m) == IF n >= m THEN n - m ELSE m - n

Larger(n, m) == IF n >= m THEN n ELSE m

Chebyshev(p, q) == Larger(Distance(p[1], q[1]), Distance(p[2], q[2]))

Toward(n, m) == IF n < m THEN 1 ELSE -1

\* Mutation: the second test looks at the error the first one changed.
BresenhamStepLate(from, to, at) ==
    LET dx == Distance(from[1], to[1])
        dy == -Distance(from[2], to[2])
        alongX == 2 * at.error >= dy
        changed == at.error + (IF alongX THEN dy ELSE 0)
        alongY == 2 * changed <= dx
    IN  [ error |-> changed + (IF alongY THEN dx ELSE 0),
          cell |-> << at.cell[1] + (IF alongX THEN Toward(from[1], to[1]) ELSE 0),
                      at.cell[2] + (IF alongY THEN Toward(from[2], to[2]) ELSE 0) >> ]

\* One turn of the loop: both tests look at the error before it is changed.
BresenhamStep(from, to, at) ==
    LET dx == Distance(from[1], to[1])
        dy == -Distance(from[2], to[2])
        alongX == 2 * at.error >= dy
        alongY == 2 * at.error <= dx
    IN  [ error |-> at.error + (IF alongX THEN dy ELSE 0) + (IF alongY THEN dx ELSE 0),
          cell |-> << at.cell[1] + (IF alongX THEN Toward(from[1], to[1]) ELSE 0),
                      at.cell[2] + (IF alongY THEN Toward(from[2], to[2]) ELSE 0) >> ]

\* bresenham_cells
BresenhamCells(from, to) ==
    LET at[n \in 0..Chebyshev(from, to)] ==
            IF n = 0
            THEN [error |-> Distance(from[1], to[1]) - Distance(from[2], to[2]), cell |-> from]
            ELSE BresenhamStep(from, to, at[n - 1])
    IN  [n \in 1..Chebyshev(from, to) |-> at[n].cell]

\* Fractions <<n, d>> with d > 0.
Less(f, g) == f[1] * g[2] < g[1] * f[2]
Least(f, g) == IF Less(g, f) THEN g ELSE f
Greatest(f, g) == IF Less(f, g) THEN g ELSE f

\* Where, between 0 and 1, the line is within the cell's range on one axis.
AxisInterval(s, e, c) ==
    LET d == Distance(s, e)
        side == 2 * Toward(s, e) * (c - s)
    IN  IF s = e THEN IF c = s THEN <<<<0, 1>>, <<1, 1>>>> ELSE <<<<1, 1>>, <<0, 1>>>>
        ELSE <<<<side - 1, 2 * d>>, <<side + 1, 2 * d>>>>

\* _cell_interval; no interval is one that ends before it begins.
CellInterval(from, to, cell) ==
    LET ax == AxisInterval(from[1], to[1], cell[1])
        ay == AxisInterval(from[2], to[2], cell[2])
    IN  << Greatest(<<0, 1>>, Greatest(ax[1], ay[1])), Least(<<1, 1>>, Least(ax[2], ay[2])) >>

Box(from, to) ==
    {<<x, y>> : x \in (IF from[1] <= to[1] THEN from[1]..to[1] ELSE to[1]..from[1]),
                y \in (IF from[2] <= to[2] THEN from[2]..to[2] ELSE to[2]..from[2])}

\* _intersected_cells, in the order the line enters them.
IntersectedCells(from, to, touches) ==
    LET hit(c) == CellInterval(from, to, c)
        cells == {c \in Box(from, to) \ {from} :
                     \/ Less(hit(c)[1], hit(c)[2])
                     \/ touches /\ ~Less(hit(c)[2], hit(c)[1])}
        before(c, d) ==
            \/ Less(hit(c)[1], hit(d)[1])
            \/ /\ ~Less(hit(d)[1], hit(c)[1])
               /\ c[1] < d[1] \/ (c[1] = d[1] /\ c[2] < d[2])
    IN  [i \in 1..Cardinality(cells) |->
            CHOOSE c \in cells : Cardinality({d \in cells : before(d, c)}) = i - 1]

SupercoverCells(from, to) == IntersectedCells(from, to, TRUE)

CenterIntersectionCells(from, to) == IntersectedCells(from, to, FALSE)

\* is_legal_cone: no two directions more than a right angle apart.
IsLegalCone(origin, targets) ==
    /\ origin \notin targets
    /\ \A p, q \in targets :
           (p[1] - origin[1]) * (q[1] - origin[1]) + (p[2] - origin[2]) * (q[2] - origin[2]) >= 0

=============================================================================
