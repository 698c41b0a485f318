-------------------------------- MODULE Rays --------------------------------
(***************************************************************************)
(* The three rules of geometry.py for one shot, compared with each other   *)
(* and with the line itself.                                               *)
(***************************************************************************)
EXTENDS Geometry, FiniteSetsExt

CONSTANTS
    RaySpan,        \* coordinates lie between 0 and RaySpan
    NoRay

ASSUME RayAssumption == RaySpan \in Nat

Field == (0..RaySpan) \X (0..RaySpan)

VARIABLES
    muzzle, aim,
    rays            \* the cells by each rule

rayVars == <<muzzle, aim, rays>>

RayInit ==
    /\ muzzle \in Field
    /\ aim \in Field
    /\ rays = NoRay

TraceRays ==
    /\ rays = NoRay
    /\ rays' = [ bresenham |-> BresenhamCells(muzzle, aim),
                 supercover |-> SupercoverCells(muzzle, aim),
                 center |-> CenterIntersectionCells(muzzle, aim) ]
    /\ UNCHANGED <<muzzle, aim>>

AimElsewhere ==
    /\ rays # NoRay
    /\ aim' \in {p \in Field : Chebyshev(p, aim) = 1}
    /\ rays' = NoRay
    /\ UNCHANGED muzzle

RayNext == TraceRays \/ AimElsewhere

RaySpec == RayInit /\ [][RayNext]_rayVars

-----------------------------------------------------------------------------
(* Properties *)

Cells(s) == {s[i] : i \in DOMAIN s}

Traced == rays # NoRay

\* A ray reaches its target, holds no cell twice and not its origin; Bresenham
\* moves by one cell at a time.  (A supercover may end on a cell touched at a
\* corner of the target.)
RayTypeOK ==
    Traced /\ muzzle # aim =>
        /\ \A s \in {rays.bresenham, rays.center, rays.supercover} :
              /\ aim \in Cells(s)
              /\ Cardinality(Cells(s)) = Len(s)
              /\ muzzle \notin Cells(s)
              /\ Cells(s) \subseteq Field
        /\ rays.bresenham[Len(rays.bresenham)] = aim
        /\ \A i \in DOMAIN rays.bresenham :
              Chebyshev(rays.bresenham[i], IF i = 1 THEN muzzle ELSE rays.bresenham[i - 1]) = 1

\* Whatever rule is the server's, a cell the strict rule passes is passed by the
\* supercover, and the shot of Bresenham touches no cell the supercover misses.
RulesNest ==
    Traced =>
        /\ Cells(rays.center) \subseteq Cells(rays.supercover)
        /\ Cells(rays.bresenham) \subseteq Cells(rays.supercover)

\* Twice the area between the line and a cell's centre, against its half side:
\* Bresenham keeps to the cells nearest the line.
BresenhamIsNearest ==
    Traced =>
        LET dx == aim[1] - muzzle[1]
            dy == aim[2] - muzzle[2]
        IN  \A c \in Cells(rays.bresenham) :
                2 * Distance(dx * (c[2] - muzzle[2]), dy * (c[1] - muzzle[1]))
                    <= Larger(Distance(dx, 0), Distance(dy, 0))

\* A shot there and back crosses the same cells, by the rules that are exact.
ExactRaysAreSymmetric ==
    Traced =>
        \A touches \in BOOLEAN :
            Cells(IntersectedCells(muzzle, aim, touches)) \cup {muzzle}
                = Cells(IntersectedCells(aim, muzzle, touches)) \cup {aim}

\* The three rules of geometry.py agree on where a shot goes: nested, nearest to
\* the line, and the same there and back.
RaysAreStraight == RulesNest /\ BresenhamIsNearest /\ ExactRaysAreSymmetric

=============================================================================
