--------------------------- MODULE FeatureGeometry ---------------------------
(***************************************************************************)
(* The geometry behind holes, patterns, profile features, sweep paths and  *)
(* the measuring tools of the FreeCAD adapter: what a call accepts, and    *)
(* what it cuts, places or reports.  One call is one step; its answer      *)
(* stays in `report` until it is returned.                                 *)
(*                                                                         *)
(* Lengths are tenths of a millimetre.  The part is a block `size` wide    *)
(* and deep and `height` high that stands on z = 0; a cutter is an upright *)
(* cylinder, or a cone whose upper radius is `top`.  Angles are degrees in  *)
(* calls and hundredths of them in answers.                                  *)
(***************************************************************************)
EXTENDS Integers, Sequences, FiniteSets

CONSTANTS
    Heights,   \* heights of the block
    Radii,     \* radii of holes and recesses
    Offsets,   \* coordinates, spacings, depths and edges of a Z window
    Numbers,   \* rows, columns and instance counts tried
    Angles     \* angles tried, in degrees

ASSUME FeaturesAssumption ==
    /\ \A lengths \in {Heights, Radii} : lengths \subseteq Nat \ {0}
    /\ Offsets \subseteq Int
    /\ Numbers \subseteq 1..128 /\ Angles \subseteq Int

VARIABLE report

featureVars == <<report>>

Size == 200
Smaller(a, b) == IF a <= b THEN a ELSE b
Larger(a, b) == IF a >= b THEN a ELSE b
Distance(a, b) == IF a <= b THEN b - a ELSE a - b

Nothing == [cuts |-> {}, places |-> <<>>, told |-> 0, span |-> 0, pieces |-> <<>>,
            bars |-> {}, verdict |-> TRUE]
Unasked == [tool |-> "none", done |-> FALSE, height |-> 0, facts |-> Nothing]

Reported(tool, accepted, height, facts) ==
    /\ report = Unasked
    /\ report' = [tool |-> tool, done |-> accepted, height |-> height,
                  facts |-> IF accepted THEN facts ELSE Nothing]

-----------------------------------------------------------------------------
(* Holes *)

Cut(place, radius, top, lo, hi) ==
    [place |-> place, radius |-> radius, top |-> top, lo |-> lo, hi |-> hi]

Margin(height) == Larger(10, height \div 10)
ThroughCut(place, radius, height) ==
    Cut(place, radius, radius, 0 - Margin(height), height + Margin(height))

Square(n) == n * n

\* How far a coordinate lies outside the block.
Beyond(x) == IF x < 0 THEN 0 - x ELSE IF x > Size THEN x - Size ELSE 0

\* The cutter and the block have a volume in common.
Meets(cut, height) ==
    /\ cut.lo < height /\ cut.hi > 0
    /\ Square(Beyond(cut.place[1])) + Square(Beyond(cut.place[2])) < Square(cut.top)

\* The cutter holds the whole block.
Swallows(cut, height) ==
    /\ cut.lo <= 0 /\ cut.hi >= height
    /\ \A x, y \in {0, Size} :
           Square(cut.place[1] - x) + Square(cut.place[2] - y) <= Square(cut.radius)

\* The cutters, fused into one, have to take material away and to leave some.
HoleCutChecked(cuts, height) ==
    /\ \E cut \in cuts : Meets(cut, height)
    /\ ~\E cut \in cuts : Swallows(cut, height)

NoWindow == <<>>
WindowChecked(window) == window = NoWindow \/ window[1] < window[2]

HoleCuts(places, radius, window, height) ==
    {IF window = NoWindow THEN ThroughCut(place, radius, height)
     ELSE Cut(place, radius, radius, window[1], window[2]) : place \in places}

CreateThroughHole ==
    \E height \in Heights, radius \in Radii, x \in Offsets,
       window \in {NoWindow} \cup (Offsets \X Offsets) :
        LET cuts == HoleCuts({<<x, x>>}, radius, window, height)
        IN  Reported(IF window = NoWindow THEN "through_hole" ELSE "windowed_hole",
                     WindowChecked(window) /\ HoleCutChecked(cuts, height),
                     height, [Nothing EXCEPT !.cuts = cuts, !.told = 1])

GridPlaces(rows, columns, sx, sy, origin) ==
    [k \in 1..(rows * columns) |->
        <<origin + ((k - 1) % columns) * sx, origin + ((k - 1) \div columns) * sy>>]

CreateRectangularHolePattern ==
    \E height \in Heights, rows \in Numbers \ {0, 1}, columns \in Numbers \ {0},
       sx \in Radii, sy \in Radii, origin \in Offsets :
        LET places == GridPlaces(rows, columns, sx, sy, origin)
            cuts == HoleCuts({places[k] : k \in DOMAIN places}, 5, NoWindow, height)
        IN  Reported("rectangular_hole_pattern",
                     rows * columns <= 64 /\ HoleCutChecked(cuts, height),
                     height, [Nothing EXCEPT !.cuts = cuts, !.places = places,
                                             !.told = rows * columns])

Hundredths(degrees) == 100 * degrees
FullTurn == Hundredths(360)

\* Sines in thousandths, to two of them, of whole degrees (Bhaskara's formula).
HalfWave(a) == (4000 * a * (180 - a)) \div (40500 - a * (180 - a))
SineOf(degrees) ==
    LET a == degrees % 360 IN IF a < 180 THEN HalfWave(a) ELSE 0 - HalfWave(a - 180)

\* From the middle of the block, in a direction given in hundredths.
Around(pitch, direction) ==
    LET degrees == direction \div 100
        along(a) == Size \div 2 + (pitch * SineOf(a)) \div 1000
    IN  <<along(degrees + 90), along(degrees)>>

\* Up to a pitch circle wider than the block, where some holes miss it.
PitchRadii == {k * radius : k \in {1, 4}, radius \in Radii}

\* The instances of a circular pattern are told by their directions.
CreateCircularHolePattern ==
    \E height \in Heights, radius \in Radii, count \in Numbers \ {0},
       pitch \in PitchRadii, start \in Angles :
        LET places == [k \in 1..count |->
                          (Hundredths(start) + ((k - 1) * FullTurn) \div count) % FullTurn]
            cuts == HoleCuts({Around(pitch, places[k]) : k \in DOMAIN places},
                             radius, NoWindow, height)
        IN  Reported("circular_hole_pattern", count <= 64 /\ HoleCutChecked(cuts, height),
                     height, [Nothing EXCEPT !.cuts = cuts, !.places = places,
                                             !.told = count])

CreateCounterboreHole ==
    \E height \in Heights, radius \in Radii, recess \in Radii,
       depth \in Offsets, x \in Offsets :
        LET cuts == {ThroughCut(<<x, x>>, radius, height),
                     Cut(<<x, x>>, recess, recess, height - depth, height + Margin(height))}
        IN  Reported("counterbore_hole",
                     /\ depth > 0 /\ radius < recess /\ depth < height
                     /\ HoleCutChecked(cuts, height),
                     height, [Nothing EXCEPT !.cuts = cuts, !.told = 1])

\* Tangents of half the countersink angles, in thousandths.
HalfTangent == [angle \in {60, 90, 120} |->
                   IF angle = 60 THEN 577 ELSE IF angle = 90 THEN 1000 ELSE 1732]

SinkDepth(radius, recess, angle) == (1000 * (recess - radius)) \div HalfTangent[angle]

CreateCountersunkHole ==
    \E height \in Heights, radius \in Radii, recess \in Radii,
       angle \in DOMAIN HalfTangent, x \in Offsets :
        LET depth == SinkDepth(radius, recess, angle)
            cuts == {ThroughCut(<<x, x>>, radius, height),
                     Cut(<<x, x>>, radius, recess, height - depth, height),
                     Cut(<<x, x>>, recess, recess, height, height + Margin(height))}
        IN  Reported("countersunk_hole",
                     radius < recess /\ depth < height /\ HoleCutChecked(cuts, height),
                     height, [Nothing EXCEPT !.cuts = cuts, !.told = 1])

-----------------------------------------------------------------------------
(* Patterns of a whole solid, and profiles *)

PatternCountChecked(count) == count \in 2..64

\* Where the instances go: multiples of the spacing, whatever the axis.
LinearPattern ==
    \E count \in Numbers, spacing \in Radii :
        Reported("linear_pattern", PatternCountChecked(count), 0,
                 [Nothing EXCEPT !.places = [k \in 1..count |-> (k - 1) * spacing],
                                 !.told = count])

\* Seeded bug: an arc is shared by the instances too, and ends short.
PolarStepShort(angle, count) == Hundredths(angle) \div count

\* A full turn is shared by the instances, an arc by the gaps between them.
PolarStep(angle, count) ==
    IF angle = 360 THEN FullTurn \div count ELSE Hundredths(angle) \div (count - 1)

PolarPattern ==
    \E count \in Numbers, angle \in Angles :
        Reported("polar_pattern", PatternCountChecked(count) /\ angle \in 1..360, 0,
                 IF PatternCountChecked(count)
                 THEN [Nothing EXCEPT
                          !.places = [k \in 1..count |->
                                         ((k - 1) * PolarStep(angle, count)) % FullTurn],
                          !.told = count,
                          !.span = IF angle = 360 THEN 0 ELSE Hundredths(angle)]
                 ELSE Nothing)

\* The profile may touch the axis and not cross it.
RevolveSketch ==
    \E lo, hi \in Offsets, angle \in Angles :
        Reported("revolve", lo < hi /\ angle \in 1..360 /\ ~(lo < 0 /\ hi > 0), 0,
                 [Nothing EXCEPT !.bars = {<<lo, hi>>}])

LoftSketches ==
    \E sketches \in UNION {[1..n -> 1..3] : n \in 1..3} :
        Reported("loft",
                 /\ Len(sketches) >= 2
                 /\ Cardinality({sketches[k] : k \in DOMAIN sketches}) = Len(sketches),
                 0, [Nothing EXCEPT !.places = sketches, !.told = Len(sketches)])

-----------------------------------------------------------------------------
(* Sweep paths: straight moves in one of eight directions of a plane, and   *)
(* the arcs that round their corners                                        *)

PathMoves == [dir : 0..7, length : Heights]
Paths == UNION {[1..n -> PathMoves] : n \in 2..3}

\* How far a path turns at a corner, in eighths of a turn; 4 folds back.
Turn(path, i) == LET t == (path[i + 1].dir - path[i].dir) % 8 IN Smaller(t, 8 - t)

\* The straight stretch an arc takes of each side of its corner.
Trim(turn, radius) == (radius * <<414, 1000, 2414>>[turn]) \div 1000

Rounded(path, i, radius) == Turn(path, i) # 0 /\ radius > 0

CornerAccepted(path, i, radius) ==
    /\ Turn(path, i) # 4
    /\ Rounded(path, i, radius) =>
           \A k \in {i, i + 1} : 2 * Trim(Turn(path, i), radius) <= path[k].length

PathAccepted(path, radius) ==
    \A i \in 1..(Len(path) - 1) : CornerAccepted(path, i, radius)

Line(i, from, to) == [move |-> i, from |-> from, to |-> to]
Arc(i, from, to) == [move |-> 0 - i, from |-> from, to |-> to]

\* The edges so far, and where on the next move they end.
Start == [edges |-> <<>>, cursor |-> 0]

\* Up to the corner after move i.
AfterCorner(path, radius, i, before) ==
    LET trim == Trim(Turn(path, i), radius)
        start == path[i].length - trim
        run == IF start > before.cursor THEN <<Line(i, before.cursor, start)>> ELSE <<>>
    IN  IF Rounded(path, i, radius)
        THEN [edges |-> before.edges \o run \o <<Arc(i, start, trim)>>, cursor |-> trim]
        ELSE [edges |-> before.edges \o <<Line(i, before.cursor, path[i].length)>>,
              cursor |-> 0]

EdgesTo(path, radius) ==
    LET f[i \in 0..(Len(path) - 1)] ==
            IF i = 0 THEN Start ELSE AfterCorner(path, radius, i, f[i - 1])
    IN  f

SweepEdges(path, radius) ==
    LET corners == EdgesTo(path, radius)[Len(path) - 1]
        last == Len(path)
    IN  IF path[last].length > corners.cursor
        THEN corners.edges \o <<Line(last, corners.cursor, path[last].length)>>
        ELSE corners.edges

CreateSweepPath ==
    \E path \in Paths, radius \in Radii \cup {0} :
        Reported("sweep_path", PathAccepted(path, radius), 0,
                 IF PathAccepted(path, radius)
                 THEN [Nothing EXCEPT !.pieces = SweepEdges(path, radius),
                                      !.told = Len(path),
                                      !.span = path[Len(path)].length]
                 ELSE Nothing)

-----------------------------------------------------------------------------
(* Interferences, printability and mass, for bars on a line (for print      *)
(* readiness the line is the build direction)                               *)

Bars == {bar \in Offsets \X Offsets : bar[1] < bar[2]}
Gap(a, b) == Larger(0, Larger(b[1] - a[2], a[1] - b[2]))
Common(a, b) == IF Gap(a, b) > 0 THEN 0
                ELSE Smaller(a[2], b[2]) - Larger(a[1], b[1])

PairStatus(a, b, clearance, tolerance) ==
    IF Common(a, b) > tolerance THEN "interference"
    ELSE IF Gap(a, b) = 0 THEN "contact"
    ELSE IF Gap(a, b) < clearance THEN "clearance_violation" ELSE "clear"

InterferencePasses(bars, clearance, tolerance) ==
    \A a, b \in bars : a = b \/ /\ PairStatus(a, b, clearance, tolerance) # "interference"
                                /\ ~(Gap(a, b) < clearance)

AnalyzeInterferences ==
    \E bars \in SUBSET Bars, clearance \in {0, 10}, tolerance \in {0, 10} :
        Reported("interferences", Cardinality(bars) \in 2..3, clearance,
                 [Nothing EXCEPT !.bars = bars, !.span = tolerance,
                     !.verdict = InterferencePasses(bars, clearance, tolerance)])

\* The undersides of the bars: on the bed, or hanging straight down.
BedTolerance == 0
BedOf(bars) == CHOOSE z \in {bar[1] : bar \in bars} : \A bar \in bars : z <= bar[1]
Hanging(bars) == {bar \in bars : bar[1] > BedOf(bars) + BedTolerance}

\* Cosines of the overhang limits, in thousandths; straight down is 1000.
Overhang == [limit \in {20, 45, 85} |->
                IF limit = 20 THEN 940 ELSE IF limit = 45 THEN 707 ELSE 87]

AnalyzePrintReadiness ==
    \E bars \in SUBSET Bars, limit \in DOMAIN Overhang :
        Reported("print_readiness", IsFiniteSet(bars) /\ Cardinality(bars) \in 1..3, 0,
                 [Nothing EXCEPT !.bars = bars, !.told = Cardinality(Hanging(bars)),
                     !.verdict = ~(\E bar \in Hanging(bars) : 1000 > Overhang[limit])])

\* Mass centre of two solids, weighted by their volume.
MeasureMassProperties ==
    \E a, b \in Bars :
        LET volume(bar) == bar[2] - bar[1]
            middle(bar) == (bar[1] + bar[2]) \div 2
        IN  Reported("mass", a # b, 0,
                     [Nothing EXCEPT !.bars = {a, b}, !.told = volume(a) + volume(b),
                      !.span = (middle(a) * volume(a) + middle(b) * volume(b))
                               \div (volume(a) + volume(b))])

-----------------------------------------------------------------------------
(* The section view looks along z_cam from the side that was cut away.      *)
(* Axes are kept as directions: their lengths do not matter here.           *)

Axis == <<<<1, 0, 0>>, <<0, 1, 0>>, <<0, 0, 1>>>>
Scaled(v, k) == <<k * v[1], k * v[2], k * v[3]>>
Dot(u, v) == u[1] * v[1] + u[2] * v[2] + u[3] * v[3]
Cross(u, v) == <<u[2] * v[3] - u[3] * v[2], u[3] * v[1] - u[1] * v[3],
                 u[1] * v[2] - u[2] * v[1]>>

SectionNormal(axis, flip) == IF flip THEN Scaled(Axis[axis], 0 - 1) ELSE Axis[axis]
CameraZ(axis, flip) == [k \in 1..3 |-> IF flip /\ k = axis THEN 0 - 1 ELSE 1]

SectionCamera ==
    \E axis \in 1..3, flip \in BOOLEAN :
        LET z == CameraZ(axis, flip)
            x == Cross(Axis[3], z)
        IN  Reported("section", TRUE, 0,
                     [Nothing EXCEPT !.places = <<SectionNormal(axis, flip), x, Cross(z, x), z>>])

-----------------------------------------------------------------------------
ReturnReport == report # Unasked /\ report' = Unasked

FeaturesInit == report = Unasked

FeaturesNext ==
    \/ CreateThroughHole
    \/ CreateRectangularHolePattern
    \/ CreateCircularHolePattern
    \/ CreateCounterboreHole
    \/ CreateCountersunkHole
    \/ LinearPattern
    \/ PolarPattern
    \/ RevolveSketch
    \/ LoftSketches
    \/ CreateSweepPath
    \/ AnalyzeInterferences
    \/ AnalyzePrintReadiness
    \/ MeasureMassProperties
    \/ SectionCamera
    \/ ReturnReport

FeaturesSpec == FeaturesInit /\ [][FeaturesNext]_featureVars

-----------------------------------------------------------------------------
(* What an accepted call must have done, stated from the geometry alone *)

\* The cutter leaves an opening in the lower and in the upper face.
Opens(cut, height) == Meets(cut, height) /\ cut.lo < 0 /\ cut.hi > height

\* A drill that reaches over the block goes through it; a recess is open above
\* and leaves a seat round a narrower drill below.
HolesOpen(facts, height) ==
    /\ \E cut \in facts.cuts : Meets(cut, height)
    /\ \E cut \in facts.cuts : cut.lo < 0
    /\ \A cut \in facts.cuts :
           IF cut.lo < 0 THEN Meets(cut, height) => Opens(cut, height)
           ELSE /\ 0 < cut.lo
                /\ \E seat \in facts.cuts : seat.lo < 0 /\ seat.radius < cut.top
    /\ \E cut \in facts.cuts : cut.hi > height /\ \A other \in facts.cuts : other.top <= cut.top

Distinct(places) == \A j, k \in DOMAIN places : places[j] = places[k] => j = k

\* A path runs forward along every move, piece after piece, up to its end.
PathConnected(facts) ==
    LET pieces == facts.pieces
        endOf(p) == IF p.move < 0 THEN <<1 - p.move, p.to>> ELSE <<p.move, p.to>>
        startOf(p) == IF p.move < 0 THEN <<0 - p.move, p.from>> ELSE <<p.move, p.from>>
    IN  /\ pieces # <<>>
        /\ startOf(pieces[1]) = <<1, 0>>
        /\ \A k \in DOMAIN pieces : pieces[k].move > 0 => pieces[k].from < pieces[k].to
        /\ \A k \in 1..(Len(pieces) - 1) :
               \/ endOf(pieces[k]) = startOf(pieces[k + 1])
               \/ /\ startOf(pieces[k + 1]) = <<pieces[k].move + 1, 0>>
                  /\ pieces[k].move > 0
        /\ endOf(pieces[Len(pieces)]) = <<facts.told, facts.span>>

\* Bars that pass: in order, each ends `clearance` before the next begins, or
\* overlaps it by no more than the tolerance when none is asked for.
BarsClear(bars, clearance, tolerance) ==
    \A a, b \in bars : a # b /\ a[1] <= b[1] =>
        \/ b[1] - a[2] >= clearance
        \/ clearance = 0 /\ Smaller(a[2], b[2]) - b[1] <= tolerance

CameraFacesCut(axes) ==
    /\ Dot(axes[4], axes[1]) > 0
    /\ Dot(axes[2], axes[4]) = 0 /\ Dot(axes[3], axes[4]) = 0 /\ Dot(axes[2], axes[3]) = 0
    /\ Dot(Cross(axes[2], axes[3]), axes[4]) > 0
    /\ axes[2][3] = 0 /\ axes[3][3] > 0

Sound(tool, height, facts) ==
    /\ tool \in {"through_hole", "counterbore_hole", "countersunk_hole",
                "rectangular_hole_pattern", "circular_hole_pattern"} =>
           HolesOpen(facts, height)
    /\ tool \in {"through_hole", "rectangular_hole_pattern", "circular_hole_pattern"} =>
           \E cut \in facts.cuts : Opens(cut, height)
    /\ tool \in {"rectangular_hole_pattern", "circular_hole_pattern", "linear_pattern",
                "polar_pattern", "loft"} =>
           Distinct(facts.places) /\ Len(facts.places) = facts.told
    /\ tool = "polar_pattern" /\ facts.span > 0 =>
           Distance(facts.places[facts.told], facts.span) < facts.told
    /\ tool = "revolve" => \A bar \in facts.bars : bar[1] >= 0 \/ bar[2] <= 0
    /\ tool = "sweep_path" => PathConnected(facts)
    /\ tool = "interferences" =>
           (facts.verdict <=> BarsClear(facts.bars, height, facts.span))
    /\ tool = "print_readiness" =>
           (facts.verdict <=> \A a, b \in facts.bars : a[1] = b[1])
    /\ tool = "mass" =>
           /\ \E bar \in facts.bars : bar[1] <= facts.span
           /\ \E bar \in facts.bars : facts.span <= bar[2]
    /\ tool = "section" => CameraFacesCut(facts.places)

(* A feature that was accepted is what its name says: a drill that reaches  *)
(* over the block opens on both of its faces and a recess leaves a seat;    *)
(* a through hole, and at least one hole of a pattern, does open; instances *)
(* and sections are distinct and as many as reported, a path runs forward   *)
(* without a gap, a profile stays on one side of its axis, the interference *)
(* and print verdicts agree with the positions, and the section camera      *)
(* stands on the side that was cut away.                                    *)
(* The code compares the volume before and after the fused cutter and no    *)
(* more: it accepts a pattern some of whose holes miss the block, and       *)
(* counts them, and a counterbore or countersink whose recess clips the     *)
(* block while its drill misses.  Neither is claimed to open.               *)
AcceptedFeaturesFit == report.done => Sound(report.tool, report.height, report.facts)
=============================================================================
