-------------------------- MODULE MechanicalParts --------------------------
(***************************************************************************)
(* The geometry behind the mechanical tools of the FreeCAD adapter: which  *)
(* dimensions a tool accepts, and the solids it then lays out.  A call is  *)
(* one step; the answer stays in `answer` until it is returned.            *)
(*                                                                         *)
(* Lengths are whole millimetres, worked with in units of 1/Scale mm so    *)
(* that every coefficient of the code is a whole number.  A solid of       *)
(* revolution is a ring: radii and heights between which there is          *)
(* material; `pocket`, the radius of the torus or of the spheres that were *)
(* cut out of it around the rolling elements (0 for none); and `snug`,     *)
(* whether that is a groove of conformity 1.00.                            *)
(***************************************************************************)
EXTENDS Integers

CONSTANTS
    Counts,      \* numbers of rolling elements, pin holes or channels tried
    Bores,       \* inner diameters
    Outers,      \* outer diameters
    Widths,      \* widths, lengths and heights
    Elements,    \* diameters of rolling elements and pins
    Clearances,  \* clearances (0 allowed)
    Modules      \* gear modules, thread pitches and other small lengths

ASSUME PartsAssumption ==
    /\ Counts \subseteq 2..64
    /\ \A lengths \in {Bores, Outers, Widths, Elements, Modules} : lengths \subseteq Nat \ {0}
    /\ Clearances \subseteq Nat

VARIABLE answer

partsVars == <<answer>>

Scale == 400
Radius(d) == (Scale \div 2) * d
Pitch(p) == (Scale \div 4) * (p.bore + p.outer)

\* sin(pi / n) in ten-thousandths, for n = 2..128.
Sine == <<0, 10000, 8660, 7071, 5878, 5000, 4339, 3827, 3420, 3090, 2817, 2588,
          2393, 2225, 2079, 1951, 1837, 1736, 1646, 1564, 1490, 1423, 1362, 1305,
          1253, 1205, 1161, 1120, 1081, 1045, 1012, 980, 951, 923, 896, 872, 848,
          826, 805, 785, 765, 747, 730, 713, 698, 682, 668, 654, 641, 628, 616,
          604, 592, 581, 571, 561, 551, 541, 532, 523, 515, 506, 498, 491, 483,
          476, 469, 462, 455, 449, 442, 436, 430, 424, 419, 413, 408, 403, 398,
          393, 388, 383, 378, 374, 370, 365, 361, 357, 353, 349, 345, 341, 338,
          334, 331, 327, 324, 321, 317, 314, 311, 308, 305, 302, 299, 296, 294,
          291, 288, 286, 283, 280, 278, 276, 273, 271, 268, 266, 264, 262, 260,
          257, 255, 253, 251, 249, 247, 245>>

\* Distance between the centres of two neighbours of n on a pitch circle.
Chord(pitch, n) == (2 * (pitch \div 100) * Sine[n]) \div 100

Ring(in, out, lo, hi) ==
    [in |-> in, out |-> out, lo |-> lo, hi |-> hi, pocket |-> 0, snug |-> FALSE]
Pocketed(ring, radius) == [ring EXCEPT !.pocket = radius]
Grooved(ring, p) ==
    [ring EXCEPT !.pocket = 2 * p.element * p.conformity + (Scale \div 2) * p.clearance,
                 !.snug = (p.conformity = 100)]

Lesser(a, b) == IF a <= b THEN a ELSE b
Greater(a, b) == IF a >= b THEN a ELSE b

\* Solids, and n rolling elements or holes of radius r on a circle of radius
\* pitch, between two heights.  A channel of a bushing: where its floor is, half
\* its width, and the wall it is cut into.
NoChannel == [floor |-> 0, half |-> 0, wall |-> 0]
Part(solids, n, pitch, r, lo, hi) ==
    [solids |-> solids, n |-> n, pitch |-> pitch, r |-> r, lo |-> lo, hi |-> hi,
     post |-> 0, channel |-> NoChannel, twist |-> 0, sections |-> 0]
Plain(solids) == Part(solids, 0, 0, 0, 0, 0)
NoPart == Plain({})
Idle == [tool |-> "none", built |-> FALSE, part |-> NoPart]

Answered(tool, accepted, part) ==
    /\ answer = Idle
    /\ answer' = [tool |-> tool, built |-> accepted,
                  part |-> IF accepted THEN part ELSE NoPart]

-----------------------------------------------------------------------------
(* What the bearing tools share *)

BearingDimensions == [bore : Bores, outer : Outers, width : Widths,
                      count : Counts, element : Elements,
                      clearance : Clearances]

GroovedDimensions == [bore : Bores, outer : Outers, width : Widths,
                      count : Counts, element : Elements, clearance : Clearances,
                      conformity : {100, 104, 125}, cage : BOOLEAN]

DimensionsAccepted(p) == p.count \in 4..64 /\ p.bore < p.outer

SpacingAccepted(pitch, n, diameter, separation) ==
    Chord(pitch, n) > Scale * (diameter + separation)

\* Two rails joined by one post between each pair of elements.
\* Seeded bug: the radius of the element is forgotten.
CageGapToCentre(pitch, n, r) == Chord(pitch, 2 * n)

CageGap(pitch, n, r) == Chord(pitch, 2 * n) - r

PostRadius(halfWidth, gap) ==
    Lesser((55 * halfWidth) \div 100, (45 * gap) \div 100)
Rails(pitch, halfWidth, low, high, height) ==
    {Ring(pitch - halfWidth, pitch + halfWidth, z, z + height) : z \in {low, high}}

\* A bearing of rings and elements, with its cage if one is asked for.
Caged(p, rings, cage, post, lo, hi) ==
    LET bare == Part(rings, p.count, Pitch(p), Radius(p.element), lo, hi)
    IN  IF p.cage THEN [bare EXCEPT !.solids = rings \cup cage, !.post = post] ELSE bare

-----------------------------------------------------------------------------
(* create_ball_bearing: two plain races and balls, no cage *)

BallBearingAccepted(p) ==
    /\ DimensionsAccepted(p)
    /\ p.element <= p.width
    /\ 2 * (p.element + p.clearance) < p.outer - p.bore
    \* the arc between two balls, not the chord, is compared
    /\ 2 * 31416 * (Pitch(p) \div 100) > 100 * Scale * p.count * (p.element + p.clearance)

BallBearing(p) ==
    LET r == Radius(p.element)
        c == (Scale \div 2) * p.clearance
        w == Scale * p.width
    IN  Part({Ring(Radius(p.bore), Pitch(p) - r - c, 0, w),
              Ring(Pitch(p) + r + c, Radius(p.outer), 0, w)},
             p.count, Pitch(p), r, w \div 2 - r, w \div 2 + r)

CreateBallBearing == \E p \in BearingDimensions :
    Answered("ball_bearing", BallBearingAccepted(p), BallBearing(p))

-----------------------------------------------------------------------------
(* create_deep_groove_ball_bearing *)

Shoulder(p) == (62 * Radius(p.element)) \div 100

DeepGrooveAccepted(p) ==
    LET r == Radius(p.element)
        rail == Lesser((6 * Scale * p.width) \div 100, (10 * Scale * p.element) \div 100)
        low == (Scale * p.width) \div 2 - r - Scale * p.clearance - rail
    IN  /\ DimensionsAccepted(p)
        /\ p.conformity \in 100..125
        /\ p.element <= p.width
        /\ 2 * (p.element + p.clearance) < p.outer - p.bore
        /\ SpacingAccepted(Pitch(p), p.count, p.element, p.clearance)
        /\ Pitch(p) - Shoulder(p) > Radius(p.bore)
        /\ Pitch(p) + Shoulder(p) < Radius(p.outer)
        /\ p.cage => low >= 0 /\ CageGap(Pitch(p), p.count, r) > 0

DeepGroove(p) ==
    LET r == Radius(p.element)
        w == Scale * p.width
        mid == w \div 2
        half == (28 * 2 * Shoulder(p)) \div 100
        rail == Lesser((6 * w) \div 100, (10 * Scale * p.element) \div 100)
        reach == r + Scale * p.clearance
        races ==
            {Grooved(Ring(Radius(p.bore), Pitch(p) - Shoulder(p), 0, w), p),
             Grooved(Ring(Pitch(p) + Shoulder(p), Radius(p.outer), 0, w), p)}
        rails == Rails(Pitch(p), half, mid - reach - rail, mid + reach, rail)
    IN  Caged(p, races, rails, PostRadius(half, CageGap(Pitch(p), p.count, r)),
              mid - r, mid + r)

CreateDeepGrooveBallBearing == \E p \in GroovedDimensions :
    Answered("deep_groove", DeepGrooveAccepted(p), DeepGroove(p))

-----------------------------------------------------------------------------
(* create_thrust_ball_bearing: two washers, balls and a pocketed cage *)

Washer(p) == (Scale * (p.width - p.element - p.clearance)) \div 2
             + (32 * Radius(p.element)) \div 100

ThrustAccepted(p) ==
    /\ DimensionsAccepted(p)
    /\ p.conformity \in 100..125
    /\ 2 * (p.element + p.clearance) < p.outer - p.bore
    /\ p.element + p.clearance < p.width
    /\ SpacingAccepted(Pitch(p), p.count, p.element, p.clearance)
    /\ Washer(p) > (32 * Radius(p.element)) \div 100

Thrust(p) ==
    LET r == Radius(p.element)
        h == Scale * p.width
        margin == (12 * (Radius(p.outer) - Radius(p.bore))) \div 100
        cage == Lesser((42 * Scale * p.element) \div 100, (18 * h) \div 100)
        pocket == r + Greater(Scale * p.clearance, (8 * r) \div 100)
        washers ==
            {Grooved(Ring(Radius(p.bore), Radius(p.outer), z, z + Washer(p)), p)
                : z \in {0, h - Washer(p)}}
        ring == Pocketed(Ring(Radius(p.bore) + margin, Radius(p.outer) - margin,
                              (h - cage) \div 2, (h + cage) \div 2), pocket)
    IN  Caged(p, washers, {ring}, 0, h \div 2 - r, h \div 2 + r)

CreateThrustBallBearing == \E p \in GroovedDimensions :
    Answered("thrust", ThrustAccepted(p), Thrust(p))

-----------------------------------------------------------------------------
(* create_cylindrical_roller_bearing and create_print_in_place_roller_bearing *)

RollerAccepted(p) ==
    /\ DimensionsAccepted(p)
    /\ p.length < p.width
    /\ 2 * (p.element + p.clearance) < p.outer - p.bore
    /\ SpacingAccepted(Pitch(p), p.count, p.element, p.clearance)
    /\ p.cage => CageGap(Pitch(p), p.count, Radius(p.element)) > 0

Roller(p) ==
    LET r == Radius(p.element)
        c == (Scale \div 2) * p.clearance
        w == Scale * p.width
        end == (Scale \div 2) * (p.width - p.length)
        rail == (30 * end) \div 100
        half == (30 * 2 * (r + c)) \div 100
        races == {Ring(Radius(p.bore), Pitch(p) - r - c, 0, w),
                  Ring(Pitch(p) + r + c, Radius(p.outer), 0, w)}
        rails == Rails(Pitch(p), half, (20 * end) \div 100,
                       w - (20 * end) \div 100 - rail, rail)
    IN  Caged(p, races, rails, PostRadius(half, CageGap(Pitch(p), p.count, r)),
              end, w - end)

CreateCylindricalRollerBearing ==
    \E p \in [bore : Bores, outer : Outers, width : Widths, count : Counts,
              element : Elements, clearance : Clearances,
              length : Widths, cage : BOOLEAN] :
        Answered("roller", RollerAccepted(p), Roller(p))

\* The retaining rims: as high as they are deep, so that they print at 45 degrees.
Lip(p) == Scale * p.clearance + Radius(p.element) \div 4
FaceOpening(p) == 2 * (Radius(p.element) + Scale * p.clearance) - Lip(p)

PrintInPlaceAccepted(p) ==
    /\ DimensionsAccepted(p)
    /\ p.clearance > 0
    /\ 2 * (p.element + 2 * p.clearance) < p.outer - p.bore
    /\ SpacingAccepted(Pitch(p), p.count, p.element, p.clearance)
    /\ Scale * p.axial > Lip(p) + Scale * p.clearance
    /\ p.width > 2 * p.axial
    /\ FaceOpening(p) < 2 * Radius(p.element)

PrintInPlace(p) ==
    LET r == Radius(p.element)
        reach == r + Scale * p.clearance
        w == Scale * p.width
    IN  Part({Ring(Radius(p.bore), Pitch(p) - reach, 0, w),
              Ring(Pitch(p) + reach, Radius(p.outer), 0, w),
              Ring(Pitch(p) + reach - Lip(p), Pitch(p) + reach, 0, Lip(p)),
              Ring(Pitch(p) + reach - Lip(p), Pitch(p) + reach, w - Lip(p), w)},
             p.count, Pitch(p), r, Scale * p.axial, w - Scale * p.axial)

CreatePrintInPlaceRollerBearing ==
    \E p \in [bore : Bores, outer : Outers, width : Widths, count : Counts,
              element : Elements, clearance : Clearances,
              axial : Modules \cup Widths] :
        Answered("print_in_place", PrintInPlaceAccepted(p), PrintInPlace(p))

-----------------------------------------------------------------------------
(* create_printed_plain_bushing: what is left of the wall behind the channels *)

BushingAccepted(p) ==
    LET bore == p.shaft + p.clearance
        wall == p.outer - bore          \* twice the wall
    IN  /\ p.clearance > 0
        /\ p.count \in 0..24
        /\ bore < p.outer
        /\ 200 * p.depth < 65 * wall
        /\ 10000 * p.width * Greater(p.count, 1) < 31416 * bore
        /\ 4 * p.relief < wall

\* A channel is a box that reaches a hundredth of a millimetre past its depth.
Bushing(p) ==
    LET bore == Radius(p.shaft + p.clearance)
        channel == IF p.count = 0 THEN 0 ELSE p.depth
        shell == Plain({Ring(bore + Scale * Greater(channel, p.relief),
                             Radius(p.outer), 0, Scale)})
        box == [floor |-> bore + Scale * p.depth + Scale \div 100,
                half |-> (Scale \div 2) * p.width, wall |-> Radius(p.outer) - bore]
    IN  IF p.count = 0 THEN shell ELSE [shell EXCEPT !.channel = box]

CreatePrintedPlainBushing ==
    \E p \in [shaft : Bores, outer : Outers, clearance : Clearances,
              count : Counts \cup {0}, width : Modules, depth : Modules,
              relief : Clearances] :
        Answered("bushing", BushingAccepted(p), Bushing(p))

-----------------------------------------------------------------------------
(* create_planetary_carrier: a disc with pin holes around a centre bore *)

CarrierAccepted(p) ==
    /\ p.count \in 2..16
    /\ p.pitch + 2 * p.pin <= p.plate
    /\ p.bore + 2 * p.pin < p.pitch

Carrier(p) ==
    Part({Ring(Radius(p.bore), Radius(p.plate), 0, Scale)},
         p.count, Radius(p.pitch), Radius(p.pin), 0, Scale)

CreatePlanetaryCarrier ==
    \E p \in [plate : Outers, bore : Bores \cup {0}, pitch : Widths \cup Outers,
              pin : Elements \cup Modules, count : Counts] :
        Answered("carrier", CarrierAccepted(p), Carrier(p))

-----------------------------------------------------------------------------
(* Gears: the bore inside the root circle, the rim outside the teeth, and   *)
(* the sections a helical gear is lofted through                            *)

Teeth == {5, 6, 12, 40, 200, 240}
ToothedAccepted(p) ==
    p.teeth \in 6..200 /\ 2 * p.bore < p.module * (2 * p.teeth - 5)

Toothed(p) ==
    Plain({Ring(Radius(p.bore), (Scale * p.module * (2 * p.teeth - 5)) \div 4, 0, Scale)})

CreateSpurGear ==
    \E p \in [teeth : Teeth, module : Modules, bore : Bores \cup Outers \cup {0}] :
        Answered("spur", ToothedAccepted(p), Toothed(p))

\* Tangents of the helix angles tried, in ten-thousandths (0 is refused).
Helix == {0, 175, 2679, 5774, 10000}

\* Total twist in hundredths of a degree.
Twist(p) == (p.thickness * p.helix * 1146) \div (p.module * p.teeth * 1000)
Sections(p) == Greater(2, (Twist(p) + 499) \div 500 + 1)

CreateHelicalGear ==
    \E p \in [teeth : Teeth, module : Modules, bore : Bores \cup Outers \cup {0},
              thickness : Widths, helix : Helix] :
        Answered("helical", ToothedAccepted(p) /\ p.helix # 0,
                 [Toothed(p) EXCEPT !.twist = Twist(p), !.sections = Sections(p)])

InternalGearAccepted(p) == p.teeth \in 12..240 /\ p.rim >= p.module

InternalGear(p) ==
    LET root == (Scale * (2 * p.module * p.teeth + 5 * p.module)) \div 4
    IN  Plain({Ring(root, root + Scale * p.rim, 0, Scale)})

CreateInternalGear ==
    \E p \in [teeth : Teeth, module : Modules, rim : Modules] :
        Answered("internal", InternalGearAccepted(p), InternalGear(p))

\* Backlash turns the flanks of every tooth towards each other: what is left
\* of a tooth on the pitch circle.
BacklashAccepted(p) == 2 * p.backlash <= p.module
Thinned(p) ==
    Plain({Ring(0, (15708 * Scale * p.module) \div 10000 - Scale * p.backlash, 0, Scale)})

ApplyGearBacklash ==
    \E p \in [module : Modules, backlash : Modules] :
        Answered("backlash", BacklashAccepted(p), Thinned(p))

-----------------------------------------------------------------------------
(* Threads: a core, and a ridge wound around it that reaches a tenth of the *)
(* pitch into the core; of the ridge, the stretches of two successive turns *)

ThreadAccepted(p) ==
    /\ 4 * p.pitch < p.diameter
    /\ p.length >= p.pitch
    /\ p.length <= 64 * p.pitch

Minor(p) == Radius(p.diameter) - (5 * 866 * Scale * p.pitch) \div 8000

Thread(p, from) ==
    LET root == Minor(p) - (Scale * p.pitch) \div 10
        half == (7 * Scale * p.pitch) \div 16
        turn == from + Scale * p.pitch
    IN  Plain({Ring(0, root, from, from + Scale * p.length),
               Ring(root, Radius(p.diameter), from - half, from + half),
               Ring(root, Radius(p.diameter), turn - half, turn + half)})

\* The longest one has too many turns of the finest pitch.
ThreadLengths == Modules \cup Widths \cup {200}

CreateExternalThread ==
    \E p \in [diameter : Outers \cup Widths, pitch : Modules, length : ThreadLengths] :
        Answered("thread", ThreadAccepted(p), Thread(p, 0))

\* Bored into the top of a solid of the given height.
ThreadedHoleAccepted(p) == ThreadAccepted(p) /\ p.length < p.height

CreateThreadedHole ==
    \E p \in [diameter : Outers \cup Widths, pitch : Modules, length : ThreadLengths,
              height : Widths] :
        Answered("threaded_hole", ThreadedHoleAccepted(p),
                 Thread(p, Scale * (p.height - p.length)))

-----------------------------------------------------------------------------
ReturnPart == answer # Idle /\ answer' = Idle

PartsInit == answer = Idle

PartsNext ==
    \/ CreateBallBearing
    \/ CreateDeepGrooveBallBearing
    \/ CreateThrustBallBearing
    \/ CreateCylindricalRollerBearing
    \/ CreatePrintInPlaceRollerBearing
    \/ CreatePrintedPlainBushing
    \/ CreatePlanetaryCarrier
    \/ CreateSpurGear
    \/ CreateHelicalGear
    \/ CreateInternalGear
    \/ ApplyGearBacklash
    \/ CreateExternalThread
    \/ CreateThreadedHole
    \/ ReturnPart

PartsSpec == PartsInit /\ [][PartsNext]_partsVars

-----------------------------------------------------------------------------
(* What an accepted part must look like, whatever the tool compared *)

Apart(a, b) == \/ a.out <= b.in \/ b.out <= a.in
               \/ a.hi <= b.lo \/ b.hi <= a.lo

Proper(s) == 0 <= s.in /\ s.in < s.out /\ s.lo < s.hi

\* The rolling elements are clear of a solid, or run in what was cut out of it.
ElementsClear(part, s) ==
    \/ part.n = 0
    \/ s.pocket >= part.r
    \/ part.pitch + part.r <= s.in \/ s.out <= part.pitch - part.r
    \/ part.hi <= s.lo \/ s.hi <= part.lo

HolesInside(part, s) ==
    s.in < part.pitch - part.r /\ part.pitch + 2 * part.r <= s.out

\* Balls are spaced by the arc between them and pin holes not at all: balls may
\* overlap by less than an eighth of their diameter, and seven or more holes may meet.
ElementsApart(tool, part) ==
    LET spacing == Chord(part.pitch, part.n)
    IN  CASE tool = "ball_bearing" -> 8 * spacing > 7 * (2 * part.r)
          [] tool = "carrier" -> part.n <= 6 => spacing > 2 * part.r
          [] OTHER -> part.n >= 2 => spacing > 2 * part.r

PostsClear(part) ==
    part.post > 0 => Chord(part.pitch, 2 * part.n) > part.r + part.post

\* The torus of a snug groove does not come out on the other side of its ring.
GrooveBacked(part, s) ==
    s.snug =>
        LET mid == (part.lo + part.hi) \div 2
        IN  IF s.in < part.pitch /\ part.pitch < s.out
            THEN mid - s.pocket > s.lo \/ mid + s.pocket < s.hi
            ELSE part.pitch - s.pocket > s.in \/ part.pitch + s.pocket < s.out

\* The far corners of a channel no wider than the wall is thick stay in the wall.
ChannelBacked(part, s) ==
    LET box == part.channel
    IN  box.half > 0 /\ 2 * box.half <= box.wall =>
            box.floor * box.floor + box.half * box.half < s.out * s.out

Fits(tool, part) ==
    /\ \A s \in part.solids : Proper(s)
    /\ \A s, t \in part.solids : s = t \/ Apart(s, t)
    /\ \A s \in part.solids : IF tool = "carrier" THEN HolesInside(part, s)
                              ELSE ElementsClear(part, s)
    /\ \A s \in part.solids : GrooveBacked(part, s) /\ ChannelBacked(part, s)
    /\ ElementsApart(tool, part)
    /\ PostsClear(part)
    /\ part.twist <= 500 * (part.sections - 1) \/ part.sections = 0

(* What the tools compare is enough for the parts they agree to build: the  *)
(* solids have material and do not run into one another, the rolling        *)
(* elements clear the races and the cage, and each other; pin holes stay in *)
(* the disc with a pin radius of edge, up to six of them apart; a groove of *)
(* conformity 1.00 and a channel no wider than its wall leave metal behind  *)
(* them; a helical gear has a section at least every five degrees.  What    *)
(* they do not compare is left out, and parts that fail it are accepted:    *)
(* the balls of create_ball_bearing, spaced by their arc, may overlap by    *)
(* less than an eighth of a diameter; seven or more pin holes may meet; a   *)
(* groove of greater conformity may cut through its race and a wider        *)
(* channel through its wall; the pockets may cut a thrust cage apart.       *)
AcceptedPartsFit == answer.built => Fits(answer.tool, answer.part)
=============================================================================
