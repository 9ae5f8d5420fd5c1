------------------------------- MODULE DxfReader -------------------------------
(***************************************************************************)
(* The parser of drawings, checked against a program that writes them.  A   *)
(* file is the sequence of its groups, <<code, value>>: two lines each.  The *)
(* loop of parse_dxf keeps nothing but what it has read, so the model takes   *)
(* a turn of it for every group that is written, and the variable parser is  *)
(* what the loop ends with if the file ends there.  What is made of every    *)
(* such file is compared with what has been drawn.                          *)
(*                                                                         *)
(* The place of a shape is the number of its first entity.  A list of        *)
(* measurements is a function of these places, whose order is that of the    *)
(* list; lengths are left to the segments that they are the sums of.         *)
(***************************************************************************)
EXTENDS Integers, Sequences, FiniteSetsExt

CONSTANTS
  Shapes,       \* what may be drawn: [kind, points, radius, flag]
  MaxGroups,    \* bound: groups in a file before its last shape
  MaxSections   \* bound: sections in a file

VARIABLES
  parser,       \* in_entities, and entities with current_entity at their end
  size,         \* how many groups have been written
  section,      \* the section that the writer is in, "none" between sections
  sections,     \* how many it has opened
  pending,      \* the groups of the shape or header that is being written
  offset,       \* how many of them have been written
  shape,        \* the shape in ENTITIES that is being drawn, as a sequence of none or one
  drawn,        \* the shapes in ENTITIES that are complete, by their places
  begun,        \* how many entities the writer has begun there
  ended,        \* how many of these belong to complete shapes
  misnamed      \* something else than that section has been named "ENTITIES"

dxfVars == <<parser, size, section, sections, pending, offset, shape, drawn, begun, ended, misnamed>>

\* A line has two points and a circle or an arc its center; numbers are integers.
ASSUME ShapesAssumption ==
  \A s \in Shapes :
    /\ s.kind \in {"LINE", "CIRCLE", "ARC", "LWPOLYLINE", "POLYLINE"}
    /\ s.points \in Seq(Int \X Int) /\ s.radius \in Int /\ s.flag \in Int
    /\ s.kind = "LINE" => Len(s.points) = 2
    /\ s.kind \in {"CIRCLE", "ARC"} => Len(s.points) = 1

-----------------------------------------------------------------------------
(* The parser.                                                             *)

\* The group codes that a measurement looks up in an entity.
Codes == {10, 11, 20, 21, 40, 70}

\* A new current_entity, and setdefault(code, []).append(value) of one.
Entity(type) == [type |-> type, values |-> [c \in Codes |-> <<>>]]
Extended(e, g) ==
  [e EXCEPT !.values = [c \in Codes |-> IF c = g[1] THEN Append(e.values[c], g[2]) ELSE e.values[c]]]

\* One turn of the loop of parse_dxf.  ENTITIES is recognised by its group
\* alone, wherever it stands; current_entity outlives its section.
ReadGroup(st, g) ==
  LET reading == CASE g[1] = 0 /\ g[2] \in {"SECTION", "ENDSEC"} -> FALSE
                   [] g[1] = 2 /\ g[2] = "ENTITIES" -> TRUE
                   [] OTHER -> st.reading
      es == st.entities
  IN [reading |-> reading,
      entities |->
        IF ~reading THEN es
        ELSE IF g[1] = 0 THEN Append(es, Entity(g[2]))
        ELSE [i \in DOMAIN es |-> IF i = Len(es) THEN Extended(es[i], g) ELSE es[i]]]

\* Mutant: the entity that the file ends in is forgotten.
MutantEntitiesClosed(st) == SubSeq(st.entities, 1, Len(st.entities) - 1)

\* What parse_dxf returns.
Entities(st) == st.entities

\* _get_float: 0 for a group that is missing.
Float(e, code) == IF e.values[code] = <<>> THEN 0 ELSE e.values[code][1]
Point(e, x, y) == <<Float(e, x), Float(e, y)>>

\* _get_points_lwpolyline
Vertices(e) ==
  LET xs == e.values[10]
      ys == e.values[20]
  IN [i \in 1..(IF Len(xs) < Len(ys) THEN Len(xs) ELSE Len(ys)) |-> <<xs[i], ys[i]>>]

Lines(es) ==
  [i \in {j \in DOMAIN es : es[j].type = "LINE"} |-> <<Point(es[i], 10, 20), Point(es[i], 11, 21)>>]

\* A circle or an arc of no radius is dropped.
Rounds(es, type) ==
  [i \in {j \in DOMAIN es : es[j].type = type /\ Float(es[j], 40) > 0} |->
     [center |-> Point(es[i], 10, 20), radius |-> Float(es[i], 40)]]

\* A closed line of two points is not closed by another one.
Segments(points, closed) ==
  [i \in 1..(Len(points) - 1) |-> <<points[i], points[i + 1]>>]
    \o (IF closed /\ Len(points) > 2 THEN <<<<points[Len(points)], points[1]>>>> ELSE <<>>)

Closed(e) == e.type = "LWPOLYLINE" /\ Float(e, 70) % 2 = 1
Polylines(es) ==
  [i \in {j \in DOMAIN es : es[j].type \in {"LWPOLYLINE", "POLYLINE"} /\ Len(Vertices(es[j])) >= 2} |->
     [closed |-> Closed(es[i]), vertices |-> Vertices(es[i]),
      segments |-> Segments(Vertices(es[i]), Closed(es[i]))]]

Corners(r) == {<<r.center[1] - r.radius, r.center[2] - r.radius>>,
               <<r.center[1] + r.radius, r.center[2] + r.radius>>}
Box(points) ==
  IF points = {} THEN <<>>
  ELSE LET xs == {p[1] : p \in points}
           ys == {p[2] : p \in points}
       IN <<Min(xs), Max(xs), Min(ys), Max(ys)>>

\* The points that the lists of measurements add to all_points.
AllPoints(lines, circles, arcs, polylines) ==
  UNION ({{lines[i][1], lines[i][2]} : i \in DOMAIN lines}
           \cup {Corners(circles[i]) : i \in DOMAIN circles}
           \cup {Corners(arcs[i]) : i \in DOMAIN arcs}
           \cup {{polylines[i].vertices[j] : j \in DOMAIN polylines[i].vertices} : i \in DOMAIN polylines})

\* get_measurements_data, and what extract_measurements words.
Measurements(es) ==
  LET lines == Lines(es)
      circles == Rounds(es, "CIRCLE")
      arcs == Rounds(es, "ARC")
      polylines == Polylines(es)
  IN [lines |-> lines, circles |-> circles, arcs |-> arcs, polylines |-> polylines,
      box |-> Box(AllPoints(lines, circles, arcs, polylines))]

-----------------------------------------------------------------------------
(* The program that writes the drawing.                                    *)

\* The coordinates of points, x and y in turn; those of vertices, each an entity.
Plot(points) ==
  [k \in 1..(2 * Len(points)) |->
     IF k % 2 = 1 THEN <<10, points[(k + 1) \div 2][1]>> ELSE <<20, points[k \div 2][2]>>]
PlotVertices(points) ==
  [k \in 1..(3 * Len(points)) |->
     CASE k % 3 = 1 -> <<0, "VERTEX">>
       [] k % 3 = 2 -> <<10, points[(k + 1) \div 3][1]>>
       [] k % 3 = 0 -> <<20, points[k \div 3][2]>>]

\* The groups of a shape; the vertices of an old POLYLINE are entities of their own.
Groups(s) ==
  LET p == s.points[1]
      q == s.points[2]
  IN CASE s.kind = "LINE" ->
            <<<<0, "LINE">>, <<8, "0">>, <<10, p[1]>>, <<20, p[2]>>, <<11, q[1]>>, <<21, q[2]>>>>
       [] s.kind \in {"CIRCLE", "ARC"} ->
            <<<<0, s.kind>>, <<10, p[1]>>, <<20, p[2]>>, <<40, s.radius>>>>
       [] s.kind = "LWPOLYLINE" ->
            <<<<0, s.kind>>, <<90, Len(s.points)>>, <<70, s.flag>>>> \o Plot(s.points)
       [] s.kind = "POLYLINE" ->
            <<<<0, s.kind>>, <<10, 0>>, <<20, 0>>, <<70, s.flag>>>>
              \o PlotVertices(s.points) \o <<<<0, "SEQEND">>>>

DxfInit ==
  /\ parser = [reading |-> FALSE, entities |-> <<>>] /\ size = 0
  /\ section = "none" /\ sections = 0 /\ pending = <<>> /\ offset = 0
  /\ shape = <<>> /\ drawn = <<>> /\ begun = 0 /\ ended = 0 /\ misnamed = FALSE

\* The next groups are those of a shape or a header; s is the shape, if it counts.
Begin(groups, s) ==
  /\ pending = <<>> /\ pending' = groups /\ shape' = s
  /\ UNCHANGED <<parser, size, offset, drawn, begun, ended>>

OpenSection(name) ==
  /\ section = "none" /\ sections < MaxSections
  /\ section' = name /\ sections' = sections + 1
  /\ Begin(<<<<0, "SECTION">>, <<2, name>>>>, <<>>)
  /\ UNCHANGED misnamed

CloseSection ==
  /\ section # "none" /\ section' = "none"
  /\ Begin(<<<<0, "ENDSEC">>>>, <<>>)
  /\ UNCHANGED <<sections, misnamed>>

\* A block holds shapes as well; a layer or a block may have any name.
Draw(s) ==
  /\ section \in {"BLOCKS", "ENTITIES"} /\ size < MaxGroups
  /\ Begin(Groups(s), IF section = "ENTITIES" THEN <<s>> ELSE <<>>)
  /\ UNCHANGED <<section, sections, misnamed>>

NameBlock ==
  /\ section = "BLOCKS" /\ ~misnamed /\ misnamed' = TRUE
  /\ Begin(<<<<0, "BLOCK">>, <<2, "ENTITIES">>>>, <<>>)
  /\ UNCHANGED <<section, sections>>

WriteGroup ==
  /\ pending # <<>>
  /\ LET g == pending[offset + 1]
     IN  /\ parser' = ReadGroup(parser, g)
         /\ begun' = IF shape # <<>> /\ g[1] = 0 THEN begun + 1 ELSE begun
  /\ size' = size + 1
  /\ \/ /\ offset + 1 < Len(pending) /\ offset' = offset + 1
        /\ UNCHANGED <<pending, shape, drawn, ended>>
     \/ /\ offset + 1 = Len(pending) /\ offset' = 0 /\ pending' = <<>> /\ shape' = <<>>
        /\ ended' = begun'
        /\ drawn' = IF shape = <<>> THEN drawn
                    ELSE [i \in DOMAIN drawn \cup {ended + 1} |->
                            IF i = ended + 1 THEN shape[1] ELSE drawn[i]]
  /\ UNCHANGED <<section, sections, misnamed>>

DxfNext ==
  \/ \E name \in {"HEADER", "BLOCKS", "ENTITIES"} : OpenSection(name)
  \/ \E s \in Shapes : Draw(s)
  \/ CloseSection \/ NameBlock \/ WriteGroup

DxfSpec == DxfInit /\ [][DxfNext]_dxfVars

-----------------------------------------------------------------------------
(* Properties.                                                             *)

\* What has been drawn, without the parser: a line of two points is not closed
\* by a third segment.  Missed names the one kind that the parser has a branch for
\* and never sees a point of: it looks for them in the entity itself
\* (dxf_parser.py:188, 326), and those of an old POLYLINE are VERTEX entities.
PolylineKinds == {"LWPOLYLINE", "POLYLINE"}
Missed == {"POLYLINE"}
Drawn(kinds) == {i \in DOMAIN drawn : drawn[i].kind \in kinds}
LinesDrawn == [i \in Drawn({"LINE"}) |-> drawn[i].points]
RoundsDrawn(kind) ==
  [i \in {j \in Drawn({kind}) : drawn[j].radius > 0} |->
     [center |-> drawn[i].points[1], radius |-> drawn[i].radius]]
Edges(s) == IF s.flag % 2 = 1 /\ Len(s.points) > 2 THEN Len(s.points) ELSE Len(s.points) - 1
PolylinesDrawn ==
  [i \in {j \in Drawn(PolylineKinds \ Missed) : Len(drawn[j].points) > 1} |->
     LET s == drawn[i]
         After(j) == IF j = Len(s.points) THEN s.points[1] ELSE s.points[j + 1]
     IN [closed |-> s.flag % 2 = 1, vertices |-> s.points,
         segments |-> [j \in 1..Edges(s) |-> <<s.points[j], After(j)>>]]]
Measurable(s) ==
  \/ s.kind = "LINE"
  \/ s.kind \in {"CIRCLE", "ARC"} /\ s.radius > 0
  \/ s.kind \in PolylineKinds \ Missed /\ Len(s.points) > 1
Extent(s) == IF s.kind \in {"CIRCLE", "ARC"}
             THEN Corners([center |-> s.points[1], radius |-> s.radius])
             ELSE {s.points[j] : j \in DOMAIN s.points}

\* What the model is told of a drawing: nothing of an old POLYLINE, no length and
\* no part of the box, although the code means to measure it; of every other
\* kind in the section ENTITIES exactly the shapes drawn, in their order, and the
\* box around them, for every file that ends between two shapes; a file that
\* ends within one still gives all the shapes before it.  Files that name
\* something else "ENTITIES" are the exception (dxf_parser.py:79).
OnlyOldPolylinesAreMissed ==
  ~misnamed =>
    LET m == Measurements(Entities(parser))
        Before(list) == [i \in {j \in DOMAIN list : j <= ended} |-> list[i]]
    IN /\ Before(m.lines) = LinesDrawn /\ Before(m.circles) = RoundsDrawn("CIRCLE")
       /\ Before(m.arcs) = RoundsDrawn("ARC") /\ Before(m.polylines) = PolylinesDrawn
       /\ shape = <<>> =>
            m = [lines |-> LinesDrawn, circles |-> RoundsDrawn("CIRCLE"), arcs |-> RoundsDrawn("ARC"),
                 polylines |-> PolylinesDrawn,
                 box |-> Box(UNION {Extent(drawn[i]) : i \in {j \in DOMAIN drawn : Measurable(drawn[j])}})]
=============================================================================
