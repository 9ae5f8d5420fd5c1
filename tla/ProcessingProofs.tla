---------------------------- MODULE ProcessingProofs ----------------------------
(***************************************************************************)
(* The theorems about src/processing: the offer, for any list of materials,  *)
(* any answer, any number of blocks and any number of edits of the rates;    *)
(* and the reader of drawings, for any set of shapes.                       *)
(***************************************************************************)
EXTENDS Offer, DxfReader, SequenceTheorems, TLAPS

-----------------------------------------------------------------------------
(* The offer.                                                              *)

\* The cells of the blocks that _clear_positions empties.
Cleared == UNION {BlockCells(i) : i \in 0..(MaxPositions - 1)}

\* The first positions are in their blocks, and the other blocks are blank.
Filled ==
  /\ DOMAIN sheet = Cleared
  /\ \A i \in 0..(MaxPositions - 1), d \in Inputs :
       sheet[<<Base(i) + d[1], d[2]>>] = IF i < written THEN Written(d, i) ELSE <<"blank">>

\* While the sheet is being filled, what is written is what was answered.
OfferInv ==
  /\ Len(positions) \in Nat
  /\ stage \in {"parsed", "loaded"} => written = 0
  /\ stage \in {"cleared", "saved"} => written \in 0..Kept /\ Filled
  /\ stage = "saved" => written = Kept

-----------------------------------------------------------------------------
(* The layout of the sheet.                                                *)

LEMMA InputOffsets ==
  ASSUME NEW d \in Inputs
  PROVE  /\ d = <<d[1], d[2]>> /\ d[1] \in 0..(BlockHeight - 1)
         /\ d[2] \in {"material", "price", "area", "hours"}
BY OfferAssumption DEF Inputs, Laser, Bending, Turning, Welding, Painting

\* A row is that of one block and one offset.
LEMMA BlocksApart ==
  ASSUME NEW i \in Nat, NEW k \in Nat, NEW o \in 0..(BlockHeight - 1), NEW p \in 0..(BlockHeight - 1),
         Base(i) + o = Base(k) + p
  PROVE  i = k /\ o = p
<1> USE OfferAssumption DEF Painting
<1>1. i * BlockHeight + o = k * BlockHeight + p
  BY DEF Base, FirstRow
<1>2. ~ (i < k)
  <2> SUFFICES ASSUME i < k PROVE FALSE
    OBVIOUS
  <2>1. k = i + 1 + (k - i - 1) /\ k - i - 1 \in Nat
    OBVIOUS
  <2>2. k * BlockHeight = i * BlockHeight + BlockHeight + (k - i - 1) * BlockHeight
    BY <2>1
  <2>3. (k - i - 1) * BlockHeight >= 0
    BY <2>1
  <2> QED
    BY <1>1, <2>2, <2>3
<1>3. ~ (k < i)
  <2> SUFFICES ASSUME k < i PROVE FALSE
    OBVIOUS
  <2>1. i = k + 1 + (i - k - 1) /\ i - k - 1 \in Nat
    OBVIOUS
  <2>2. i * BlockHeight = k * BlockHeight + BlockHeight + (i - k - 1) * BlockHeight
    BY <2>1
  <2>3. (i - k - 1) * BlockHeight >= 0
    BY <2>1
  <2> QED
    BY <1>1, <2>2, <2>3
<1>4. i = k
  BY <1>2, <1>3
<1> QED
  BY <1>1, <1>4

\* A cell of one block is in no other, and at one offset in its own.
LEMMA CellsApart ==
  ASSUME NEW i \in Nat, NEW k \in Nat, NEW d \in Inputs, NEW e,
         e = <<e[1], e[2]>>, e[1] \in 0..(BlockHeight - 1),
         <<Base(i) + d[1], d[2]>> = <<Base(k) + e[1], e[2]>>
  PROVE  i = k /\ d = e
<1>1. Base(i) + d[1] = Base(k) + e[1] /\ d[2] = e[2]
  OBVIOUS
<1>2. i = k /\ d[1] = e[1]
  BY <1>1, InputOffsets, BlocksApart
<1> QED
  BY <1>1, <1>2, InputOffsets

\* Division finds the block and the offset of a row.
LEMMA RowOf ==
  ASSUME NEW row \in FirstRow .. (FirstRow + Blocks * BlockHeight - 1)
  PROVE  LET i == (row - FirstRow) \div BlockHeight
             o == (row - FirstRow) % BlockHeight
         IN i \in Nat /\ o \in 0..(BlockHeight - 1) /\ row = Base(i) + o
<1> DEFINE n == row - FirstRow
           i == n \div BlockHeight
           o == n % BlockHeight
<1>1. Blocks * BlockHeight \in Int
  BY OfferAssumption
<1>2. n \in Nat /\ row = FirstRow + n
  BY <1>1 DEF FirstRow
<1>3. BlockHeight \in Nat /\ BlockHeight > 0
  BY OfferAssumption DEF Painting
<1> HIDE DEF n
<1>4. i \in Nat /\ o \in 0..(BlockHeight - 1) /\ n = i * BlockHeight + o
  BY <1>2, <1>3
<1>5. row = Base(i) + o
  <2> HIDE DEF i, o
  <2>1. i * BlockHeight \in Nat
    BY <1>3, <1>4
  <2> QED
    BY <1>2, <1>4, <2>1 DEF Base, FirstRow
<1> QED
  BY <1>4, <1>5 DEF n

LEMMA InACleared ==
  ASSUME NEW i \in 0..(MaxPositions - 1), NEW d \in Inputs
  PROVE  <<Base(i) + d[1], d[2]>> \in Cleared /\ <<Base(i) + d[1], d[2]>> \in BlockCells(i)
BY DEF Cleared, BlockCells

-----------------------------------------------------------------------------
(* The steps.                                                              *)

LEMMA ClearKeepsInv ==
  ASSUME OfferInv, ClearPositions
  PROVE  OfferInv'
<1>1. /\ stage = "loaded" /\ stage' = "cleared" /\ UNCHANGED <<positions, used, written>>
      /\ sheet' = [c \in Cleared |-> <<"blank">>]
  BY DEF ClearPositions, Cleared
<1>2. written' = 0 /\ Len(positions) \in Nat
  BY <1>1 DEF OfferInv
<1>3. Kept' \in Nat
  BY <1>1, <1>2, OfferAssumption DEF Kept
<1>4. Filled'
  BY <1>1, <1>2, InACleared DEF Filled
<1> QED
  BY <1>1, <1>2, <1>3, <1>4 DEF OfferInv

LEMMA WriteKeepsInv ==
  ASSUME OfferInv, WritePosition
  PROVE  OfferInv'
<1> USE OfferAssumption
<1>1. /\ stage = "cleared" /\ written < Kept /\ written' = written + 1
      /\ UNCHANGED <<positions, stage, used>>
      /\ sheet' = [c \in BlockCells(written) \cup DOMAIN sheet |->
                     IF c \in BlockCells(written)
                     THEN Written(<<c[1] - Base(written), c[2]>>, written) ELSE sheet[c]]
  BY DEF WritePosition
<1>2. written \in 0..Kept /\ Filled /\ Len(positions) \in Nat
  BY <1>1 DEF OfferInv
<1>3. Kept' = Kept /\ Kept \in 0..MaxPositions
  BY <1>1, <1>2 DEF Kept
<1>4. written \in 0..(MaxPositions - 1) /\ written' \in 0..Kept'
  BY <1>1, <1>2, <1>3
<1>5. ASSUME NEW d, NEW i PROVE Written(d, i)' = Written(d, i)
  BY <1>1 DEF Written, Hours
<1>6. DOMAIN sheet' = Cleared
  <2>1. BlockCells(written) \subseteq Cleared
    BY <1>4 DEF Cleared
  <2> QED
    BY <1>1, <1>2, <2>1 DEF Filled
<1>7. ASSUME NEW i \in 0..(MaxPositions - 1), NEW d \in Inputs
      PROVE  sheet'[<<Base(i) + d[1], d[2]>>] = IF i < written' THEN Written(d, i) ELSE <<"blank">>
  <2> DEFINE c == <<Base(i) + d[1], d[2]>>
  <2>1. c \in Cleared /\ c \in DOMAIN sheet
    BY <1>2, InACleared DEF Filled
  <2>2. CASE i = written
    <3>1. c \in BlockCells(written)
      BY <2>2, InACleared
    <3>2. <<c[1] - Base(written), c[2]>> = d
      <4>1. Base(i) \in Int /\ d[1] \in Int /\ d = <<d[1], d[2]>>
        BY InputOffsets DEF Base, FirstRow
      <4> QED
        BY <2>2, <4>1
    <3>3. sheet'[c] = Written(d, i)
      BY <1>1, <2>1, <2>2, <3>1, <3>2
    <3> QED
      BY <1>1, <1>4, <2>2, <3>3
  <2>3. CASE i # written
    <3>1. c \notin BlockCells(written)
      <4> SUFFICES ASSUME NEW e \in Inputs, c = <<Base(written) + e[1], e[2]>> PROVE FALSE
        BY DEF BlockCells
      <4>1. e = <<e[1], e[2]>> /\ e[1] \in 0..(BlockHeight - 1) /\ i \in Nat /\ written \in Nat
        BY <1>4, InputOffsets
      <4> QED
        BY <2>3, <4>1, CellsApart
    <3>2. sheet'[c] = sheet[c]
      BY <1>1, <2>1, <3>1
    <3>3. sheet[c] = IF i < written THEN Written(d, i) ELSE <<"blank">>
      BY <1>2 DEF Filled
    <3>4. i < written' <=> i < written
      BY <1>1, <1>4, <2>3
    <3> QED
      BY <3>2, <3>3, <3>4
  <2> QED
    BY <2>2, <2>3
<1>8. Filled'
  BY <1>5, <1>6, <1>7 DEF Filled
<1> QED
  BY <1>1, <1>2, <1>3, <1>4, <1>8 DEF OfferInv

\* A step that leaves the answer, the rates that are used and the sheet alone.
LEMMA OfferFrame ==
  ASSUME OfferInv, UNCHANGED <<positions, stage, used, sheet, written>>
  PROVE  OfferInv'
BY DEF OfferInv, Filled, Kept, Written, Hours

LEMMA OfferStepKeepsInv ==
  ASSUME OfferInv, [OfferNext]_offerVars
  PROVE  OfferInv'
<1>1. ASSUME NEW z \in SUBSET Rates, EditRates(z) PROVE OfferInv'
  BY <1>1, OfferFrame DEF EditRates
<1>2. ASSUME NEW n \in 1..MaxAnswer, NEW ids \in [1..n -> -1..Len(Materials)], Parse(ids)
      PROVE  OfferInv'
  <2>1. stage' \in {"parsed", "failed"} /\ written' = 0
    BY <1>2 DEF Parse
  <2>2. Len(positions') \in Nat
    <3>1. CASE positions' = <<>>
      BY <3>1
    <3>2. CASE positions' = [i \in DOMAIN ids |-> Named(ids[i])]
      <4>1. positions' \in Seq({Named(ids[i]) : i \in 1..n})
        BY <3>2
      <4> QED
        BY <4>1
    <3> QED
      BY <1>2, <3>1, <3>2 DEF Parse
  <2> QED
    BY <2>1, <2>2 DEF OfferInv
<1>3. ASSUME LoadRates PROVE OfferInv'
  BY <1>3 DEF LoadRates, OfferInv
<1>4. ASSUME RefusePositions PROVE OfferInv'
  BY <1>4 DEF RefusePositions, OfferInv
<1>5. ASSUME ClearPositions PROVE OfferInv'
  BY <1>5, ClearKeepsInv
<1>6. ASSUME WritePosition PROVE OfferInv'
  BY <1>6, WriteKeepsInv
<1>7. ASSUME SaveOffer PROVE OfferInv'
  BY <1>7 DEF SaveOffer, OfferInv, Filled, Kept, Written, Hours
<1>8. CASE UNCHANGED offerVars
  BY <1>8, OfferFrame DEF offerVars
<1> QED
  BY <1>1, <1>2, <1>3, <1>4, <1>5, <1>6, <1>7, <1>8 DEF OfferNext

-----------------------------------------------------------------------------
(* What a saved sheet holds.                                               *)

\* A reader expects in a cell that is owned what the calculator writes there.
LEMMA WrittenIsExpected ==
  ASSUME NEW d \in Inputs, NEW i \in Nat, NEW c, d[2] = c[2], i < Kept, i < MaxPositions,
         (c[1] - FirstRow) \div BlockHeight = i, (c[1] - FirstRow) % BlockHeight = d[1]
  PROVE  Written(d, i) = Expected(c)
<1>1. d = <<d[1], c[2]>>
  BY InputOffsets
<1>2. /\ ~ (<<d[1], c[2]>> \notin Inputs \/ i >= MaxPositions)
      /\ ~ (i >= Kept)
  BY <1>1, OfferAssumption DEF Kept
<1>3. Expected(c) =
        CASE c[2] = "material" -> <<positions[i + 1]>>
          [] c[2] = "price" -> <<"price of", positions[i + 1]>>
          [] c[2] = "area" -> <<IF d[1] = Laser THEN "area_m2" ELSE "painting_m2", i>>
          [] c[2] = "hours" /\ ~(d[1] \in DOMAIN Measured) -> <<"turning_hours", i>>
          [] c[2] = "hours" /\ d[1] \in DOMAIN Measured -> Hours(Measured[d[1]], i)
  BY <1>1, <1>2 DEF Expected, Hours
<1> USE DEF Laser, Bending, Turning, Welding, Painting
<1>4. CASE d = <<Laser, "material">>
  BY <1>3, <1>4 DEF Written
<1>5. CASE d = <<Laser, "price">>
  BY <1>3, <1>5 DEF Written
<1>6. CASE d \in {Laser, Painting} \X {"area"}
  <2>1. Expected(c) = <<IF d[1] = Laser THEN "area_m2" ELSE "painting_m2", i>>
    BY <1>3, <1>6
  <2>2. CASE d = <<Laser, "area">>
    BY <2>1, <2>2 DEF Written
  <2>3. CASE d = <<Painting, "area">>
    BY <2>1, <2>3 DEF Written
  <2> QED
    BY <1>6, <2>2, <2>3
<1>7. CASE d = <<Turning, "hours">>
  <2>1. d[1] \notin DOMAIN Measured /\ c[2] = "hours"
    BY <1>7 DEF Measured
  <2>2. Expected(c) = <<"turning_hours", i>>
    BY <1>3, <2>1
  <2> QED
    BY <1>7, <2>2 DEF Written
<1>8. CASE d \in {Laser, Bending, Welding, Painting} \X {"hours"}
  <2>1. d[1] \in DOMAIN Measured /\ c[2] = "hours"
    BY <1>8 DEF Measured
  <2>2. Expected(c) = Hours(Measured[d[1]], i)
    BY <1>3, <2>1
  <2>3. Written(d, i) = Hours(Measured[d[1]], i)
    <3>1. CASE d = <<Laser, "hours">>
      BY <3>1 DEF Written, Measured
    <3>2. CASE d = <<Bending, "hours">>
      BY <3>2 DEF Written, Measured
    <3>3. CASE d = <<Welding, "hours">>
      BY <3>3 DEF Written, Measured
    <3>4. CASE d = <<Painting, "hours">>
      BY <3>4 DEF Written, Measured
    <3> QED
      BY <1>8, <3>1, <3>2, <3>3, <3>4
  <2> QED
    BY <2>2, <2>3
<1> QED
  BY <1>4, <1>5, <1>6, <1>7, <1>8 DEF Inputs

LEMMA SavedIsTheAnswer ==
  ASSUME OfferInv
  PROVE  OfferIsTheAnswer
<1> USE OfferAssumption
<1> SUFFICES ASSUME stage = "saved", NEW c \in Cells PROVE Held(c) = Expected(c)
  BY DEF OfferIsTheAnswer
<1> DEFINE i == (c[1] - FirstRow) \div BlockHeight
           o == (c[1] - FirstRow) % BlockHeight
           d == <<o, c[2]>>
<1>1. i \in Nat /\ o \in 0..(BlockHeight - 1) /\ c = <<Base(i) + o, c[2]>>
  BY RowOf DEF Cells
<1>2. Filled /\ written = Kept /\ Kept \in 0..MaxPositions
  <2>1. Filled /\ written = Kept /\ Len(positions) \in Nat
    BY DEF OfferInv
  <2> QED
    BY <2>1 DEF Kept
<1>3. CASE d \notin Inputs \/ i >= MaxPositions
  <2>1. c \notin DOMAIN sheet
    <3> SUFFICES ASSUME NEW k \in 0..(MaxPositions - 1), NEW e \in Inputs,
                        c = <<Base(k) + e[1], e[2]>>
                 PROVE  FALSE
      BY <1>2 DEF Filled, Cleared, BlockCells
    <3>1. k = i /\ e = d
      <4>1. d[1] \in 0..(BlockHeight - 1) /\ d = <<d[1], d[2]>>
        BY <1>1
      <4>2. <<Base(k) + e[1], e[2]>> = <<Base(i) + d[1], d[2]>>
        BY <1>1
      <4>3. k \in Nat /\ i \in Nat
        BY <1>1
      <4> HIDE DEF i, d
      <4> QED
        BY <4>1, <4>2, <4>3, CellsApart
    <3> QED
      BY <1>3, <3>1
  <2> QED
    BY <1>3, <2>1 DEF Held, Expected
<1>4. CASE d \in Inputs /\ i < MaxPositions
  <2>1. i \in 0..(MaxPositions - 1)
    BY <1>1, <1>4
  <2>2. c \in DOMAIN sheet /\ sheet[c] = IF i < Kept THEN Written(d, i) ELSE <<"blank">>
    BY <1>1, <1>2, <1>4, <2>1, InACleared DEF Filled
  <2>3. CASE i < Kept
    BY <1>1, <1>4, <2>2, <2>3, WrittenIsExpected DEF Held
  <2>4. CASE ~ (i < Kept)
    <3>1. i >= Kept /\ ~ (i >= MaxPositions)
      BY <1>1, <1>2, <1>4, <2>4
    <3> QED
      BY <1>4, <2>2, <2>4, <3>1 DEF Held, Expected
  <2> QED
    BY <2>3, <2>4
<1> QED
  BY <1>1, <1>3, <1>4

\* The invariant of the offer (calc.py:144-307).
THEOREM OfferInvariant == OfferSpec => []OfferInv
<1>1. OfferInit => OfferInv
  BY DEF OfferInit, OfferInv
<1>2. OfferInv /\ [OfferNext]_offerVars => OfferInv'
  BY OfferStepKeepsInv
<1> QED
  BY <1>1, <1>2, PTL DEF OfferSpec

\* A saved offer holds what the answer said of its first positions, by the
\* rates of one moment, in a block for each, and the template elsewhere.
THEOREM SavedOfferIsTheAnswer == OfferSpec => []OfferIsTheAnswer
<1>1. OfferInv => OfferIsTheAnswer
  BY SavedIsTheAnswer
<1> QED
  BY <1>1, OfferInvariant, PTL

-----------------------------------------------------------------------------
(* The reader of drawings.                                                 *)

\* The values of a code whose only group is the n-th of its shape, after k groups.
From(k, n, v) == IF k >= n THEN <<v>> ELSE <<>>

\* The coordinates among the first k groups of an LWPOLYLINE.
Abscissas(k) == IF k <= 3 THEN 0 ELSE (k - 2) \div 2
Ordinates(k) == IF k <= 3 THEN 0 ELSE (k - 3) \div 2

Types == {"LINE", "CIRCLE", "ARC", "LWPOLYLINE", "POLYLINE", "VERTEX", "SEQEND"}
Ent == [type : Types, values : [Codes -> Seq(Int)]]
Parsers == [reading : BOOLEAN, entities : Seq(Ent)]

\* What the entity of the shape s holds when k groups of the shape have been read.
Looks(e, s, k) ==
  /\ e \in Ent /\ e.type = s.kind
  /\ s.kind = "LINE" =>
       /\ e.values[10] = From(k, 3, s.points[1][1]) /\ e.values[20] = From(k, 4, s.points[1][2])
       /\ e.values[11] = From(k, 5, s.points[2][1]) /\ e.values[21] = From(k, 6, s.points[2][2])
  /\ s.kind \in {"CIRCLE", "ARC"} =>
       /\ e.values[10] = From(k, 2, s.points[1][1]) /\ e.values[20] = From(k, 3, s.points[1][2])
       /\ e.values[40] = From(k, 4, s.radius)
  /\ s.kind = "LWPOLYLINE" =>
       /\ e.values[70] = From(k, 3, s.flag)
       /\ e.values[10] = [i \in 1..Abscissas(k) |-> s.points[i][1]]
       /\ e.values[20] = [i \in 1..Ordinates(k) |-> s.points[i][2]]
  /\ s.kind = "POLYLINE" => e.values[10] = From(k, 2, 0)

\* A vertex or the end of an old POLYLINE, which is not measured.
Part(e) == e \in Ent /\ e.type \in {"VERTEX", "SEQEND"}

\* Behind n entities of complete shapes, those of s after k of its groups.  An
\* old POLYLINE stays the last entity for four groups.
Sketch(es, n, s, k) ==
  /\ k = 0 => Len(es) = n
  /\ k > 0 =>
       /\ Len(es) > n /\ Looks(es[n + 1], s, k) /\ \A i \in (n + 2)..Len(es) : Part(es[i])
       /\ Len(es) = n + 1 <=> (s.kind # "POLYLINE" \/ k <= 4)

\* The first n entities are those of the shapes in d, each at its place.
Complete(es, n, d) ==
  /\ DOMAIN d \subseteq 1..n
  /\ \A i \in DOMAIN d : d[i] \in Shapes /\ Looks(es[i], d[i], Len(Groups(d[i])))
  /\ \A i \in (1..n) \ DOMAIN d : Part(es[i])

Read ==
  /\ parser \in Parsers /\ begun = Len(parser.entities) /\ ended \in 0..begun
  /\ Complete(parser.entities, ended, drawn)

\* What the writer is at, and whether the parser takes it for an entity.
Idle == pending = <<>> /\ offset = 0 /\ (parser.reading <=> section = "ENTITIES")
Opening ==
  /\ section \in {"HEADER", "BLOCKS", "ENTITIES"} /\ offset \in 0..1
  /\ pending = <<<<0, "SECTION">>, <<2, section>>>> /\ ~parser.reading
Closing == section = "none" /\ offset = 0 /\ pending = <<<<0, "ENDSEC">>>>
InBlock(s) ==
  /\ section = "BLOCKS" /\ ~parser.reading
  /\ pending = Groups(s) /\ offset \in 0..(Len(pending) - 1)
Sketching(s) ==
  /\ section = "ENTITIES" /\ parser.reading
  /\ pending = Groups(s) /\ offset \in 0..(Len(pending) - 1)
  /\ shape = <<s>> /\ Sketch(parser.entities, ended, s, offset)
Between == shape = <<>> /\ ended = begun

\* What a file that misnames nothing makes of the parser.
DxfInv ==
  ~misnamed =>
    /\ Read
    /\ \/ Between /\ (Idle \/ Opening \/ Closing \/ \E s \in Shapes : InBlock(s))
       \/ \E s \in Shapes : Sketching(s)

-----------------------------------------------------------------------------
(* The groups of a shape.                                                  *)

LEMMA ShapeTypes ==
  ASSUME NEW s \in Shapes
  PROVE  /\ s.kind \in {"LINE", "CIRCLE", "ARC", "LWPOLYLINE", "POLYLINE"}
         /\ s.points \in Seq(Int \X Int) /\ s.radius \in Int /\ s.flag \in Int
         /\ Len(s.points) \in Nat /\ DOMAIN s.points = 1..Len(s.points)
         /\ \A i \in 1..Len(s.points) : s.points[i][1] \in Int /\ s.points[i][2] \in Int
         /\ s.kind = "LINE" => Len(s.points) = 2
         /\ s.kind \in {"CIRCLE", "ARC"} => Len(s.points) = 1
<1>1. s.points \in Seq(Int \X Int)
  BY ShapesAssumption
<1>2. \A i \in 1..Len(s.points) : s.points[i] \in Int \X Int
  BY <1>1
<1> QED
  BY <1>1, <1>2, ShapesAssumption

\* Two sequences, one after the other.
LEMMA Joined ==
  ASSUME NEW S, NEW p \in Seq(S), NEW q \in Seq(S)
  PROVE  /\ p \o q \in Seq(S) /\ Len(p \o q) = Len(p) + Len(q)
         /\ \A k \in 1..Len(p) : (p \o q)[k] = p[k]
         /\ \A k \in (Len(p) + 1)..(Len(p) + Len(q)) : (p \o q)[k] = q[k - Len(p)]
<1> DEFINE r == p \o q
<1>1. /\ r \in Seq(S) /\ Len(r) = Len(p) + Len(q)
      /\ \A k \in 1..(Len(p) + Len(q)) : r[k] = IF k <= Len(p) THEN p[k] ELSE q[k - Len(p)]
  BY ConcatProperties
<1>2. Len(p) \in Nat /\ Len(q) \in Nat
  OBVIOUS
<1> HIDE DEF r
<1>3. \A k \in 1..Len(p) : r[k] = p[k]
  BY <1>1, <1>2
<1>4. \A k \in (Len(p) + 1)..(Len(p) + Len(q)) : r[k] = q[k - Len(p)]
  BY <1>1, <1>2
<1> QED
  BY <1>1, <1>3, <1>4 DEF r

\* The coordinates of a line of several points, of two groups each.
LEMMA LightGroups ==
  ASSUME NEW s \in Shapes, s.kind = "LWPOLYLINE"
  PROVE  /\ Groups(s) \in Seq(Int \X (Int \cup {"LWPOLYLINE"}))
         /\ Len(Groups(s)) = 3 + 2 * Len(s.points)
         /\ Groups(s)[1] = <<0, "LWPOLYLINE">> /\ Groups(s)[2] = <<90, Len(s.points)>>
         /\ Groups(s)[3] = <<70, s.flag>>
         /\ \A k \in 4..Len(Groups(s)) :
              Groups(s)[k] = IF k % 2 = 0 THEN <<10, s.points[(k - 2) \div 2][1]>>
                             ELSE <<20, s.points[(k - 3) \div 2][2]>>
<1> DEFINE V == Int \X (Int \cup {"LWPOLYLINE"})
           header == <<<<0, "LWPOLYLINE">>, <<90, Len(s.points)>>, <<70, s.flag>>>>
           plot == Plot(s.points)
           n == Len(s.points)
<1>1. n \in Nat /\ \A i \in 1..n : s.points[i][1] \in Int /\ s.points[i][2] \in Int
  BY ShapeTypes
<1>2. header \in Seq(V) /\ Len(header) = 3
  BY <1>1, ShapeTypes
<1>3. \A j \in 1..(2 * n) :
         /\ j % 2 = 1 => (j + 1) \div 2 \in 1..n
         /\ j % 2 # 1 => j \div 2 \in 1..n
  BY <1>1
<1>4. \A j \in 1..(2 * n) : plot[j] \in V
  <2> TAKE j \in 1..(2 * n)
  <2>1. CASE j % 2 = 1
    <3>1. plot[j] = <<10, s.points[(j + 1) \div 2][1]>>
      BY <2>1 DEF Plot
    <3> QED
      BY <3>1, <2>1, <1>1, <1>3
  <2>2. CASE j % 2 # 1
    <3>1. plot[j] = <<20, s.points[j \div 2][2]>>
      BY <2>2 DEF Plot
    <3> QED
      BY <3>1, <2>2, <1>1, <1>3
  <2> QED
    BY <2>1, <2>2
<1>5. plot \in Seq(V) /\ Len(plot) = 2 * n
  <2>1. plot \in [1..(2 * n) -> V]
    BY <1>4 DEF Plot
  <2> QED
    BY <2>1, <1>1
<1>6. Groups(s) = header \o plot
  BY DEF Groups
<1>7. \A j \in 1..(2 * n) :
         plot[j] = IF j % 2 = 1 THEN <<10, s.points[(j + 1) \div 2][1]>> ELSE <<20, s.points[j \div 2][2]>>
  BY DEF Plot
<1>8. header[1] = <<0, "LWPOLYLINE">> /\ header[2] = <<90, Len(s.points)>> /\ header[3] = <<70, s.flag>>
  OBVIOUS
<1> HIDE DEF header, plot, V
<1>9. /\ Groups(s) \in Seq(V) /\ Len(Groups(s)) = 3 + 2 * n
      /\ \A k \in 1..3 : Groups(s)[k] = header[k]
      /\ \A k \in 4..(3 + 2 * n) : Groups(s)[k] = plot[k - 3]
  <2>1. /\ header \o plot \in Seq(V) /\ Len(header \o plot) = Len(header) + Len(plot)
        /\ \A k \in 1..Len(header) : (header \o plot)[k] = header[k]
        /\ \A k \in (Len(header) + 1)..(Len(header) + Len(plot)) :
             (header \o plot)[k] = plot[k - Len(header)]
    BY <1>2, <1>5, Joined
  <2> HIDE DEF n
  <2> QED
    BY <2>1, <1>1, <1>2, <1>5, <1>6
<1>10. \A k \in 4..(3 + 2 * n) :
         Groups(s)[k] = IF k % 2 = 0 THEN <<10, s.points[(k - 2) \div 2][1]>>
                             ELSE <<20, s.points[(k - 3) \div 2][2]>>
  <2> TAKE k \in 4..(3 + 2 * n)
  <2>0. k \in Int /\ k >= 4 /\ k <= 3 + 2 * n
    BY <1>1
  <2>1. k - 3 \in 1..(2 * n) /\ (k - 3) + 1 = k - 2
    BY <1>1, <2>0
  <2>2. k % 2 = 0 <=> (k - 3) % 2 = 1
    BY <2>0
  <2>3. Groups(s)[k] = plot[k - 3]
    BY <1>9
  <2>4. plot[k - 3] = IF (k - 3) % 2 = 1 THEN <<10, s.points[((k - 3) + 1) \div 2][1]>>
                      ELSE <<20, s.points[(k - 3) \div 2][2]>>
    BY <2>1, <1>7
  <2> QED
    BY <2>1, <2>2, <2>3, <2>4
<1>11. Groups(s)[1] = header[1] /\ Groups(s)[2] = header[2] /\ Groups(s)[3] = header[3]
  BY <1>9
<1>12. Groups(s) \in Seq(Int \X (Int \cup {"LWPOLYLINE"}))
  BY <1>9 DEF V
<1> QED
  BY <1>8, <1>9, <1>10, <1>11, <1>12

\* The entities of an old POLYLINE, of which the first has four groups.
LEMMA OldGroups ==
  ASSUME NEW s \in Shapes, s.kind = "POLYLINE"
  PROVE  /\ Groups(s) \in Seq(Int \X (Int \cup {"POLYLINE", "VERTEX", "SEQEND"}))
         /\ Len(Groups(s)) >= 5
         /\ Groups(s)[1] = <<0, "POLYLINE">> /\ Groups(s)[2] = <<10, 0>>
         /\ Groups(s)[3] = <<20, 0>> /\ Groups(s)[4] = <<70, s.flag>>
         /\ Groups(s)[5][1] = 0
         /\ \A k \in 5..Len(Groups(s)) :
              \/ Groups(s)[k] = <<0, "VERTEX">> \/ Groups(s)[k] = <<0, "SEQEND">>
              \/ Groups(s)[k][1] \in {10, 20} /\ Groups(s)[k][2] \in Int
<1> DEFINE V == Int \X (Int \cup {"POLYLINE", "VERTEX", "SEQEND"})
           header == <<<<0, "POLYLINE">>, <<10, 0>>, <<20, 0>>, <<70, s.flag>>>>
           plot == PlotVertices(s.points)
           end == <<<<0, "SEQEND">>>>
           n == Len(s.points)
           Drawing(g) == \/ g = <<0, "VERTEX">> \/ g = <<0, "SEQEND">>
                         \/ g[1] \in {10, 20} /\ g[2] \in Int
<1>1. n \in Nat /\ \A i \in 1..n : s.points[i][1] \in Int /\ s.points[i][2] \in Int
  BY ShapeTypes
<1>2. header \in Seq(V) /\ Len(header) = 4 /\ end \in Seq(V) /\ Len(end) = 1 /\ end[1] = <<0, "SEQEND">>
  BY <1>1, ShapeTypes
<1>3. \A j \in 1..(3 * n) :
         /\ j % 3 = 2 => (j + 1) \div 3 \in 1..n
         /\ j % 3 = 0 => j \div 3 \in 1..n
         /\ j % 3 \in {0, 1, 2}
  BY <1>1
<1>4. \A j \in 1..(3 * n) : plot[j] \in V /\ Drawing(plot[j])
  <2> TAKE j \in 1..(3 * n)
  <2>1. CASE j % 3 = 1
    BY <2>1 DEF PlotVertices
  <2>2. CASE j % 3 = 2
    <3>1. plot[j] = <<10, s.points[(j + 1) \div 3][1]>>
      BY <2>2 DEF PlotVertices
    <3> QED
      BY <3>1, <2>2, <1>1, <1>3
  <2>3. CASE j % 3 = 0
    <3>1. plot[j] = <<20, s.points[j \div 3][2]>>
      BY <2>3 DEF PlotVertices
    <3> QED
      BY <3>1, <2>3, <1>1, <1>3
  <2> QED
    BY <2>1, <2>2, <2>3, <1>3
<1>5. plot \in Seq(V) /\ Len(plot) = 3 * n
  <2>1. plot \in [1..(3 * n) -> V]
    BY <1>4 DEF PlotVertices
  <2> QED
    BY <2>1, <1>1
<1>6. Groups(s) = (header \o plot) \o end
  BY DEF Groups
<1>7. n > 0 => plot[1] = <<0, "VERTEX">>
  BY <1>1 DEF PlotVertices
<1>8. /\ header[1] = <<0, "POLYLINE">> /\ header[2] = <<10, 0>>
      /\ header[3] = <<20, 0>> /\ header[4] = <<70, s.flag>>
  OBVIOUS
<1> HIDE DEF header, plot, end, V
<1>9. /\ header \o plot \in Seq(V) /\ Len(header \o plot) = 4 + 3 * n
      /\ \A k \in 1..4 : (header \o plot)[k] = header[k]
      /\ \A k \in 5..(4 + 3 * n) : (header \o plot)[k] = plot[k - 4]
  <2>1. /\ header \o plot \in Seq(V) /\ Len(header \o plot) = Len(header) + Len(plot)
        /\ \A k \in 1..Len(header) : (header \o plot)[k] = header[k]
        /\ \A k \in (Len(header) + 1)..(Len(header) + Len(plot)) :
             (header \o plot)[k] = plot[k - Len(header)]
    BY <1>2, <1>5, Joined
  <2> HIDE DEF n
  <2> QED
    BY <2>1, <1>1, <1>2, <1>5
<1>10. /\ Groups(s) \in Seq(V) /\ Len(Groups(s)) = 5 + 3 * n
       /\ \A k \in 1..(4 + 3 * n) : Groups(s)[k] = (header \o plot)[k]
       /\ Groups(s)[5 + 3 * n] = end[1]
  <2> DEFINE front == header \o plot
  <2> HIDE DEF front
  <2>1. front \in Seq(V) /\ Len(front) = 4 + 3 * n
    BY <1>9 DEF front
  <2>2. /\ front \o end \in Seq(V) /\ Len(front \o end) = Len(front) + Len(end)
        /\ \A k \in 1..Len(front) : (front \o end)[k] = front[k]
        /\ \A k \in (Len(front) + 1)..(Len(front) + Len(end)) :
             (front \o end)[k] = end[k - Len(front)]
    BY <1>2, <2>1, Joined
  <2> HIDE DEF n
  <2>3. (front \o end)[5 + 3 * n] = end[1]
    <3>1. 5 + 3 * n \in (Len(front) + 1)..(Len(front) + Len(end)) /\ (5 + 3 * n) - Len(front) = 1
      BY <1>1, <1>2, <2>1
    <3> QED
      BY <2>2, <3>1
  <2>4. Len(front \o end) = 5 + 3 * n /\ \A k \in 1..(4 + 3 * n) : (front \o end)[k] = front[k]
    BY <1>1, <1>2, <2>1, <2>2
  <2>5. Groups(s) = front \o end
    BY <1>6 DEF front
  <2> QED
    BY <2>2, <2>3, <2>4, <2>5 DEF front
<1> HIDE DEF n
<1>11. \A k \in 5..Len(Groups(s)) : Drawing(Groups(s)[k])
  <2> TAKE k \in 5..Len(Groups(s))
  <2>1. CASE k = 5 + 3 * n
    BY <2>1, <1>2, <1>10
  <2>2. CASE k \in 5..(4 + 3 * n)
    <3>1. Groups(s)[k] = plot[k - 4] /\ k - 4 \in 1..(3 * n)
      <4>1. k \in 1..(4 + 3 * n) /\ k - 4 \in 1..(3 * n)
        BY <2>2, <1>1
      <4>2. Groups(s)[k] = (header \o plot)[k]
        BY <1>10, <4>1
      <4>3. (header \o plot)[k] = plot[k - 4]
        BY <2>2, <1>9
      <4> QED
        BY <4>1, <4>2, <4>3
    <3> QED
      BY <3>1, <1>4
  <2> QED
    BY <2>1, <2>2, <1>1, <1>10
<1>12. Groups(s)[5][1] = 0
  <2>1. CASE n = 0
    BY <2>1, <1>2, <1>10
  <2>2. CASE n > 0
    <3>1. 5 \in 5..(4 + 3 * n) /\ 5 \in 1..(4 + 3 * n) /\ 5 - 4 = 1
      BY <2>2, <1>1
    <3>2. Groups(s)[5] = plot[1]
      BY <3>1, <1>9, <1>10
    <3> QED
      BY <2>2, <3>2, <1>7
  <2> QED
    BY <2>1, <2>2, <1>1
<1>13. \A k \in 1..4 : Groups(s)[k] = header[k]
  BY <1>1, <1>9, <1>10
<1>14. 5 + 3 * n >= 5
  BY <1>1
<1> QED
  BY <1>8, <1>10, <1>11, <1>12, <1>13, <1>14 DEF V

LEMMA LineGroups ==
  ASSUME NEW s \in Shapes, s.kind = "LINE"
  PROVE  Groups(s) = <<<<0, "LINE">>, <<8, "0">>, <<10, s.points[1][1]>>, <<20, s.points[1][2]>>,
                       <<11, s.points[2][1]>>, <<21, s.points[2][2]>>>>
BY DEF Groups

LEMMA RoundGroups ==
  ASSUME NEW s \in Shapes, s.kind \in {"CIRCLE", "ARC"}
  PROVE  Groups(s) = <<<<0, s.kind>>, <<10, s.points[1][1]>>, <<20, s.points[1][2]>>, <<40, s.radius>>>>
BY DEF Groups

\* The first group of a shape begins an entity, and only an old POLYLINE has others of these.
LEMMA ShapeGroups ==
  ASSUME NEW s \in Shapes
  PROVE  /\ Len(Groups(s)) \in Nat /\ Len(Groups(s)) >= 2 /\ Groups(s) # <<>>
         /\ Groups(s)[1] = <<0, s.kind>>
         /\ s.kind = "POLYLINE" => Len(Groups(s)) > 4 /\ Groups(s)[5][1] = 0
         /\ \A k \in 2..Len(Groups(s)) :
              /\ Groups(s)[k][1] # 2 /\ (Groups(s)[k][1] \in Codes => Groups(s)[k][2] \in Int)
              /\ Groups(s)[k][1] = 0 =>
                   /\ s.kind = "POLYLINE" /\ k > 4
                   /\ Groups(s)[k] \in {<<0, "VERTEX">>, <<0, "SEQEND">>}
<1>1. CASE s.kind = "LINE"
  <2>1. \A i \in 1..2 : s.points[i][1] \in Int /\ s.points[i][2] \in Int
    BY <1>1, ShapeTypes
  <2>2. Len(Groups(s)) = 6
    BY <1>1, LineGroups
  <2>3. /\ Groups(s)[1] = <<0, "LINE">> /\ Groups(s)[2] = <<8, "0">>
        /\ Groups(s)[3] = <<10, s.points[1][1]>> /\ Groups(s)[4] = <<20, s.points[1][2]>>
        /\ Groups(s)[5] = <<11, s.points[2][1]>> /\ Groups(s)[6] = <<21, s.points[2][2]>>
    BY <1>1, LineGroups
  <2> DEFINE gs == Groups(s)
  <2>4. \A k \in 2..6 : gs[k][1] # 2 /\ gs[k][1] # 0 /\ (gs[k][1] \in Codes => gs[k][2] \in Int)
    <3> TAKE k \in 2..6
    <3>1. k = 2 \/ k = 3 \/ k = 4 \/ k = 5 \/ k = 6
      OBVIOUS
    <3> QED
      BY <2>1, <2>3, <3>1 DEF Codes
  <2> HIDE DEF gs
  <2>5. gs # <<>>
    BY <2>2 DEF gs
  <2> QED
    BY <1>1, <2>2, <2>3, <2>4, <2>5 DEF gs
<1>2. CASE s.kind \in {"CIRCLE", "ARC"}
  <2>1. \A i \in 1..1 : s.points[i][1] \in Int /\ s.points[i][2] \in Int
    BY <1>2, ShapeTypes
  <2>2. Len(Groups(s)) = 4
    BY <1>2, RoundGroups
  <2>3. /\ Groups(s)[1] = <<0, s.kind>> /\ Groups(s)[2] = <<10, s.points[1][1]>>
        /\ Groups(s)[3] = <<20, s.points[1][2]>> /\ Groups(s)[4] = <<40, s.radius>>
    BY <1>2, RoundGroups
  <2> DEFINE gs == Groups(s)
  <2>4. \A k \in 2..4 : gs[k][1] # 2 /\ gs[k][1] # 0 /\ (gs[k][1] \in Codes => gs[k][2] \in Int)
    <3> TAKE k \in 2..4
    <3>1. k = 2 \/ k = 3 \/ k = 4
      OBVIOUS
    <3> QED
      BY <2>1, <2>3, <3>1, ShapeTypes DEF Codes
  <2> HIDE DEF gs
  <2>5. gs # <<>>
    BY <2>2 DEF gs
  <2> QED
    BY <1>2, <2>2, <2>3, <2>4, <2>5 DEF gs
<1>3. CASE s.kind = "LWPOLYLINE"
  <2> DEFINE gs == Groups(s)
             n == Len(s.points)
  <2>1. n \in Nat /\ \A i \in 1..n : s.points[i][1] \in Int /\ s.points[i][2] \in Int
    BY ShapeTypes
  <2>2. /\ Len(gs) = 3 + 2 * n /\ gs[1] = <<0, s.kind>> /\ gs[2] = <<90, n>> /\ gs[3] = <<70, s.flag>>
        /\ \A k \in 4..(3 + 2 * n) : gs[k] = IF k % 2 = 0 THEN <<10, s.points[(k - 2) \div 2][1]>>
                             ELSE <<20, s.points[(k - 3) \div 2][2]>>
    BY <1>3, LightGroups
  <2> HIDE DEF gs, n
  <2>3. \A k \in 2..(3 + 2 * n) : gs[k][1] # 2 /\ gs[k][1] # 0 /\ (gs[k][1] \in Codes => gs[k][2] \in Int)
    <3> TAKE k \in 2..(3 + 2 * n)
    <3>1. CASE k = 2
      BY <3>1, <2>2 DEF Codes
    <3>2. CASE k = 3
      BY <3>2, <2>2, ShapeTypes DEF Codes
    <3>3. CASE k \in 4..(3 + 2 * n) /\ k % 2 = 0
      <4>1. gs[k] = <<10, s.points[(k - 2) \div 2][1]>>
        BY <3>3, <2>2
      <4>2. (k - 2) \div 2 \in 1..n
        BY <3>3, <2>1
      <4> QED
        BY <4>1, <4>2, <2>1
    <3>4. CASE k \in 4..(3 + 2 * n) /\ k % 2 # 0
      <4>1. gs[k] = <<20, s.points[(k - 3) \div 2][2]>>
        BY <3>4, <2>2
      <4>2. (k - 3) \div 2 \in 1..n
        BY <3>4, <2>1
      <4> QED
        BY <4>1, <4>2, <2>1
    <3> QED
      BY <3>1, <3>2, <3>3, <3>4, <2>1
  <2>4. gs # <<>>
    BY <2>1, <2>2
  <2>5. 3 + 2 * n \in Nat /\ 3 + 2 * n >= 2
    BY <2>1
  <2> QED
    BY <1>3, <2>2, <2>3, <2>4, <2>5 DEF gs
<1>4. CASE s.kind = "POLYLINE"
  <2> DEFINE gs == Groups(s)
  <2>1. Len(gs) \in Nat
    <3> HIDE DEF gs
    <3>1. gs \in Seq(Int \X (Int \cup {"POLYLINE", "VERTEX", "SEQEND"}))
      BY <1>4, OldGroups DEF gs
    <3> QED
      BY <3>1
  <2>2. /\ gs[1] = <<0, s.kind>> /\ gs[2] = <<10, 0>> /\ gs[3] = <<20, 0>> /\ gs[4] = <<70, s.flag>>
        /\ gs[5][1] = 0 /\ Len(gs) >= 5
        /\ \A k \in 5..Len(gs) :
             \/ gs[k] = <<0, "VERTEX">> \/ gs[k] = <<0, "SEQEND">>
             \/ gs[k][1] \in {10, 20} /\ gs[k][2] \in Int
    BY <1>4, OldGroups
  <2> HIDE DEF gs
  <2>3. gs # <<>>
    BY <2>1, <2>2
  <2>4. \A k \in 2..Len(gs) :
              /\ gs[k][1] # 2 /\ (gs[k][1] \in Codes => gs[k][2] \in Int)
              /\ gs[k][1] = 0 => k > 4 /\ gs[k] \in {<<0, "VERTEX">>, <<0, "SEQEND">>}
    <3> TAKE k \in 2..Len(gs)
    <3>1. CASE k \in 5..Len(gs)
      <4>1. k > 4
        BY <3>1, <2>1
      <4>2. \/ gs[k] = <<0, "VERTEX">> \/ gs[k] = <<0, "SEQEND">>
            \/ gs[k][1] \in {10, 20} /\ gs[k][2] \in Int
        BY <3>1, <2>2
      <4>3. CASE gs[k] = <<0, "VERTEX">>
        BY <4>1, <4>3 DEF Codes
      <4>4. CASE gs[k] = <<0, "SEQEND">>
        BY <4>1, <4>4 DEF Codes
      <4>5. CASE gs[k][1] \in {10, 20} /\ gs[k][2] \in Int
        BY <4>1, <4>5 DEF Codes
      <4> QED
        BY <4>2, <4>3, <4>4, <4>5
    <3>2. CASE k \in 2..4
      <4>1. k = 2 \/ k = 3 \/ k = 4
        BY <3>2
      <4> QED
        BY <4>1, <2>2, ShapeTypes DEF Codes
    <3> QED
      BY <3>1, <3>2, <2>1
  <2> QED
    BY <1>4, <2>1, <2>2, <2>3, <2>4 DEF gs
<1> QED
  BY <1>1, <1>2, <1>3, <1>4, ShapeTypes

-----------------------------------------------------------------------------
(* One turn of the parser.                                                 *)

LEMMA HeaderRead ==
  ASSUME NEW st \in Parsers, NEW name \in {"SECTION", "ENDSEC"}
  PROVE  ReadGroup(st, <<0, name>>) = [reading |-> FALSE, entities |-> st.entities]
BY DEF ReadGroup, Parsers

LEMMA NameRead ==
  ASSUME NEW st \in Parsers, ~st.reading, NEW name \in {"HEADER", "BLOCKS"}
  PROVE  ReadGroup(st, <<2, name>>) = [reading |-> FALSE, entities |-> st.entities]
BY DEF ReadGroup, Parsers

\* Outside the section ENTITIES a group is passed over.
LEMMA Skipped ==
  ASSUME NEW st \in Parsers, ~st.reading, NEW g, g[1] # 2, g[1] = 0 => g[2] \in Types
  PROVE  ReadGroup(st, g) = [reading |-> FALSE, entities |-> st.entities]
BY DEF ReadGroup, Parsers, Types

LEMMA EntityTypes ==
  ASSUME NEW type \in Types
  PROVE  Entity(type) \in Ent
BY DEF Entity, Ent

LEMMA ExtendedTypes ==
  ASSUME NEW e \in Ent, NEW g, g[1] \in Codes => g[2] \in Int
  PROVE  /\ Extended(e, g) \in Ent /\ Extended(e, g).type = e.type
         /\ \A c \in Codes : Extended(e, g).values[c] = IF c = g[1] THEN Append(e.values[c], g[2]) ELSE e.values[c]
         /\ g[1] \notin Codes => Extended(e, g) = e
<1> DEFINE v == [c \in Codes |-> IF c = g[1] THEN Append(e.values[c], g[2]) ELSE e.values[c]]
<1>1. e.values \in [Codes -> Seq(Int)]
  BY DEF Ent
<1>2. v \in [Codes -> Seq(Int)]
  BY <1>1
<1>3. \A c \in Codes : v[c] = IF c = g[1] THEN Append(e.values[c], g[2]) ELSE e.values[c]
  OBVIOUS
<1>4. g[1] \notin Codes => v = e.values
  BY <1>1
<1>5. Extended(e, g) = [e EXCEPT !.values = v]
  BY DEF Extended
<1> HIDE DEF v
<1>6. Extended(e, g) = [type |-> e.type, values |-> v] /\ e = [type |-> e.type, values |-> e.values]
  BY <1>5 DEF Ent
<1> QED
  BY <1>2, <1>3, <1>4, <1>6 DEF Ent

\* Inside it a group begins an entity or belongs to the last one.
LEMMA EntityRead ==
  ASSUME NEW st \in Parsers, st.reading, NEW type \in Types
  PROVE  /\ ReadGroup(st, <<0, type>>) = [reading |-> TRUE, entities |-> Append(st.entities, Entity(type))]
         /\ Append(st.entities, Entity(type)) \in Seq(Ent)
         /\ Len(Append(st.entities, Entity(type))) = Len(st.entities) + 1
         /\ \A i \in 1..Len(st.entities) : Append(st.entities, Entity(type))[i] = st.entities[i]
         /\ Append(st.entities, Entity(type))[Len(st.entities) + 1] = Entity(type)
<1>1. st.entities \in Seq(Ent) /\ Entity(type) \in Ent
  BY EntityTypes DEF Parsers
<1>2. ReadGroup(st, <<0, type>>) = [reading |-> TRUE, entities |-> Append(st.entities, Entity(type))]
  BY DEF ReadGroup, Parsers, Types
<1> QED
  BY <1>1, <1>2, AppendProperties

\* The last entity with one more group.
Longer(es, g) == [i \in DOMAIN es |-> IF i = Len(es) THEN Extended(es[i], g) ELSE es[i]]

LEMMA LongerProperties ==
  ASSUME NEW es \in Seq(Ent), NEW g, g[1] \in Codes => g[2] \in Int
  PROVE  /\ Longer(es, g) \in Seq(Ent) /\ Len(Longer(es, g)) = Len(es)
         /\ \A i \in 1..Len(es) : Longer(es, g)[i] = IF i = Len(es) THEN Extended(es[i], g) ELSE es[i]
         /\ g[1] \notin Codes => Longer(es, g) = es
<1>1. Len(es) \in Nat /\ DOMAIN es = 1..Len(es) /\ \A i \in 1..Len(es) : es[i] \in Ent
  OBVIOUS
<1>2. \A i \in 1..Len(es) : Extended(es[i], g) \in Ent /\ (g[1] \notin Codes => Extended(es[i], g) = es[i])
  BY <1>1, ExtendedTypes
<1>3. Longer(es, g) \in [1..Len(es) -> Ent]
  BY <1>1, <1>2 DEF Longer
<1>4. \A i \in 1..Len(es) : Longer(es, g)[i] = IF i = Len(es) THEN Extended(es[i], g) ELSE es[i]
  BY <1>1 DEF Longer
<1>5. Longer(es, g) \in Seq(Ent) /\ Len(Longer(es, g)) = Len(es)
  BY <1>1, <1>3
<1>6. ASSUME g[1] \notin Codes PROVE Longer(es, g) = es
  <2>1. \A i \in 1..Len(es) : Longer(es, g)[i] = es[i]
    BY <1>2, <1>4, <1>6
  <2> QED
    BY <2>1, <1>5, SeqEqual
<1> QED
  BY <1>4, <1>5, <1>6

LEMMA ValueRead ==
  ASSUME NEW st \in Parsers, st.reading, NEW g, g[1] # 0, g[1] # 2
  PROVE  ReadGroup(st, g) = [reading |-> TRUE, entities |-> Longer(st.entities, g)]
BY DEF ReadGroup, Parsers, Longer

LEMMA SectionRead ==
  ASSUME NEW st \in Parsers
  PROVE  ReadGroup(st, <<2, "ENTITIES">>) = [reading |-> TRUE, entities |-> st.entities]
<1> DEFINE g == <<2, "ENTITIES">>
<1>1. g[1] = 2 /\ g[2] = "ENTITIES" /\ g[1] \notin Codes
  BY DEF Codes
<1> HIDE DEF g
<1>2. ReadGroup(st, g) = [reading |-> TRUE, entities |-> Longer(st.entities, g)]
  BY <1>1 DEF ReadGroup, Longer
<1>3. Longer(st.entities, g) = st.entities
  BY <1>1, LongerProperties DEF Parsers
<1> QED
  BY <1>2, <1>3 DEF g

-----------------------------------------------------------------------------
(* What an entity holds of its shape.                                      *)

LEMMA LooksFirst ==
  ASSUME NEW s \in Shapes
  PROVE  Looks(Entity(s.kind), s, 1)
<1>1. s.kind \in Types /\ Entity(s.kind) \in Ent /\ Entity(s.kind).type = s.kind
  BY ShapeTypes, EntityTypes DEF Types, Entity
<1>2. \A c \in Codes : Entity(s.kind).values[c] = <<>>
  BY DEF Entity
<1>3. [i \in 1..0 |-> s.points[i][1]] = <<>> /\ [i \in 1..0 |-> s.points[i][2]] = <<>>
  OBVIOUS
<1> QED
  BY <1>1, <1>2, <1>3 DEF Looks, From, Codes, Abscissas, Ordinates

\* The vertices of an old POLYLINE add nothing to it.
LEMMA LooksMore ==
  ASSUME NEW s \in Shapes, NEW e, NEW k \in Nat, s.kind = "POLYLINE", k >= 4, Looks(e, s, k)
  PROVE  \A n \in Nat : n >= 4 => Looks(e, s, n)
BY DEF Looks, From

\* One more value, at the end of its list.
LEMMA OneMore ==
  ASSUME NEW n \in Nat, NEW f(_), \A i \in 1..(n + 1) : f(i) \in Int
  PROVE  Append([i \in 1..n |-> f(i)], f(n + 1)) = [i \in 1..(n + 1) |-> f(i)]
<1> DEFINE p == [i \in 1..n |-> f(i)]
           q == [i \in 1..(n + 1) |-> f(i)]
           r == Append(p, f(n + 1))
<1>1. p \in Seq(Int) /\ Len(p) = n /\ \A i \in 1..n : p[i] = f(i)
  OBVIOUS
<1>2. q \in Seq(Int) /\ Len(q) = n + 1 /\ \A i \in 1..(n + 1) : q[i] = f(i)
  OBVIOUS
<1>3. f(n + 1) \in Int
  OBVIOUS
<1> HIDE DEF p, q
<1>4. r \in Seq(Int) /\ Len(r) = n + 1 /\ (\A i \in 1..n : r[i] = f(i)) /\ r[n + 1] = f(n + 1)
  BY <1>1, <1>3, AppendProperties
<1> HIDE DEF r
<1>5. \A i \in 1..(n + 1) : r[i] = q[i]
  <2> TAKE i \in 1..(n + 1)
  <2>1. i \in 1..n \/ i = n + 1
    OBVIOUS
  <2> QED
    BY <2>1, <1>2, <1>4
<1>6. r = q
  BY <1>2, <1>4, <1>5, SeqEqual
<1> QED
  BY <1>6 DEF r, p, q

LEMMA FromNext ==
  ASSUME NEW k \in Nat
  PROVE  \A n \in Nat, v \in Int :
           From(k + 1, n, v) = IF k + 1 = n THEN Append(From(k, n, v), v) ELSE From(k, n, v)
<1> TAKE n \in Nat, v \in Int
<1>1. Append(<<>>, v) = <<v>>
  OBVIOUS
<1>2. CASE k + 1 = n
  <2>1. From(k, n, v) = <<>> /\ From(k + 1, n, v) = <<v>>
    BY <1>2 DEF From
  <2> QED
    BY <1>1, <1>2, <2>1
<1>3. CASE k + 1 < n
  BY <1>3 DEF From
<1>4. CASE k + 1 > n
  BY <1>4 DEF From
<1> QED
  BY <1>2, <1>3, <1>4

LEMMA LightNext ==
  ASSUME NEW s \in Shapes, NEW k \in 1..(Len(Groups(s)) - 1), NEW e,
         Looks(e, s, k), s.kind = "LWPOLYLINE"
  PROVE  Looks(Extended(e, Groups(s)[k + 1]), s, k + 1)
<1> DEFINE n == Len(s.points)
           g == Groups(s)[k + 1]
           x(i) == s.points[i][1]
           y(i) == s.points[i][2]
           X(m) == [i \in 1..m |-> x(i)]
           Y(m) == [i \in 1..m |-> y(i)]
<1>1. /\ n \in Nat /\ k \in 1..(2 + 2 * n) /\ s.flag \in Int
      /\ \A i \in 1..n : x(i) \in Int /\ y(i) \in Int
  BY ShapeTypes, LightGroups
<1>2. /\ g[1] \in Codes => g[2] \in Int
      /\ k = 1 => g = <<90, n>>
      /\ k = 2 => g = <<70, s.flag>>
      /\ k > 2 => g = IF (k + 1) % 2 = 0 THEN <<10, x(((k + 1) - 2) \div 2)>>
                      ELSE <<20, y(((k + 1) - 3) \div 2)>>
  <2>1. k + 1 \in 2..Len(Groups(s)) /\ Len(Groups(s)) = 3 + 2 * n
    <3>1. Len(Groups(s)) = 3 + 2 * n
      BY LightGroups DEF n
    <3> QED
      BY <1>1, <3>1
  <2>2. g[1] \in Codes => g[2] \in Int
    BY <2>1, ShapeGroups
  <2>3. k = 1 => g = <<90, n>>
    BY LightGroups
  <2>4. k = 2 => g = <<70, s.flag>>
    BY LightGroups
  <2>5. ASSUME k > 2
        PROVE  g = IF (k + 1) % 2 = 0 THEN <<10, x(((k + 1) - 2) \div 2)>>
                      ELSE <<20, y(((k + 1) - 3) \div 2)>>
    <3>1. k + 1 \in 4..Len(Groups(s))
      BY <1>1, <2>1, <2>5
    <3> QED
      BY <3>1, LightGroups
  <2> QED
    BY <2>2, <2>3, <2>4, <2>5
<1>3. /\ e \in Ent /\ e.type = "LWPOLYLINE" /\ e.values[70] = From(k, 3, s.flag)
      /\ e.values[10] = X(Abscissas(k)) /\ e.values[20] = Y(Ordinates(k))
  BY DEF Looks
<1> HIDE DEF g, n
<1> DEFINE d == Extended(e, g)
<1>4. /\ d \in Ent /\ d.type = e.type
      /\ \A c \in {10, 20, 70} :
           d.values[c] = IF c = g[1] THEN Append(e.values[c], g[2]) ELSE e.values[c]
  BY <1>2, <1>3, ExtendedTypes DEF Codes
<1> HIDE DEF d
<1> SUFFICES /\ d.values[70] = From(k + 1, 3, s.flag)
             /\ d.values[10] = X(Abscissas(k + 1)) /\ d.values[20] = Y(Ordinates(k + 1))
  BY <1>3, <1>4 DEF Looks, d, g
<1> HIDE DEF X, Y
<1>9. From(k + 1, 3, s.flag) = IF k + 1 = 3 THEN Append(From(k, 3, s.flag), s.flag) ELSE From(k, 3, s.flag)
  BY <1>1, FromNext
<1>5. CASE k = 1
  <2>1. Abscissas(k + 1) = Abscissas(k) /\ Ordinates(k + 1) = Ordinates(k)
    BY <1>5 DEF Abscissas, Ordinates
  <2> QED
    BY <2>1, <1>9, <1>2, <1>3, <1>4, <1>5
<1>6. CASE k = 2
  <2>1. Abscissas(k + 1) = Abscissas(k) /\ Ordinates(k + 1) = Ordinates(k)
    BY <1>6 DEF Abscissas, Ordinates
  <2>2. g[1] = 70 /\ g[2] = s.flag
    BY <1>2, <1>6
  <2>3. e.values[70] = <<>> /\ From(k + 1, 3, s.flag) = <<s.flag>>
    BY <1>3, <1>6 DEF From
  <2>4. d.values[70] = <<s.flag>>
    BY <2>2, <2>3, <1>4
  <2> QED
    BY <2>1, <2>2, <2>3, <2>4, <1>9, <1>3, <1>4, <1>6
<1>7. CASE k > 2 /\ (k + 1) % 2 = 0
  <2> DEFINE a == Abscissas(k)
  <2>1. /\ a \in Nat /\ Abscissas(k + 1) = a + 1 /\ a + 1 \in 1..n /\ a + 1 = ((k + 1) - 2) \div 2
        /\ Ordinates(k + 1) = Ordinates(k)
    <3>1. PICK j \in Nat : k = 2 * j + 1
      <4>1. k = 2 * (k \div 2) + 1 /\ k \div 2 \in Nat
        BY <1>1, <1>7
      <4> QED
        BY <4>1
    <3>2. Abscissas(k) = j - 1 /\ Abscissas(k + 1) = j
      BY <3>1, <1>7 DEF Abscissas
    <3>3. Ordinates(k) = j - 1 /\ Ordinates(k + 1) = j - 1
      BY <3>1, <1>7 DEF Ordinates
    <3>4. j >= 1 /\ j <= n /\ ((k + 1) - 2) \div 2 = j
      BY <3>1, <1>1, <1>7
    <3> QED
      BY <3>1, <3>2, <3>3, <3>4, <1>1
  <2>2. g[1] = 10 /\ g[2] = x(a + 1)
    BY <2>1, <1>2, <1>7
  <2>3. d.values[10] = Append(X(a), x(a + 1))
    BY <2>2, <1>3, <1>4
  <2> HIDE DEF a
  <2>4. \A i \in 1..(a + 1) : x(i) \in Int
    BY <2>1, <1>1
  <2> HIDE DEF x
  <2>5. Append(X(a), x(a + 1)) = X(a + 1)
    <3>1. Append([i \in 1..a |-> x(i)], x(a + 1)) = [i \in 1..(a + 1) |-> x(i)]
      BY <2>1, <2>4, OneMore
    <3> QED
      BY <3>1 DEF X
  <2>6. From(k + 1, 3, s.flag) = From(k, 3, s.flag)
    BY <1>7 DEF From
  <2> QED
    BY <2>1, <2>2, <2>3, <2>5, <2>6, <1>9, <1>3, <1>4 DEF a
<1>8. CASE k > 2 /\ (k + 1) % 2 # 0
  <2> DEFINE a == Ordinates(k)
  <2>1. /\ a \in Nat /\ Ordinates(k + 1) = a + 1 /\ a + 1 \in 1..n /\ a + 1 = ((k + 1) - 3) \div 2
        /\ Abscissas(k + 1) = Abscissas(k)
    <3>1. PICK j \in Nat : k = 2 * j
      BY <1>1, <1>8
    <3>2. Ordinates(k) = j - 2 /\ Ordinates(k + 1) = j - 1
      BY <3>1, <1>8 DEF Ordinates
    <3>3. Abscissas(k) = j - 1 /\ Abscissas(k + 1) = j - 1
      BY <3>1, <1>8 DEF Abscissas
    <3>4. j >= 2 /\ j - 1 <= n /\ ((k + 1) - 3) \div 2 = j - 1
      BY <3>1, <1>1, <1>8
    <3> QED
      BY <3>1, <3>2, <3>3, <3>4, <1>1
  <2>2. g[1] = 20 /\ g[2] = y(a + 1)
    BY <2>1, <1>2, <1>8
  <2>3. d.values[20] = Append(Y(a), y(a + 1))
    BY <2>2, <1>3, <1>4
  <2> HIDE DEF a
  <2>4. \A i \in 1..(a + 1) : y(i) \in Int
    BY <2>1, <1>1
  <2> HIDE DEF y
  <2>5. Append(Y(a), y(a + 1)) = Y(a + 1)
    <3>1. Append([i \in 1..a |-> y(i)], y(a + 1)) = [i \in 1..(a + 1) |-> y(i)]
      BY <2>1, <2>4, OneMore
    <3> QED
      BY <3>1 DEF Y
  <2>6. From(k + 1, 3, s.flag) = From(k, 3, s.flag)
    BY <1>8 DEF From
  <2> QED
    BY <2>1, <2>2, <2>3, <2>5, <2>6, <1>9, <1>3, <1>4 DEF a
<1> QED
  BY <1>1, <1>5, <1>6, <1>7, <1>8

LEMMA LineNext ==
  ASSUME NEW s \in Shapes, NEW k \in 1..(Len(Groups(s)) - 1), NEW e,
         Looks(e, s, k), s.kind = "LINE"
  PROVE  Looks(Extended(e, Groups(s)[k + 1]), s, k + 1)
<1> DEFINE g == Groups(s)[k + 1]
           d == Extended(e, g)
<1>1. k \in 1..5
  <2>1. Len(Groups(s)) = 6
    BY LineGroups
  <2> QED
    BY <2>1
<1>10.
      /\ From(k + 1, 3, s.points[1][1]) =
           IF k = 2 THEN Append(From(k, 3, s.points[1][1]), s.points[1][1]) ELSE From(k, 3, s.points[1][1])
      /\ From(k + 1, 4, s.points[1][2]) =
           IF k = 3 THEN Append(From(k, 4, s.points[1][2]), s.points[1][2]) ELSE From(k, 4, s.points[1][2])
      /\ From(k + 1, 5, s.points[2][1]) =
           IF k = 4 THEN Append(From(k, 5, s.points[2][1]), s.points[2][1]) ELSE From(k, 5, s.points[2][1])
      /\ From(k + 1, 6, s.points[2][2]) =
           IF k = 5 THEN Append(From(k, 6, s.points[2][2]), s.points[2][2]) ELSE From(k, 6, s.points[2][2])
  <2>1. /\ s.points[1][1] \in Int /\ s.points[1][2] \in Int
        /\ s.points[2][1] \in Int /\ s.points[2][2] \in Int
    BY ShapeTypes
  <2>2. k \in Nat /\ (k + 1 = 3 <=> k = 2) /\ (k + 1 = 4 <=> k = 3) /\ (k + 1 = 5 <=> k = 4) /\ (k + 1 = 6 <=> k = 5)
    BY <1>1
  <2> QED
    BY <2>1, <2>2, FromNext
<1>2. /\ g[1] \in Codes => g[2] \in Int
      /\ k = 1 => g = <<8, "0">>
      /\ k = 2 => g = <<10, s.points[1][1]>>
      /\ k = 3 => g = <<20, s.points[1][2]>>
      /\ k = 4 => g = <<11, s.points[2][1]>>
      /\ k = 5 => g = <<21, s.points[2][2]>>
  <2>1. g[1] \in Codes => g[2] \in Int
    BY <1>1, ShapeGroups
  <2> QED
    BY <2>1, LineGroups
<1>3. /\ e \in Ent /\ e.type = "LINE"
      /\ e.values[10] = From(k, 3, s.points[1][1]) /\ e.values[20] = From(k, 4, s.points[1][2])
      /\ e.values[11] = From(k, 5, s.points[2][1]) /\ e.values[21] = From(k, 6, s.points[2][2])
  BY DEF Looks
<1> HIDE DEF g
<1>4. /\ d \in Ent /\ d.type = e.type
      /\ d.values[10] = IF g[1] = 10 THEN Append(e.values[10], g[2]) ELSE e.values[10]
      /\ d.values[20] = IF g[1] = 20 THEN Append(e.values[20], g[2]) ELSE e.values[20]
      /\ d.values[11] = IF g[1] = 11 THEN Append(e.values[11], g[2]) ELSE e.values[11]
      /\ d.values[21] = IF g[1] = 21 THEN Append(e.values[21], g[2]) ELSE e.values[21]
  BY <1>2, <1>3, ExtendedTypes DEF Codes
<1> HIDE DEF d
<1> SUFFICES /\ d.values[10] = From(k + 1, 3, s.points[1][1]) /\ d.values[20] = From(k + 1, 4, s.points[1][2])
             /\ d.values[11] = From(k + 1, 5, s.points[2][1]) /\ d.values[21] = From(k + 1, 6, s.points[2][2])
  BY <1>3, <1>4 DEF Looks, d, g
<1>5. CASE k = 1
  BY <1>10, <1>2, <1>3, <1>4, <1>5
<1>6. CASE k = 2
  BY <1>10, <1>2, <1>3, <1>4, <1>6
<1>7. CASE k = 3
  BY <1>10, <1>2, <1>3, <1>4, <1>7
<1>8. CASE k = 4
  BY <1>10, <1>2, <1>3, <1>4, <1>8
<1>9. CASE k = 5
  BY <1>10, <1>2, <1>3, <1>4, <1>9
<1> QED
  BY <1>1, <1>5, <1>6, <1>7, <1>8, <1>9

LEMMA RoundNext ==
  ASSUME NEW s \in Shapes, NEW k \in 1..(Len(Groups(s)) - 1), NEW e,
         Looks(e, s, k), s.kind \in {"CIRCLE", "ARC"}
  PROVE  Looks(Extended(e, Groups(s)[k + 1]), s, k + 1)
<1> DEFINE g == Groups(s)[k + 1]
           d == Extended(e, g)
<1>1. k \in 1..3
  <2>1. Len(Groups(s)) = 4
    BY RoundGroups
  <2> QED
    BY <2>1
<1>8. /\ From(k + 1, 2, s.points[1][1]) =
           IF k = 1 THEN Append(From(k, 2, s.points[1][1]), s.points[1][1]) ELSE From(k, 2, s.points[1][1])
      /\ From(k + 1, 3, s.points[1][2]) =
           IF k = 2 THEN Append(From(k, 3, s.points[1][2]), s.points[1][2]) ELSE From(k, 3, s.points[1][2])
      /\ From(k + 1, 4, s.radius) =
           IF k = 3 THEN Append(From(k, 4, s.radius), s.radius) ELSE From(k, 4, s.radius)
  <2>1. s.points[1][1] \in Int /\ s.points[1][2] \in Int /\ s.radius \in Int
    BY ShapeTypes
  <2> QED
    BY <1>1, <2>1, FromNext
<1>2. /\ g[1] \in Codes => g[2] \in Int
      /\ k = 1 => g = <<10, s.points[1][1]>>
      /\ k = 2 => g = <<20, s.points[1][2]>>
      /\ k = 3 => g = <<40, s.radius>>
  <2>1. g[1] \in Codes => g[2] \in Int
    BY <1>1, ShapeGroups
  <2> QED
    BY <2>1, RoundGroups
<1>3. /\ e \in Ent /\ e.type = s.kind
      /\ e.values[10] = From(k, 2, s.points[1][1]) /\ e.values[20] = From(k, 3, s.points[1][2])
      /\ e.values[40] = From(k, 4, s.radius)
  BY DEF Looks
<1> HIDE DEF g
<1>4. /\ d \in Ent /\ d.type = e.type
      /\ d.values[10] = IF g[1] = 10 THEN Append(e.values[10], g[2]) ELSE e.values[10]
      /\ d.values[20] = IF g[1] = 20 THEN Append(e.values[20], g[2]) ELSE e.values[20]
      /\ d.values[40] = IF g[1] = 40 THEN Append(e.values[40], g[2]) ELSE e.values[40]
  BY <1>2, <1>3, ExtendedTypes DEF Codes
<1> HIDE DEF d
<1> SUFFICES /\ d.values[10] = From(k + 1, 2, s.points[1][1]) /\ d.values[20] = From(k + 1, 3, s.points[1][2])
             /\ d.values[40] = From(k + 1, 4, s.radius)
  BY <1>3, <1>4 DEF Looks, d, g
<1>5. CASE k = 1
  BY <1>8, <1>2, <1>3, <1>4, <1>5
<1>6. CASE k = 2
  BY <1>8, <1>2, <1>3, <1>4, <1>6
<1>7. CASE k = 3
  BY <1>8, <1>2, <1>3, <1>4, <1>7
<1> QED
  BY <1>1, <1>5, <1>6, <1>7

LEMMA OldNext ==
  ASSUME NEW s \in Shapes, NEW k \in 1..3, NEW e, Looks(e, s, k), s.kind = "POLYLINE"
  PROVE  Looks(Extended(e, Groups(s)[k + 1]), s, k + 1)
<1> DEFINE g == Groups(s)[k + 1]
           d == Extended(e, g)
<1>1. s.flag \in Int
  BY ShapeTypes
<1>2. k = 1 \/ k = 2 \/ k = 3
  OBVIOUS
<1>3. /\ k = 1 => g = <<10, 0>>
      /\ k = 2 => g = <<20, 0>>
      /\ k = 3 => g = <<70, s.flag>>
  BY OldGroups
<1>4. e \in Ent /\ e.type = s.kind /\ e.values[10] = From(k, 2, 0)
  BY DEF Looks
<1> HIDE DEF g
<1>5. g[1] \in Codes => g[2] \in Int
  BY <1>1, <1>2, <1>3
<1>6. /\ d \in Ent /\ d.type = e.type
      /\ d.values[10] = IF 10 = g[1] THEN Append(e.values[10], g[2]) ELSE e.values[10]
  BY <1>4, <1>5, ExtendedTypes DEF Codes
<1> HIDE DEF d
<1>7. d.values[10] = From(k + 1, 2, 0)
  <2>1. CASE k = 1
    BY <2>1, <1>3, <1>4, <1>6 DEF From
  <2>2. CASE k = 2
    BY <2>2, <1>3, <1>4, <1>6 DEF From
  <2>3. CASE k = 3
    BY <2>3, <1>3, <1>4, <1>6 DEF From
  <2> QED
    BY <1>2, <2>1, <2>2, <2>3
<1> QED
  BY <1>4, <1>6, <1>7 DEF Looks, d, g

LEMMA LooksNext ==
  ASSUME NEW s \in Shapes, NEW k \in 1..(Len(Groups(s)) - 1), NEW e, Looks(e, s, k),
         s.kind = "POLYLINE" => k < 4
  PROVE  Looks(Extended(e, Groups(s)[k + 1]), s, k + 1)
BY LineNext, RoundNext, LightNext, OldNext, ShapeTypes, ShapeGroups

-----------------------------------------------------------------------------
(* The next group of the shape that is being drawn.                        *)

LEMMA SketchFirst ==
  ASSUME NEW st \in Parsers, st.reading, NEW s \in Shapes, NEW n \in Nat, Len(st.entities) = n
  PROVE  LET g == Groups(s)[1]
             es == ReadGroup(st, g).entities
         IN /\ ReadGroup(st, g).reading /\ g[1] = 0
            /\ es \in Seq(Ent) /\ Len(es) = n + 1 /\ Sketch(es, n, s, 1)
            /\ \A i \in 1..n : es[i] = st.entities[i]
<1> DEFINE g == Groups(s)[1]
           es == Append(st.entities, Entity(s.kind))
<1>1. s.kind \in Types /\ g = <<0, s.kind>>
  BY ShapeTypes, ShapeGroups DEF Types
<1>2. /\ ReadGroup(st, g) = [reading |-> TRUE, entities |-> es]
      /\ es \in Seq(Ent) /\ Len(es) = n + 1 /\ es[n + 1] = Entity(s.kind)
      /\ \A i \in 1..n : es[i] = st.entities[i]
  BY <1>1, EntityRead
<1>3. Looks(es[n + 1], s, 1)
  BY <1>2, LooksFirst
<1> HIDE DEF es, g
<1>4. Sketch(es, n, s, 1)
  BY <1>2, <1>3 DEF Sketch
<1>5. g[1] = 0 /\ ReadGroup(st, g).reading /\ ReadGroup(st, g).entities = es
  BY <1>1, <1>2
<1> QED
  BY <1>2, <1>4, <1>5 DEF g

\* A vertex, or the end of an old POLYLINE.
LEMMA SketchPart ==
  ASSUME NEW st \in Parsers, st.reading, NEW s \in Shapes, NEW n \in Nat,
         NEW k \in 1..(Len(Groups(s)) - 1), Sketch(st.entities, n, s, k), Groups(s)[k + 1][1] = 0
  PROVE  LET es == ReadGroup(st, Groups(s)[k + 1]).entities
         IN /\ ReadGroup(st, Groups(s)[k + 1]).reading
            /\ es \in Seq(Ent) /\ Len(es) = Len(st.entities) + 1 /\ Sketch(es, n, s, k + 1)
            /\ \A i \in 1..n : es[i] = st.entities[i]
<1> DEFINE g == Groups(s)[k + 1]
           old == st.entities
           m == Len(old)
<1>1. k \in Nat /\ k + 1 \in 2..Len(Groups(s))
  BY ShapeGroups
<1>2. s.kind = "POLYLINE" /\ k >= 4 /\ g \in {<<0, "VERTEX">>, <<0, "SEQEND">>}
  BY <1>1, ShapeGroups
<1>3. PICK type \in {"VERTEX", "SEQEND"} : g = <<0, type>>
  BY <1>2
<1> DEFINE es == Append(old, Entity(type))
<1>4. m \in Nat /\ m > n
  BY DEF Sketch, Parsers
<1>5. type \in Types /\ Part(Entity(type))
  <2>1. type \in Types
    BY DEF Types
  <2> QED
    BY <2>1, EntityTypes DEF Part, Entity
<1>6. /\ ReadGroup(st, g) = [reading |-> TRUE, entities |-> es]
      /\ es \in Seq(Ent) /\ Len(es) = m + 1 /\ es[m + 1] = Entity(type)
      /\ \A i \in 1..m : es[i] = old[i]
  BY <1>3, <1>5, EntityRead
<1>7. Looks(old[n + 1], s, k) /\ \A i \in (n + 2)..m : Part(old[i])
  BY <1>1 DEF Sketch
<1> HIDE DEF es, g, m, old
<1>8. Looks(es[n + 1], s, k + 1)
  <2>1. es[n + 1] = old[n + 1]
    BY <1>4, <1>6
  <2> QED
    BY <1>1, <1>2, <1>7, <2>1, LooksMore
<1>9. \A i \in (n + 2)..(m + 1) : Part(es[i])
  <2> TAKE i \in (n + 2)..(m + 1)
  <2>1. CASE i = m + 1
    BY <1>5, <1>6, <2>1
  <2>2. CASE i \in (n + 2)..m
    BY <1>4, <1>6, <1>7, <2>2
  <2> QED
    BY <1>4, <2>1, <2>2
<1>10. Sketch(es, n, s, k + 1)
  BY <1>1, <1>2, <1>4, <1>6, <1>8, <1>9 DEF Sketch
<1>11. \A i \in 1..n : es[i] = old[i]
  BY <1>4, <1>6
<1> QED
  BY <1>6, <1>10, <1>11 DEF g, m, old

\* A group that belongs to the last entity.
LEMMA SketchValue ==
  ASSUME NEW st \in Parsers, st.reading, NEW s \in Shapes, NEW n \in Nat,
         NEW k \in 1..(Len(Groups(s)) - 1), Sketch(st.entities, n, s, k), Groups(s)[k + 1][1] # 0
  PROVE  LET es == ReadGroup(st, Groups(s)[k + 1]).entities
         IN /\ ReadGroup(st, Groups(s)[k + 1]).reading
            /\ es \in Seq(Ent) /\ Len(es) = Len(st.entities) /\ Sketch(es, n, s, k + 1)
            /\ \A i \in 1..n : es[i] = st.entities[i]
<1> DEFINE g == Groups(s)[k + 1]
           old == st.entities
           m == Len(old)
           es == Longer(old, g)
<1>1. k \in Nat /\ k >= 1 /\ k + 1 \in 2..Len(Groups(s))
  BY ShapeGroups
<1>2. g[1] # 0 /\ g[1] # 2 /\ (g[1] \in Codes => g[2] \in Int)
  BY <1>1, ShapeGroups
<1>3. old \in Seq(Ent) /\ m \in Nat /\ m > n
  BY DEF Sketch, Parsers
<1>4. /\ Looks(old[n + 1], s, k) /\ \A i \in (n + 2)..m : Part(old[i])
      /\ m = n + 1 <=> (s.kind # "POLYLINE" \/ k <= 4)
  BY <1>1 DEF Sketch
<1>5. s.kind = "POLYLINE" /\ k <= 4 => k < 4
  BY <1>1, <1>2, ShapeGroups
<1>6. ReadGroup(st, g) = [reading |-> TRUE, entities |-> es]
  BY <1>2, ValueRead
<1>7. m = n + 1 => Looks(Extended(old[n + 1], g), s, k + 1)
  BY <1>4, <1>5, LooksNext
<1> HIDE DEF g, old
<1>8. /\ es \in Seq(Ent) /\ Len(es) = m
      /\ \A i \in 1..m : es[i] = IF i = m THEN Extended(old[i], g) ELSE old[i]
  BY <1>2, <1>3, LongerProperties
<1> HIDE DEF es, m
<1>9. Looks(es[n + 1], s, k + 1)
  <2>1. CASE m = n + 1
    BY <1>3, <1>7, <1>8, <2>1
  <2>2. CASE m # n + 1
    <3>1. es[n + 1] = old[n + 1]
      BY <1>3, <1>8, <2>2
    <3>2. s.kind = "POLYLINE" /\ k > 4
      BY <1>1, <1>4, <2>2
    <3> QED
      BY <1>1, <1>4, <3>1, <3>2, LooksMore
  <2> QED
    BY <2>1, <2>2
<1>10. \A i \in (n + 2)..m : Part(es[i])
  <2> TAKE i \in (n + 2)..m
  <2>1. i \in 1..m /\ Part(old[i])
    BY <1>3, <1>4
  <2>2. Part(Extended(old[i], g))
    BY <1>2, <2>1, ExtendedTypes DEF Part
  <2> QED
    BY <1>8, <2>1, <2>2
<1>11. m = n + 1 <=> (s.kind # "POLYLINE" \/ k + 1 <= 4)
  BY <1>1, <1>4, <1>5
<1>12. Sketch(es, n, s, k + 1)
  BY <1>1, <1>3, <1>8, <1>9, <1>10, <1>11 DEF Sketch
<1>13. \A i \in 1..n : es[i] = old[i]
  BY <1>3, <1>8
<1> QED
  BY <1>6, <1>8, <1>12, <1>13 DEF g, m, old

LEMMA SketchNext ==
  ASSUME NEW st \in Parsers, st.reading, NEW s \in Shapes, NEW n \in Nat,
         NEW k \in 0..(Len(Groups(s)) - 1), Sketch(st.entities, n, s, k)
  PROVE  LET g == Groups(s)[k + 1]
             es == ReadGroup(st, g).entities
         IN /\ ReadGroup(st, g) \in Parsers /\ ReadGroup(st, g).reading
            /\ Len(es) = IF g[1] = 0 THEN Len(st.entities) + 1 ELSE Len(st.entities)
            /\ Sketch(es, n, s, k + 1) /\ \A i \in 1..n : es[i] = st.entities[i]
<1> DEFINE g == Groups(s)[k + 1]
           new == ReadGroup(st, g)
<1>1. /\ new.reading /\ new.entities \in Seq(Ent)
      /\ Len(new.entities) = IF g[1] = 0 THEN Len(st.entities) + 1 ELSE Len(st.entities)
      /\ Sketch(new.entities, n, s, k + 1) /\ \A i \in 1..n : new.entities[i] = st.entities[i]
  <2>1. CASE k = 0
    <3>1. Len(st.entities) = n /\ g = Groups(s)[1] /\ k + 1 = 1
      BY <2>1 DEF Sketch
    <3> QED
      BY <3>1, SketchFirst
  <2>2. CASE k # 0 /\ g[1] = 0
    <3>1. k \in 1..(Len(Groups(s)) - 1)
      BY <2>2, ShapeGroups
    <3> QED
      BY <2>2, <3>1, SketchPart
  <2>3. CASE k # 0 /\ g[1] # 0
    <3>1. k \in 1..(Len(Groups(s)) - 1)
      BY <2>3, ShapeGroups
    <3> QED
      BY <2>3, <3>1, SketchValue
  <2> QED
    BY <2>1, <2>2, <2>3
<1>2. \E r, es : new = [reading |-> r, entities |-> es] /\ r \in BOOLEAN
  BY DEF ReadGroup, Parsers
<1>3. new \in Parsers
  BY <1>1, <1>2 DEF Parsers
<1> QED
  BY <1>1, <1>3

LEMMA CompleteKept ==
  ASSUME NEW n \in Nat, NEW es, NEW fs, NEW d, Complete(es, n, d), \A i \in 1..n : fs[i] = es[i]
  PROVE  Complete(fs, n, d)
BY DEF Complete

\* A shape of which every group has been read.
LEMMA CompleteMore ==
  ASSUME NEW es \in Seq(Ent), NEW n \in Nat, NEW d, NEW s \in Shapes,
         Complete(es, n, d), Sketch(es, n, s, Len(Groups(s)))
  PROVE  Complete(es, Len(es), [i \in DOMAIN d \cup {n + 1} |-> IF i = n + 1 THEN s ELSE d[i]])
<1> DEFINE f == [i \in DOMAIN d \cup {n + 1} |-> IF i = n + 1 THEN s ELSE d[i]]
           m == Len(es)
<1>1. m \in Nat /\ m > n /\ Looks(es[n + 1], s, Len(Groups(s))) /\ \A i \in (n + 2)..m : Part(es[i])
  BY ShapeGroups DEF Sketch
<1>2. /\ DOMAIN f = DOMAIN d \cup {n + 1} /\ f[n + 1] = s
      /\ \A i \in DOMAIN d : i # n + 1 => f[i] = d[i]
  OBVIOUS
<1>3. /\ DOMAIN d \subseteq 1..n
      /\ \A i \in DOMAIN d : d[i] \in Shapes /\ Looks(es[i], d[i], Len(Groups(d[i])))
      /\ \A i \in (1..n) \ DOMAIN d : Part(es[i])
  BY DEF Complete
<1> HIDE DEF f, m
<1>4. DOMAIN f \subseteq 1..m
  BY <1>1, <1>2, <1>3
<1>5. \A i \in DOMAIN f : f[i] \in Shapes /\ Looks(es[i], f[i], Len(Groups(f[i])))
  <2> TAKE i \in DOMAIN f
  <2>1. CASE i = n + 1
    BY <1>1, <1>2, <2>1
  <2>2. CASE i \in DOMAIN d /\ i # n + 1
    BY <1>2, <1>3, <2>2
  <2> QED
    BY <1>2, <2>1, <2>2
<1>6. \A i \in (1..m) \ DOMAIN f : Part(es[i])
  <2> TAKE i \in (1..m) \ DOMAIN f
  <2>1. i \notin DOMAIN d /\ i # n + 1
    BY <1>2
  <2>2. i \in 1..n \/ i \in (n + 2)..m
    BY <1>1, <2>1
  <2> QED
    BY <1>1, <1>3, <2>1, <2>2
<1>7. Complete(es, m, f)
  BY <1>4, <1>5, <1>6 DEF Complete
<1> QED
  BY <1>7 DEF f, m

-----------------------------------------------------------------------------
(* The invariant.                                                          *)

LEMMA InitDxf ==
  DxfInit => DxfInv
<1> SUFFICES ASSUME DxfInit PROVE Read /\ Between /\ Idle
  BY DEF DxfInv
<1>1. parser = [reading |-> FALSE, entities |-> <<>>] /\ begun = 0 /\ ended = 0 /\ drawn = <<>>
  BY DEF DxfInit
<1>2. parser \in Parsers /\ Len(parser.entities) = 0
  BY <1>1 DEF Parsers
<1>3. DOMAIN drawn = {} /\ 1..ended = {}
  BY <1>1
<1>4. Complete(parser.entities, ended, drawn)
  BY <1>1, <1>3 DEF Complete
<1>5. Read
  BY <1>1, <1>2, <1>4 DEF Read
<1>6. ~parser.reading /\ ~(section = "ENTITIES")
  BY <1>1 DEF DxfInit
<1>7. Idle /\ Between
  BY <1>1, <1>6 DEF Idle, Between, DxfInit
<1> QED
  BY <1>5, <1>7

\* A file that misnames something has done so before or does it now.
LEMMA MisnamedKept ==
  DxfNext /\ ~misnamed' => ~misnamed
BY DEF DxfNext, OpenSection, CloseSection, Draw, NameBlock, WriteGroup

\* Nothing waits to be written between two shapes only.
LEMMA Waiting ==
  DxfInv /\ ~misnamed /\ pending = <<>> => Read /\ Between /\ Idle
<1> SUFFICES ASSUME DxfInv, ~misnamed, pending = <<>> PROVE Read /\ Between /\ Idle
  OBVIOUS
<1>1. ~Opening /\ ~Closing
  BY DEF Opening, Closing
<1>2. ASSUME NEW s \in Shapes PROVE ~InBlock(s) /\ ~Sketching(s)
  BY <1>2, ShapeGroups DEF InBlock, Sketching
<1> QED
  BY <1>1, <1>2 DEF DxfInv

\* What has been read stays while the writer decides what to write.
LEMMA ReadKept ==
  Read /\ UNCHANGED <<parser, begun, ended, drawn>> => Read'
BY DEF Read, Complete

LEMMA OpenDxf ==
  ASSUME NEW name \in {"HEADER", "BLOCKS", "ENTITIES"}
  PROVE  DxfInv /\ ~misnamed /\ OpenSection(name) => DxfInv'
<1> SUFFICES ASSUME DxfInv, ~misnamed, OpenSection(name) PROVE DxfInv'
  OBVIOUS
<1>1. Read /\ Between /\ Idle
  BY Waiting DEF OpenSection, Begin
<1>2. Read'
  BY <1>1, ReadKept DEF OpenSection, Begin
<1>3. section # "ENTITIES" /\ ~parser.reading
  BY <1>1 DEF OpenSection, Idle
<1>4. Between'
  BY <1>1 DEF OpenSection, Begin, Between
<1>5. offset' = 0 /\ ~parser'.reading /\ section' = name /\ pending' = <<<<0, "SECTION">>, <<2, name>>>>
  BY <1>1, <1>3 DEF OpenSection, Begin, Idle
<1>6. Opening'
  BY <1>5 DEF Opening
<1> QED
  BY <1>2, <1>4, <1>6 DEF DxfInv

LEMMA CloseDxf ==
  DxfInv /\ ~misnamed /\ CloseSection => DxfInv'
<1> SUFFICES ASSUME DxfInv, ~misnamed, CloseSection PROVE DxfInv'
  OBVIOUS
<1>1. Read /\ Between /\ Idle
  BY Waiting DEF CloseSection, Begin
<1>2. Read'
  BY <1>1, ReadKept DEF CloseSection, Begin
<1>3. Between' /\ Closing'
  BY <1>1 DEF CloseSection, Begin, Between, Closing, Idle
<1> QED
  BY <1>2, <1>3 DEF DxfInv

LEMMA DrawDxf ==
  ASSUME NEW s \in Shapes
  PROVE  DxfInv /\ ~misnamed /\ Draw(s) => DxfInv'
<1> SUFFICES ASSUME DxfInv, ~misnamed, Draw(s) PROVE DxfInv'
  OBVIOUS
<1>1. Read /\ Between /\ Idle
  BY Waiting DEF Draw, Begin
<1>2. Read'
  BY <1>1, ReadKept DEF Draw, Begin
<1>3. /\ pending' = Groups(s) /\ offset' = 0 /\ offset' \in 0..(Len(pending') - 1)
      /\ UNCHANGED <<section, parser, ended, begun>>
  BY <1>1, ShapeGroups DEF Draw, Begin, Idle
<1>4. CASE section = "BLOCKS"
  <2>1. Between' /\ InBlock(s)'
    BY <1>1, <1>3, <1>4 DEF Draw, Begin, Between, Idle, InBlock
  <2> QED
    BY <1>2, <2>1 DEF DxfInv
<1>5. CASE section = "ENTITIES"
  <2>1. shape' = <<s>>
    BY <1>5 DEF Draw, Begin
  <2>2. Sketch(parser.entities, ended, s, 0)
    BY <1>1 DEF Sketch, Between, Read
  <2>3. Sketching(s)'
    BY <1>1, <1>3, <1>5, <2>1, <2>2 DEF Sketching, Idle
  <2> QED
    BY <1>2, <2>3 DEF DxfInv
<1> QED
  BY <1>4, <1>5 DEF Draw

\* A group of a header, or of a shape in a block, is passed over.
LEMMA PassedOver ==
  ASSUME NEW m, NEW g, Between, g = pending[offset + 1], WriteGroup,
         ReadGroup(parser, g) = [reading |-> m, entities |-> parser.entities],
         m \in BOOLEAN, Read
  PROVE  /\ parser' = [reading |-> m, entities |-> parser.entities] /\ Read' /\ Between'
         /\ UNCHANGED section
         /\ \/ offset + 1 < Len(pending) /\ offset' = offset + 1 /\ pending' = pending
            \/ offset + 1 = Len(pending) /\ offset' = 0 /\ pending' = <<>>
<1>1. parser' = [reading |-> m, entities |-> parser.entities] /\ begun' = begun
  BY DEF WriteGroup, Between
<1>2. drawn' = drawn /\ ended' = ended /\ shape' = <<>> /\ ended' = begun'
  BY <1>1 DEF WriteGroup, Between
<1>3. parser'.entities = parser.entities /\ parser' \in Parsers
  BY <1>1 DEF Read, Parsers
<1>4. Read'
  BY <1>1, <1>2, <1>3 DEF Read, Complete
<1> QED
  BY <1>1, <1>2, <1>4 DEF WriteGroup, Between

LEMMA WriteOpening ==
  DxfInv /\ ~misnamed /\ WriteGroup /\ Read /\ Between /\ Opening => DxfInv'
<1> SUFFICES ASSUME ~misnamed, WriteGroup, Read, Between, Opening PROVE DxfInv'
  OBVIOUS
<1>1. /\ section \in {"HEADER", "BLOCKS", "ENTITIES"} /\ offset \in {0, 1}
      /\ pending = <<<<0, "SECTION">>, <<2, section>>>> /\ ~parser.reading /\ Len(pending) = 2
  BY DEF Opening
<1>2. parser \in Parsers
  BY DEF Read
<1>3. CASE offset = 0
  <2>1. pending[offset + 1] = <<0, "SECTION">>
    BY <1>1, <1>3
  <2>2. ReadGroup(parser, <<0, "SECTION">>) = [reading |-> FALSE, entities |-> parser.entities]
    BY <1>2, HeaderRead
  <2>3. /\ parser' = [reading |-> FALSE, entities |-> parser.entities] /\ Read' /\ Between'
        /\ UNCHANGED section
        /\ \/ offset + 1 < Len(pending) /\ offset' = offset + 1 /\ pending' = pending
           \/ offset + 1 = Len(pending) /\ offset' = 0 /\ pending' = <<>>
    BY <2>1, <2>2, PassedOver
  <2>4. Opening'
    BY <1>1, <1>3, <2>3 DEF Opening
  <2> QED
    BY <2>3, <2>4 DEF DxfInv
<1>4. CASE offset = 1
  <2> DEFINE m == (section = "ENTITIES")
  <2>1. pending[offset + 1] = <<2, section>>
    BY <1>1, <1>4
  <2>2. ReadGroup(parser, <<2, section>>) = [reading |-> m, entities |-> parser.entities]
    <3>1. CASE section = "ENTITIES"
      BY <1>2, <3>1, SectionRead
    <3>2. CASE section \in {"HEADER", "BLOCKS"}
      BY <1>1, <1>2, <3>2, NameRead
    <3> QED
      BY <1>1, <3>1, <3>2
  <2>3. m \in BOOLEAN
    OBVIOUS
  <2> HIDE DEF m
  <2>4. /\ parser' = [reading |-> m, entities |-> parser.entities] /\ Read' /\ Between'
        /\ UNCHANGED section
        /\ \/ offset + 1 < Len(pending) /\ offset' = offset + 1 /\ pending' = pending
           \/ offset + 1 = Len(pending) /\ offset' = 0 /\ pending' = <<>>
    BY <2>1, <2>2, <2>3, PassedOver
  <2>5. Idle'
    <3>1. parser'.reading = m
      BY <2>4
    <3>2. parser'.reading <=> section' = "ENTITIES"
      BY <2>4, <3>1 DEF m
    <3>3. offset' = 0 /\ pending' = <<>>
      BY <1>1, <1>4, <2>4
    <3> QED
      BY <3>2, <3>3 DEF Idle
  <2> QED
    BY <2>4, <2>5 DEF DxfInv
<1> QED
  BY <1>1, <1>3, <1>4

LEMMA WriteClosing ==
  ~misnamed /\ WriteGroup /\ Read /\ Between /\ Closing => DxfInv'
<1> SUFFICES ASSUME ~misnamed, WriteGroup, Read, Between, Closing PROVE DxfInv'
  OBVIOUS
<1>1. pending = <<<<0, "ENDSEC">>>> /\ offset = 0 /\ section = "none" /\ offset + 1 = 1
  BY DEF Closing
<1>7. pending[offset + 1] = <<0, "ENDSEC">> /\ Len(pending) = 1
  BY <1>1
<1>2. ReadGroup(parser, <<0, "ENDSEC">>) = [reading |-> FALSE, entities |-> parser.entities]
  BY HeaderRead DEF Read
<1>3. /\ parser' = [reading |-> FALSE, entities |-> parser.entities] /\ Read' /\ Between'
      /\ UNCHANGED section
      /\ \/ offset + 1 < Len(pending) /\ offset' = offset + 1 /\ pending' = pending
         \/ offset + 1 = Len(pending) /\ offset' = 0 /\ pending' = <<>>
  BY <1>7, <1>2, PassedOver
<1>4. offset' = 0 /\ pending' = <<>> /\ section' = "none" /\ ~parser'.reading
  BY <1>7, <1>1, <1>3
<1>5. ~(section' = "ENTITIES")
  BY <1>4
<1>6. Idle'
  BY <1>4, <1>5 DEF Idle
<1> QED
  BY <1>3, <1>6 DEF DxfInv

LEMMA WriteInBlock ==
  ASSUME NEW s \in Shapes
  PROVE  ~misnamed /\ WriteGroup /\ Read /\ Between /\ InBlock(s) => DxfInv'
<1> SUFFICES ASSUME ~misnamed, WriteGroup, Read, Between, InBlock(s) PROVE DxfInv'
  OBVIOUS
<1> DEFINE g == Groups(s)[offset + 1]
<1>1. /\ pending = Groups(s) /\ offset \in 0..(Len(Groups(s)) - 1) /\ section = "BLOCKS"
      /\ ~parser.reading /\ Len(Groups(s)) \in Nat /\ parser \in Parsers
  BY ShapeGroups DEF InBlock, Read
<1>2. g[1] # 2 /\ (g[1] = 0 => g[2] \in Types)
  <2>1. CASE offset = 0
    BY <2>1, ShapeGroups, ShapeTypes DEF Types
  <2>2. CASE offset # 0
    <3>1. offset + 1 \in 2..Len(Groups(s))
      BY <1>1, <2>2
    <3> QED
      BY <3>1, ShapeGroups DEF Types
  <2> QED
    BY <2>1, <2>2
<1> HIDE DEF g
<1>3. ReadGroup(parser, g) = [reading |-> FALSE, entities |-> parser.entities]
  BY <1>1, <1>2, Skipped
<1>4. /\ parser' = [reading |-> FALSE, entities |-> parser.entities] /\ Read' /\ Between'
      /\ UNCHANGED section
      /\ \/ offset + 1 < Len(pending) /\ offset' = offset + 1 /\ pending' = pending
         \/ offset + 1 = Len(pending) /\ offset' = 0 /\ pending' = <<>>
  BY <1>1, <1>3, PassedOver DEF g
<1>5. CASE offset + 1 < Len(pending) /\ offset' = offset + 1 /\ pending' = pending
  <2>1. InBlock(s)'
    BY <1>1, <1>4, <1>5 DEF InBlock
  <2> QED
    BY <1>4, <2>1 DEF DxfInv
<1>6. CASE offset' = 0 /\ pending' = <<>>
  <2>1. Idle'
    BY <1>1, <1>4, <1>6 DEF Idle
  <2> QED
    BY <1>4, <2>1 DEF DxfInv
<1> QED
  BY <1>4, <1>5, <1>6

LEMMA WriteSketching ==
  ASSUME NEW s \in Shapes
  PROVE  ~misnamed /\ WriteGroup /\ Read /\ Sketching(s) => DxfInv'
<1> SUFFICES ASSUME ~misnamed, WriteGroup, Read, Sketching(s) PROVE DxfInv'
  OBVIOUS
<1> DEFINE g == Groups(s)[offset + 1]
           es == parser'.entities
<1>1. /\ pending = Groups(s) /\ offset \in 0..(Len(Groups(s)) - 1) /\ section = "ENTITIES"
      /\ parser.reading /\ Len(Groups(s)) \in Nat /\ shape = <<s>>
      /\ Sketch(parser.entities, ended, s, offset)
  BY ShapeGroups DEF Sketching
<1>2. /\ parser \in Parsers /\ begun = Len(parser.entities) /\ ended \in 0..begun /\ ended \in Nat
      /\ Complete(parser.entities, ended, drawn) /\ begun \in Nat
  BY DEF Read, Parsers
<1>3. /\ parser' = ReadGroup(parser, g) /\ begun' = (IF g[1] = 0 THEN begun + 1 ELSE begun)
      /\ UNCHANGED <<section, misnamed>>
  BY <1>1 DEF WriteGroup
<1>4. /\ parser' \in Parsers /\ parser'.reading
      /\ Len(es) = IF g[1] = 0 THEN Len(parser.entities) + 1 ELSE Len(parser.entities)
      /\ Sketch(es, ended, s, offset + 1) /\ \A i \in 1..ended : es[i] = parser.entities[i]
  BY <1>1, <1>2, <1>3, SketchNext
<1> HIDE DEF g
<1>5. begun' = Len(es) /\ begun' \in Nat /\ es \in Seq(Ent)
  BY <1>2, <1>3, <1>4 DEF Parsers
<1>6. Complete(es, ended, drawn)
  <2> HIDE DEF es
  <2> QED
    BY <1>2, <1>4, CompleteKept
<1>7. CASE offset + 1 < Len(pending) /\ offset' = offset + 1 /\ UNCHANGED <<pending, shape, drawn, ended>>
  <2>1. ended \in 0..begun'
    BY <1>2, <1>3
  <2>2. Read'
    BY <1>4, <1>5, <1>6, <1>7, <2>1 DEF Read
  <2>3. Sketching(s)'
    BY <1>1, <1>3, <1>4, <1>7 DEF Sketching
  <2> QED
    BY <2>2, <2>3 DEF DxfInv
<1>8. CASE /\ offset + 1 = Len(pending) /\ offset' = 0 /\ pending' = <<>> /\ shape' = <<>>
           /\ ended' = begun'
           /\ drawn' = [i \in DOMAIN drawn \cup {ended + 1} |->
                          IF i = ended + 1 THEN s ELSE drawn[i]]
  <2>1. Sketch(es, ended, s, Len(Groups(s)))
    BY <1>1, <1>4, <1>8
  <2>2. Complete(es, Len(es), drawn')
    <3> HIDE DEF es
    <3>1. es \in Seq(Ent) /\ ended \in Nat
      BY <1>2, <1>5
    <3>2. Complete(es, Len(es), [i \in DOMAIN drawn \cup {ended + 1} |->
                                   IF i = ended + 1 THEN s ELSE drawn[i]])
      BY <1>6, <2>1, <3>1, CompleteMore
    <3> QED
      BY <1>8, <3>2
  <2>3. Read'
    BY <1>4, <1>5, <1>8, <2>2 DEF Read
  <2>4. Between' /\ Idle'
    BY <1>1, <1>3, <1>4, <1>8 DEF Between, Idle
  <2> QED
    BY <2>3, <2>4 DEF DxfInv
<1>9. shape # <<>> /\ shape[1] = s
  BY <1>1
<1> QED
  BY <1>7, <1>8, <1>9 DEF WriteGroup

LEMMA WriteDxf ==
  DxfInv /\ ~misnamed /\ WriteGroup => DxfInv'
<1> SUFFICES ASSUME DxfInv, ~misnamed, WriteGroup PROVE DxfInv'
  OBVIOUS
<1>1. Read /\ ~Idle
  BY DEF DxfInv, Idle, WriteGroup
<1>2. CASE Between /\ Opening
  BY <1>1, <1>2, WriteOpening
<1>3. CASE Between /\ Closing
  BY <1>1, <1>3, WriteClosing
<1>4. ASSUME NEW s \in Shapes, Between, InBlock(s) PROVE DxfInv'
  BY <1>1, <1>4, WriteInBlock
<1>5. ASSUME NEW s \in Shapes, Sketching(s) PROVE DxfInv'
  BY <1>1, <1>5, WriteSketching
<1> QED
  BY <1>1, <1>2, <1>3, <1>4, <1>5 DEF DxfInv

LEMMA NextDxf ==
  DxfInv /\ [DxfNext]_dxfVars => DxfInv'
<1> SUFFICES ASSUME DxfInv, [DxfNext]_dxfVars PROVE DxfInv'
  OBVIOUS
<1>1. CASE UNCHANGED dxfVars
  BY <1>1 DEF dxfVars, DxfInv, Read, Complete, Between, Idle, Opening, Closing, InBlock, Sketching
<1>2. CASE DxfNext /\ misnamed'
  BY <1>2 DEF DxfInv
<1>3. CASE DxfNext /\ ~misnamed'
  <2>1. ~misnamed /\ ~NameBlock
    BY <1>3, MisnamedKept DEF NameBlock
  <2>2. ASSUME NEW name \in {"HEADER", "BLOCKS", "ENTITIES"}, OpenSection(name) PROVE DxfInv'
    BY <2>1, <2>2, OpenDxf
  <2>3. ASSUME NEW s \in Shapes, Draw(s) PROVE DxfInv'
    BY <2>1, <2>3, DrawDxf
  <2> QED
    BY <1>3, <2>1, <2>2, <2>3, CloseDxf, WriteDxf DEF DxfNext
<1> QED
  BY <1>1, <1>2, <1>3

\* While no section but ENTITIES has held something of that name, the parser has
\* read exactly what the writer has drawn there.
THEOREM DrawingRead == DxfSpec => []DxfInv
BY InitDxf, NextDxf, PTL DEF DxfSpec

-----------------------------------------------------------------------------
(* What is measured of a complete shape.                                   *)

LEMMA FloatOf ==
  ASSUME NEW e, NEW c, NEW v, e.values[c] = <<v>>
  PROVE  Float(e, c) = v
BY DEF Float

\* A point is the pair of its coordinates.
LEMMA Points ==
  ASSUME NEW s \in Shapes
  PROVE  \A i \in 1..Len(s.points) : s.points[i] = <<s.points[i][1], s.points[i][2]>>
<1> TAKE i \in 1..Len(s.points)
<1>1. s.points[i] \in Int \X Int
  BY ShapesAssumption
<1> QED
  BY <1>1

LEMMA LineMeasured ==
  ASSUME NEW s \in Shapes, s.kind = "LINE", NEW e, Looks(e, s, Len(Groups(s)))
  PROVE  <<Point(e, 10, 20), Point(e, 11, 21)>> = s.points
<1> DEFINE p == s.points
<1>1. Len(Groups(s)) = 6
  BY LineGroups
<1>2. /\ e.values[10] = <<p[1][1]>> /\ e.values[20] = <<p[1][2]>>
      /\ e.values[11] = <<p[2][1]>> /\ e.values[21] = <<p[2][2]>>
  BY <1>1 DEF Looks, From
<1>3. p \in Seq(Int \X Int) /\ Len(p) = 2 /\ p[1] = <<p[1][1], p[1][2]>> /\ p[2] = <<p[2][1], p[2][2]>>
  BY ShapeTypes, Points
<1> HIDE DEF p
<1>4. Point(e, 10, 20) = p[1] /\ Point(e, 11, 21) = p[2]
  BY <1>2, <1>3, FloatOf DEF Point
<1>5. <<p[1], p[2]>> = p
  BY <1>3
<1> QED
  BY <1>4, <1>5 DEF p

LEMMA RoundMeasured ==
  ASSUME NEW s \in Shapes, s.kind \in {"CIRCLE", "ARC"}, NEW e, Looks(e, s, Len(Groups(s)))
  PROVE  Point(e, 10, 20) = s.points[1] /\ Float(e, 40) = s.radius
<1>1. Len(Groups(s)) = 4
  BY RoundGroups
<1>2. /\ e.values[10] = <<s.points[1][1]>> /\ e.values[20] = <<s.points[1][2]>>
      /\ e.values[40] = <<s.radius>>
  BY <1>1 DEF Looks, From
<1>3. s.points[1] = <<s.points[1][1], s.points[1][2]>>
  BY ShapeTypes, Points
<1> QED
  BY <1>2, <1>3, FloatOf DEF Point

LEMMA LightMeasured ==
  ASSUME NEW s \in Shapes, s.kind = "LWPOLYLINE", NEW e, Looks(e, s, Len(Groups(s)))
  PROVE  Vertices(e) = s.points /\ (Closed(e) <=> s.flag % 2 = 1)
<1> DEFINE p == s.points
           n == Len(p)
           xs == [i \in 1..n |-> p[i][1]]
           ys == [i \in 1..n |-> p[i][2]]
<1>1. /\ n \in Nat /\ p \in Seq(Int \X Int)
      /\ \A i \in 1..n : p[i] = <<p[i][1], p[i][2]>> /\ p[i][1] \in Int /\ p[i][2] \in Int
  BY ShapeTypes, Points
<1>2. Len(Groups(s)) = 3 + 2 * n
  BY LightGroups
<1>3. Abscissas(3 + 2 * n) = n /\ Ordinates(3 + 2 * n) = n
  <2> HIDE DEF n
  <2>1. CASE n = 0
    BY <2>1 DEF Abscissas, Ordinates
  <2>2. CASE n > 0
    <3> DEFINE k == 3 + 2 * n
    <3>1. k \in Int /\ ~(k <= 3) /\ (k - 2) \div 2 = n /\ (k - 3) \div 2 = n
      BY <1>1, <2>2
    <3> HIDE DEF k
    <3>2. Abscissas(k) = n /\ Ordinates(k) = n
      BY <3>1 DEF Abscissas, Ordinates
    <3> QED
      BY <3>2 DEF k
  <2> QED
    BY <1>1, <2>1, <2>2
<1>4. e.values[10] = xs /\ e.values[20] = ys /\ e.values[70] = <<s.flag>> /\ e.type = "LWPOLYLINE"
  <2> DEFINE k == Len(Groups(s))
  <2>1. /\ e.type = "LWPOLYLINE" /\ e.values[70] = From(k, 3, s.flag)
        /\ e.values[10] = [i \in 1..Abscissas(k) |-> p[i][1]]
        /\ e.values[20] = [i \in 1..Ordinates(k) |-> p[i][2]]
    BY DEF Looks
  <2>2. k >= 3 /\ Abscissas(k) = n /\ Ordinates(k) = n
    BY <1>1, <1>2, <1>3
  <2> HIDE DEF k
  <2> QED
    BY <2>1, <2>2 DEF From
<1>5. xs \in Seq(Int) /\ ys \in Seq(Int) /\ Len(xs) = n /\ Len(ys) = n
  BY <1>1
<1>6. \A i \in 1..n : xs[i] = p[i][1] /\ ys[i] = p[i][2]
  OBVIOUS
<1> HIDE DEF p, n, xs, ys
<1>7. Vertices(e) = [i \in 1..n |-> <<xs[i], ys[i]>>]
  BY <1>4, <1>5 DEF Vertices
<1>8. p = [i \in 1..n |-> p[i]]
  BY <1>1 DEF n
<1>9. Vertices(e) = p
  BY <1>1, <1>6, <1>7, <1>8
<1>10. Float(e, 70) = s.flag
  BY <1>4, FloatOf
<1> QED
  BY <1>4, <1>9, <1>10 DEF Closed, p

\* An old POLYLINE has one point of its own, and that is no line.
LEMMA OldMeasured ==
  ASSUME NEW s \in Shapes, s.kind = "POLYLINE", NEW e, Looks(e, s, Len(Groups(s)))
  PROVE  ~(Len(Vertices(e)) >= 2)
<1>1. e.values[10] = <<0>> /\ e \in Ent
  BY ShapeGroups DEF Looks, From
<1> DEFINE ys == e.values[20]
           xs == e.values[10]
           m == IF Len(xs) < Len(ys) THEN Len(xs) ELSE Len(ys)
<1>2. ys \in Seq(Int)
  BY <1>1 DEF Ent, Codes
<1>3. Len(xs) = 1 /\ Len(ys) \in Nat
  BY <1>1, <1>2
<1>4. m \in 0..1
  <2> HIDE DEF xs, ys
  <2> QED
    BY <1>3
<1> HIDE DEF m
<1>5. Len(Vertices(e)) = m
  BY <1>4 DEF Vertices, m
<1> QED
  BY <1>4, <1>5

\* The sides of a line of several points, in the order of the parser and of the drawing.
LEMMA SegmentsDrawn ==
  ASSUME NEW S, NEW p \in Seq(S), NEW closed \in BOOLEAN, Len(p) > 1
  PROVE  Segments(p, closed) =
           [j \in 1..(IF closed /\ Len(p) > 2 THEN Len(p) ELSE Len(p) - 1) |->
              <<p[j], IF j = Len(p) THEN p[1] ELSE p[j + 1]>>]
<1> DEFINE n == Len(p)
           open == [i \in 1..(n - 1) |-> <<p[i], p[i + 1]>>]
           last == <<<<p[n], p[1]>>>>
<1>1. n \in Nat /\ n > 1 /\ \A i \in 1..n : p[i] \in S
  OBVIOUS
<1>2. \A i \in 1..(n - 1) : open[i] = <<p[i], p[i + 1]>> /\ open[i] \in S \X S
  BY <1>1
<1>3. open \in Seq(S \X S) /\ Len(open) = n - 1
  BY <1>1, <1>2
<1>4. last \in Seq(S \X S) /\ Len(last) = 1 /\ last[1] = <<p[n], p[1]>>
  BY <1>1
<1>5. CASE closed /\ n > 2
  <2> DEFINE seq == open \o last
             sides == [j \in 1..n |-> <<p[j], IF j = n THEN p[1] ELSE p[j + 1]>>]
  <2>1. Segments(p, closed) = seq
    BY <1>5 DEF Segments
  <2>2. \A j \in 1..n : sides[j] = <<p[j], IF j = n THEN p[1] ELSE p[j + 1]>> /\ sides[j] \in S \X S
    BY <1>1
  <2>3. sides \in Seq(S \X S) /\ Len(sides) = n
    BY <1>1, <2>2
  <2> HIDE DEF n, open, last, sides
  <2>4. /\ seq \in Seq(S \X S) /\ Len(seq) = Len(open) + Len(last)
        /\ \A k \in 1..Len(open) : seq[k] = open[k]
        /\ \A k \in (Len(open) + 1)..(Len(open) + Len(last)) : seq[k] = last[k - Len(open)]
    BY <1>3, <1>4, Joined
  <2> HIDE DEF seq
  <2>5. \A j \in 1..n : seq[j] = sides[j]
    <3> TAKE j \in 1..n
    <3>1. CASE j = n
      <4>1. j \in (Len(open) + 1)..(Len(open) + Len(last)) /\ j - Len(open) = 1
        BY <1>1, <1>3, <1>4, <3>1
      <4> QED
        BY <1>4, <2>2, <2>4, <3>1, <4>1
    <3>2. CASE j \in 1..(n - 1)
      <4>1. j \in 1..Len(open) /\ j # n
        BY <1>1, <1>3, <3>2
      <4>2. seq[j] = <<p[j], p[j + 1]>>
        BY <1>2, <2>4, <3>2, <4>1
      <4> QED
        BY <2>2, <4>1, <4>2
    <3> QED
      BY <1>1, <3>1, <3>2
  <2>6. Len(seq) = n
    BY <1>1, <1>3, <1>4, <2>4
  <2>7. seq = sides
    BY <2>3, <2>4, <2>5, <2>6, SeqEqual
  <2> QED
    BY <1>5, <2>1, <2>7 DEF sides, n
<1>6. CASE ~(closed /\ n > 2)
  <2>1. Segments(p, closed) = open \o <<>>
    BY <1>6 DEF Segments
  <2>2. open \o <<>> = open
    <3> HIDE DEF open
    <3> QED
      BY <1>3, ConcatEmptySeq
  <2>3. \A j \in 1..(n - 1) : j # n
    BY <1>1
  <2>4. open = [j \in 1..(n - 1) |-> <<p[j], IF j = n THEN p[1] ELSE p[j + 1]>>]
    BY <2>3
  <2> QED
    BY <1>6, <2>1, <2>2, <2>4
<1> QED
  BY <1>5, <1>6

-----------------------------------------------------------------------------
(* What is measured is what has been drawn.                                *)

LEMMA Placed ==
  ASSUME Read
  PROVE  /\ parser.entities \in Seq(Ent) /\ DOMAIN parser.entities = 1..begun
         /\ begun \in Nat /\ ended \in 0..begun /\ DOMAIN drawn \subseteq 1..ended
         /\ \A i \in DOMAIN drawn :
              /\ drawn[i] \in Shapes /\ Looks(parser.entities[i], drawn[i], Len(Groups(drawn[i])))
              /\ parser.entities[i].type = drawn[i].kind /\ i \in 1..begun /\ i <= ended
         /\ \A i \in (1..ended) \ DOMAIN drawn : parser.entities[i].type \in {"VERTEX", "SEQEND"}
<1>1. parser.entities \in Seq(Ent) /\ DOMAIN parser.entities = 1..begun /\ begun \in Nat
  BY DEF Read, Parsers
<1> QED
  BY <1>1 DEF Read, Complete, Looks, Part

\* The first part of a list: the measurements of the complete shapes.
Upto(list, n) == [i \in {j \in DOMAIN list : j <= n} |-> list[i]]

LEMMA LinesAgree ==
  ASSUME Read
  PROVE  Upto(Lines(parser.entities), ended) = LinesDrawn
<1> DEFINE es == parser.entities
           list == Lines(es)
           A == {j \in DOMAIN list : j <= ended}
           B == Drawn({"LINE"})
<1>1. DOMAIN list = {j \in DOMAIN es : es[j].type = "LINE"}
  BY DEF Lines
<1>2. A = B
  BY <1>1, Placed DEF Drawn
<1>3. \A i \in B : list[i] = drawn[i].points
  <2> TAKE i \in B
  <2>1. drawn[i].kind = "LINE" /\ i \in DOMAIN drawn
    BY DEF Drawn
  <2>2. list[i] = <<Point(es[i], 10, 20), Point(es[i], 11, 21)>>
    BY <1>1, <1>2 DEF Lines
  <2> QED
    BY <2>1, <2>2, Placed, LineMeasured
<1> HIDE DEF list, A, B
<1>4. [i \in A |-> list[i]] = [i \in B |-> drawn[i].points]
  BY <1>2, <1>3
<1> QED
  BY <1>4 DEF A, B, list, LinesDrawn, Upto

LEMMA RoundsAgree ==
  ASSUME Read, NEW type \in {"CIRCLE", "ARC"}
  PROVE  Upto(Rounds(parser.entities, type), ended) = RoundsDrawn(type)
<1> DEFINE es == parser.entities
           list == Rounds(es, type)
           A == {j \in DOMAIN list : j <= ended}
           B == {j \in Drawn({type}) : drawn[j].radius > 0}
<1>1. DOMAIN list = {j \in DOMAIN es : es[j].type = type /\ Float(es[j], 40) > 0}
  BY DEF Rounds
<1>2. \A i \in DOMAIN drawn :
        drawn[i].kind = type =>
          Point(es[i], 10, 20) = drawn[i].points[1] /\ Float(es[i], 40) = drawn[i].radius
  BY Placed, RoundMeasured
<1>3. A = B
  <2>1. ASSUME NEW j \in A PROVE j \in B
    <3>1. j \in 1..begun /\ j <= ended /\ es[j].type = type /\ Float(es[j], 40) > 0
      BY <1>1, <2>1, Placed
    <3>2. j \in DOMAIN drawn /\ drawn[j].kind = type
      BY <3>1, Placed
    <3> QED
      BY <1>2, <3>1, <3>2 DEF Drawn
  <2>2. ASSUME NEW j \in B PROVE j \in A
    <3>1. j \in DOMAIN drawn /\ drawn[j].kind = type /\ drawn[j].radius > 0
      BY <2>2 DEF Drawn
    <3>2. j \in DOMAIN es /\ es[j].type = type /\ j <= ended
      BY <3>1, Placed
    <3> QED
      BY <1>1, <1>2, <3>1, <3>2
  <2> QED
    BY <2>1, <2>2
<1>4. \A i \in B : list[i] = [center |-> drawn[i].points[1], radius |-> drawn[i].radius]
  <2> TAKE i \in B
  <2>1. drawn[i].kind = type /\ i \in DOMAIN drawn
    BY DEF Drawn
  <2>2. list[i] = [center |-> Point(es[i], 10, 20), radius |-> Float(es[i], 40)]
    BY <1>1, <1>3 DEF Rounds
  <2> QED
    BY <1>2, <2>1, <2>2
<1> HIDE DEF list, A, B
<1>5. [i \in A |-> list[i]] = [i \in B |-> [center |-> drawn[i].points[1], radius |-> drawn[i].radius]]
  BY <1>3, <1>4
<1> QED
  BY <1>5 DEF A, B, list, RoundsDrawn, Upto

\* A line of several points, as it is measured and as it is drawn.
LEMMA LightAgrees ==
  ASSUME NEW s \in Shapes, s.kind = "LWPOLYLINE", Len(s.points) > 1,
         NEW e, Looks(e, s, Len(Groups(s)))
  PROVE  [closed |-> Closed(e), vertices |-> Vertices(e), segments |-> Segments(Vertices(e), Closed(e))] =
         [closed |-> s.flag % 2 = 1, vertices |-> s.points,
          segments |-> [j \in 1..Edges(s) |->
                          <<s.points[j], IF j = Len(s.points) THEN s.points[1] ELSE s.points[j + 1]>>]]
<1> DEFINE c == s.flag % 2 = 1
           sides == [j \in 1..Edges(s) |->
                       <<s.points[j], IF j = Len(s.points) THEN s.points[1] ELSE s.points[j + 1]>>]
<1>1. Vertices(e) = s.points /\ Closed(e) = c
  <2>1. Closed(e) \in BOOLEAN /\ c \in BOOLEAN
    BY DEF Closed
  <2> QED
    BY <2>1, LightMeasured
<1>2. Segments(s.points, c) = sides
  <2>1. c \in BOOLEAN
    OBVIOUS
  <2> HIDE DEF c
  <2>2. s.points \in Seq(Int \X Int)
    BY ShapeTypes
  <2>3. Segments(s.points, c) =
          [j \in 1..(IF c /\ Len(s.points) > 2 THEN Len(s.points) ELSE Len(s.points) - 1) |->
             <<s.points[j], IF j = Len(s.points) THEN s.points[1] ELSE s.points[j + 1]>>]
    BY <2>1, <2>2, SegmentsDrawn
  <2>4. Edges(s) = IF c /\ Len(s.points) > 2 THEN Len(s.points) ELSE Len(s.points) - 1
    BY DEF Edges, c
  <2> QED
    BY <2>3, <2>4
<1> HIDE DEF c, sides
<1>3. [closed |-> Closed(e), vertices |-> Vertices(e), segments |-> Segments(Vertices(e), Closed(e))] =
      [closed |-> c, vertices |-> s.points, segments |-> sides]
  BY <1>1, <1>2
<1> QED
  BY <1>3 DEF c, sides

LEMMA PolylinesAgree ==
  ASSUME Read
  PROVE  Upto(Polylines(parser.entities), ended) = PolylinesDrawn
<1> DEFINE es == parser.entities
           list == Polylines(es)
           A == {j \in DOMAIN list : j <= ended}
           B == {j \in Drawn({"LWPOLYLINE"}) : Len(drawn[j].points) > 1}
           line(s) == [closed |-> s.flag % 2 = 1, vertices |-> s.points,
                       segments |-> [j \in 1..Edges(s) |->
                          <<s.points[j], IF j = Len(s.points) THEN s.points[1] ELSE s.points[j + 1]>>]]
<1>1. DOMAIN list = {j \in DOMAIN es :
                       es[j].type \in {"LWPOLYLINE", "POLYLINE"} /\ Len(Vertices(es[j])) >= 2}
  BY DEF Polylines
<1>2. \A i \in DOMAIN drawn :
        /\ drawn[i].kind = "LWPOLYLINE" => Vertices(es[i]) = drawn[i].points /\ Len(drawn[i].points) \in Nat
        /\ drawn[i].kind = "POLYLINE" => ~(Len(Vertices(es[i])) >= 2)
  BY Placed, LightMeasured, OldMeasured, ShapeTypes
<1>3. A = B
  <2>1. ASSUME NEW j \in A PROVE j \in B
    <3>1. /\ j \in 1..begun /\ j <= ended /\ es[j].type \in {"LWPOLYLINE", "POLYLINE"}
          /\ Len(Vertices(es[j])) >= 2
      BY <1>1, <2>1, Placed
    <3>2. j \in DOMAIN drawn /\ drawn[j].kind \in {"LWPOLYLINE", "POLYLINE"}
      BY <3>1, Placed
    <3> QED
      BY <1>2, <3>1, <3>2 DEF Drawn
  <2>2. ASSUME NEW j \in B PROVE j \in A
    <3>1. j \in DOMAIN drawn /\ drawn[j].kind = "LWPOLYLINE" /\ Len(drawn[j].points) > 1
      BY <2>2 DEF Drawn
    <3>2. j \in DOMAIN es /\ es[j].type = "LWPOLYLINE" /\ j <= ended
      BY <3>1, Placed
    <3> QED
      BY <1>1, <1>2, <3>1, <3>2
  <2> QED
    BY <2>1, <2>2
<1>4. \A i \in B : list[i] = line(drawn[i])
  <2> TAKE i \in B
  <2>1. drawn[i].kind = "LWPOLYLINE" /\ i \in DOMAIN drawn /\ Len(drawn[i].points) > 1
    BY DEF Drawn
  <2>2. list[i] = [closed |-> Closed(es[i]), vertices |-> Vertices(es[i]),
                   segments |-> Segments(Vertices(es[i]), Closed(es[i]))]
    BY <1>1, <1>3 DEF Polylines
  <2> QED
    BY <2>1, <2>2, Placed, LightAgrees
<1>5. PolylinesDrawn = [i \in B |-> line(drawn[i])]
  <2>1. Drawn(PolylineKinds \ Missed) = Drawn({"LWPOLYLINE"})
    BY DEF Drawn, PolylineKinds, Missed
  <2> QED
    BY <2>1 DEF PolylinesDrawn
<1> HIDE DEF list, A, B, line
<1>6. [i \in A |-> list[i]] = [i \in B |-> line(drawn[i])]
  BY <1>3, <1>4
<1> QED
  BY <1>5, <1>6 DEF A, list, Upto

\* The points around which the box is put are those of the shapes that are measured.
LEMMA ExtentDrawn ==
  ASSUME Read
  PROVE  AllPoints(LinesDrawn, RoundsDrawn("CIRCLE"), RoundsDrawn("ARC"), PolylinesDrawn) =
         UNION {Extent(drawn[i]) : i \in {j \in DOMAIN drawn : Measurable(drawn[j])}}
<1> DEFINE lines == {i \in DOMAIN drawn : drawn[i].kind = "LINE"}
           rounds(type) == {i \in DOMAIN drawn : drawn[i].kind = type /\ drawn[i].radius > 0}
           lights == {i \in DOMAIN drawn : drawn[i].kind = "LWPOLYLINE" /\ Len(drawn[i].points) > 1}
           M == {j \in DOMAIN drawn : Measurable(drawn[j])}
<1>1. M = lines \cup rounds("CIRCLE") \cup rounds("ARC") \cup lights
  BY DEF Measurable, PolylineKinds, Missed
<1>2. UNION {{LinesDrawn[i][1], LinesDrawn[i][2]} : i \in DOMAIN LinesDrawn}
        = UNION {Extent(drawn[i]) : i \in lines}
  <2>1. DOMAIN LinesDrawn = lines /\ \A i \in lines : LinesDrawn[i] = drawn[i].points
    BY DEF LinesDrawn, Drawn
  <2>2. \A i \in lines : Extent(drawn[i]) = {LinesDrawn[i][1], LinesDrawn[i][2]}
    <3> TAKE i \in lines
    <3>1. DOMAIN drawn[i].points = 1..2
      BY Placed, ShapeTypes
    <3>2. {drawn[i].points[j] : j \in 1..2} = {drawn[i].points[1], drawn[i].points[2]}
      OBVIOUS
    <3> QED
      BY <2>1, <3>1, <3>2 DEF Extent
  <2> HIDE DEF lines
  <2> QED
    BY <2>1, <2>2
<1>3. ASSUME NEW type \in {"CIRCLE", "ARC"}
      PROVE  UNION {Corners(RoundsDrawn(type)[i]) : i \in DOMAIN RoundsDrawn(type)}
               = UNION {Extent(drawn[i]) : i \in rounds(type)}
  <2>1. /\ DOMAIN RoundsDrawn(type) = rounds(type)
        /\ \A i \in rounds(type) :
             RoundsDrawn(type)[i] = [center |-> drawn[i].points[1], radius |-> drawn[i].radius]
    BY DEF RoundsDrawn, Drawn
  <2>2. \A i \in rounds(type) : Extent(drawn[i]) = Corners(RoundsDrawn(type)[i])
    BY <2>1 DEF Extent
  <2> HIDE DEF rounds
  <2> QED
    BY <2>1, <2>2
<1>4. UNION {{PolylinesDrawn[i].vertices[j] : j \in DOMAIN PolylinesDrawn[i].vertices} :
               i \in DOMAIN PolylinesDrawn}
        = UNION {Extent(drawn[i]) : i \in lights}
  <2>1. DOMAIN PolylinesDrawn = lights /\ \A i \in lights : PolylinesDrawn[i].vertices = drawn[i].points
    BY DEF PolylinesDrawn, Drawn, PolylineKinds, Missed
  <2>2. \A i \in lights :
          Extent(drawn[i]) = {PolylinesDrawn[i].vertices[j] : j \in DOMAIN PolylinesDrawn[i].vertices}
    BY <2>1 DEF Extent
  <2> HIDE DEF lights
  <2> QED
    BY <2>1, <2>2
<1> HIDE DEF lines, rounds, lights, M
<1> DEFINE P(I) == UNION {Extent(drawn[i]) : i \in I}
<1>5. AllPoints(LinesDrawn, RoundsDrawn("CIRCLE"), RoundsDrawn("ARC"), PolylinesDrawn) =
        P(lines) \cup P(rounds("CIRCLE")) \cup P(rounds("ARC")) \cup P(lights)
  <2>1. /\ UNION {Corners(RoundsDrawn("CIRCLE")[i]) : i \in DOMAIN RoundsDrawn("CIRCLE")} = P(rounds("CIRCLE"))
        /\ UNION {Corners(RoundsDrawn("ARC")[i]) : i \in DOMAIN RoundsDrawn("ARC")} = P(rounds("ARC"))
    BY <1>3
  <2>2. /\ UNION {{LinesDrawn[i][1], LinesDrawn[i][2]} : i \in DOMAIN LinesDrawn} = P(lines)
        /\ UNION {{PolylinesDrawn[i].vertices[j] : j \in DOMAIN PolylinesDrawn[i].vertices} :
                    i \in DOMAIN PolylinesDrawn} = P(lights)
    BY <1>2, <1>4
  <2> DEFINE u == UNION {{LinesDrawn[i][1], LinesDrawn[i][2]} : i \in DOMAIN LinesDrawn}
             v == UNION {Corners(RoundsDrawn("CIRCLE")[i]) : i \in DOMAIN RoundsDrawn("CIRCLE")}
             w == UNION {Corners(RoundsDrawn("ARC")[i]) : i \in DOMAIN RoundsDrawn("ARC")}
             x == UNION {{PolylinesDrawn[i].vertices[j] : j \in DOMAIN PolylinesDrawn[i].vertices} :
                           i \in DOMAIN PolylinesDrawn}
             a == AllPoints(LinesDrawn, RoundsDrawn("CIRCLE"), RoundsDrawn("ARC"), PolylinesDrawn)
  <2>3. a = u \cup v \cup w \cup x
    <3>1. \A A, B, C, D : UNION (A \cup B \cup C \cup D) =
                            ((UNION A) \cup (UNION B)) \cup (UNION C) \cup (UNION D)
      OBVIOUS
    <3> QED
      BY <3>1 DEF AllPoints
  <2>4. u = P(lines) /\ v = P(rounds("CIRCLE")) /\ w = P(rounds("ARC")) /\ x = P(lights)
    BY <2>1, <2>2
  <2> HIDE DEF P, u, v, w, x, a
  <2>5. a = P(lines) \cup P(rounds("CIRCLE")) \cup P(rounds("ARC")) \cup P(lights)
    BY <2>3, <2>4
  <2> QED
    BY <2>5 DEF a
<1>6. P(M) = P(lines) \cup P(rounds("CIRCLE")) \cup P(rounds("ARC")) \cup P(lights)
  <2>1. \A I, J : P(I \cup J) = P(I) \cup P(J)
    OBVIOUS
  <2> HIDE DEF P
  <2>2. P(M) = P(((lines \cup rounds("CIRCLE")) \cup rounds("ARC")) \cup lights)
    BY <1>1
  <2>3. P(((lines \cup rounds("CIRCLE")) \cup rounds("ARC")) \cup lights) =
          P((lines \cup rounds("CIRCLE")) \cup rounds("ARC")) \cup P(lights)
    BY <2>1
  <2>4. P((lines \cup rounds("CIRCLE")) \cup rounds("ARC")) =
          P(lines \cup rounds("CIRCLE")) \cup P(rounds("ARC"))
    BY <2>1
  <2>5. P(lines \cup rounds("CIRCLE")) = P(lines) \cup P(rounds("CIRCLE"))
    BY <2>1
  <2> QED
    BY <2>2, <2>3, <2>4, <2>5
<1> QED
  BY <1>5, <1>6 DEF M

LEMMA Agree ==
  DxfInv => OnlyOldPolylinesAreMissed
<1> SUFFICES ASSUME DxfInv, ~misnamed PROVE OnlyOldPolylinesAreMissed
  BY DEF OnlyOldPolylinesAreMissed
<1> DEFINE es == parser.entities
           lines == Lines(es)
           circles == Rounds(es, "CIRCLE")
           arcs == Rounds(es, "ARC")
           polylines == Polylines(es)
           box == Box(UNION {Extent(drawn[i]) : i \in {j \in DOMAIN drawn : Measurable(drawn[j])}})
           m == Measurements(Entities(parser))
<1>1. Read
  BY DEF DxfInv
<1>2. m = [lines |-> lines, circles |-> circles, arcs |-> arcs, polylines |-> polylines,
           box |-> Box(AllPoints(lines, circles, arcs, polylines))]
  BY DEF Measurements, Entities
<1>3. /\ Upto(lines, ended) = LinesDrawn /\ Upto(circles, ended) = RoundsDrawn("CIRCLE")
      /\ Upto(arcs, ended) = RoundsDrawn("ARC") /\ Upto(polylines, ended) = PolylinesDrawn
  BY <1>1, LinesAgree, RoundsAgree, PolylinesAgree
<1>4. ASSUME shape = <<>>
      PROVE  lines = LinesDrawn /\ circles = RoundsDrawn("CIRCLE")
               /\ arcs = RoundsDrawn("ARC") /\ polylines = PolylinesDrawn
  <2>1. ended = begun /\ DOMAIN es = 1..ended /\ ended \in Nat
    <3>1. \A s \in Shapes : ~Sketching(s)
      BY <1>4 DEF Sketching
    <3>2. ended = begun
      BY <3>1 DEF DxfInv, Between
    <3> QED
      BY <1>1, <3>2, Placed
  <2>2. Upto(lines, ended) = lines
    BY <2>1 DEF Upto, Lines
  <2>3. Upto(circles, ended) = circles /\ Upto(arcs, ended) = arcs
    BY <2>1 DEF Upto, Rounds
  <2>4. Upto(polylines, ended) = polylines
    BY <2>1 DEF Upto, Polylines
  <2> QED
    BY <1>3, <2>2, <2>3, <2>4
<1> HIDE DEF lines, circles, arcs, polylines, m
<1>5. ASSUME shape = <<>>
      PROVE  m = [lines |-> LinesDrawn, circles |-> RoundsDrawn("CIRCLE"), arcs |-> RoundsDrawn("ARC"),
                  polylines |-> PolylinesDrawn, box |-> box]
  BY <1>1, <1>2, <1>4, <1>5, ExtentDrawn
<1>6. /\ m.lines = lines /\ m.circles = circles /\ m.arcs = arcs /\ m.polylines = polylines
  BY <1>2
<1>7. /\ Upto(m.lines, ended) = LinesDrawn /\ Upto(m.circles, ended) = RoundsDrawn("CIRCLE")
      /\ Upto(m.arcs, ended) = RoundsDrawn("ARC") /\ Upto(m.polylines, ended) = PolylinesDrawn
  BY <1>3, <1>6
<1> QED
  BY <1>5, <1>7 DEF OnlyOldPolylinesAreMissed, Upto, m, box

\* Of any drawing, the measurements leave out the old POLYLINEs (dxf_parser.py:188,
\* 326) and nothing else: those of the other shapes, and the box, are exact.
THEOREM MeasuredButOldPolylines == DxfSpec => []OnlyOldPolylinesAreMissed
BY DrawingRead, Agree, PTL
=============================================================================
