--------------------------------- MODULE Offer ---------------------------------
(***************************************************************************)
(* The commercial offer: the positions of an answer of the model become      *)
(* kp.xlsx, by the rates of the settings row as they were when the offer     *)
(* was begun.  A measure is the pair of its field and its position, and a    *)
(* number of hours the pair of a measure and a rate: what is divided by      *)
(* what is modelled, the quotient is not.                                   *)
(***************************************************************************)
EXTENDS Integers, Sequences

CONSTANTS
  Materials,       \* MATERIALS, in its order
  Priced,          \* the materials on the sheet of prices
  MaxPositions,    \* 10 for the slice of _generate_kp and for Parameters
  BlockHeight,     \* POSITION_BLOCK_HEIGHT
  Blocks,          \* how many blocks the template has
  MaxAnswer,       \* bound: positions in an answer
  MaxEdits         \* bound: how often the admin saves the rates

VARIABLES
  rates,      \* the settings row: its version and the rates that are not positive
  positions,     \* the materials of the positions of an answer
  stage,      \* "none", "parsed", "loaded", "cleared", "saved", "failed"
  used,       \* the rates that the offer has loaded
  sheet,      \* the sheet "Расчёт": what the cells hold that are not the template's
  written     \* how many positions have been written

offerVars == <<rates, positions, stage, used, sheet, written>>

\* Offsets in a block, and the cells there that the calculator owns.
Laser == 0
Bending == 1
Turning == 2
Welding == 3
Painting == 4
Inputs == ({Laser, Bending, Turning, Welding, Painting} \X {"hours"})
            \cup ({Laser} \X {"material", "price", "area"}) \cup {<<Painting, "area">>}

FirstRow == 3
Cells == (FirstRow .. (FirstRow + Blocks * BlockHeight - 1)) \X {"material", "price", "area", "hours"}

\* The first row of the block i, counted from 0.
Base(i) == FirstRow + i * BlockHeight
BlockCells(i) == {<<Base(i) + c[1], c[2]>> : c \in Inputs}

\* A block is higher than its last row that the calculator owns.
ASSUME OfferAssumption ==
  /\ MaxPositions \in Nat /\ Blocks \in Nat
  /\ BlockHeight \in Nat /\ BlockHeight > Painting

OfferInit ==
  /\ rates = [version |-> 0, none |-> {}] /\ used = rates
  /\ positions = <<>> /\ stage = "none" /\ written = 0 /\ sheet = <<>>

\* The admin saves the rates; a stored rate replaces a default (replace).
EditRates(z) ==
  /\ rates.version < MaxEdits
  /\ rates' = [version |-> rates.version + 1, none |-> z]
  /\ UNCHANGED <<positions, stage, used, sheet, written>>

\* material_id_to_material_str: an index of Python, from the end if negative;
\* beyond the list it raises IndexError, which is not the KeyError it expects.
Indexed(n) == n \in -Len(Materials) .. Len(Materials) - 1
Named(n) == Materials[IF n >= 0 THEN n + 1 ELSE Len(Materials) + n + 1]

\* An answer with gen_kp and positions.
Parse(ids) ==
  /\ stage \in {"none", "failed", "saved"}
  /\ IF \A i \in DOMAIN ids : Indexed(ids[i])
     THEN stage' = "parsed" /\ positions' = [i \in DOMAIN ids |-> Named(ids[i])]
     ELSE stage' = "failed" /\ positions' = <<>>
  /\ sheet' = <<>> /\ written' = 0
  /\ UNCHANGED <<rates, used>>

\* _load_parameters
LoadRates ==
  /\ stage = "parsed" /\ stage' = "loaded" /\ used' = rates
  /\ UNCHANGED <<rates, positions, sheet, written>>

\* positions[:10]
Kept == IF Len(positions) > MaxPositions THEN MaxPositions ELSE Len(positions)

\* _validate_positions, before a cell is touched: an unknown material, or a
\* measure that is no finite number >= 0 (which an answer may always hold).
RefusePositions ==
  /\ stage = "loaded" /\ stage' = "failed"
  /\ UNCHANGED <<rates, positions, used, sheet, written>>

\* _clear_positions
ClearPositions ==
  /\ stage = "loaded" /\ \A i \in 1..Kept : positions[i] \in Priced
  /\ stage' = "cleared"
  /\ sheet' = [c \in UNION {BlockCells(i) : i \in 0..(MaxPositions - 1)} |-> <<"blank">>]
  /\ UNCHANGED <<rates, positions, used, written>>

\* Mutant: the rates are read for every cell.
MutantHoursNow(measure, i) ==
  IF measure \in rates.none THEN <<"0">> ELSE <<measure, i, "by", rates.version>>

\* measure / rate if rate > 0 else 0.0
Hours(measure, i) ==
  IF measure \in used.none THEN <<"0">> ELSE <<measure, i, "by", used.version>>

\* What _write_position puts into the cell c of the block i, by offset and column.
Written(c, i) ==
  CASE c = <<Laser, "material">> -> <<positions[i + 1]>>
    [] c = <<Laser, "price">> -> <<"price of", positions[i + 1]>>
    [] c = <<Laser, "area">> -> <<"area_m2", i>>
    [] c = <<Laser, "hours">> -> Hours("laser_m", i)
    [] c = <<Bending, "hours">> -> Hours("bends", i)
    [] c = <<Turning, "hours">> -> <<"turning_hours", i>>
    [] c = <<Welding, "hours">> -> Hours("welding_m", i)
    [] c = <<Painting, "area">> -> <<"painting_m2", i>>
    [] c = <<Painting, "hours">> -> Hours("painting_m2", i)

WritePosition ==
  /\ stage = "cleared" /\ written < Kept
  /\ sheet' = [c \in BlockCells(written) \cup DOMAIN sheet |->
                 IF c \in BlockCells(written)
                 THEN Written(<<c[1] - Base(written), c[2]>>, written) ELSE sheet[c]]
  /\ written' = written + 1
  /\ UNCHANGED <<rates, positions, stage, used>>

SaveOffer ==
  /\ stage = "cleared" /\ written = Kept /\ stage' = "saved"
  /\ UNCHANGED <<rates, positions, used, sheet, written>>

Rates == {"laser_m", "bends", "welding_m", "painting_m2"}
OfferNext ==
  \/ \E z \in SUBSET Rates : EditRates(z)
  \/ \E n \in 1..MaxAnswer : \E ids \in [1..n -> -1..Len(Materials)] : Parse(ids)
  \/ LoadRates \/ RefusePositions \/ ClearPositions \/ WritePosition \/ SaveOffer

OfferSpec == OfferInit /\ [][OfferNext]_offerVars

-----------------------------------------------------------------------------
(* Properties.                                                             *)

\* The measure that the hours of an operation are made of.
Measured ==
  [o \in {Laser, Bending, Welding, Painting} |->
     CASE o = Laser -> "laser_m" [] o = Bending -> "bends"
       [] o = Welding -> "welding_m" [] o = Painting -> "painting_m2"]

\* What a reader of the sheet expects in a cell, who knows the answer, one
\* version of the rates and the lines of the sheet, ninth by ninth.
Expected(c) ==
  LET i == (c[1] - FirstRow) \div BlockHeight
      cell == <<(c[1] - FirstRow) % BlockHeight, c[2]>>
      fromRate == cell[1] \in DOMAIN Measured
  IN IF cell \notin Inputs \/ i >= MaxPositions THEN <<"template">>
     ELSE IF i >= Kept THEN <<"blank">>
     ELSE CASE c[2] = "material" -> <<positions[i + 1]>>
            [] c[2] = "price" -> <<"price of", positions[i + 1]>>
            [] c[2] = "area" -> <<IF cell[1] = Laser THEN "area_m2" ELSE "painting_m2", i>>
            [] c[2] = "hours" /\ ~fromRate -> <<"turning_hours", i>>
            [] c[2] = "hours" /\ fromRate ->
                 IF Measured[cell[1]] \in used.none THEN <<"0">>
                 ELSE <<Measured[cell[1]], i, "by", used.version>>

Held(c) == IF c \in DOMAIN sheet THEN sheet[c] ELSE <<"template">>

\* An offer that is saved holds, for the first ten positions of the answer and
\* in their order, what was said of each in the block of its own, by the rates
\* of one moment though an admin edits them meanwhile; what the template held
\* in the blocks that are not needed is gone and the rest of it is there.
OfferIsTheAnswer == stage = "saved" => \A c \in Cells : Held(c) = Expected(c)
=============================================================================
