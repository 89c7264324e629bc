--------------------------- MODULE DisplayRegion ---------------------------
(***************************************************************************)
(* Rectangles of the panel (display/DisplayRegion, display/DirtyRegion),   *)
(* along the horizontal axis: the vertical one is the same without the     *)
(* alignment.  A picture is the set of the columns that are black.         *)
(***************************************************************************)
EXTENDS Integers, FiniteSetsExt

CONSTANT Columns \* the width of the panel

ASSUME RegionAssumption == Columns \in Nat \ {0}

Pictures == SUBSET (0 .. Columns - 1)

NoRegion == [x |-> 0, width |-> 0]
Empty(region) == region.width <= 0
Right(region) == region.x + region.width
Covers(region) == region.x .. Right(region) - 1

Between(left, right) ==
  IF right <= left THEN NoRegion ELSE [x |-> left, width |-> right - left]

Clamped(region) == Between(Max({0, region.x}), Min({Columns, Right(region)}))

Expanded(region, pixels) ==
  IF Empty(region) THEN region
  ELSE [x |-> region.x - pixels, width |-> region.width + 2 * pixels]

(* Both edges go outwards to a multiple. *)
Aligned(region, multiple) ==
  LET clamped == Clamped(region)
      left    == (clamped.x \div multiple) * multiple
      right   == ((Right(clamped) + multiple - 1) \div multiple) * multiple
  IN  IF Empty(clamped) THEN clamped ELSE Clamped(Between(left, right))

(* compareMonoBuffers(): the bounds of what differs *)
Bounds(previous, next) ==
  LET changed == (previous \ next) \cup (next \ previous)
  IN  IF changed = {} THEN NoRegion ELSE Between(Min(changed), Max(changed) + 1)

(* What the panel shows once the region of a picture was sent to it. *)
Pushed(panel, picture, region) == (panel \ Covers(region)) \cup (picture \cap Covers(region))
=============================================================================
