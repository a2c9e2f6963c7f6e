------------------------------ MODULE TourCard ------------------------------
(***************************************************************************)
(* Where the card of the guided tour is put (TourCard in product-tour.tsx): *)
(* beside what the step points at, or in the corner where it covers the     *)
(* least of it, inside the window.  Lengths are even, so half a length is   *)
(* whole; the gap is two.                                                   *)
(***************************************************************************)
EXTENDS Integers, Sequences

CONSTANTS Viewports, CardSizes,      \* sets of [width, height]
          TargetRects                \* sets of [left, top, right, bottom]

EvenSize(r) == \A f \in DOMAIN r : r[f] % 2 = 0
ASSUME TourCardAssumption ==
  /\ Viewports \cup CardSizes \subseteq [width : Nat, height : Nat]
  /\ TargetRects \subseteq [left : Int, top : Int, right : Int, bottom : Int]
  /\ \A r \in Viewports \cup CardSizes \cup TargetRects : EvenSize(r)

VARIABLES viewport, cardSize,
          targetRect                 \* <<>> while the page has no such element

cardVars == <<viewport, cardSize, targetRect>>

gap == 2
NoRect == <<>>
Widest(a, b)   == IF a > b THEN a ELSE b
Narrowest(a, b) == IF a < b THEN a ELSE b
clamp(value, min, max) == Narrowest(Widest(value, min), Widest(min, max))
At(left, top) == [left |-> left, top |-> top]

lastLeft == viewport.width - cardSize.width - gap
lastTop  == viewport.height - cardSize.height - gap

targetIsUsable ==
  targetRect # NoRect /\ (targetRect.right > targetRect.left \/ targetRect.bottom > targetRect.top)

centered == At(clamp((viewport.width - cardSize.width) \div 2, gap, lastLeft),
               clamp((viewport.height - cardSize.height) \div 2, gap, lastTop))

\* To the right of the target, to its left, below it and above it.
candidates ==
  IF ~targetIsUsable THEN <<>>
  ELSE LET t      == targetRect
           middle == clamp(t.left + (t.right - t.left - cardSize.width) \div 2, gap, lastLeft)
       IN  <<At(t.right + gap, clamp(t.top, gap, lastTop)),
             At(t.left - cardSize.width - gap, clamp(t.top, gap, lastTop)),
             At(middle, t.bottom + gap),
             At(middle, t.top - cardSize.height - gap)>>

fits(c) == c.left \in gap..lastLeft /\ c.top \in gap..lastTop

overlapArea(c) ==
  IF targetRect = NoRect THEN 0
  ELSE LET t == targetRect
           width  == Narrowest(c.left + cardSize.width, t.right) - Widest(c.left, t.left)
           height == Narrowest(c.top + cardSize.height, t.bottom) - Widest(c.top, t.top)
       IN  Widest(0, width) * Widest(0, height)

corners == <<At(gap, gap), At(lastLeft, gap), At(gap, lastTop), At(lastLeft, lastTop)>>

fitting(places) == {i \in DOMAIN places : fits(places[i])}
earliest(S)     == CHOOSE i \in S : \A j \in S : i <= j

\* The first of the corners that fit and cover the least of the target.
leastObstructiveCorner ==
  LET least(i) == \A j \in fitting(corners) : overlapArea(corners[i]) <= overlapArea(corners[j])
  IN  corners[earliest({i \in fitting(corners) : least(i)})]

position ==
  IF fitting(candidates) # {} THEN candidates[earliest(fitting(candidates))]
  ELSE IF fitting(corners) # {} THEN leastObstructiveCorner
  ELSE centered

CardInit == viewport \in Viewports /\ cardSize \in CardSizes /\ targetRect = NoRect

\* The window is resized; the card is measured; the target is found, moves or is gone.
resize  == viewport' \in Viewports /\ UNCHANGED <<cardSize, targetRect>>
measure == cardSize' \in CardSizes /\ UNCHANGED <<viewport, targetRect>>
locate  == targetRect' \in TargetRects \cup {NoRect} /\ UNCHANGED <<viewport, cardSize>>

CardNext == resize \/ measure \/ locate
CardSpec == CardInit /\ [][CardNext]_cardVars

-----------------------------------------------------------------------------
\* A card that fits into the window is shown whole, wherever the target is.
CardIsInside ==
  lastLeft >= gap /\ lastTop >= gap => position.left \in gap..lastLeft /\ position.top \in gap..lastTop

\* The card covers what the step points at only if every place in the window would.
TargetIsLeftVisible ==
  lastLeft >= gap /\ lastTop >= gap /\ overlapArea(position) > 0 =>
    \A left \in gap..lastLeft, top \in gap..lastTop : overlapArea(At(left, top)) > 0

\* A card that fits is whole, and leaves its target visible where that is possible.
CardInv == CardIsInside /\ TargetIsLeftVisible
=============================================================================
