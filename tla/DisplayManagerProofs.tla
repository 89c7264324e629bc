------------------------ MODULE DisplayManagerProofs ------------------------
(***************************************************************************)
(* Proofs about the submissions to the panel, for a panel of any width,    *)
(* any pictures and any thresholds of the policy: the panel shows what was *)
(* submitted last however little of it was sent, and it is cleaned in time *)
(* and not without need.                                                   *)
(***************************************************************************)
EXTENDS DisplayManager, TLAPS, WellFoundedInduction

(***************************************************************************)
(* The inductive invariant.  The policy's counters saturate and are        *)
(* counted apart by waveform, and its clock is its own: the invariant says *)
(* how they follow what the panel went through.  A page that is laid out   *)
(* when a book is opened is compared with the screen shown meanwhile, so   *)
(* the panel has to agree with the canvas then as well.                    *)
(***************************************************************************)
BudgetCounts ==
  /\ display.budget.reading = IF ghosts <= CounterMax THEN ghosts ELSE CounterMax
  /\ display.budget.fast <= display.budget.reading
  /\ display.budget.fastest <= display.budget.reading
  /\ display.budget.quality = age

OpenBookOnPanel ==
  view \in {"Page", "Menu"} \/ laying # "none" =>
    display.last # "none" /\ panel = display.canvas[display.last]

DisplayInv == DisplayTypeOK /\ BudgetCounts /\ OpenBookOnPanel
-----------------------------------------------------------------------------
(***************************************************************************)
(* Lemmas about the regions.                                               *)
(***************************************************************************)
LEMMA LeastNatural ==
  ASSUME NEW S \in SUBSET Nat, S # {}
  PROVE  \E least \in S : \A n \in S : least <= n
<1> DEFINE R == OpToRel(<, Nat)
<1>1. IsWellFoundedOn(R, Nat)
  BY NatLessThanWellFounded
<1>2. \A m, n \in Nat : <<m, n>> \in R <=> m < n
  BY DEF OpToRel
<1> HIDE DEF R
<1>3. PICK least \in S : \A n \in S : ~(<<n, least>> \in R)
  BY <1>1, WFMin
<1>4. ASSUME NEW n \in S PROVE least <= n
  <2>1. ~(n < least)
    BY <1>2, <1>3
  <2> QED
    BY <2>1
<1> QED
  BY <1>4

LEMMA GreatestNatural ==
  ASSUME NEW bound \in Nat, NEW S \in SUBSET (0 .. bound), S # {}
  PROVE  \E greatest \in S : \A n \in S : n <= greatest
<1> DEFINE Mirrored == {m \in 0 .. bound : bound - m \in S}
<1>1. Mirrored \in SUBSET Nat /\ Mirrored # {}
  <2>1. PICK n \in S : TRUE
    OBVIOUS
  <2>2. bound - n \in 0 .. bound /\ bound - (bound - n) = n
    BY <2>1
  <2>3. bound - n \in Mirrored
    BY <2>1, <2>2
  <2> QED
    BY <2>3
<1>2. PICK least \in Mirrored : \A m \in Mirrored : least <= m
  BY <1>1, LeastNatural
<1>3. ASSUME NEW n \in S PROVE n <= bound - least
  <2>1. n \in 0 .. bound /\ bound - n \in 0 .. bound /\ bound - (bound - n) = n
    OBVIOUS
  <2>2. least <= bound - n
    BY <1>2, <2>1
  <2> QED
    BY <1>2, <2>1, <2>2
<1> QED
  BY <1>2, <1>3

LEMMA MinOfSet ==
  ASSUME NEW S, NEW m \in S, \A n \in S : m <= n
  PROVE  Min(S) \in S /\ \A n \in S : Min(S) <= n
BY Zenon DEF Min

LEMMA MaxOfSet ==
  ASSUME NEW S, NEW m \in S, \A n \in S : m >= n
  PROVE  Max(S) \in S /\ \A n \in S : Max(S) >= n
BY Zenon DEF Max

LEMMA MinOfTwo ==
  ASSUME NEW a \in Int, NEW b \in Int
  PROVE  Min({a, b}) = IF a <= b THEN a ELSE b
<1>1. \E m \in {a, b} : \A n \in {a, b} : m <= n
  OBVIOUS
<1>2. Min({a, b}) \in {a, b} /\ \A n \in {a, b} : Min({a, b}) <= n
  BY <1>1, MinOfSet
<1> QED
  BY <1>2

LEMMA MaxOfTwo ==
  ASSUME NEW a \in Int, NEW b \in Int
  PROVE  Max({a, b}) = IF a >= b THEN a ELSE b
<1>1. \E m \in {a, b} : \A n \in {a, b} : m >= n
  OBVIOUS
<1>2. Max({a, b}) \in {a, b} /\ \A n \in {a, b} : Max({a, b}) >= n
  BY <1>1, MaxOfSet
<1> QED
  BY <1>2

Changed(previous, next) == (previous \ next) \cup (next \ previous)

(* compareMonoBuffers() finds bounds of all that differs. *)
LEMMA BoundsOfChange ==
  ASSUME NEW previous \in Pictures, NEW next \in Pictures, previous # next
  PROVE  \E left \in 0 .. Columns - 1, right \in 1 .. Columns :
           /\ left < right /\ Bounds(previous, next) = [x |-> left, width |-> right - left]
           /\ Changed(previous, next) \subseteq left .. right - 1
<1> USE RegionAssumption
<1> DEFINE changed == Changed(previous, next)
<1>1. changed # {} /\ changed \in SUBSET Nat /\ changed \in SUBSET (0 .. Columns - 1)
      /\ Columns - 1 \in Nat
  BY DEF Changed, Pictures
<1>2. Min(changed) \in changed /\ \A n \in changed : Min(changed) <= n
  BY <1>1, LeastNatural, MinOfSet
<1>3. Max(changed) \in changed /\ \A n \in changed : Max(changed) >= n
  <2>1. PICK greatest \in changed : \A n \in changed : n <= greatest
    BY <1>1, GreatestNatural
  <2>2. \A n \in changed : greatest >= n
    BY <1>1, <2>1
  <2> QED
    BY <2>2, MaxOfSet
<1>4. Bounds(previous, next) = Between(Min(changed), Max(changed) + 1)
  BY <1>1 DEF Bounds, Changed
<1> HIDE DEF changed
<1>5. PICK left \in changed, last \in changed :
        /\ left = Min(changed) /\ last = Max(changed)
        /\ \A n \in changed : left <= n /\ last >= n
  BY <1>2, <1>3
<1>6. left \in 0 .. Columns - 1 /\ last \in 0 .. Columns - 1 /\ left <= last
  BY <1>1, <1>5
<1>7. changed \subseteq left .. last
  BY <1>1, <1>5, <1>6
<1>8. Bounds(previous, next) = [x |-> left, width |-> (last + 1) - left]
  BY <1>4, <1>5, <1>6 DEF Between
<1>9. last + 1 \in 1 .. Columns /\ left < last + 1 /\ left .. last = left .. (last + 1) - 1
  BY <1>6
<1> QED
  BY <1>6, <1>7, <1>8, <1>9 DEF changed

LEMMA FloorAndCeiling ==
  ASSUME NEW n \in Nat, NEW multiple \in Nat \ {0}
  PROVE  /\ (n \div multiple) * multiple \in 0 .. n
         /\ ((n + multiple - 1) \div multiple) * multiple \in Nat
         /\ ((n + multiple - 1) \div multiple) * multiple >= n
<1>1. /\ n \div multiple \in Nat /\ (n \div multiple) * multiple <= n
      /\ (n \div multiple) * multiple \in Nat
  OBVIOUS
<1> DEFINE up == n + multiple - 1
<1>2. up \in Nat
  OBVIOUS
<1>3. /\ up \div multiple \in Nat /\ up < (up \div multiple) * multiple + multiple
      /\ (up \div multiple) * multiple \in Nat
  BY <1>2
<1> QED
  BY <1>1, <1>3

(* A part of the panel stays on it as it is widened and aligned. *)
LEMMA AlignedCovers ==
  ASSUME NEW left \in 0 .. Columns - 1, NEW right \in 1 .. Columns, left < right
  PROVE  left .. right - 1
           \subseteq Covers(Aligned(Expanded([x |-> left, width |-> right - left], Expansion),
                                    Alignment))
<1> USE RegionAssumption, DisplayAssumption
<1> DEFINE wide == Expanded([x |-> left, width |-> right - left], Expansion)
<1> DEFINE first == IF 0 >= left - Expansion THEN 0 ELSE left - Expansion
<1> DEFINE end == IF Columns <= right + Expansion THEN Columns ELSE right + Expansion
<1>1. wide = [x |-> left - Expansion, width |-> (right - left) + 2 * Expansion]
  BY DEF Expanded, Empty
<1>2. wide.x = left - Expansion /\ Right(wide) = right + Expansion
  BY <1>1 DEF Right
<1>3. first \in 0 .. left /\ end \in right .. Columns /\ first < end
  OBVIOUS
<1>4. Clamped(wide) = [x |-> first, width |-> end - first]
  <2>1. Max({0, wide.x}) = first
    BY <1>2, MaxOfTwo
  <2>2. Min({Columns, Right(wide)}) = end
    BY <1>2, MinOfTwo
  <2> HIDE DEF first, end, wide
  <2> QED
    BY <1>3, <2>1, <2>2 DEF Clamped, Between
<1> HIDE DEF wide, first, end
<1>5. Clamped(wide).x = first /\ Right(Clamped(wide)) = end /\ ~Empty(Clamped(wide))
  BY <1>3, <1>4 DEF Right, Empty
<1> DEFINE low == (first \div Alignment) * Alignment
<1> DEFINE high == ((end + Alignment - 1) \div Alignment) * Alignment
<1>6. low \in 0 .. first /\ high \in Nat /\ high >= end
  <2>1. first \in Nat /\ end \in Nat
    BY <1>3
  <2>2. low \in 0 .. first
    BY <2>1, FloorAndCeiling
  <2>3. high \in Nat /\ high >= end
    BY <2>1, FloorAndCeiling
  <2> QED
    BY <2>2, <2>3
<1>7. Aligned(wide, Alignment) = Clamped(Between(low, high))
  BY <1>5 DEF Aligned
<1> HIDE DEF low, high
<1>8. Between(low, high) = [x |-> low, width |-> high - low]
  BY <1>3, <1>6 DEF Between
<1>9. Between(low, high).x = low /\ Right(Between(low, high)) = high
  BY <1>6, <1>8 DEF Right
<1>10. PICK edge \in end .. Columns :
         Clamped(Between(low, high)) = [x |-> low, width |-> edge - low]
  <2>1. Max({0, low}) = low
    BY <1>3, <1>6, MaxOfTwo
  <2>2. Min({Columns, high}) = IF Columns <= high THEN Columns ELSE high
    BY <1>6, MinOfTwo
  <2>3. (IF Columns <= high THEN Columns ELSE high) \in end .. Columns
    BY <1>3, <1>6
  <2>4. Clamped(Between(low, high)) = Between(low, Min({Columns, high}))
    BY <1>9, <2>1 DEF Clamped
  <2>5. Min({Columns, high}) \in end .. Columns
    BY <2>2, <2>3
  <2>6. PICK edge \in end .. Columns : edge = Min({Columns, high})
    BY <2>5
  <2>7. Between(low, edge) = [x |-> low, width |-> edge - low]
    BY <1>3, <1>6 DEF Between
  <2> QED
    BY <2>4, <2>6, <2>7
<1>11. Covers(Aligned(wide, Alignment)) = low .. edge - 1
  BY <1>3, <1>6, <1>7, <1>10 DEF Covers, Right
<1>12. left .. right - 1 \subseteq low .. edge - 1
  BY <1>3, <1>6, <1>10
<1> QED
  BY <1>11, <1>12 DEF wide

(* The region sent covers what changed, so the panel shows what follows.   *)
LEMMA PushedIsNext ==
  ASSUME NEW previous \in Pictures, NEW next \in Pictures,
         ~Empty(Bounds(previous, next))
  PROVE  Pushed(previous, next,
                Aligned(Expanded(Bounds(previous, next), Expansion), Alignment)) = next
<1> DEFINE region == Aligned(Expanded(Bounds(previous, next), Expansion), Alignment)
<1>1. previous # next
  <2>1. SUFFICES ASSUME previous = next PROVE Empty(Bounds(previous, next))
    OBVIOUS
  <2>2. Bounds(previous, next) = NoRegion
    BY <2>1 DEF Bounds
  <2> QED
    BY <2>2 DEF NoRegion, Empty
<1>2. PICK left \in 0 .. Columns - 1, right \in 1 .. Columns :
        /\ left < right /\ Bounds(previous, next) = [x |-> left, width |-> right - left]
        /\ Changed(previous, next) \subseteq left .. right - 1
  BY <1>1, BoundsOfChange
<1>3. Changed(previous, next) \subseteq Covers(region)
  BY <1>2, AlignedCovers
<1> HIDE DEF region
<1>4. Pushed(previous, next, region) = next
  BY <1>3 DEF Pushed, Changed
<1> QED
  BY <1>4 DEF region
-----------------------------------------------------------------------------
(***************************************************************************)
(* Lemmas about the policy and its budget.                                 *)
(***************************************************************************)
LEMMA IncrementType ==
  ASSUME NEW n \in 0 .. CounterMax
  PROVE  Increment(n) \in 0 .. CounterMax /\ n <= Increment(n)
BY PolicyAssumption DEF Increment

(* The counters count until they are full, and a cleanup clears them. *)
LEMMA BudgetSubmitted ==
  ASSUME NEW budget \in Budgets, NEW profile
  PROVE  /\ RecordSubmitted(budget, profile) \in Budgets
         /\ profile = "Quality" => RecordSubmitted(budget, profile)
                                    = [fast |-> 0, fastest |-> 0, reading |-> 0, quality |-> 0]
         /\ profile # "Quality" =>
              /\ RecordSubmitted(budget, profile).reading = Increment(budget.reading)
              /\ RecordSubmitted(budget, profile).fast \in {budget.fast, Increment(budget.fast)}
              /\ RecordSubmitted(budget, profile).fastest
                   \in {budget.fastest, Increment(budget.fastest)}
              /\ RecordSubmitted(budget, profile).quality = budget.quality
<1>1. 0 \in 0 .. CounterMax /\ 0 \in Ages
  BY PolicyAssumption DEF Ages, Never
<1>2. CASE profile = "Quality"
  <2>1. RecordSubmitted(budget, profile)
          = [fast |-> 0, fastest |-> 0, reading |-> 0, quality |-> 0]
    BY <1>2 DEF RecordSubmitted, NewBudget
  <2>2. [fast |-> 0, fastest |-> 0, reading |-> 0, quality |-> 0] \in Budgets
    BY <1>1 DEF Budgets
  <2> QED
    BY <1>2, <2>1, <2>2
<1>3. CASE profile # "Quality"
  <2> DEFINE fast == IF profile = "Fast" THEN Increment(budget.fast) ELSE budget.fast
  <2> DEFINE fastest == IF profile = "Fastest" THEN Increment(budget.fastest) ELSE budget.fastest
  <2>1. /\ budget.fast \in 0 .. CounterMax /\ budget.fastest \in 0 .. CounterMax
        /\ budget.reading \in 0 .. CounterMax
    BY DEF Budgets
  <2>2. /\ fast \in 0 .. CounterMax /\ fastest \in 0 .. CounterMax
        /\ Increment(budget.reading) \in 0 .. CounterMax
    BY <2>1, IncrementType
  <2>3. fast \in {budget.fast, Increment(budget.fast)}
        /\ fastest \in {budget.fastest, Increment(budget.fastest)}
    OBVIOUS
  <2>4. RecordSubmitted(budget, profile)
          = [budget EXCEPT !.fast = fast, !.fastest = fastest,
                           !.reading = Increment(budget.reading)]
    BY <1>3 DEF RecordSubmitted
  <2> HIDE DEF fast, fastest
  <2>5. [budget EXCEPT !.fast = fast, !.fastest = fastest,
                       !.reading = Increment(budget.reading)] \in Budgets
    BY <2>2 DEF Budgets
  <2> QED
    BY <1>3, <2>3, <2>4, <2>5 DEF Budgets
<1> QED
  BY <1>2, <1>3

LEMMA ReasonOfPage ==
  ASSUME NEW d
  PROVE  /\ PageReason(d) \notin QualityReasons \cup {"OpenBook", "MenuOpen"}
         /\ PageReason(d) = "RapidPageTurn" => RapidCount(d) >= RapidTurns
BY Zenon DEF PageReason, QualityReasons

LEMMA DecisionProfile ==
  ASSUME NEW budget, NEW reason, NEW turns
  PROVE  Decide(budget, reason, turns).profile \in Profiles
         /\ Decide(budget, reason, turns).forced \in BOOLEAN
<1>1. Requested(reason, turns) \in Profiles
  BY DEF Requested, Profiles
<1> QED
  BY <1>1 DEF Decide, Profiles
-----------------------------------------------------------------------------
DisplayStates ==
  [budget : Budgets, rapid : 0 .. CounterMax, turned : Never .. RapidWindow + 1,
   kind : Kinds, timing : BOOLEAN, waiting : BOOLEAN,
   canvas : [Canvases -> Pictures], last : Canvases \cup {"none"}]

Refreshes == [ordinary : BOOLEAN, profile : Profiles, forced : BOOLEAN]

(* What a submission makes true whoever asks for it *)
Submitted ==
  /\ display \in DisplayStates /\ sent \in Refreshes /\ panel \in Pictures /\ busy
  /\ ghosts \in 0 .. MaxGhosts /\ age \in Ages
  /\ BudgetCounts
  /\ display.last # "none" /\ panel = display.canvas[display.last]

(* submitCanvas(): the budget follows the panel, the panel the canvas. *)
LEMMA SubmitInv ==
  ASSUME DisplayInv, NEW d \in DisplayStates, NEW source \in Canvases,
         NEW picture \in Pictures, NEW intent \in Intents, Submit(d, source, picture, intent),
         d.budget = display.budget, d.canvas = display.canvas, d.last = display.last,
         intent = "ReadingPage" =>
           display.last # "none" /\ panel = display.canvas[display.last]
  PROVE  Submitted'
<1> USE PolicyAssumption
<1> DEFINE ofPage   == intent = "ReadingPage"
<1> DEFINE reason   == Reason(d, intent)
<1> DEFINE turns    == IF ofPage THEN RapidCount(d) ELSE 0
<1> DEFINE decision == Decide(d.budget, reason, turns)
<1> DEFINE profile  == IF intent \in QualityIntents THEN "Quality" ELSE decision.profile
<1> DEFINE region   ==
      IF profile = "Quality" THEN NoRegion ELSE Selected(d, source, picture, intent)
<1> DEFINE budget == RecordSubmitted(d.budget, profile)
<1>1. /\ display' = [d EXCEPT
           !.budget = budget,
           !.rapid = IF ofPage THEN turns ELSE @, !.turned = IF ofPage THEN 0 ELSE @,
           !.waiting = @ \/ d.timing,
           !.canvas[source] = picture, !.last = source]
      /\ sent' = [ordinary |-> ofPage /\ reason \notin TextReasons,
                  profile |-> profile, forced |-> decision.forced]
      /\ panel' = IF Empty(region) THEN picture ELSE Pushed(panel, picture, region)
      /\ busy' = TRUE
      /\ ghosts' = IF profile = "Quality" THEN 0 ELSE Min({ghosts + 1, MaxGhosts})
      /\ age' = IF profile = "Quality" THEN 0 ELSE age
  BY DEF Submit
<1>2. profile \in Profiles /\ decision.forced \in BOOLEAN
  <2>1. decision.profile \in Profiles /\ decision.forced \in BOOLEAN
    BY DecisionProfile
  <2> HIDE DEF decision
  <2> QED
    BY <2>1 DEF Profiles
<1>3. /\ ghosts \in 0 .. MaxGhosts /\ MaxGhosts \in Nat /\ MaxGhosts = CounterMax + 2
      /\ CounterMax \in Nat /\ 0 \in Ages /\ age \in Ages /\ d.budget \in Budgets
      /\ d.canvas \in [Canvases -> Pictures] /\ panel \in Pictures
  BY DEF DisplayInv, DisplayTypeOK, MaxGhosts, Ages, Never, DisplayStates
<1>4. Selected(d, source, picture, intent) = NoRegion
      \/ /\ ofPage /\ ~Empty(Bounds(d.canvas[d.last], picture))
         /\ Selected(d, source, picture, intent)
              = Aligned(Expanded(Bounds(d.canvas[d.last], picture), Expansion), Alignment)
  BY DEF Selected
<1>5. panel' = picture
  <2>1. CASE Empty(region)
    BY <1>1, <2>1
  <2>2. CASE ~Empty(region)
    <3>1. region # NoRegion
      BY <2>2 DEF NoRegion, Empty
    <3>2. /\ ofPage /\ ~Empty(Bounds(d.canvas[d.last], picture))
          /\ region = Aligned(Expanded(Bounds(d.canvas[d.last], picture), Expansion), Alignment)
      BY <1>4, <3>1
    <3>3. panel = d.canvas[d.last]
      BY <3>2
    <3> HIDE DEF region
    <3>4. Pushed(panel, picture, region) = picture
      BY <1>3, <3>2, <3>3, PushedIsNext
    <3> QED
      BY <1>1, <2>2, <3>4
  <2> QED
    BY <2>1, <2>2
<1> HIDE DEF ofPage, reason, turns, decision, profile, region, budget
<1>6. budget \in Budgets /\ turns \in 0 .. CounterMax
  <2>1. Increment(d.rapid) \in 0 .. CounterMax /\ 1 \in 0 .. CounterMax /\ 0 \in 0 .. CounterMax
    BY IncrementType DEF DisplayStates
  <2>2. RapidCount(d) \in 0 .. CounterMax
    BY <2>1 DEF RapidCount
  <2> QED
    BY <1>3, <2>1, <2>2, BudgetSubmitted DEF turns, budget
<1>7. /\ display' \in DisplayStates
      /\ display'.budget = budget /\ display'.last = source
      /\ display'.canvas = [d.canvas EXCEPT ![source] = picture]
  <2>1. /\ (IF ofPage THEN turns ELSE d.rapid) \in 0 .. CounterMax
        /\ (IF ofPage THEN 0 ELSE d.turned) \in Never .. RapidWindow + 1
        /\ (d.waiting \/ d.timing) \in BOOLEAN
    BY <1>6, DisplayAssumption DEF DisplayStates, Never
  <2>2. [d.canvas EXCEPT ![source] = picture] \in [Canvases -> Pictures]
    BY <1>3
  <2>3. display' = [d EXCEPT !.budget = budget, !.rapid = IF ofPage THEN turns ELSE d.rapid,
                       !.turned = IF ofPage THEN 0 ELSE d.turned,
                       !.waiting = d.waiting \/ d.timing,
                       !.canvas = [d.canvas EXCEPT ![source] = picture], !.last = source]
    BY <1>1 DEF DisplayStates
  <2> QED
    BY <1>6, <2>1, <2>2, <2>3 DEF DisplayStates
<1>8. sent' \in Refreshes
  BY <1>1, <1>2 DEF Refreshes
<1>9. panel' \in Pictures /\ display'.last # "none" /\ panel' = display'.canvas[display'.last]
  BY <1>3, <1>5, <1>7 DEF Canvases, MonoCanvases
<1>10. ghosts' \in 0 .. MaxGhosts /\ age' \in Ages /\ BudgetCounts'
  <2>1. CASE profile = "Quality"
    BY <1>1, <1>3, <1>7, <2>1, BudgetSubmitted DEF budget, BudgetCounts
  <2>2. CASE profile # "Quality"
    <3>1. ghosts' = IF ghosts + 1 <= MaxGhosts THEN ghosts + 1 ELSE MaxGhosts
      BY <1>1, <1>3, <2>2, MinOfTwo
    <3>2. /\ budget.reading = Increment(d.budget.reading)
          /\ budget.fast \in {d.budget.fast, Increment(d.budget.fast)}
          /\ budget.fastest \in {d.budget.fastest, Increment(d.budget.fastest)}
          /\ budget.quality = d.budget.quality
      BY <1>3, <2>2, BudgetSubmitted DEF budget
    <3>3. /\ d.budget.reading \in 0 .. CounterMax /\ d.budget.fast \in 0 .. CounterMax
          /\ d.budget.fastest \in 0 .. CounterMax
      BY <1>3 DEF Budgets
    <3>4. /\ d.budget.reading = IF ghosts <= CounterMax THEN ghosts ELSE CounterMax
          /\ d.budget.fast <= d.budget.reading /\ d.budget.fastest <= d.budget.reading
          /\ d.budget.quality = age
      BY DEF DisplayInv, BudgetCounts
    <3>5. /\ budget.reading = IF ghosts' <= CounterMax THEN ghosts' ELSE CounterMax
          /\ budget.fast <= budget.reading /\ budget.fastest <= budget.reading
      BY <1>3, <3>1, <3>2, <3>3, <3>4 DEF Increment
    <3>6. age' = age
      BY <1>1, <2>2
    <3> QED
      BY <1>3, <1>7, <3>1, <3>2, <3>4, <3>5, <3>6 DEF BudgetCounts
  <2> QED
    BY <2>1, <2>2
<1> QED
  BY <1>1, <1>7, <1>8, <1>9, <1>10 DEF Submitted

(* An ordinary page the budget has no room for is a cleanup. *)
LEMMA SubmitCleans ==
  ASSUME DisplayInv, NEW d \in DisplayStates, NEW source, NEW picture, NEW intent \in Intents,
         Submit(d, source, picture, intent), d.budget = display.budget,
         sent'.ordinary, sent'.profile # "Quality"
  PROVE  ghosts < MaxReading - 1 /\ age < QualityTime
<1> USE PolicyAssumption
<1> DEFINE ofPage   == intent = "ReadingPage"
<1> DEFINE reason   == Reason(d, intent)
<1> DEFINE turns    == IF ofPage THEN RapidCount(d) ELSE 0
<1> DEFINE decision == Decide(d.budget, reason, turns)
<1>1. /\ ofPage /\ reason \notin TextReasons
      /\ (IF intent \in QualityIntents THEN "Quality" ELSE decision.profile) # "Quality"
  BY DEF Submit
<1>2. reason = PageReason(d) /\ turns = RapidCount(d) /\ intent \notin QualityIntents
  BY <1>1 DEF Reason, QualityIntents
<1>3. /\ reason \notin QualityReasons /\ reason # "MenuOpen"
      /\ reason = "RapidPageTurn" => turns >= RapidTurns
  BY <1>2, ReasonOfPage
<1>4. decision.profile # "Quality"
  BY <1>1, <1>2
<1> HIDE DEF reason, turns
<1>5. Requested(reason, turns) \in {"Fast", "Fastest"}
  BY <1>1, <1>3 DEF Requested
<1>6. ~Spent(d.budget, Requested(reason, turns))
  BY <1>3, <1>4, <1>5 DEF Decide
<1>7. /\ ~(d.budget.reading + 1 >= MaxReading)
      /\ ~(d.budget.quality # Never /\ d.budget.quality >= QualityTime)
  BY <1>6 DEF Spent
<1>8. /\ d.budget.reading = IF ghosts <= CounterMax THEN ghosts ELSE CounterMax
      /\ d.budget.quality = age /\ d.budget.reading \in Nat /\ ghosts \in Nat /\ age \in Ages
  BY DEF DisplayInv, DisplayTypeOK, BudgetCounts, DisplayStates, Budgets
<1> QED
  BY <1>7, <1>8 DEF Ages, Never

(* A cleanup is forced on a budget that refreshes or time used up. *)
LEMMA SubmitNeedsCleanup ==
  ASSUME DisplayInv, NEW d \in DisplayStates, NEW source, NEW picture, NEW intent \in Intents,
         Submit(d, source, picture, intent), d.budget = display.budget, sent'.forced,
         MaxFastest <= MaxFast, MaxFastest <= MaxReading
  PROVE  ghosts >= MaxFastest - 1 \/ age >= QualityTime
<1> USE PolicyAssumption
<1> DEFINE ofPage   == intent = "ReadingPage"
<1> DEFINE reason   == Reason(d, intent)
<1> DEFINE turns    == IF ofPage THEN RapidCount(d) ELSE 0
<1>1. Decide(d.budget, reason, turns).forced
  BY DEF Submit
<1> HIDE DEF reason, turns
<1>2. Spent(d.budget, Requested(reason, turns))
  BY <1>1 DEF Decide
<1>3. \/ d.budget.fastest + 1 >= MaxFastest \/ d.budget.fast + 1 >= MaxFast
      \/ d.budget.reading + 1 >= MaxReading \/ d.budget.quality >= QualityTime
  BY <1>2 DEF Spent
<1>4. /\ d.budget.reading = IF ghosts <= CounterMax THEN ghosts ELSE CounterMax
      /\ d.budget.fast <= d.budget.reading /\ d.budget.fastest <= d.budget.reading
      /\ d.budget.quality = age /\ d.budget.reading \in Nat /\ ghosts \in Nat /\ age \in Ages
      /\ d.budget.fast \in Nat /\ d.budget.fastest \in Nat
  BY DEF DisplayInv, DisplayTypeOK, BudgetCounts, DisplayStates, Budgets
<1> QED
  BY <1>3, <1>4 DEF Ages, Never
-----------------------------------------------------------------------------
(* The pictures and intents submitted are what submitCanvas() takes. *)
LEMMA Drawn ==
  /\ Pages \subseteq Pictures /\ Screens \subseteq Pictures /\ Cover \in Pictures
  /\ QualityIntents \subseteq Intents
  /\ {"FullQuality", "ManualCleanup", "ReadingPage", "InteractiveFeedback"} \subseteq Intents
BY DisplayAssumption DEF Pictures, Cover, Intents

LEMMA BeginType ==
  ASSUME NEW d \in DisplayStates, NEW kind \in Kinds
  PROVE  /\ Begin(d, kind) \in DisplayStates /\ Begin(d, kind).budget = d.budget
         /\ Begin(d, kind).canvas = d.canvas /\ Begin(d, kind).last = d.last
BY DEF Begin, DisplayStates

(* A submission, and what else its caller sets *)
LEMMA SubmittedInv ==
  ASSUME Submitted', view' \in Views, front' \in MonoCanvases,
         laying' \in Kinds \cup {"Opening", "none"}
  PROVE  DisplayInv'
<1>1. busy' \in BOOLEAN
  BY DEF Submitted
<1> QED
  BY <1>1 DEF Submitted, DisplayInv, DisplayTypeOK, OpenBookOnPanel, DisplayStates, Refreshes

LEMMA ScreenInv ==
  ASSUME DisplayInv, NEW intents,
         intents \subseteq {"FullQuality", "ImageQuality", "InteractiveFeedback"},
         ShowScreen(intents)
  PROVE  Submitted'
<1>1. PICK picture \in Screens, intent \in intents : Submit(display, "display", picture, intent)
  BY DEF ShowScreen
<1>2. /\ display \in DisplayStates /\ picture \in Pictures /\ "display" \in Canvases
      /\ intent \in Intents /\ intent # "ReadingPage"
  BY <1>1, Drawn DEF DisplayInv, DisplayTypeOK, DisplayStates, Canvases, MonoCanvases,
     QualityIntents
<1> QED
  BY <1>1, <1>2, SubmitInv

LEMMA PageInv ==
  ASSUME DisplayInv, NEW d \in DisplayStates, ShowPage(d),
         d.budget = display.budget, d.canvas = display.canvas, d.last = display.last,
         view \in {"Page", "Menu"} \/ laying # "none"
  PROVE  Submitted' /\ front' \in MonoCanvases /\ view' \in Views
<1>1. PICK canvas \in MonoCanvases, picture \in Pages, intent \in {"ReadingPage", "ImageQuality"} :
        Submit(d, canvas, picture, intent) /\ front' = canvas
  BY DEF ShowPage
<1>2. display.last # "none" /\ panel = display.canvas[display.last]
  BY DEF DisplayInv, OpenBookOnPanel
<1>3. canvas \in Canvases /\ picture \in Pictures /\ intent \in Intents
  BY <1>1, Drawn DEF Canvases, QualityIntents
<1>4. Submitted'
  BY <1>1, <1>2, <1>3, SubmitInv
<1> QED
  BY <1>1, <1>4 DEF ShowPage, Views

(* What is drawn on the panel beside any canvas, in the library alone *)
LEMMA RegionInv ==
  ASSUME DisplayInv, HighlightRegion \/ SubmitRegion
  PROVE  DisplayInv'
<1> USE DEF DisplayInv, DisplayTypeOK
<1>1. /\ view = "Library" /\ laying = "none" /\ busy' = TRUE
      /\ UNCHANGED <<view, front, laying, ghosts, age, sent>>
  BY DEF HighlightRegion, SubmitRegion, At
<1>2. CASE HighlightRegion
  <2>1. panel' \in Pictures /\ display' = display
    BY <1>2, RegionAssumption DEF HighlightRegion, Pictures
  <2> QED
    BY <1>1, <2>1 DEF BudgetCounts, OpenBookOnPanel
<1>3. CASE SubmitRegion
  <2>1. PICK picture \in Screens, region \in {Aligned(Between(1, Columns - 1), Alignment)} :
          /\ display' = [display EXCEPT !.canvas["display"] = picture]
          /\ panel' = Pushed(panel, picture, region)
    BY <1>3 DEF SubmitRegion
  <2>2. panel' \in Pictures /\ picture \in Pictures
    BY <2>1, Drawn DEF Pushed, Pictures
  <2>3. display \in DisplayStates
    BY DEF DisplayStates
  <2> HIDE DEF DisplayInv, DisplayTypeOK
  <2>4. [display.canvas EXCEPT !["display"] = picture] \in [Canvases -> Pictures]
    BY <2>2, <2>3 DEF DisplayStates
  <2>5. display' = [display EXCEPT !.canvas = [display.canvas EXCEPT !["display"] = picture]]
    BY <2>1
  <2>6. display' \in DisplayStates /\ display'.budget = display.budget
    BY <2>3, <2>4, <2>5 DEF DisplayStates
  <2> QED
    BY <1>1, <2>2, <2>6 DEF DisplayInv, DisplayTypeOK, DisplayStates, BudgetCounts, OpenBookOnPanel
<1> QED
  BY <1>2, <1>3

(* Turns that are measured before there is a page, and the measurement *)
LEMMA MeasureInv ==
  ASSUME DisplayInv, TurnByLayout \/ TurnNowhere \/ PollPanelTiming
  PROVE  DisplayInv'
<1>1. display \in DisplayStates /\ UNCHANGED <<panel, busy, ghosts, age, sent, view, front>>
  BY DEF DisplayInv, DisplayTypeOK, DisplayStates, TurnByLayout, TurnNowhere, PollPanelTiming,
     NoSubmit
<1>2. /\ display' \in DisplayStates /\ display'.budget = display.budget
      /\ display'.canvas = display.canvas /\ display'.last = display.last
  <2>1. CASE TurnByLayout \/ TurnNowhere
    <3>1. PICK kind \in Kinds : display' = Begin(display, kind)
      BY <2>1 DEF TurnByLayout, TurnNowhere, TurnsFrom, Kinds
    <3> QED
      BY <1>1, <3>1, BeginType
  <2>2. CASE PollPanelTiming
    <3>1. display' = [display EXCEPT !.waiting = FALSE, !.timing = FALSE]
      BY <2>2 DEF PollPanelTiming
    <3> QED
      BY <1>1, <3>1 DEF DisplayStates
  <2> QED
    BY <2>1, <2>2
<1>3. /\ laying' \in Kinds \cup {"Opening", "none"}
      /\ laying' # "none" => view \in {"Page", "Menu"} \/ laying # "none"
  BY DEF DisplayInv, DisplayTypeOK, TurnByLayout, TurnNowhere, PollPanelTiming, At, TurnsFrom,
     Kinds
<1>4. DisplayTypeOK'
  BY <1>1, <1>2, <1>3 DEF DisplayInv, DisplayTypeOK, DisplayStates
<1>5. BudgetCounts' /\ OpenBookOnPanel'
  BY <1>1, <1>2, <1>3 DEF DisplayInv, BudgetCounts, OpenBookOnPanel
<1> QED
  BY <1>4, <1>5 DEF DisplayInv

LEMMA OlderType ==
  ASSUME NEW limit \in Nat, NEW a \in Never .. limit
  PROVE  Older(a, limit) \in Never .. limit
<1>1. CASE a = Never
  BY <1>1 DEF Older, Never
<1>2. CASE a # Never
  <2>1. Min({a + 1, limit}) = IF a + 1 <= limit THEN a + 1 ELSE limit
    BY MinOfTwo DEF Never
  <2> QED
    BY <1>2, <2>1 DEF Older, Never
<1> QED
  BY <1>1, <1>2

(* The policy's clock is the time since the last cleanup. *)
LEMMA ElapseInv ==
  ASSUME DisplayInv, Elapse
  PROVE  DisplayInv'
<1>1. /\ display \in DisplayStates /\ age \in Ages /\ age = display.budget.quality
      /\ UNCHANGED <<panel, busy, view, front, laying, ghosts, sent>>
  BY DEF DisplayInv, DisplayTypeOK, DisplayStates, BudgetCounts, Elapse
<1> DEFINE quality == Older(display.budget.quality, QualityTime)
<1> DEFINE turned == Older(display.turned, RapidWindow + 1)
<1>2. quality \in Ages /\ turned \in Never .. RapidWindow + 1
  <2>1. QualityTime \in Nat /\ RapidWindow + 1 \in Nat
    BY PolicyAssumption, DisplayAssumption
  <2>2. /\ display.budget.quality \in Never .. QualityTime
        /\ display.turned \in Never .. RapidWindow + 1
    BY <1>1 DEF DisplayStates, Budgets, Ages
  <2> QED
    BY <2>1, <2>2, OlderType DEF Ages
<1>3. /\ display' = [display EXCEPT !.budget = [display.budget EXCEPT !.quality = quality],
                                    !.turned = turned]
      /\ age' = quality
  BY <1>1 DEF Elapse, DisplayStates
<1> HIDE DEF quality, turned
<1>4. /\ [display.budget EXCEPT !.quality = quality] \in Budgets
      /\ [display.budget EXCEPT !.quality = quality].reading = display.budget.reading
      /\ [display.budget EXCEPT !.quality = quality].fast = display.budget.fast
      /\ [display.budget EXCEPT !.quality = quality].fastest = display.budget.fastest
      /\ [display.budget EXCEPT !.quality = quality].quality = quality
  BY <1>1, <1>2 DEF DisplayStates, Budgets
<1>5. /\ display' \in DisplayStates
      /\ display'.budget = [display.budget EXCEPT !.quality = quality]
      /\ display'.canvas = display.canvas /\ display'.last = display.last
  BY <1>1, <1>2, <1>3, <1>4 DEF DisplayStates
<1>6. DisplayTypeOK'
  BY <1>1, <1>2, <1>3, <1>5 DEF DisplayInv, DisplayTypeOK, DisplayStates
<1>7. BudgetCounts' /\ OpenBookOnPanel'
  BY <1>1, <1>3, <1>4, <1>5 DEF DisplayInv, BudgetCounts, OpenBookOnPanel
<1> QED
  BY <1>6, <1>7 DEF DisplayInv
-----------------------------------------------------------------------------
LEMMA InitDisplayInv ==
  Init => DisplayInv
<1> SUFFICES ASSUME Init PROVE DisplayInv
  OBVIOUS
<1> USE PolicyAssumption, DisplayAssumption
<1>1. /\ 0 \in 0 .. CounterMax /\ Never \in Never .. RapidWindow + 1 /\ Never \in Ages
      /\ 0 \in 0 .. MaxGhosts /\ {} \in Pictures /\ CounterMax \in Nat
  BY DEF Never, Ages, MaxGhosts, Pictures
<1>2. NewBudget \in Budgets
  BY <1>1 DEF NewBudget, Budgets
<1>3. [c \in Canvases |-> {}] \in [Canvases -> Pictures]
  BY <1>1
<1>4. display \in DisplayStates
  BY <1>1, <1>2, <1>3 DEF Init, DisplayStates, Kinds
<1>5. NoRefresh \in Refreshes
  BY DEF NoRefresh, Refreshes, Profiles
<1>6. DisplayTypeOK
  BY <1>1, <1>4, <1>5 DEF Init, DisplayTypeOK, DisplayStates, Refreshes, Views, MonoCanvases
<1>7. BudgetCounts
  BY <1>1 DEF Init, BudgetCounts, NewBudget
<1>8. OpenBookOnPanel
  BY DEF Init, OpenBookOnPanel
<1> QED
  BY <1>6, <1>7, <1>8 DEF DisplayInv

(* The handlers that show one of the application's screens *)
LEMMA ScreensInv ==
  ASSUME DisplayInv,
         \/ ShowLibrary \/ OpenBook \/ LayoutFails \/ TurnMenuPage
         \/ OpenMenu \/ EnterSleepMode
  PROVE  DisplayInv'
<1>1. front \in MonoCanvases /\ laying \in Kinds \cup {"Opening", "none"} /\ view \in Views
      /\ display \in DisplayStates
  BY DEF DisplayInv, DisplayTypeOK, DisplayStates
<1>2. front' = front /\ laying' \in Kinds \cup {"Opening", "none"} /\ view' \in Views
  BY <1>1 DEF ShowLibrary, OpenBook, LayoutFails, TurnMenuPage, OpenMenu, EnterSleepMode, Views
<1>3. CASE \E intents \in SUBSET {"FullQuality", "ImageQuality", "InteractiveFeedback"} :
             ShowScreen(intents)
  BY <1>1, <1>2, <1>3, ScreenInv, SubmittedInv
<1>4. CASE \E intent \in QualityIntents : Submit(display, "image", Cover, intent)
  <2>1. PICK intent \in QualityIntents : Submit(display, "image", Cover, intent)
    BY <1>4
  <2>2. intent \in Intents /\ intent # "ReadingPage"
    BY Drawn DEF QualityIntents
  <2>3. Submitted'
    BY <1>1, <2>1, <2>2, Drawn, SubmitInv DEF Canvases
  <2> QED
    BY <1>1, <1>2, <2>3, SubmittedInv
<1>5. \/ \E intents \in SUBSET {"FullQuality", "ImageQuality", "InteractiveFeedback"} :
           ShowScreen(intents)
      \/ \E intent \in QualityIntents : Submit(display, "image", Cover, intent)
  BY DEF ShowLibrary, OpenBook, LayoutFails, TurnMenuPage, OpenMenu, EnterSleepMode,
     QualityIntents
<1> QED
  BY <1>3, <1>4, <1>5

(* The handlers that show a page: it is compared with what the panel shows. *)
LEMMA PagesInv ==
  ASSUME DisplayInv, TurnAtOnce \/ PageLaidOut
  PROVE  DisplayInv'
<1>1. display \in DisplayStates /\ laying \in Kinds \cup {"Opening", "none"}
  BY DEF DisplayInv, DisplayTypeOK, DisplayStates
<1>2. CASE TurnAtOnce
  <2>1. view \in {"Page", "Menu"} /\ laying' = laying
    BY <1>2 DEF TurnAtOnce, At
  <2>2. PICK kind \in Kinds : ShowPage(Begin(display, kind))
    BY <1>2 DEF TurnAtOnce, TurnsFrom, Kinds
  <2>3. Submitted' /\ front' \in MonoCanvases /\ view' \in Views
    BY <1>1, <2>1, <2>2, BeginType, PageInv
  <2> QED
    BY <1>1, <2>1, <2>3, SubmittedInv
<1>3. CASE PageLaidOut
  <2>1. laying # "none" /\ ShowPage(display) /\ laying' = "none"
    BY <1>3 DEF PageLaidOut
  <2>2. Submitted' /\ front' \in MonoCanvases /\ view' \in Views
    BY <1>1, <2>1, PageInv
  <2> QED
    BY <2>1, <2>2, SubmittedInv
<1> QED
  BY <1>2, <1>3

(* A canvas submitted again to clean the panel, and after a sleep *)
LEMMA RefreshInv ==
  ASSUME DisplayInv, ServiceManualRefresh \/ Wake
  PROVE  DisplayInv'
<1>1. /\ display \in DisplayStates /\ laying \in Kinds \cup {"Opening", "none"}
      /\ front \in MonoCanvases /\ view \in Views /\ laying' = laying /\ front' = front
  BY DEF DisplayInv, DisplayTypeOK, DisplayStates, ServiceManualRefresh, Wake
<1>2. front \in Canvases /\ "display" \in Canvases
  BY <1>1 DEF Canvases, MonoCanvases
<1>3. CASE ServiceManualRefresh
  <2>1. PICK source \in Canvases :
          Submit(display, source, display.canvas[source], "ManualCleanup") /\ view' = view
    BY <1>2, <1>3 DEF ServiceManualRefresh
  <2>2. display.canvas[source] \in Pictures
    BY <1>1 DEF DisplayStates
  <2>3. Submitted'
    BY <1>1, <2>1, <2>2, Drawn, SubmitInv
  <2> QED
    BY <1>1, <2>1, <2>3, SubmittedInv
<1>4. CASE Wake /\ view' = "Library"
  <2>1. laying = "none" /\ NoSubmit /\ display' = display
    BY <1>4 DEF Wake, At
  <2> QED
    BY <1>1, <1>4, <2>1 DEF NoSubmit, DisplayInv, DisplayTypeOK, BudgetCounts, OpenBookOnPanel,
       Views
<1>5. CASE \E picture \in Pages : Submit(display, front, picture, "WakeFromSleep") /\ view' = "Page"
  <2>1. PICK picture \in Pages : Submit(display, front, picture, "WakeFromSleep")
    BY <1>5
  <2>2. "WakeFromSleep" \in Intents /\ picture \in Pictures
    BY <2>1, Drawn DEF QualityIntents
  <2>3. Submitted'
    BY <1>1, <1>2, <2>1, <2>2, SubmitInv
  <2> QED
    BY <1>1, <1>5, <2>3, SubmittedInv DEF Views
<1> QED
  BY <1>3, <1>4, <1>5 DEF Wake

LEMMA PanelIdlesInv ==
  ASSUME DisplayInv, PanelIdles
  PROVE  DisplayInv'
<1>1. NoRefresh \in Refreshes
  BY DEF NoRefresh, Refreshes, Profiles
<1> QED
  BY <1>1 DEF PanelIdles, DisplayInv, DisplayTypeOK, BudgetCounts, OpenBookOnPanel, Refreshes

LEMMA NextDisplayInv ==
  DisplayInv /\ [Next]_vars => DisplayInv'
<1> SUFFICES ASSUME DisplayInv, [Next]_vars PROVE DisplayInv'
  OBVIOUS
<1>1. CASE UNCHANGED vars
  BY <1>1 DEF vars, DisplayInv, DisplayTypeOK, BudgetCounts, OpenBookOnPanel
<1>2. CASE \/ ShowLibrary \/ OpenBook \/ LayoutFails \/ TurnMenuPage
           \/ OpenMenu \/ EnterSleepMode
  BY <1>2, ScreensInv
<1>3. CASE HighlightRegion \/ SubmitRegion
  BY <1>3, RegionInv
<1>4. CASE TurnAtOnce \/ PageLaidOut
  BY <1>4, PagesInv
<1>5. CASE TurnByLayout \/ TurnNowhere \/ PollPanelTiming
  BY <1>5, MeasureInv
<1>6. CASE ServiceManualRefresh \/ Wake
  BY <1>6, RefreshInv
<1>7. CASE PanelIdles
  BY <1>7, PanelIdlesInv
<1>8. CASE Elapse
  BY <1>8, ElapseInv
<1> QED
  BY <1>1, <1>2, <1>3, <1>4, <1>5, <1>6, <1>7, <1>8 DEF Next

(* A page appears on an idle panel by a submission alone. *)
LEMMA ShownIsSubmitted ==
  ASSUME DisplayInv, Next, ShowsPage
  PROVE  \E d \in DisplayStates, source \in Canvases, picture \in Pictures, intent \in Intents :
           Submit(d, source, picture, intent) /\ d.budget = display.budget
<1>1. display \in DisplayStates /\ front \in Canvases /\ "display" \in Canvases
      /\ MonoCanvases \subseteq Canvases
  BY DEF Canvases, MonoCanvases, DisplayInv, DisplayTypeOK, DisplayStates
<1>2. ~busy /\ busy' /\ view' = "Page"
  BY DEF ShowsPage
<1>3. CASE \E d \in DisplayStates : ShowPage(d) /\ d.budget = display.budget
  <2>1. PICK d \in DisplayStates : ShowPage(d) /\ d.budget = display.budget
    BY <1>3
  <2>2. PICK canvas \in MonoCanvases, picture \in Pages,
             intent \in {"ReadingPage", "ImageQuality"} :
          Submit(d, canvas, picture, intent)
    BY <2>1 DEF ShowPage
  <2>3. canvas \in Canvases /\ picture \in Pictures /\ intent \in Intents
    BY <1>1, <2>2, Drawn DEF QualityIntents
  <2> QED
    BY <2>1, <2>2, <2>3
<1>4. CASE \E picture \in Pages : Submit(display, front, picture, "WakeFromSleep")
  BY <1>1, <1>4, Drawn DEF QualityIntents
<1>5. CASE TurnMenuPage \/ ServiceManualRefresh
  <2>1. CASE TurnMenuPage
    BY <1>1, <2>1, Drawn DEF TurnMenuPage, ShowScreen
  <2>2. CASE ServiceManualRefresh
    <3>1. PICK source \in Canvases :
            Submit(display, source, display.canvas[source], "ManualCleanup")
      BY <1>1, <2>2 DEF ServiceManualRefresh
    <3>2. display.canvas[source] \in Pictures
      BY <1>1 DEF DisplayStates
    <3> QED
      BY <1>1, <3>1, <3>2, Drawn
  <2> QED
    BY <1>5, <2>1, <2>2
<1>6. CASE TurnAtOnce \/ PageLaidOut
  <2>1. CASE TurnAtOnce
    <3>1. PICK kind \in Kinds : ShowPage(Begin(display, kind))
      BY <2>1 DEF TurnAtOnce, TurnsFrom, Kinds
    <3> QED
      BY <1>1, <1>3, <3>1, BeginType
  <2>2. CASE PageLaidOut
    BY <1>1, <1>3, <2>2 DEF PageLaidOut
  <2> QED
    BY <1>6, <2>1, <2>2
<1>7. CASE Wake
  BY <1>2, <1>4, <1>7 DEF Wake
<1>8. ~(\/ ShowLibrary \/ HighlightRegion \/ SubmitRegion \/ OpenBook \/ TurnByLayout
        \/ TurnNowhere \/ LayoutFails \/ OpenMenu \/ EnterSleepMode \/ PanelIdles
        \/ PollPanelTiming \/ Elapse)
  BY <1>2 DEF ShowLibrary, HighlightRegion, SubmitRegion, OpenBook, TurnByLayout, TurnNowhere,
     LayoutFails, OpenMenu, EnterSleepMode, PanelIdles, PollPanelTiming, Elapse, At, NoSubmit
<1> QED
  BY <1>5, <1>6, <1>7, <1>8 DEF Next
-----------------------------------------------------------------------------
(***************************************************************************)
(* The state of the panel has its type, the policy's counters and clock    *)
(* follow the refreshes the panel went through since its last Quality one, *)
(* and the panel agrees with the canvas while a book is open or opened.    *)
(***************************************************************************)
THEOREM DisplayInvariant == Spec => []DisplayInv
<1>1. DisplayInv /\ [Next]_vars => DisplayInv'
  BY NextDisplayInv
<1> QED
  BY <1>1, InitDisplayInv, PTL DEF Spec

(***************************************************************************)
(* Whatever regions submitCanvas() selects, the whole panel shows the      *)
(* canvas submitted last while a book is open.                             *)
(***************************************************************************)
THEOREM PanelShowsSource == Spec => []PanelIsSource
<1>1. DisplayInv => PanelIsSource
  BY DEF DisplayInv, OpenBookOnPanel, PanelIsSource
<1> QED
  BY <1>1, DisplayInvariant, PTL

(***************************************************************************)
(* Once the refreshes since the last Quality one, or its age, have reached *)
(* the policy's limits, RefreshPolicy::decide() shows no ordinary page     *)
(* with another waveform, whatever was submitted before.                   *)
(***************************************************************************)
THEOREM PanelCleanedInTime == Spec => CleanedInTime
<1>1. ASSUME DisplayInv, Next, ShowsPage, sent'.ordinary, sent'.profile # "Quality"
      PROVE  ghosts < MaxReading - 1 /\ age < QualityTime
  BY <1>1, ShownIsSubmitted, SubmitCleans
<1>2. ASSUME DisplayInv, [Next]_vars
      PROVE  [ShowsPage /\ sent'.ordinary /\ sent'.profile # "Quality"
                => ghosts < MaxReading - 1 /\ age < QualityTime]_vars
  BY <1>1, <1>2
<1> QED
  BY <1>2, DisplayInvariant, PTL DEF Spec, CleanedInTime

(***************************************************************************)
(* RefreshPolicy::decide() forces no cleanup of a panel that was cleaned   *)
(* fewer refreshes ago than its smallest limit and less than five minutes  *)
(* ago.  The code's smallest is that of the Fastest waveform: 2, beside 5  *)
(* and 6.                                                                  *)
(***************************************************************************)
THEOREM PanelCleanedWhenNeeded ==
  MaxFastest <= MaxFast /\ MaxFastest <= MaxReading /\ Spec => NoNeedlessCleanup
<1> SUFFICES ASSUME MaxFastest <= MaxFast, MaxFastest <= MaxReading
             PROVE  Spec => NoNeedlessCleanup
  OBVIOUS
<1>1. ASSUME DisplayInv, Next, ShowsPage, sent'.forced
      PROVE  ghosts >= MaxFastest - 1 \/ age >= QualityTime
  BY <1>1, ShownIsSubmitted, SubmitNeedsCleanup
<1>2. ASSUME DisplayInv, [Next]_vars
      PROVE  [ShowsPage /\ sent'.forced
                => ghosts >= MaxFastest - 1 \/ age >= QualityTime]_vars
  BY <1>1, <1>2
<1> QED
  BY <1>2, DisplayInvariant, PTL DEF Spec, NoNeedlessCleanup
=============================================================================
