--------------------------- MODULE RefreshPolicy ---------------------------
(***************************************************************************)
(* Which waveform refreshes the e-paper panel (refresh/RefreshPolicy):     *)
(* every fast refresh leaves a ghost behind, a budget counts them, and an  *)
(* ordinary refresh the budget has no room for is made a Quality one.      *)
(*                                                                         *)
(* Counters nothing reads (partial refreshes, cleanups so far) are left    *)
(* out; recordQualityCompleted() and reset() are never called.             *)
(***************************************************************************)
EXTENDS Integers

CONSTANTS
  RapidTurns,  \* rapidTurnsBeforeFastest
  MaxFastest,  \* maxConsecutiveFastestRefreshes
  MaxFast,     \* maxFastRefreshesBeforeCleanup
  MaxReading,  \* maxReadingRefreshesBeforeQuality
  QualityTime, \* maxMillisecondsWithoutQualityRefresh
  CounterMax   \* the largest value of a counter

ASSUME PolicyAssumption ==
  /\ {RapidTurns, MaxFastest, MaxFast, MaxReading, QualityTime, CounterMax} \subseteq Nat \ {0}
  /\ CounterMax >= MaxReading /\ CounterMax >= MaxFast /\ CounterMax >= RapidTurns

Profiles == {"Quality", "Text", "Fast", "Fastest"}

(* The time of lastQualityRefreshMs, 0, when there was none yet. *)
Never == -1
Ages == Never .. QualityTime

Budgets == [fast : 0 .. CounterMax, fastest : 0 .. CounterMax, reading : 0 .. CounterMax,
            quality : Ages]

NewBudget == [fast |-> 0, fastest |-> 0, reading |-> 0, quality |-> Never]

(* Mutated: the counters wrap around. *)
Wrapped(n) == (n + 1) % (CounterMax + 1)

(* increment() *)
Increment(n) == IF n = CounterMax THEN n ELSE n + 1

QualityReasons == {"Boot", "WakeFromSleep", "ManualCleanup"}
TextReasons == {"OpenBook", "FontReflow", "TocNavigation"}

Requested(reason, turns) ==
  CASE reason \in QualityReasons -> "Quality"
    [] reason \in TextReasons -> "Text"
    [] reason = "RapidPageTurn" /\ turns >= RapidTurns -> "Fastest"
    [] OTHER -> "Fast"

Spent(budget, profile) ==
  \/ profile = "Fastest" /\ budget.fastest + 1 >= MaxFastest
  \/ profile = "Fast" /\ budget.fast + 1 >= MaxFast
  \/ budget.reading + 1 >= MaxReading
  \/ budget.quality # Never /\ budget.quality >= QualityTime

(* decide(): the menu's refreshes are not limited, nor are Text ones. *)
Decide(budget, reason, turns) ==
  LET profile == Requested(reason, turns)
      forced  == profile \in {"Fast", "Fastest"} /\ reason # "MenuOpen" /\ Spent(budget, profile)
  IN  [profile |-> IF forced THEN "Quality" ELSE profile, forced |-> forced]

(* Mutated: a cleanup leaves the Fastest refreshes counted. *)
RecordKeepingFastest(budget, profile) ==
  IF profile = "Quality" THEN [NewBudget EXCEPT !.quality = 0, !.fastest = budget.fastest]
  ELSE [budget EXCEPT
          !.fast    = IF profile = "Fast" THEN Increment(@) ELSE @,
          !.fastest = IF profile = "Fastest" THEN Increment(@) ELSE @,
          !.reading = Increment(@)]

(* recordSubmitted() *)
RecordSubmitted(budget, profile) ==
  IF profile = "Quality" THEN [NewBudget EXCEPT !.quality = 0]
  ELSE [budget EXCEPT
          !.fast    = IF profile = "Fast" THEN Increment(@) ELSE @,
          !.fastest = IF profile = "Fastest" THEN Increment(@) ELSE @,
          !.reading = Increment(@)]
=============================================================================
