--------------------------- MODULE BitrateLadder ---------------------------
(***************************************************************************)
(* The adaptive bitrate ladder, thunderlink-engine/src/ladder.rs: the       *)
(* receiver's reports move the bitrate within 25% to 150% of the negotiated *)
(* one.  A report is what the code makes of its numbers: "clean", "noisy"   *)
(* (little loss, or jitter), "light" loss, "heavy" loss, or "outage":       *)
(* packets lost and no frame received, which divides by no frame count and  *)
(* passes for no loss.                                                      *)
(***************************************************************************)
EXTENDS Naturals, Sequences

CONSTANTS
  Base,          \* the negotiated bitrate
  CLEAN_STREAK   \* clean reports before a step up

ASSUME LadderConstants ==
  /\ Base \in Nat \ {0}
  /\ CLEAN_STREAK \in Nat /\ CLEAN_STREAK >= 2

VARIABLES
  current,       \* current_kbps
  heavy_streak, loss_streak, clean_streak,  \* bound: counted up to their thresholds
  recent         \* history: the last CLEAN_STREAK reports

ladderVars == <<current, heavy_streak, loss_streak, clean_streak, recent>>

Reports == {"clean", "noisy", "light", "heavy", "outage"}

(* Multiplied by a percentage and rounded, half up.                         *)
Percent(kbps, p) == (kbps * p + 50) \div 100

Least == Percent(Base, 25)
Most == Percent(Base, 150)
Rates == Least .. Most

Clamp(kbps) ==
  IF kbps < Least THEN Least ELSE IF kbps > Most THEN Most ELSE kbps

Saturated(n, threshold) == IF n > threshold THEN threshold ELSE n

LadderInit ==
  /\ current = Base
  /\ heavy_streak = 0 /\ loss_streak = 0 /\ clean_streak = 0
  /\ recent = <<>>

CountsCleanOnly(report) ==   \* faulty variant: never starts over
  Saturated(clean_streak + (IF report = "clean" THEN 1 ELSE 0), CLEAN_STREAK)
CleanStreak(report) ==
  IF report \in {"clean", "outage"} THEN Saturated(clean_streak + 1, CLEAN_STREAK) ELSE 0

LossStreak(report) ==
  IF report \in {"light", "heavy"} THEN Saturated(loss_streak + 1, 2) ELSE 0

HeavyStreak(report) ==
  IF report = "heavy" THEN Saturated(heavy_streak + 1, 2) ELSE 0

Stepped ==
  IF heavy_streak' >= 2 THEN Percent(current, 70)
  ELSE IF loss_streak' >= 2 THEN Percent(current, 85)
  ELSE IF clean_streak' >= CLEAN_STREAK THEN Percent(current, 115)
  ELSE current

Remember(report) ==
  LET all == Append(recent, report)
  IN IF Len(all) > CLEAN_STREAK THEN Tail(all) ELSE all

(* report: the action is to set the new bitrate, or to hold if it is the    *)
(* old one.                                                                 *)
Report(report) ==
  /\ heavy_streak' = HeavyStreak(report)
  /\ loss_streak' = LossStreak(report)
  /\ clean_streak' = CleanStreak(report)
  /\ current' = Clamp(Stepped)
  /\ recent' = Remember(report)
=============================================================================
