-------------------------- MODULE EncodeLoopProofs --------------------------
(***************************************************************************)
(* Theorems about what the receiver's feedback does to the stream.          *)
(*                                                                          *)
(* RequestInv: a request for a key frame on its way through the feedback    *)
(* worker's latch, the encode loop's local variable and the encoder's flag. *)
(* The argument needs to know when the local variable is in use: it is set  *)
(* by the loop only in between take_idr_request and the closure, so what    *)
(* take_idr_request overwrites holds no request.                            *)
(*                                                                          *)
(* LadderInv: the three streaks count what the last reports were.           *)
(***************************************************************************)
EXTENDS EncodeLoop, TLAPS

FlagsTyped == idr_latched \in BOOLEAN /\ force_idr \in BOOLEAN /\ forced \in BOOLEAN /\ unserved \in BOOLEAN

(* The loop's force_idr holds nothing outside its frame.                    *)
LocalToFrame == force_idr => pc = "closure"

RequestInv == FlagsTyped /\ LocalToFrame /\ IdrRequestKept

LEMMA InitRequestInv == Init => RequestInv
BY DEF Init, RequestInv, FlagsTyped, LocalToFrame, IdrRequestKept

LEMMA RequestStep == RequestInv /\ [Next]_vars => RequestInv'
<1> SUFFICES ASSUME RequestInv, [Next]_vars
             PROVE  RequestInv'
  OBVIOUS
<1> USE DEF RequestInv, FlagsTyped, LocalToFrame, IdrRequestKept
<1>1. ASSUME NEW report \in Reports, HandleReport(report)
      PROVE  RequestInv'
  BY <1>1 DEF HandleReport, loopVars, encoderVars
<1>2. ASSUME NEW fb \in {"Nack", "IdrRequest"}, HandleFeedback(fb)
      PROVE  RequestInv'
  BY <1>2 DEF HandleFeedback, Latched, loopVars, encoderVars
<1>3. CASE TakeFrame
  BY <1>3 DEF TakeFrame, encoderVars
<1>4. CASE TakeIdrRequest
  BY <1>4 DEF TakeIdrRequest, encoderVars
<1>5. CASE RequestIdr
  BY <1>5 DEF RequestIdr
<1>6. CASE KeepRate \/ SetRate \/ RateRefused
  BY <1>6 DEF KeepRate, SetRate, RateRefused, encoderVars
<1>7. CASE Submit
  BY <1>7 DEF Submit
<1>8. CASE UnitReady \/ OutputFails \/ SendUnit
  BY <1>8 DEF UnitReady, OutputFails, SendUnit, encoderVars
<1>9. CASE LoopEnds \/ LoopFails
  BY <1>9 DEF LoopEnds, LoopFails, encoderVars
<1>10. CASE RaiseStop
  BY <1>10 DEF RaiseStop, loopVars, encoderVars
<1>11. CASE UNCHANGED vars
  BY <1>11 DEF vars, loopVars, encoderVars
<1> QED
  BY <1>1, <1>2, <1>3, <1>4, <1>5, <1>6, <1>7, <1>8, <1>9, <1>10, <1>11
  DEF Next, Loop, Closure

(* A request for a key frame that no frame has served yet is with the latch,*)
(* the loop or the encoder, for any ladder, encoder and number of refusals  *)
(* (VideoTx take_idr_request, run_initiator, Encoder request_idr).          *)
THEOREM RequestKept == Spec => []IdrRequestKept
<1>1. RequestInv => IdrRequestKept
  BY DEF RequestInv
<1> QED
  BY InitRequestInv, RequestStep, <1>1, PTL DEF Spec

-----------------------------------------------------------------------------
(* The bitrate ladder.                                                      *)

(* The report k before the last, and a streak of reports of a kind: capped, *)
(* so it says something of that many reports and nothing of earlier ones.   *)
Ago(k) == recent[Len(recent) - k]
Streak(n, kinds) == n <= Len(recent) /\ \A k \in 0 .. n - 1 : Ago(k) \in kinds

LadderTypeOK ==
  /\ current \in Rates
  /\ recent \in Seq(Reports) /\ Len(recent) <= CLEAN_STREAK
  /\ clean_streak \in 0 .. CLEAN_STREAK
  /\ loss_streak \in 0 .. 2
  /\ heavy_streak \in 0 .. 2

LadderInv ==
  /\ LadderTypeOK
  /\ Streak(clean_streak, {"clean", "outage"})
  /\ Streak(loss_streak, {"light", "heavy"})
  /\ Streak(heavy_streak, {"heavy"})

(* The steps down do not go up, nor the step up down, and the light step    *)
(* down goes no further than the heavy one.                                 *)
LEMMA PercentSteps ==
  ASSUME NEW kbps \in Nat
  PROVE  /\ \A p \in {25, 70, 85, 115, 150} : Percent(kbps, p) \in Nat
         /\ Percent(kbps, 70) <= kbps
         /\ Percent(kbps, 85) <= kbps
         /\ Percent(kbps, 115) >= kbps
         /\ Percent(kbps, 25) <= kbps
         /\ kbps <= Percent(kbps, 150)
BY DEF Percent

LEMMA BandType ==
  Least \in Nat /\ Most \in Nat /\ Least <= Base /\ Base <= Most
BY LadderConstants, PercentSteps DEF Least, Most

LEMMA ClampFacts ==
  /\ \A kbps \in Nat : Clamp(kbps) \in Rates
  /\ \A kbps \in Rates : Clamp(kbps) = kbps
  /\ \A low, high \in Nat : low <= high => Clamp(low) <= Clamp(high)
<1>1. Least \in Nat /\ Most \in Nat /\ Least <= Most
  BY BandType, LadderConstants
<1>2. \A kbps \in Nat : Clamp(kbps) \in Rates
  BY <1>1 DEF Clamp, Rates
<1>3. \A kbps \in Rates : Clamp(kbps) = kbps
  BY <1>1 DEF Clamp, Rates
<1>4. \A low, high \in Nat : low <= high => Clamp(low) <= Clamp(high)
  BY <1>1 DEF Clamp
<1> QED BY <1>2, <1>3, <1>4

(* One more report: each earlier one is one further back.                   *)
LEMMA RememberFacts ==
  ASSUME LadderTypeOK, NEW report \in Reports, recent' = Remember(report)
  PROVE  /\ recent' \in Seq(Reports)
         /\ Len(recent') = IF Len(recent) < CLEAN_STREAK THEN Len(recent) + 1 ELSE CLEAN_STREAK
         /\ recent'[Len(recent')] = report
         /\ \A k \in 1 .. Len(recent') - 1 : recent'[Len(recent') - k] = Ago(k - 1)
<1> DEFINE all == Append(recent, report)
<1>1. /\ all \in Seq(Reports) /\ Len(all) = Len(recent) + 1 /\ all # << >>
      /\ all[Len(all)] = report
      /\ \A k \in 1 .. Len(recent) : all[Len(all) - k] = Ago(k - 1)
  BY DEF LadderTypeOK, Ago
<1>2. recent' = IF Len(all) > CLEAN_STREAK THEN Tail(all) ELSE all
  BY DEF Remember
<1>3. Len(recent) \in Nat /\ CLEAN_STREAK \in Nat /\ CLEAN_STREAK >= 2
      /\ Len(recent) <= CLEAN_STREAK
  BY LadderConstants DEF LadderTypeOK
<1> HIDE DEF all
<1>4. CASE Len(recent) < CLEAN_STREAK
  <2>1. recent' = all
    BY <1>1, <1>2, <1>3, <1>4
  <2> QED BY <2>1, <1>1, <1>3, <1>4
<1>5. CASE Len(recent) = CLEAN_STREAK
  <2>1. recent' = Tail(all)
    BY <1>1, <1>2, <1>3, <1>5
  <2>2. Tail(all) \in Seq(Reports) /\ Len(Tail(all)) = Len(recent)
        /\ \A i \in 1 .. Len(recent) : Tail(all)[i] = all[i + 1]
    BY <1>1, <1>3
  <2>3. recent'[Len(recent')] = report
    BY <1>1, <1>3, <1>5, <2>1, <2>2
  <2>4. ASSUME NEW k \in 1 .. Len(recent') - 1
        PROVE  recent'[Len(recent') - k] = Ago(k - 1)
    <3>1. Len(recent) - k \in 1 .. Len(recent) /\ k \in 1 .. Len(recent)
      BY <1>3, <2>1, <2>2, <2>4
    <3>2. Tail(all)[Len(recent) - k] = all[(Len(recent) - k) + 1]
      BY <2>2, <3>1
    <3>3. (Len(recent) - k) + 1 = Len(all) - k
      BY <1>1, <1>3, <3>1
    <3> QED BY <1>1, <2>1, <2>2, <3>1, <3>2, <3>3
  <2> QED BY <1>3, <1>5, <2>1, <2>2, <2>3, <2>4
<1> QED BY <1>3, <1>4, <1>5

(* What a streak of m means after the step: the last m reports are of its   *)
(* kinds.                                                                   *)
StreakAfter(m, threshold, kinds) ==
  /\ m \in 0 .. threshold
  /\ m <= Len(recent')
  /\ \A k \in 0 .. m - 1 : recent'[Len(recent') - k] \in kinds

(* A streak grows by a report of its kind and starts over with any other.   *)
LEMMA StreakStep ==
  ASSUME LadderTypeOK, NEW report \in Reports, recent' = Remember(report),
         NEW kinds, NEW threshold \in 1 .. CLEAN_STREAK,
         NEW n \in 0 .. threshold, Streak(n, kinds),
         NEW m, m = IF report \in kinds THEN Saturated(n + 1, threshold) ELSE 0
  PROVE  StreakAfter(m, threshold, kinds)
<1>1. /\ n \in Nat /\ threshold \in Nat /\ CLEAN_STREAK \in Nat /\ threshold <= CLEAN_STREAK
      /\ n <= threshold /\ Len(recent) \in Nat /\ n <= Len(recent)
  BY LadderConstants DEF LadderTypeOK, Streak
<1>2. /\ Len(recent') = IF Len(recent) < CLEAN_STREAK THEN Len(recent) + 1 ELSE CLEAN_STREAK
      /\ recent'[Len(recent')] = report
      /\ \A k \in 1 .. Len(recent') - 1 : recent'[Len(recent') - k] = Ago(k - 1)
  BY RememberFacts
<1>3. CASE report \notin kinds
  BY <1>1, <1>2, <1>3 DEF StreakAfter
<1>4. CASE report \in kinds
  <2>1. m \in 1 .. threshold /\ m <= n + 1
    BY <1>1, <1>4 DEF Saturated
  <2>2. m <= Len(recent')
    BY <1>1, <1>2, <2>1, LadderConstants DEF LadderTypeOK
  <2>3. ASSUME NEW k \in 0 .. m - 1
        PROVE  recent'[Len(recent') - k] \in kinds
    <3>1. CASE k = 0
      BY <1>1, <1>2, <1>4, <3>1
    <3>2. CASE k # 0
      <4>1. k \in 1 .. Len(recent') - 1 /\ k - 1 \in 0 .. n - 1
        BY <1>1, <1>2, <2>1, <2>2, <2>3, <3>2
      <4>2. recent'[Len(recent') - k] = Ago(k - 1)
        BY <1>2, <4>1
      <4> QED BY <4>1, <4>2 DEF Streak
    <3> QED BY <3>1, <3>2
  <2> QED BY <1>1, <2>1, <2>2, <2>3 DEF StreakAfter
<1> QED BY <1>3, <1>4

LEMMA ReportLadderInv ==
  ASSUME LadderInv, NEW report \in Reports, Report(report)
  PROVE  LadderInv'
<1>1. recent' = Remember(report) /\ LadderTypeOK
  BY DEF Report, LadderInv
<1>2. 2 \in 1 .. CLEAN_STREAK /\ CLEAN_STREAK \in 1 .. CLEAN_STREAK
  BY LadderConstants
<1>3. clean_streak' \in 0 .. CLEAN_STREAK /\ Streak(clean_streak, {"clean", "outage"})'
  <2>1. clean_streak \in 0 .. CLEAN_STREAK /\ Streak(clean_streak, {"clean", "outage"})
    BY DEF LadderInv, LadderTypeOK
  <2>2. clean_streak' = IF report \in {"clean", "outage"}
                        THEN Saturated(clean_streak + 1, CLEAN_STREAK) ELSE 0
    BY DEF Report, CleanStreak
  <2>3. \A n \in 0 .. CLEAN_STREAK : \A m :
          Streak(n, {"clean", "outage"}) /\ m = (IF report \in {"clean", "outage"} THEN Saturated(n + 1, CLEAN_STREAK) ELSE 0)
            => StreakAfter(m, CLEAN_STREAK, {"clean", "outage"})
    BY <1>1, <1>2, StreakStep
  <2>4. StreakAfter(clean_streak', CLEAN_STREAK, {"clean", "outage"})
    BY <2>1, <2>2, <2>3
  <2> QED BY <2>4 DEF StreakAfter, Streak, Ago
<1>4. loss_streak' \in 0 .. 2 /\ Streak(loss_streak, {"light", "heavy"})'
  <2>1. loss_streak \in 0 .. 2 /\ Streak(loss_streak, {"light", "heavy"})
    BY DEF LadderInv, LadderTypeOK
  <2>2. loss_streak' = IF report \in {"light", "heavy"} THEN Saturated(loss_streak + 1, 2) ELSE 0
    BY DEF Report, LossStreak
  <2>3. \A n \in 0 .. 2 : \A m :
          Streak(n, {"light", "heavy"}) /\ m = (IF report \in {"light", "heavy"} THEN Saturated(n + 1, 2) ELSE 0)
            => StreakAfter(m, 2, {"light", "heavy"})
    BY <1>1, <1>2, StreakStep
  <2>4. StreakAfter(loss_streak', 2, {"light", "heavy"})
    BY <2>1, <2>2, <2>3
  <2> QED BY <2>4 DEF StreakAfter, Streak, Ago
<1>5. heavy_streak' \in 0 .. 2 /\ Streak(heavy_streak, {"heavy"})'
  <2>1. heavy_streak \in 0 .. 2 /\ Streak(heavy_streak, {"heavy"})
    BY DEF LadderInv, LadderTypeOK
  <2>2. heavy_streak' = IF report \in {"heavy"} THEN Saturated(heavy_streak + 1, 2) ELSE 0
    BY DEF Report, HeavyStreak
  <2>3. \A n \in 0 .. 2 : \A m :
          Streak(n, {"heavy"}) /\ m = (IF report \in {"heavy"} THEN Saturated(n + 1, 2) ELSE 0)
            => StreakAfter(m, 2, {"heavy"})
    BY <1>1, <1>2, StreakStep
  <2>4. StreakAfter(heavy_streak', 2, {"heavy"})
    BY <2>1, <2>2, <2>3
  <2> QED BY <2>4 DEF StreakAfter, Streak, Ago
<1>6. current' \in Rates
  <2>1. current \in Nat
    BY BandType DEF LadderInv, LadderTypeOK, Rates
  <2>2. Stepped \in Nat
    BY <2>1, PercentSteps DEF Stepped
  <2> QED BY <2>2, ClampFacts DEF Report
<1>7. recent' \in Seq(Reports) /\ Len(recent') <= CLEAN_STREAK
  BY <1>1, RememberFacts, LadderConstants DEF LadderTypeOK
<1>8. Rates' = Rates /\ Reports' = Reports
  BY DEF Rates, Least, Most, Percent, Reports
<1> QED BY <1>3, <1>4, <1>5, <1>6, <1>7, <1>8 DEF LadderInv, LadderTypeOK

LEMMA LadderUntouched ==
  ASSUME LadderInv, UNCHANGED ladderVars
  PROVE  LadderInv'
BY DEF ladderVars, LadderInv, LadderTypeOK, Streak, Ago, Rates, Least, Most, Percent, Reports

LEMMA InitLadderInv == Init => LadderInv
<1> SUFFICES ASSUME Init PROVE LadderInv
  OBVIOUS
<1> USE DEF Init, LadderInit
<1>1. Base \in Rates
  BY BandType, LadderConstants DEF Rates
<1> QED BY <1>1, LadderConstants DEF LadderInv, LadderTypeOK, Streak

(* Only a report touches the ladder.                                        *)
LEMMA OnlyReports ==
  [Next]_vars => UNCHANGED ladderVars \/ \E report \in Reports : Report(report)
BY DEF Next, HandleReport, HandleFeedback, Loop, TakeFrame, TakeIdrRequest, Closure, RequestIdr,
       KeepRate, SetRate, RateRefused, Submit, UnitReady, OutputFails, SendUnit, LoopEnds,
       LoopFails, RaiseStop, vars

LEMMA LadderStep == LadderInv /\ [Next]_vars => LadderInv'
BY OnlyReports, ReportLadderInv, LadderUntouched

LEMMA ReportIsPatient ==
  ASSUME LadderInv, NEW report \in Reports, Report(report)
  PROVE  /\ current' > current =>
              Len(recent') = CLEAN_STREAK /\ \A i \in 1 .. CLEAN_STREAK : recent'[i] \in {"clean", "outage"}
         /\ current' < current => LastTwoIn({"light", "heavy"})'
         /\ current' < Clamp(Percent(current, 85)) => LastTwoIn({"heavy"})'
         /\ current' \in Rates
<1>1. LadderInv'
  BY ReportLadderInv
<1>2. /\ recent' \in Seq(Reports) /\ Len(recent') <= CLEAN_STREAK
      /\ clean_streak' \in 0 .. CLEAN_STREAK /\ loss_streak' \in 0 .. 2 /\ heavy_streak' \in 0 .. 2
      /\ current' \in Rates
  BY <1>1 DEF LadderInv, LadderTypeOK, Rates, Least, Most, Percent, Reports
<1>3. /\ clean_streak' <= Len(recent')
      /\ \A k \in 0 .. clean_streak' - 1 : recent'[Len(recent') - k] \in {"clean", "outage"}
  BY <1>1 DEF LadderInv, Streak, Ago
<1>4. /\ loss_streak' <= Len(recent')
      /\ \A k \in 0 .. loss_streak' - 1 : recent'[Len(recent') - k] \in {"light", "heavy"}
  BY <1>1 DEF LadderInv, Streak, Ago
<1>5. /\ heavy_streak' <= Len(recent')
      /\ \A k \in 0 .. heavy_streak' - 1 : recent'[Len(recent') - k] \in {"heavy"}
  BY <1>1 DEF LadderInv, Streak, Ago
<1>6. /\ Len(recent') \in Nat /\ CLEAN_STREAK \in Nat /\ CLEAN_STREAK >= 2
  BY <1>2, LadderConstants
<1>types. clean_streak' \in Nat /\ loss_streak' \in Nat /\ heavy_streak' \in Nat
  BY <1>2, <1>6
<1>steps. /\ \A p \in {25, 70, 85, 115, 150} : Percent(current, p) \in Nat
      /\ Percent(current, 70) <= current
      /\ Percent(current, 85) <= current
      /\ Percent(current, 115) >= current
  <2>1. current \in Nat
    BY BandType DEF LadderInv, LadderTypeOK, Rates
  <2> QED BY <2>1, PercentSteps
<1>7. current \in Nat /\ current \in Rates /\ Clamp(current) = current
  BY BandType, ClampFacts DEF LadderInv, LadderTypeOK, Rates
(* What the streaks at their thresholds say.                                *)
<1>8. clean_streak' >= CLEAN_STREAK =>
        Len(recent') = CLEAN_STREAK /\ \A i \in 1 .. CLEAN_STREAK : recent'[i] \in {"clean", "outage"}
  <2> SUFFICES ASSUME clean_streak' >= CLEAN_STREAK
               PROVE  /\ Len(recent') = CLEAN_STREAK
                      /\ \A i \in 1 .. CLEAN_STREAK : recent'[i] \in {"clean", "outage"}
    OBVIOUS
  <2>1. clean_streak' = CLEAN_STREAK /\ Len(recent') = CLEAN_STREAK
    BY <1>2, <1>3, <1>6
  <2>2. ASSUME NEW i \in 1 .. CLEAN_STREAK PROVE recent'[i] \in {"clean", "outage"}
    <3>1. CLEAN_STREAK - i \in 0 .. clean_streak' - 1 /\ Len(recent') - (CLEAN_STREAK - i) = i
      BY <2>1, <2>2, <1>6
    <3> QED BY <3>1, <1>3
  <2> QED BY <2>1, <2>2
<1>9. loss_streak' >= 2 => LastTwoIn({"light", "heavy"})'
  <2> SUFFICES ASSUME loss_streak' >= 2 PROVE LastTwoIn({"light", "heavy"})'
    OBVIOUS
  <2>1. 0 \in 0 .. loss_streak' - 1 /\ 1 \in 0 .. loss_streak' - 1 /\ Len(recent') >= 2
    <3>1. loss_streak' = 2
      BY <1>2
    <3> QED BY <3>1, <1>4, <1>6
  <2>2. recent'[Len(recent') - 0] \in {"light", "heavy"} /\ recent'[Len(recent') - 1] \in {"light", "heavy"}
    BY <2>1, <1>4
  <2> QED BY <2>1, <2>2, <1>6 DEF LastTwoIn
<1>10. heavy_streak' >= 2 => LastTwoIn({"heavy"})' /\ LastTwoIn({"light", "heavy"})'
  <2> SUFFICES ASSUME heavy_streak' >= 2
               PROVE  LastTwoIn({"heavy"})' /\ LastTwoIn({"light", "heavy"})'
    OBVIOUS
  <2>1. 0 \in 0 .. heavy_streak' - 1 /\ 1 \in 0 .. heavy_streak' - 1 /\ Len(recent') >= 2
    <3>1. heavy_streak' = 2
      BY <1>2
    <3> QED BY <3>1, <1>5, <1>6
  <2>2. recent'[Len(recent') - 0] = "heavy" /\ recent'[Len(recent') - 1] = "heavy"
    BY <2>1, <1>5
  <2> QED BY <2>1, <2>2, <1>6 DEF LastTwoIn
(* What a step is, by its cause.                                            *)
<1>11. CASE heavy_streak' >= 2
  <2>1. current' = Clamp(Percent(current, 70))
    BY <1>11 DEF Report, Stepped
  <2>2. Clamp(Percent(current, 70)) <= Clamp(current)
    BY <1>7, <1>steps, ClampFacts
  <2>3. current' <= current
    BY <2>1, <2>2, <1>7
  <2> QED BY <2>3, <1>2, <1>7, <1>10, <1>11, BandType DEF Rates
<1>12. CASE heavy_streak' < 2 /\ loss_streak' >= 2
  <2>1. current' = Clamp(Percent(current, 85))
    BY <1>types, <1>12 DEF Report, Stepped
  <2>2. Clamp(Percent(current, 85)) <= Clamp(current)
    BY <1>7, <1>steps, ClampFacts
  <2>3. current' <= current /\ ~(current' < Clamp(Percent(current, 85)))
    BY <2>1, <2>2, <1>2, <1>7, BandType DEF Rates
  <2> QED BY <2>3, <1>2, <1>7, <1>9, <1>12, BandType DEF Rates
<1>13. CASE heavy_streak' < 2 /\ loss_streak' < 2
  <2>1. Stepped \in Nat /\ Stepped >= current /\ Stepped >= Percent(current, 85)
        /\ (Stepped # current => clean_streak' >= CLEAN_STREAK)
    BY <1>types, <1>7, <1>13, <1>steps DEF Stepped
  <2>2. current' = Clamp(Stepped)
    BY DEF Report
  <2>3. current' >= current /\ ~(current' < Clamp(Percent(current, 85)))
    <3>1. Clamp(current) <= Clamp(Stepped) /\ Clamp(Percent(current, 85)) <= Clamp(Stepped)
      BY <2>1, <1>7, <1>steps, ClampFacts
    <3>2. Clamp(Percent(current, 85)) \in Nat /\ Clamp(Stepped) \in Nat
      BY <2>1, <1>steps, BandType DEF Clamp
    <3> QED BY <3>1, <3>2, <2>2, <1>7
  <2>4. current' # current => clean_streak' >= CLEAN_STREAK
    BY <2>1, <2>2, <1>7
  <2> QED BY <2>3, <2>4, <1>2, <1>7, <1>8, BandType DEF Rates
<1> QED BY <1>2, <1>11, <1>12, <1>13

(* The ladder goes up only after a whole streak of clean reports and down   *)
(* only after two lossy ones in a row, for every negotiated bitrate and     *)
(* length of streak, and never leaves its band (ladder.rs, policy).         *)
THEOREM LadderPatience == Spec => LadderIsPatient
<1>1. ASSUME LadderInv, [Next]_vars
      PROVE [/\ current' > current =>
                  Len(recent') = CLEAN_STREAK /\ \A i \in 1 .. CLEAN_STREAK : recent'[i] \in {"clean", "outage"}
             /\ current' < current => LastTwoIn({"light", "heavy"})'
             /\ current' < Clamp(Percent(current, 85)) => LastTwoIn({"heavy"})'
             /\ current' \in Rates]_vars
  <2>1. CASE \E report \in Reports : Report(report)
    BY <1>1, <2>1, ReportIsPatient
  <2>2. CASE UNCHANGED ladderVars
    <3>1. current' = current /\ current \in Rates /\ current \in Nat
      BY <1>1, <2>2, BandType DEF ladderVars, LadderInv, LadderTypeOK, Rates
    <3>2. Clamp(Percent(current, 85)) <= current
      <4>1. Percent(current, 85) \in Nat /\ Percent(current, 85) <= current
        BY <3>1, PercentSteps
      <4>2. Clamp(Percent(current, 85)) <= Clamp(current) /\ Clamp(current) = current
        BY <3>1, <4>1, ClampFacts
      <4> QED BY <4>2
    <3>3. Clamp(Percent(current, 85)) \in Nat
      BY <3>1, PercentSteps, BandType DEF Clamp
    <3> QED BY <3>1, <3>2, <3>3
  <2> QED BY <1>1, <2>1, <2>2, OnlyReports
<1>2. LadderInv /\ [Next]_vars =>
        [/\ current' > current =>
              Len(recent') = CLEAN_STREAK /\ \A i \in 1 .. CLEAN_STREAK : recent'[i] \in {"clean", "outage"}
         /\ current' < current => LastTwoIn({"light", "heavy"})'
         /\ current' < Clamp(Percent(current, 85)) => LastTwoIn({"heavy"})'
         /\ current' \in Rates]_vars
  BY <1>1
<1> QED BY <1>2, InitLadderInv, LadderStep, PTL DEF Spec, LadderIsPatient
=============================================================================
