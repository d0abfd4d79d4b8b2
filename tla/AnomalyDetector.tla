-------------------------- MODULE AnomalyDetector ---------------------------
(***************************************************************************)
(* detect_anomalies of capture_jitter.py: the loop over the captured       *)
(* frames of one virtual link, in the order of their timestamps, as a      *)
(* state machine that takes one frame (t, sn, L) per step.  Times are in   *)
(* the unit of BAG.  The spread of the intervals that decides what an      *)
(* outlier is comes from a first pass over the capture: a parameter here.  *)
(***************************************************************************)
EXTENDS Integers

CONSTANTS BAG,      \* bandwidth allocation gap of the virtual link
          LMax,     \* longest frame the policy allows
          MaxSN,    \* sequence numbers go 1..MaxSN and wrap; 0 only at reset
          Far,      \* a forward distance beyond this counts as reordering
          Window,   \* sequence numbers are compared within Window BAGs
          Spread    \* deviation from BAG beyond which an interval is an outlier

ASSUME DetectorAssumption ==
  /\ BAG \in Nat \ {0} /\ LMax \in Nat /\ Window \in Nat /\ Spread \in Nat
  /\ MaxSN \in Nat /\ Far \in Nat /\ 0 < Far /\ Far < MaxSN /\ 2 < MaxSN

VARIABLES
  seen,        \* frames seen so far: 0, 1 or 2 (two or more)
  prev_t,      \* timestamp of the last frame (if seen > 0)
  prev_sn,     \* its sequence number (if seen > 0)
  prev_dt,     \* the interval before it (if seen > 1)
  seq_loss, seq_dup, seq_reorder, rate_v, lmax_v, outliers   \* the counters

lastVars == <<seen, prev_t, prev_sn, prev_dt>>
counters == <<seq_loss, seq_dup, seq_reorder, rate_v, lmax_v, outliers>>
detectorVars == <<seen, prev_t, prev_sn, prev_dt,
                  seq_loss, seq_dup, seq_reorder, rate_v, lmax_v, outliers>>

DetectorInit ==
  /\ seen = 0 /\ prev_t = 0 /\ prev_sn = 0 /\ prev_dt = 0
  /\ seq_loss = 0 /\ seq_dup = 0 /\ seq_reorder = 0
  /\ rate_v = 0 /\ lmax_v = 0 /\ outliers = 0

\* Mutant of Fwd: a circle of 256 numbers.
FwdWithZero(prev, sn) == IF sn > prev THEN sn - prev ELSE MaxSN + 1 - prev + sn

\* How far sn is ahead of prev on the circle that skips 0.
Fwd(prev, sn) == IF sn > prev THEN sn - prev ELSE MaxSN - prev + sn

SameBurst(dt) == 10 * dt < 13 * BAG
SeqWindow(dt) == dt < Window * BAG
\* Mutants of TooFast: a lone short interval, the check of the first version
\* (BUGS.md, B09); and a pair that must stay below one BAG.
TooFastAlone(dt) == 10 * dt < 7 * BAG
TooFastTightPair(dt) == 10 * dt < 7 * BAG /\ seen = 2 /\ dt + prev_dt < BAG

\* A short interval whose pair with the one before is short too: a lone short
\* interval next to a long one is a split timestamp, not a fast sender.
TooFast(dt) == /\ 10 * dt < 7 * BAG
               /\ seen = 2 /\ 2 * (dt + prev_dt) < 3 * BAG
Off(dt) == dt - BAG > Spread \/ BAG - dt > Spread

\* Mutant of CheckSequence: a distance that does not wrap.
CheckWithoutWrap(dt, sn) ==
  IF ~SeqWindow(dt)
  THEN UNCHANGED <<seq_loss, seq_dup, seq_reorder>>
  ELSE IF sn = prev_sn
  THEN seq_dup' = seq_dup + 1 /\ UNCHANGED <<seq_loss, seq_reorder>>
  ELSE seq_loss' = seq_loss + (sn - prev_sn - 1) /\ UNCHANGED <<seq_dup, seq_reorder>>

\* The sequence-number part of the loop body.
CheckSequence(dt, sn) ==
  IF ~SeqWindow(dt)
  THEN UNCHANGED <<seq_loss, seq_dup, seq_reorder>>
  ELSE IF sn = prev_sn
  THEN seq_dup' = seq_dup + 1 /\ UNCHANGED <<seq_loss, seq_reorder>>
  ELSE IF Fwd(prev_sn, sn) > Far
  THEN seq_reorder' = seq_reorder + 1 /\ UNCHANGED <<seq_loss, seq_dup>>
  ELSE /\ seq_loss' = IF Fwd(prev_sn, sn) > 1
                      THEN seq_loss + (Fwd(prev_sn, sn) - 1) ELSE seq_loss
       /\ UNCHANGED <<seq_dup, seq_reorder>>

\* The timing part of the loop body.
CheckTiming(dt) ==
  /\ rate_v' = IF SameBurst(dt) /\ TooFast(dt) THEN rate_v + 1 ELSE rate_v
  /\ outliers' = IF SameBurst(dt) /\ Off(dt) THEN outliers + 1 ELSE outliers

\* One frame of the capture.
Frame(t, sn, L) ==
  /\ seen > 0 => t >= prev_t
  /\ lmax_v' = IF L > LMax THEN lmax_v + 1 ELSE lmax_v
  /\ IF seen = 0
     THEN UNCHANGED <<seq_loss, seq_dup, seq_reorder, rate_v, outliers>>
     ELSE CheckSequence(t - prev_t, sn) /\ CheckTiming(t - prev_t)
  /\ prev_dt' = IF seen = 0 THEN 0 ELSE t - prev_t
  /\ prev_t' = t /\ prev_sn' = sn
  /\ seen' = IF seen = 0 THEN 1 ELSE 2

\* Mutant of Verdict: duplicates are counted and not judged.
VerdictIgnoringDup ==
  IF seq_loss > 0 \/ seq_reorder > 0 \/ lmax_v > 0 THEN "FAULT"
  ELSE IF rate_v > 0 THEN "WARNING" ELSE "NORMAL"

Verdict ==
  IF seq_loss > 0 \/ seq_dup > 0 \/ seq_reorder > 0 \/ lmax_v > 0 THEN "FAULT"
  ELSE IF rate_v > 0 THEN "WARNING" ELSE "NORMAL"

DetectorTypeOK ==
  /\ seen \in 0..2 /\ prev_t \in Nat /\ prev_sn \in 0..MaxSN /\ prev_dt \in Nat
  /\ seq_loss \in Nat /\ seq_dup \in Nat /\ seq_reorder \in Nat
  /\ rate_v \in Nat /\ lmax_v \in Nat /\ outliers \in Nat
=============================================================================
