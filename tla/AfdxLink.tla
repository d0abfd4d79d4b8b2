------------------------------ MODULE AfdxLink ------------------------------
(***************************************************************************)
(* What the anomaly detector is for: a KFDX board (external) sends the     *)
(* frames of a virtual link, numbered and paced; the link may lose,        *)
(* duplicate or swap them; the capturing host stamps each a little late    *)
(* (its timestamps never decrease).  The detector of capture_jitter.py     *)
(* sees what arrives.  History variables keep what really happened, to be  *)
(* compared with what the detector reports.                                *)
(***************************************************************************)
EXTENDS AnomalyDetector

CONSTANTS Delays,      \* how late the host may stamp a frame
          MaxDelay,    \* the largest of them
          Gaps,        \* time the board may leave before its next frame
          Lengths,     \* frame lengths
          FirstSN,     \* sequence numbers the capture may begin at
          MaxFrames,   \* bound: frames captured
          MaxLost      \* bound: frames lost in a row

ASSUME LinkAssumption ==
  /\ Delays \subseteq Nat /\ MaxDelay \in Nat /\ \A d \in Delays : d <= MaxDelay
  /\ MaxDelay < Window * BAG
  /\ Gaps \subseteq Nat /\ Lengths \subseteq Nat /\ FirstSN \subseteq 0..MaxSN
  /\ MaxFrames \in Nat /\ MaxLost \in Nat

VARIABLES
  nextSN, now,     \* sequence number and send time of the board's next frame
  late,        \* the number of a frame that was overtaken, or -1
  skipped,     \* frames lost since the last one captured
  frames,      \* frames captured
  lost, dups,  \* history: frames lost between captured ones; duplicates
  odd,         \* history, 1 once something happened that the counters are
               \* not meant to tell exactly: a swap, a run of Far losses, a
               \* loss across a pause of Window BAGs
  damage,      \* history, 1 once damage happened that can be seen
  clean,       \* history, 1 as long as the link and the board did no wrong
  brisk        \* history, 1 as long as the board sent at twice its rate

linkVars == <<nextSN, now, late, skipped, frames>>
history == <<lost, dups, odd, damage, clean, brisk>>
vars == <<detectorVars, linkVars, history>>

\* The board's sequence numbers: 0 only after a reset.
Succ(s) == IF s = MaxSN THEN 1 ELSE s + 1

Init ==
  /\ DetectorInit
  /\ nextSN \in FirstSN /\ now = 0 /\ late = -1 /\ skipped = 0 /\ frames = 0
  /\ lost = 0 /\ dups = 0 /\ odd = 0 /\ damage = 0 /\ clean = 1 /\ brisk = 1

\* The timestamp of a frame sent at time s and seen d late.
Stamp(s, d) == IF seen > 0 /\ s + d < prev_t THEN prev_t ELSE s + d

\* The board's next frame is captured; the one after it follows g later.
Arrive(d, L, g) ==
  /\ late = -1 /\ frames < MaxFrames
  /\ Frame(Stamp(now, d), nextSN, L)
  /\ LET unseen == seen > 0 /\ ~SeqWindow(Stamp(now, d) - prev_t)
     IN /\ odd' = IF skipped >= Far \/ (skipped > 0 /\ unseen) THEN 1 ELSE odd
        /\ damage' = IF L > LMax \/ (skipped % MaxSN # 0 /\ ~unseen) THEN 1
                     ELSE damage
  /\ lost' = lost + skipped /\ skipped' = 0
  /\ clean' = IF g >= BAG /\ L <= LMax THEN clean ELSE 0
  /\ brisk' = IF 2 * g <= BAG THEN brisk ELSE 0
  /\ nextSN' = Succ(nextSN) /\ now' = now + g
  /\ frames' = frames + 1
  /\ UNCHANGED <<late, dups>>

\* The board's next frame is lost (losses before the first captured frame
\* cannot be told from a later start).
Lose ==
  /\ late = -1 /\ seen > 0 /\ skipped < MaxLost
  /\ nextSN' = Succ(nextSN) /\ now' = now + BAG /\ skipped' = skipped + 1
  /\ clean' = 0 /\ brisk' = 0
  /\ UNCHANGED <<detectorVars, late, frames, lost, dups, odd, damage>>

\* A second copy of the last captured frame.
Duplicate(d) ==
  /\ late = -1 /\ seen > 0 /\ frames < MaxFrames
  /\ Frame(prev_t + d, prev_sn, 0)
  /\ dups' = dups + 1 /\ damage' = 1 /\ clean' = 0 /\ brisk' = 0
  /\ frames' = frames + 1
  /\ UNCHANGED <<nextSN, now, late, skipped, lost, odd>>

\* A frame overtakes the one before it, ...
Overtake(d) ==
  /\ late = -1 /\ frames < MaxFrames
  /\ Frame(Stamp(now, d), Succ(nextSN), 0)
  /\ late' = nextSN /\ nextSN' = Succ(Succ(nextSN)) /\ now' = now + 2 * BAG
  /\ lost' = lost + skipped /\ skipped' = 0
  /\ odd' = 1 /\ clean' = 0 /\ brisk' = 0
  /\ frames' = frames + 1
  /\ UNCHANGED <<dups, damage>>

\* ... which comes next.
ArriveLate(d) ==
  /\ late # -1
  /\ Frame(prev_t + d, late, 0)
  /\ late' = -1 /\ damage' = 1
  /\ UNCHANGED <<nextSN, now, skipped, frames, lost, dups, odd, clean, brisk>>

Next ==
  \/ \E d \in Delays, L \in Lengths, g \in Gaps : Arrive(d, L, g)
  \/ Lose
  \/ \E d \in Delays : Duplicate(d) \/ Overtake(d) \/ ArriveLate(d)

Spec == Init /\ [][Next]_vars

-----------------------------------------------------------------------------
\* Type invariant of the link and the detector.
TypeOK ==
  /\ DetectorTypeOK
  /\ nextSN \in 0..MaxSN /\ now \in Nat /\ late \in -1..MaxSN
  /\ skipped \in 0..MaxLost /\ frames \in 0..MaxFrames
  /\ lost \in Nat /\ dups \in Nat
  /\ odd \in 0..1 /\ damage \in 0..1 /\ clean \in 0..1 /\ brisk \in 0..1

\* The loss and duplicate counters are the true numbers, across the wrap of
\* the sequence numbers, pauses, early and late frames and duplicates, as
\* long as every run of losses is shorter than Far.
CountsAreExact ==
  odd = 0 => seq_loss = lost /\ seq_dup = dups /\ seq_reorder = 0

\* Whatever is lost, doubled, swapped or too long makes the verdict FAULT;
\* the exceptions are a run of losses that is a multiple of MaxSN and one
\* that a pause of Window BAGs hides.
DamageIsFault == damage = 1 => Verdict = "FAULT"

\* A faultless link and a paced board are NORMAL however the timestamps are
\* split, as long as no stamp is later than half a BAG: wraps, pauses between
\* bursts and the reset to 0 raise no alarm.
NoFalseAlarm ==
  clean = 1 /\ 2 * MaxDelay <= BAG => Verdict = "NORMAL"

\* A board that sends at twice its rate is found out by its fourth frame,
\* as long as no stamp is later than two fifths of a BAG.
BriskIsFound ==
  brisk = 1 /\ frames >= 4 /\ 5 * MaxDelay < 2 * BAG => rate_v > 0

-----------------------------------------------------------------------------
(* What the repository says of the program and the code does not keep.     *)

\* BUGS.md, B09: the check of the pair makes the detector immune to split
\* timestamps.
SplitStampsAreNoViolation == clean = 1 => rate_v = 0
=============================================================================
