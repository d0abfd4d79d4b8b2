--------------------------- MODULE AfdxLinkProofs ---------------------------
(***************************************************************************)
(* Proofs about the anomaly detector on a faulty link, for every BAG,      *)
(* number of sequence numbers, threshold, set of delays and gaps and any   *)
(* length of capture.                                                      *)
(***************************************************************************)
EXTENDS AfdxLink, TLAPS

\* Where the board's next number stands relative to the last captured one:
\* as far ahead as frames were lost in between, while that can be told.
Position ==
  /\ seen > 0 => nextSN \in 1..MaxSN
  /\ seen = 0 => skipped = 0 /\ frames = 0 /\ late = -1
  /\ odd = 0 => late = -1
  /\ seen > 0 /\ odd = 0 /\ skipped < MaxSN => Fwd(prev_sn, nextSN) = skipped + 1

\* On a faultless run the stamps of the last two frames are bounded by the
\* time at which the next one is sent.
CleanInv ==
  clean = 1 =>
    /\ skipped = 0 /\ lost = 0 /\ dups = 0 /\ odd = 0 /\ lmax_v = 0
    /\ seen > 0 => prev_t <= now - BAG + MaxDelay
    /\ seen = 2 => prev_t - prev_dt <= now - 2 * BAG + MaxDelay
    /\ 2 * MaxDelay <= BAG => rate_v = 0

\* On a run at twice the rate they are bounded the other way, and an interval
\* that raised no alarm was a long one.
BriskInv ==
  brisk = 1 =>
    /\ late = -1
    /\ seen = IF frames > 2 THEN 2 ELSE frames
    /\ seen > 0 => 2 * prev_t >= 2 * now - BAG /\ prev_t <= now + MaxDelay
    /\ seen = 2 => prev_t - prev_dt >= now - BAG
    /\ 5 * MaxDelay < 2 * BAG /\ rate_v = 0 =>
         /\ frames < 4
         /\ frames = 3 => 10 * prev_dt >= 7 * BAG

\* The board's next number is as far ahead of the last captured one as frames
\* were lost in between, up to whole turns of the circle; an overtaken frame
\* is one behind.
Turns ==
  /\ damage = 0 /\ seen > 0 =>
       \E q \in Nat : skipped = q * MaxSN + (Fwd(prev_sn, nextSN) - 1)
  /\ late # -1 => seen > 0 /\ prev_sn = Succ(late)

IInv ==
  /\ TypeOK /\ Position /\ CountsAreExact /\ CleanInv /\ BriskInv
  /\ Turns /\ DamageIsFault

-----------------------------------------------------------------------------
(* The circle of sequence numbers.                                         *)

\* The successor of a number is a number, and never 0.
LEMMA SuccType == ASSUME NEW s \in 0..MaxSN PROVE Succ(s) \in 1..MaxSN
  BY DetectorAssumption DEF Succ

\* The successor is one ahead, across the wrap and after a reset too.
LEMMA FwdOne == ASSUME NEW s \in 0..MaxSN PROVE Fwd(s, Succ(s)) = 1
  BY DetectorAssumption DEF Succ, Fwd

\* Going on by one adds one to the distance until the circle is closed.
LEMMA FwdNext ==
  ASSUME NEW p \in 0..MaxSN, NEW s \in 1..MaxSN, Fwd(p, s) < MaxSN
  PROVE  Fwd(p, Succ(s)) = Fwd(p, s) + 1
  BY DetectorAssumption DEF Succ, Fwd

\* The same number twice is a whole circle apart.
LEMMA FwdSame == ASSUME NEW s \in 0..MaxSN PROVE Fwd(s, s) = MaxSN
  BY DetectorAssumption DEF Fwd

\* A distance is one of a whole circle at most.
LEMMA FwdRange ==
  ASSUME NEW p \in 0..MaxSN, NEW s \in 1..MaxSN PROVE Fwd(p, s) \in 1..MaxSN
  BY DetectorAssumption DEF Fwd

\* Going on by one from a closed circle begins the next turn.
LEMMA FwdClosed ==
  ASSUME NEW p \in 0..MaxSN, NEW s \in 1..MaxSN, Fwd(p, s) = MaxSN
  PROVE  Fwd(p, Succ(s)) = 1
  BY DetectorAssumption DEF Succ, Fwd

\* The number before is a circle less one ahead.
LEMMA FwdBack ==
  ASSUME NEW s \in 0..MaxSN PROVE Fwd(Succ(s), s) = MaxSN - 1 /\ Succ(s) # s
  BY DetectorAssumption DEF Succ, Fwd

\* Whole turns leave no rest.
LEMMA TurnsLeaveNothing ==
  ASSUME NEW q \in Nat, NEW M \in Nat \ {0} PROVE (q * M) % M = 0
  OBVIOUS

LEMMA NextTurn ==
  ASSUME NEW q \in Nat, NEW M \in Nat \ {0} PROVE (q + 1) * M = q * M + M
  OBVIOUS

-----------------------------------------------------------------------------
(* Types.                                                                  *)

LEMMA FrameType ==
  ASSUME DetectorTypeOK, NEW t \in Nat, NEW s \in 0..MaxSN, NEW L \in Nat,
         Frame(t, s, L)
  PROVE  DetectorTypeOK'
<1>1. seen' \in 0..2 /\ prev_t' \in Nat /\ prev_sn' \in 0..MaxSN /\ prev_dt' \in Nat
  BY DEF DetectorTypeOK, Frame
<1>2. lmax_v' \in Nat
  BY DEF DetectorTypeOK, Frame
<1>3. CASE seen = 0
  BY <1>1, <1>2, <1>3 DEF DetectorTypeOK, Frame
<1>4. CASE seen # 0
  <2>1. CheckSequence(t - prev_t, s) /\ CheckTiming(t - prev_t)
    BY <1>4 DEF Frame
  <2>2. Fwd(prev_sn, s) \in Int
    BY DetectorAssumption DEF Fwd, DetectorTypeOK
  <2>3. seq_loss' \in Nat /\ seq_dup' \in Nat /\ seq_reorder' \in Nat
    BY <2>1, <2>2 DEF DetectorTypeOK, CheckSequence
  <2>4. rate_v' \in Nat /\ outliers' \in Nat
    BY <2>1 DEF DetectorTypeOK, CheckTiming
  <2> QED
    BY <1>1, <1>2, <2>3, <2>4 DEF DetectorTypeOK
<1> QED
  BY <1>3, <1>4

LEMMA StampType ==
  ASSUME TypeOK, NEW d \in Delays
  PROVE  /\ Stamp(now, d) \in Nat /\ Stamp(now, d) >= now
         /\ seen > 0 => Stamp(now, d) >= prev_t
         /\ Stamp(now, d) <= now + MaxDelay \/ (seen > 0 /\ Stamp(now, d) = prev_t)
         /\ d \in Nat /\ d <= MaxDelay
  BY LinkAssumption DEF TypeOK, DetectorTypeOK, Stamp

LEMMA InitIInv == Init => IInv
<1> SUFFICES ASSUME Init PROVE IInv
  OBVIOUS
<1>1. TypeOK
  BY DetectorAssumption, LinkAssumption
  DEF Init, DetectorInit, TypeOK, DetectorTypeOK
<1>2. Position /\ CountsAreExact /\ CleanInv /\ BriskInv
  BY DetectorAssumption
  DEF Init, DetectorInit, Position, CountsAreExact, CleanInv, BriskInv
<1>3. Turns /\ DamageIsFault
  BY DEF Init, DetectorInit, Turns, DamageIsFault
<1> QED
  BY <1>1, <1>2, <1>3 DEF IInv

LEMMA NextType == TypeOK /\ [Next]_vars => TypeOK'
<1> SUFFICES ASSUME TypeOK, [Next]_vars PROVE TypeOK'
  OBVIOUS
<1>1. ASSUME NEW d \in Delays, NEW L \in Lengths, NEW g \in Gaps, Arrive(d, L, g)
      PROVE  TypeOK'
  <2>1. DetectorTypeOK'
    BY <1>1, StampType, FrameType, LinkAssumption DEF TypeOK, Arrive
  <2>2. nextSN' \in 0..MaxSN /\ now' \in Nat
    BY <1>1, SuccType, LinkAssumption DEF TypeOK, Arrive
  <2> QED
    BY <1>1, <2>1, <2>2, LinkAssumption DEF TypeOK, Arrive
<1>2. CASE Lose
  <2>1. nextSN' \in 0..MaxSN /\ now' \in Nat
    BY <1>2, SuccType, DetectorAssumption DEF TypeOK, Lose
  <2> QED
    BY <1>2, <2>1, LinkAssumption
    DEF TypeOK, DetectorTypeOK, Lose, detectorVars
<1>3. ASSUME NEW d \in Delays, Duplicate(d) PROVE TypeOK'
  <2>1. prev_t + d \in Nat /\ prev_sn \in 0..MaxSN
    BY StampType DEF TypeOK, DetectorTypeOK
  <2>2. DetectorTypeOK'
    BY <1>3, <2>1, FrameType DEF TypeOK, Duplicate
  <2> QED
    BY <1>3, <2>2, LinkAssumption DEF TypeOK, Duplicate
<1>4. ASSUME NEW d \in Delays, Overtake(d) PROVE TypeOK'
  <2>1. Succ(nextSN) \in 0..MaxSN /\ Succ(Succ(nextSN)) \in 0..MaxSN
    BY SuccType DEF TypeOK
  <2>2. DetectorTypeOK'
    BY <1>4, <2>1, StampType, FrameType DEF TypeOK, Overtake
  <2> QED
    BY <1>4, <2>1, <2>2, LinkAssumption, DetectorAssumption DEF TypeOK, Overtake
<1>5. ASSUME NEW d \in Delays, ArriveLate(d) PROVE TypeOK'
  <2>1. prev_t + d \in Nat /\ late \in 0..MaxSN
    BY <1>5, StampType DEF TypeOK, DetectorTypeOK, ArriveLate
  <2>2. DetectorTypeOK'
    BY <1>5, <2>1, FrameType DEF TypeOK, ArriveLate
  <2> QED
    BY <1>5, <2>2, DetectorAssumption DEF TypeOK, ArriveLate
<1>6. CASE UNCHANGED vars
  BY <1>6 DEF TypeOK, DetectorTypeOK, vars, detectorVars, linkVars, history
<1> QED
  BY <1>1, <1>2, <1>3, <1>4, <1>5, <1>6 DEF Next

-----------------------------------------------------------------------------
(* The position on the circle.                                             *)

LEMMA NextPosition == TypeOK /\ Position /\ [Next]_vars => Position'
<1> SUFFICES ASSUME TypeOK, Position, [Next]_vars PROVE Position'
  OBVIOUS
<1>0. nextSN \in 0..MaxSN /\ prev_sn \in 0..MaxSN /\ skipped \in Nat /\ frames \in Nat
  BY LinkAssumption DEF TypeOK, DetectorTypeOK
<1>1. ASSUME NEW d \in Delays, NEW L \in Lengths, NEW g \in Gaps, Arrive(d, L, g)
      PROVE  Position'
  <2>1. seen' > 0 /\ prev_sn' = nextSN /\ nextSN' = Succ(nextSN) /\ skipped' = 0 /\ late' = -1
    BY <1>1 DEF Arrive, Frame
  <2>2. nextSN' \in 1..MaxSN /\ Fwd(prev_sn', nextSN') = 1
    BY <1>0, <2>1, SuccType, FwdOne
  <2>3. Fwd(prev_sn, nextSN)' = 1
    BY <2>2 DEF Fwd
  <2> QED
    BY <2>1, <2>2, <2>3 DEF Position
<1>2. CASE Lose
  <2>1. /\ seen > 0 /\ seen' = seen /\ prev_sn' = prev_sn /\ nextSN' = Succ(nextSN)
        /\ skipped' = skipped + 1 /\ late' = late /\ odd' = odd
    BY <1>2 DEF Lose, detectorVars
  <2>2. nextSN \in 1..MaxSN
    BY <2>1 DEF Position
  <2>3. ASSUME odd = 0, skipped + 1 < MaxSN
        PROVE  Fwd(prev_sn, Succ(nextSN)) = skipped + 2
    <3>1. Fwd(prev_sn, nextSN) = skipped + 1
      BY <1>0, <2>1, <2>3, DetectorAssumption DEF Position
    <3> QED
      BY <1>0, <2>2, <2>3, <3>1, FwdNext
  <2>4. Fwd(prev_sn, nextSN)' = Fwd(prev_sn, Succ(nextSN))
    BY <2>1 DEF Fwd
  <2> QED
    BY <1>0, <2>1, <2>3, <2>4, SuccType DEF Position
<1>3. ASSUME NEW d \in Delays, Duplicate(d) PROVE Position'
  <2>1. seen > 0 /\ seen' > 0 /\ prev_sn' = prev_sn /\ UNCHANGED <<nextSN, late, skipped, odd>>
    BY <1>3 DEF Duplicate, Frame
  <2>2. Fwd(prev_sn, nextSN)' = Fwd(prev_sn, nextSN)
    BY <2>1 DEF Fwd
  <2> QED
    BY <2>1, <2>2 DEF Position
<1>4. ASSUME NEW d \in Delays, Overtake(d) PROVE Position'
  <2>1. seen' > 0 /\ odd' = 1 /\ nextSN' = Succ(Succ(nextSN))
    BY <1>4 DEF Overtake, Frame
  <2> QED
    BY <1>0, <2>1, SuccType DEF Position
<1>5. ASSUME NEW d \in Delays, ArriveLate(d) PROVE Position'
  <2>1. seen' > 0 /\ odd # 0 /\ odd' = odd /\ late' = -1 /\ nextSN' = nextSN /\ seen > 0
    BY <1>5 DEF ArriveLate, Frame, Position, TypeOK, DetectorTypeOK
  <2> QED
    BY <2>1 DEF Position
<1>6. CASE UNCHANGED vars
  <2>1. Fwd(prev_sn, nextSN)' = Fwd(prev_sn, nextSN)
    BY <1>6 DEF Fwd, vars, detectorVars, linkVars
  <2> QED
    BY <1>6, <2>1 DEF Position, vars, detectorVars, linkVars, history
<1> QED
  BY <1>1, <1>2, <1>3, <1>4, <1>5, <1>6 DEF Next

-----------------------------------------------------------------------------
(* The counters.                                                           *)

\* A frame that is not the first has its number checked.
LEMMA FrameChecks ==
  ASSUME NEW t, NEW s, NEW L, seen # 0, Frame(t, s, L)
  PROVE  CheckSequence(t - prev_t, s) /\ CheckTiming(t - prev_t)
  BY DEF Frame

\* What the check adds for a number less than Far + 1 ahead.
LEMMA ForwardCounts ==
  ASSUME DetectorTypeOK, NEW dt, NEW s, NEW k \in Nat, CheckSequence(dt, s),
         SeqWindow(dt), s # prev_sn, Fwd(prev_sn, s) = k + 1, k + 1 <= Far
  PROVE  seq_loss' = seq_loss + k /\ UNCHANGED <<seq_dup, seq_reorder>>
<1>1. ~(Fwd(prev_sn, s) > Far) /\ seq_loss \in Nat
  BY DetectorAssumption DEF DetectorTypeOK
<1>2. UNCHANGED <<seq_dup, seq_reorder>>
  BY <1>1 DEF CheckSequence
<1>3. seq_loss' = IF k + 1 > 1 THEN seq_loss + (k + 1 - 1) ELSE seq_loss
  BY <1>1 DEF CheckSequence
<1> QED
  BY <1>1, <1>2, <1>3

\* A frame after a short run of losses adds the length of the run to
\* seq_loss, whatever its timing, and nothing to the other two.
LEMMA ArriveCounts ==
  ASSUME TypeOK, Position, NEW d \in Delays, NEW L \in Lengths, NEW g \in Gaps,
         Arrive(d, L, g), odd' = 0
  PROVE  /\ odd = 0
         /\ seq_loss' = seq_loss + skipped
         /\ seq_dup' = seq_dup /\ seq_reorder' = seq_reorder
<1> DEFINE dt == Stamp(now, d) - prev_t
<1>0. /\ nextSN \in 0..MaxSN /\ prev_sn \in 0..MaxSN /\ skipped \in Nat
      /\ seen \in 0..2 /\ seq_loss \in Nat /\ seq_dup \in Nat /\ seq_reorder \in Nat
  BY LinkAssumption DEF TypeOK, DetectorTypeOK
<1>1. /\ odd = 0 /\ skipped < Far
      /\ seen > 0 /\ skipped > 0 => SeqWindow(dt)
  BY <1>0, DetectorAssumption DEF Arrive, TypeOK
<1>2. CASE seen = 0
  <2>1. skipped = 0
    BY <1>2 DEF Position
  <2> QED
    BY <1>0, <1>1, <1>2, <2>1 DEF Arrive, Frame
<1>3. CASE seen # 0
  <2>1. CheckSequence(dt, nextSN)
    BY <1>3 DEF Arrive, Frame
  <2>2. Fwd(prev_sn, nextSN) = skipped + 1
    BY <1>0, <1>1, <1>3, DetectorAssumption DEF Position
  <2>3. nextSN # prev_sn /\ skipped + 1 <= Far
    BY <1>0, <1>1, <2>2, FwdSame, DetectorAssumption
  <2>4. CASE SeqWindow(dt)
    BY <1>0, <1>1, <2>1, <2>2, <2>3, <2>4, ForwardCounts DEF TypeOK
  <2>5. CASE ~SeqWindow(dt)
    <3>1. skipped = 0
      BY <1>0, <1>1, <1>3, <2>5
    <3> QED
      BY <1>0, <1>1, <2>1, <2>5, <3>1 DEF CheckSequence
  <2> QED
    BY <2>4, <2>5
<1> QED
  BY <1>2, <1>3

LEMMA NextCounts ==
  TypeOK /\ Position /\ CountsAreExact /\ [Next]_vars => CountsAreExact'
<1> SUFFICES ASSUME TypeOK, Position, CountsAreExact, [Next]_vars
             PROVE  CountsAreExact'
  OBVIOUS
<1>1. ASSUME NEW d \in Delays, NEW L \in Lengths, NEW g \in Gaps, Arrive(d, L, g)
      PROVE  CountsAreExact'
  BY <1>1, ArriveCounts DEF Arrive, CountsAreExact
<1>2. CASE Lose
  BY <1>2 DEF Lose, detectorVars, CountsAreExact
<1>3. ASSUME NEW d \in Delays, Duplicate(d) PROVE CountsAreExact'
  <2>1. (prev_t + d) - prev_t = d /\ d \in Nat /\ d <= MaxDelay
    BY StampType DEF TypeOK, DetectorTypeOK
  <2>2. CheckSequence((prev_t + d) - prev_t, prev_sn)
    <3>1. seen # 0 /\ Frame(prev_t + d, prev_sn, 0)
      BY <1>3 DEF Duplicate, TypeOK, DetectorTypeOK
    <3> QED
      BY <3>1, FrameChecks
  <2>3. SeqWindow(d)
    BY <2>1, LinkAssumption, DetectorAssumption DEF SeqWindow
  <2>4. seq_dup' = seq_dup + 1 /\ seq_loss' = seq_loss /\ seq_reorder' = seq_reorder
    BY <2>1, <2>2, <2>3 DEF CheckSequence, TypeOK, DetectorTypeOK
  <2> QED
    BY <1>3, <2>4 DEF Duplicate, CountsAreExact
<1>4. ASSUME NEW d \in Delays, Overtake(d) PROVE CountsAreExact'
  BY <1>4 DEF Overtake, CountsAreExact
<1>5. ASSUME NEW d \in Delays, ArriveLate(d) PROVE CountsAreExact'
  BY <1>5 DEF ArriveLate, CountsAreExact, Position
<1>6. CASE UNCHANGED vars
  BY <1>6 DEF CountsAreExact, vars, detectorVars, history
<1> QED
  BY <1>1, <1>2, <1>3, <1>4, <1>5, <1>6 DEF Next

-----------------------------------------------------------------------------
(* Timing.                                                                 *)

LEMMA NextClean ==
  TypeOK /\ Position /\ CountsAreExact /\ CleanInv /\ [Next]_vars => CleanInv'
<1> SUFFICES ASSUME TypeOK, Position, CountsAreExact, CleanInv, [Next]_vars,
                    clean' = 1
             PROVE  CleanInv'
  BY DEF CleanInv
<1>1. ASSUME NEW d \in Delays, NEW L \in Lengths, NEW g \in Gaps, Arrive(d, L, g)
      PROVE  CleanInv'
  <2> DEFINE t == Stamp(now, d)
  <2>0. /\ clean = 1 /\ L <= LMax /\ g >= BAG /\ now' = now + g
        /\ g \in Nat /\ now \in Nat /\ BAG \in Nat \ {0} /\ MaxDelay \in Nat
        /\ L \in Nat /\ LMax \in Nat
        /\ prev_t \in Nat /\ prev_dt \in Nat /\ seen \in 0..2
        /\ skipped = 0 /\ lost = 0 /\ dups = 0 /\ odd = 0 /\ lmax_v = 0
    BY <1>1, LinkAssumption, DetectorAssumption
    DEF Arrive, CleanInv, TypeOK, DetectorTypeOK
  <2>1. t \in Nat /\ t >= now /\ t <= now + MaxDelay
    BY <2>0, StampType DEF CleanInv
  <2>2. Frame(t, nextSN, L)
    BY <1>1 DEF Arrive
  <2>3. skipped' = 0 /\ lost' = 0 /\ dups' = 0 /\ odd' = 0
    BY <1>1, <2>0, DetectorAssumption DEF Arrive
  <2> HIDE DEF t
  <2>4. lmax_v' = 0 /\ prev_t' = t
    BY <2>0, <2>2 DEF Frame
  <2>5. prev_t' <= now' - BAG + MaxDelay
    BY <2>0, <2>1, <2>4
  <2>6. seen' = 2 => prev_t' - prev_dt' <= now' - 2 * BAG + MaxDelay
    <3>1. seen' = 2 => seen # 0 /\ prev_dt' = t - prev_t
      BY <2>0, <2>2 DEF Frame
    <3>2. seen # 0 => prev_t <= now - BAG + MaxDelay
      BY <2>0 DEF CleanInv
    <3> QED
      BY <2>0, <2>1, <2>4, <3>1, <3>2
  <2>7. ASSUME 2 * MaxDelay <= BAG PROVE rate_v' = 0
    <3>1. rate_v = 0
      BY <2>0, <2>7 DEF CleanInv
    <3>2. CASE seen = 0
      BY <2>2, <3>1, <3>2 DEF Frame
    <3>3. CASE seen # 0
      <4>1. CheckTiming(t - prev_t)
        BY <2>2, <3>3, FrameChecks
      <4>2. seen = 2 => ~(2 * ((t - prev_t) + prev_dt) < 3 * BAG)
        <5>1. seen = 2 => prev_t - prev_dt <= now - 2 * BAG + MaxDelay
          BY <2>0 DEF CleanInv
        <5> QED
          BY <2>0, <2>1, <2>7, <5>1
      <4>3. ~TooFast(t - prev_t)
        BY <4>2 DEF TooFast
      <4> QED
        BY <3>1, <4>1, <4>3 DEF CheckTiming
    <3> QED
      BY <3>2, <3>3
  <2> QED
    BY <2>3, <2>4, <2>5, <2>6, <2>7 DEF CleanInv
<1>2. CASE Lose
  BY <1>2 DEF Lose
<1>3. ASSUME NEW d \in Delays, Duplicate(d) PROVE CleanInv'
  BY <1>3 DEF Duplicate
<1>4. ASSUME NEW d \in Delays, Overtake(d) PROVE CleanInv'
  BY <1>4 DEF Overtake
<1>5. ASSUME NEW d \in Delays, ArriveLate(d) PROVE CleanInv'
  BY <1>5 DEF ArriveLate, CleanInv, Position
<1>6. CASE UNCHANGED vars
  BY <1>6 DEF CleanInv, vars, detectorVars, linkVars, history
<1> QED
  BY <1>1, <1>2, <1>3, <1>4, <1>5, <1>6 DEF Next

LEMMA NextBrisk == TypeOK /\ Position /\ BriskInv /\ [Next]_vars => BriskInv'
<1> SUFFICES ASSUME TypeOK, Position, BriskInv, [Next]_vars, brisk' = 1
             PROVE  BriskInv'
  BY DEF BriskInv
<1>1. ASSUME NEW d \in Delays, NEW L \in Lengths, NEW g \in Gaps, Arrive(d, L, g)
      PROVE  BriskInv'
  <2> DEFINE t == Stamp(now, d)
  <2>0. /\ brisk = 1 /\ 2 * g <= BAG /\ now' = now + g /\ frames' = frames + 1
        /\ g \in Nat /\ now \in Nat /\ BAG \in Nat \ {0} /\ MaxDelay \in Nat
        /\ prev_t \in Nat /\ prev_dt \in Nat /\ seen \in 0..2 /\ frames \in Nat
        /\ rate_v \in Nat
        /\ seen = IF frames > 2 THEN 2 ELSE frames
    BY <1>1, LinkAssumption, DetectorAssumption
    DEF Arrive, BriskInv, TypeOK, DetectorTypeOK
  <2>1. /\ t \in Nat /\ t >= now /\ t <= now + MaxDelay
        /\ seen > 0 => t >= prev_t
    BY <2>0, StampType DEF BriskInv
  <2>2. Frame(t, nextSN, L)
    BY <1>1 DEF Arrive
  <2> HIDE DEF t
  <2>3. prev_t' = t /\ seen' = (IF seen = 0 THEN 1 ELSE 2)
    BY <2>2 DEF Frame
  <2>4. seen' = IF frames' > 2 THEN 2 ELSE frames'
    BY <2>0, <2>3
  <2>5. 2 * prev_t' >= 2 * now' - BAG /\ prev_t' <= now' + MaxDelay
    BY <2>0, <2>1, <2>3
  <2>6. seen # 0 => /\ prev_dt' = t - prev_t
                    /\ 2 * prev_t >= 2 * now - BAG
    BY <2>0, <2>2 DEF Frame, BriskInv
  <2>7. seen' = 2 => prev_t' - prev_dt' >= now' - BAG
    BY <2>0, <2>1, <2>3, <2>6
  <2>8. ASSUME 5 * MaxDelay < 2 * BAG, rate_v' = 0
        PROVE  frames' < 4 /\ (frames' = 3 => 10 * prev_dt' >= 7 * BAG)
    <3>1. CASE seen < 2
      BY <2>0, <3>1
    <3>2. CASE seen = 2
      <4>1. CheckTiming(t - prev_t) /\ prev_dt' = t - prev_t
        BY <2>2, <3>2, FrameChecks DEF Frame
      <4>2. prev_t - prev_dt >= now - BAG
        BY <2>0, <3>2 DEF BriskInv
      <4>3. 2 * ((t - prev_t) + prev_dt) < 3 * BAG
        BY <2>0, <2>1, <2>8, <4>2
      <4>4. ~(10 * (t - prev_t) < 7 * BAG)
        <5>1. SUFFICES ASSUME 10 * (t - prev_t) < 7 * BAG PROVE FALSE
          OBVIOUS
        <5>2. TooFast(t - prev_t)
          BY <3>2, <4>3, <5>1 DEF TooFast
        <5>3. SameBurst(t - prev_t)
          BY <2>0, <2>1, <3>2, <5>1 DEF SameBurst
        <5>4. rate_v' = rate_v + 1
          BY <4>1, <5>2, <5>3 DEF CheckTiming
        <5> QED
          BY <2>0, <2>8, <5>4
      <4>5. rate_v = 0
        BY <2>0, <2>8, <4>1 DEF CheckTiming
      <4>6. frames < 4 /\ (frames = 3 => 10 * prev_dt >= 7 * BAG)
        BY <2>0, <2>8, <4>5 DEF BriskInv
      <4>7. frames # 3
        \* Both intervals long: together they exceed BAG + MaxDelay.
        BY <2>0, <2>1, <2>8, <4>2, <4>4, <4>6, <3>2
      <4> QED
        BY <2>0, <2>1, <4>1, <4>4, <4>6, <4>7, <3>2
    <3> QED
      BY <2>0, <3>1, <3>2
  <2>9. late' = -1
    BY <1>1 DEF Arrive
  <2> QED
    BY <2>4, <2>5, <2>7, <2>8, <2>9 DEF BriskInv
<1>2. CASE Lose
  BY <1>2 DEF Lose
<1>3. ASSUME NEW d \in Delays, Duplicate(d) PROVE BriskInv'
  BY <1>3 DEF Duplicate
<1>4. ASSUME NEW d \in Delays, Overtake(d) PROVE BriskInv'
  BY <1>4 DEF Overtake
<1>5. ASSUME NEW d \in Delays, ArriveLate(d) PROVE BriskInv'
  BY <1>5 DEF ArriveLate, BriskInv
<1>6. CASE UNCHANGED vars
  BY <1>6 DEF BriskInv, vars, detectorVars, linkVars, history
<1> QED
  BY <1>1, <1>2, <1>3, <1>4, <1>5, <1>6 DEF Next

-----------------------------------------------------------------------------
(* Damage.                                                                 *)

\* Verdict is FAULT as soon as one of four counters has counted.
LEMMA FaultVerdict ==
  ASSUME DetectorTypeOK
  PROVE  Verdict = "FAULT" <=>
           seq_loss # 0 \/ seq_dup # 0 \/ seq_reorder # 0 \/ lmax_v # 0
  BY DEF Verdict, DetectorTypeOK

\* The check of a number only adds to the counters of the sequence.
LEMMA CheckOnlyAdds ==
  ASSUME DetectorTypeOK, NEW dt, NEW s \in 0..MaxSN, CheckSequence(dt, s)
  PROVE  seq_loss' >= seq_loss /\ seq_dup' >= seq_dup /\ seq_reorder' >= seq_reorder
<1>1. Fwd(prev_sn, s) \in Int
  BY DetectorAssumption DEF Fwd, DetectorTypeOK
<1> QED
  BY <1>1 DEF DetectorTypeOK, CheckSequence

\* A number that is not the next one is counted, one way or another.
LEMMA CheckFinds ==
  ASSUME DetectorTypeOK, NEW dt, NEW s \in 0..MaxSN, CheckSequence(dt, s),
         SeqWindow(dt), s = prev_sn \/ Fwd(prev_sn, s) > 1
  PROVE  seq_loss' > 0 \/ seq_dup' > 0 \/ seq_reorder' > 0
<1>1. Fwd(prev_sn, s) \in Int
  BY DetectorAssumption DEF Fwd, DetectorTypeOK
<1> QED
  BY <1>1 DEF DetectorTypeOK, CheckSequence

\* A verdict of FAULT is never taken back by another frame.
LEMMA FrameOnlyAdds ==
  ASSUME DetectorTypeOK, NEW t \in Nat, NEW s \in 0..MaxSN, NEW L \in Nat,
         Frame(t, s, L), Verdict = "FAULT"
  PROVE  Verdict' = "FAULT"
<1>1. DetectorTypeOK'
  BY FrameType
<1>2. /\ seq_loss' >= seq_loss /\ seq_dup' >= seq_dup
      /\ seq_reorder' >= seq_reorder /\ lmax_v' >= lmax_v
  <2>1. lmax_v' >= lmax_v
    BY DEF Frame, DetectorTypeOK
  <2>2. CASE seen = 0
    BY <2>1, <2>2 DEF Frame, DetectorTypeOK
  <2>3. CASE seen # 0
    BY <2>1, <2>3, FrameChecks, CheckOnlyAdds
  <2> QED
    BY <2>2, <2>3
<1>3. seq_loss # 0 \/ seq_dup # 0 \/ seq_reorder # 0 \/ lmax_v # 0
  BY FaultVerdict
<1>4. seq_loss' # 0 \/ seq_dup' # 0 \/ seq_reorder' # 0 \/ lmax_v' # 0
  BY <1>1, <1>2, <1>3 DEF DetectorTypeOK
<1> QED
  BY <1>1, <1>4 DEF Verdict, DetectorTypeOK

LEMMA NextTurns ==
  TypeOK /\ Position /\ Turns /\ [Next]_vars => Turns'
<1> SUFFICES ASSUME TypeOK, Position, Turns, [Next]_vars PROVE Turns'
  OBVIOUS
<1>0. /\ nextSN \in 0..MaxSN /\ prev_sn \in 0..MaxSN /\ skipped \in Nat
      /\ seen \in 0..2 /\ damage \in 0..1 /\ MaxSN \in Nat \ {0}
  BY LinkAssumption, DetectorAssumption DEF TypeOK, DetectorTypeOK
<1>1. ASSUME NEW d \in Delays, NEW L \in Lengths, NEW g \in Gaps, Arrive(d, L, g)
      PROVE  Turns'
  <2>1. prev_sn' = nextSN /\ nextSN' = Succ(nextSN) /\ skipped' = 0 /\ late' = -1
    BY <1>1 DEF Arrive, Frame
  <2>2. Fwd(prev_sn, nextSN)' = 1
    BY <1>0, <2>1, FwdOne DEF Fwd
  <2>3. skipped' = 0 * MaxSN + (Fwd(prev_sn, nextSN)' - 1)
    BY <1>0, <2>1, <2>2
  <2>4. \E q \in Nat : skipped' = q * MaxSN + (Fwd(prev_sn, nextSN)' - 1)
    BY <2>3
  <2> QED
    BY <2>1, <2>4 DEF Turns
<1>2. CASE Lose
  <2>1. /\ seen > 0 /\ seen' = seen /\ prev_sn' = prev_sn /\ nextSN' = Succ(nextSN)
        /\ skipped' = skipped + 1 /\ late' = late /\ late = -1 /\ damage' = damage
    BY <1>2 DEF Lose, detectorVars
  <2>2. nextSN \in 1..MaxSN
    BY <2>1 DEF Position
  <2>3. Fwd(prev_sn, nextSN)' = Fwd(prev_sn, Succ(nextSN))
    BY <2>1 DEF Fwd
  <2>4. Fwd(prev_sn, nextSN) \in 1..MaxSN
    BY <1>0, <2>2, FwdRange
  <2>5. ASSUME damage = 0
        PROVE  \E q \in Nat : skipped' = q * MaxSN + (Fwd(prev_sn, nextSN)' - 1)
    <3>1. PICK q \in Nat : skipped = q * MaxSN + (Fwd(prev_sn, nextSN) - 1)
      BY <2>1, <2>5 DEF Turns
    <3>2. CASE Fwd(prev_sn, nextSN) < MaxSN
      <4>1. Fwd(prev_sn, Succ(nextSN)) = Fwd(prev_sn, nextSN) + 1
        BY <1>0, <2>2, <3>2, FwdNext
      <4>2. skipped' = q * MaxSN + (Fwd(prev_sn, nextSN)' - 1)
        BY <1>0, <2>1, <2>3, <2>4, <3>1, <4>1
      <4> QED
        BY <4>2
    <3>3. CASE Fwd(prev_sn, nextSN) = MaxSN
      <4>1. Fwd(prev_sn, Succ(nextSN)) = 1
        BY <1>0, <2>2, <3>3, FwdClosed
      <4>2. (q + 1) * MaxSN = q * MaxSN + MaxSN
        BY <1>0, NextTurn
      <4>3. skipped' = (q + 1) * MaxSN + (Fwd(prev_sn, nextSN)' - 1)
        BY <1>0, <2>1, <2>3, <3>1, <3>3, <4>1, <4>2
      <4> QED
        BY <4>3
    <3> QED
      BY <1>0, <2>4, <3>2, <3>3
  <2> QED
    BY <2>1, <2>5 DEF Turns
<1>3. ASSUME NEW d \in Delays, Duplicate(d) PROVE Turns'
  BY <1>3 DEF Duplicate, Turns
<1>4. ASSUME NEW d \in Delays, Overtake(d) PROVE Turns'
  <2>1. /\ seen' > 0 /\ prev_sn' = Succ(nextSN) /\ nextSN' = Succ(Succ(nextSN))
        /\ late' = nextSN /\ skipped' = 0
    BY <1>4 DEF Overtake, Frame
  <2>2. Fwd(prev_sn, nextSN)' = 1
    BY <1>0, <2>1, SuccType, FwdOne DEF Fwd
  <2>3. skipped' = 0 * MaxSN + (Fwd(prev_sn, nextSN)' - 1)
    BY <1>0, <2>1, <2>2
  <2>4. prev_sn' = Succ(late)'
    BY <2>1 DEF Succ
  <2> QED
    BY <2>1, <2>3, <2>4 DEF Turns
<1>5. ASSUME NEW d \in Delays, ArriveLate(d) PROVE Turns'
  BY <1>5 DEF ArriveLate, Turns
<1>6. CASE UNCHANGED vars
  <2>1. Fwd(prev_sn, nextSN)' = Fwd(prev_sn, nextSN) /\ Succ(late)' = Succ(late)
    BY <1>6 DEF Fwd, Succ, vars, detectorVars, linkVars
  <2>2. UNCHANGED <<damage, seen, skipped, late, prev_sn>>
    BY <1>6 DEF vars, detectorVars, linkVars, history
  <2> QED
    BY <2>1, <2>2 DEF Turns
<1> QED
  BY <1>1, <1>2, <1>3, <1>4, <1>5, <1>6 DEF Next

\* A frame that shows the damage, by its length or by its number.
LEMMA ArriveDamage ==
  ASSUME TypeOK, Position, Turns, NEW d \in Delays, NEW L \in Lengths,
         NEW g \in Gaps, Arrive(d, L, g), damage = 0, damage' = 1
  PROVE  Verdict' = "FAULT"
<1> DEFINE t == Stamp(now, d)
<1>0. /\ nextSN \in 0..MaxSN /\ prev_sn \in 0..MaxSN /\ skipped \in Nat
      /\ seen \in 0..2 /\ L \in Nat /\ t \in Nat /\ DetectorTypeOK
      /\ MaxSN \in Nat \ {0} /\ LMax \in Nat
  BY StampType, LinkAssumption, DetectorAssumption DEF TypeOK, DetectorTypeOK
<1>1. Frame(t, nextSN, L)
  BY DEF Arrive
<1>2. DetectorTypeOK'
  BY <1>0, <1>1, FrameType
<1>3. \/ L > LMax
      \/ skipped % MaxSN # 0 /\ ~(seen > 0 /\ ~SeqWindow(t - prev_t))
  BY DEF Arrive
<1>4. CASE L > LMax
  <2>1. lmax_v' = lmax_v + 1
    BY <1>1, <1>4 DEF Frame
  <2> QED
    BY <1>0, <1>2, <2>1 DEF Verdict, DetectorTypeOK
<1>5. CASE skipped % MaxSN # 0 /\ ~(seen > 0 /\ ~SeqWindow(t - prev_t))
  <2>1. seen > 0
    <3>1. 0 % MaxSN = 0
      BY <1>0
    <3> QED
      BY <1>0, <1>5, <3>1 DEF Position
  <2>2. SeqWindow(t - prev_t) /\ nextSN \in 1..MaxSN
    BY <1>5, <2>1 DEF Position
  <2>3. PICK q \in Nat : skipped = q * MaxSN + (Fwd(prev_sn, nextSN) - 1)
    BY <2>1 DEF Turns
  <2>4. Fwd(prev_sn, nextSN) \in 1..MaxSN
    BY <1>0, <2>2, FwdRange
  <2>5. Fwd(prev_sn, nextSN) # 1
    <3>1. (q * MaxSN) % MaxSN = 0
      BY <1>0, TurnsLeaveNothing
    <3>2. q * MaxSN \in Nat
      BY <1>0
    <3>3. Fwd(prev_sn, nextSN) = 1 => skipped = q * MaxSN
      BY <2>3, <3>2
    <3> QED
      BY <1>5, <3>1, <3>3
  <2>6. CheckSequence(t - prev_t, nextSN)
    BY <1>0, <1>1, <2>1, FrameChecks
  <2>7. seq_loss' > 0 \/ seq_dup' > 0 \/ seq_reorder' > 0
    BY <1>0, <2>2, <2>4, <2>5, <2>6, CheckFinds
  <2> QED
    BY <1>2, <2>7 DEF Verdict, DetectorTypeOK
<1> QED
  BY <1>3, <1>4, <1>5

LEMMA NextDamage ==
  TypeOK /\ Position /\ Turns /\ DamageIsFault /\ [Next]_vars => DamageIsFault'
<1> SUFFICES ASSUME TypeOK, Position, Turns, DamageIsFault, [Next]_vars,
                    damage' = 1
             PROVE  Verdict' = "FAULT"
  BY DEF DamageIsFault
<1>0. /\ nextSN \in 0..MaxSN /\ prev_sn \in 0..MaxSN /\ DetectorTypeOK
      /\ damage \in 0..1 /\ seen \in 0..2 /\ prev_t \in Nat
  BY DEF TypeOK, DetectorTypeOK
<1>1. ASSUME NEW d \in Delays, NEW L \in Lengths, NEW g \in Gaps, Arrive(d, L, g)
      PROVE  Verdict' = "FAULT"
  <2>1. CASE damage = 1
    <3>1. Verdict = "FAULT" /\ Frame(Stamp(now, d), nextSN, L)
      BY <1>1, <2>1 DEF DamageIsFault, Arrive
    <3>2. Stamp(now, d) \in Nat /\ L \in Nat
      BY StampType, LinkAssumption
    <3> QED
      BY <1>0, <3>1, <3>2, FrameOnlyAdds
  <2>2. CASE damage = 0
    BY <1>1, <2>2, ArriveDamage
  <2> QED
    BY <1>0, <2>1, <2>2
<1>2. CASE Lose
  BY <1>2 DEF Lose, DamageIsFault, detectorVars, Verdict
<1>3. ASSUME NEW d \in Delays, Duplicate(d) PROVE Verdict' = "FAULT"
  <2>1. /\ (prev_t + d) - prev_t = d /\ d \in Nat /\ d <= MaxDelay
        /\ prev_t + d \in Nat
    BY <1>0, StampType
  <2>2. seen # 0 /\ Frame(prev_t + d, prev_sn, 0)
    BY <1>0, <1>3 DEF Duplicate
  <2>3. CheckSequence((prev_t + d) - prev_t, prev_sn)
    BY <2>2, FrameChecks
  <2>4. SeqWindow((prev_t + d) - prev_t)
    BY <2>1, LinkAssumption, DetectorAssumption DEF SeqWindow
  <2>5. seq_loss' > 0 \/ seq_dup' > 0 \/ seq_reorder' > 0
    BY <1>0, <2>3, <2>4, CheckFinds
  <2>6. DetectorTypeOK'
    BY <1>0, <2>1, <2>2, FrameType
  <2> QED
    BY <2>5, <2>6 DEF Verdict, DetectorTypeOK
<1>4. ASSUME NEW d \in Delays, Overtake(d) PROVE Verdict' = "FAULT"
  <2>1. damage = 1 /\ Frame(Stamp(now, d), Succ(nextSN), 0)
    BY <1>4 DEF Overtake
  <2>2. Stamp(now, d) \in Nat /\ Succ(nextSN) \in 0..MaxSN
    BY <1>0, StampType, SuccType
  <2> QED
    BY <1>0, <2>1, <2>2, FrameOnlyAdds DEF DamageIsFault
<1>5. ASSUME NEW d \in Delays, ArriveLate(d) PROVE Verdict' = "FAULT"
  <2>1. /\ (prev_t + d) - prev_t = d /\ d \in Nat /\ d <= MaxDelay
        /\ prev_t + d \in Nat
    BY <1>0, StampType
  <2>2. /\ late # -1 /\ seen # 0 /\ Frame(prev_t + d, late, 0)
        /\ prev_sn = Succ(late) /\ late \in 0..MaxSN
    BY <1>0, <1>5, DetectorAssumption DEF ArriveLate, Turns, TypeOK
  <2>3. CheckSequence((prev_t + d) - prev_t, late)
    BY <2>2, FrameChecks
  <2>4. SeqWindow((prev_t + d) - prev_t)
    BY <2>1, LinkAssumption, DetectorAssumption DEF SeqWindow
  <2>5. Fwd(prev_sn, late) > 1
    BY <2>2, FwdBack, DetectorAssumption
  <2>6. seq_loss' > 0 \/ seq_dup' > 0 \/ seq_reorder' > 0
    BY <1>0, <2>2, <2>3, <2>4, <2>5, CheckFinds
  <2>7. DetectorTypeOK'
    BY <1>0, <2>1, <2>2, FrameType
  <2> QED
    BY <2>6, <2>7 DEF Verdict, DetectorTypeOK
<1>6. CASE UNCHANGED vars
  BY <1>6 DEF DamageIsFault, Verdict, vars, detectorVars, history
<1> QED
  BY <1>1, <1>2, <1>3, <1>4, <1>5, <1>6 DEF Next

-----------------------------------------------------------------------------
(* The theorems.                                                           *)

LEMMA Inductive == Spec => []IInv
<1>1. Init => IInv
  BY InitIInv
<1>2. IInv /\ [Next]_vars => IInv'
  BY NextType, NextPosition, NextCounts, NextClean, NextBrisk, NextTurns,
     NextDamage DEF IInv
<1> QED
  BY <1>1, <1>2, PTL DEF Spec

\* The counters, the last frame and the board's position on the circle stay
\* in their ranges for every BAG and every capture.
THEOREM LinkTypes == Spec => []TypeOK
<1>1. IInv => TypeOK
  BY DEF IInv
<1> QED
  BY <1>1, Inductive, PTL

\* seq_loss and seq_dup are the true numbers of lost and doubled frames, and
\* nothing is taken for reordered, as long as no run of losses reaches Far,
\* no loss hides in a pause of Window BAGs and no frame is overtaken.
THEOREM LossIsCountedExactly == Spec => []CountsAreExact
<1>1. IInv => CountsAreExact
  BY DEF IInv
<1> QED
  BY <1>1, Inductive, PTL

\* Whatever is lost, doubled, swapped or too long is reported as FAULT, on
\* every circle of more than two numbers, except a whole number of turns of
\* the circle and what a pause of Window BAGs hides.
THEOREM DamageIsReported == Spec => []DamageIsFault
<1>1. IInv => DamageIsFault
  BY DEF IInv
<1> QED
  BY <1>1, Inductive, PTL

\* A faultless link and a paced board are NORMAL for every capture whose
\* stamps are at most half a BAG late.
THEOREM CleanIsNormal == Spec => []NoFalseAlarm
<1>1. IInv => NoFalseAlarm
  <2> SUFFICES ASSUME IInv, clean = 1, 2 * MaxDelay <= BAG
               PROVE  Verdict = "NORMAL"
    BY DEF NoFalseAlarm
  <2>1. lmax_v = 0 /\ rate_v = 0
    BY DEF IInv, CleanInv
  <2>2. seq_loss = 0 /\ seq_dup = 0 /\ seq_reorder = 0
    BY DEF IInv, CleanInv, CountsAreExact
  <2> QED
    BY <2>1, <2>2 DEF Verdict
<1> QED
  BY <1>1, Inductive, PTL

\* A board at twice its rate is found out by its fourth frame for every
\* capture whose stamps are less than two fifths of a BAG late.
THEOREM BriskIsReported == Spec => []BriskIsFound
<1>1. IInv => BriskIsFound
  <2> SUFFICES ASSUME IInv, brisk = 1, frames >= 4, 5 * MaxDelay < 2 * BAG
               PROVE  rate_v > 0
    BY DEF BriskIsFound
  <2>1. rate_v \in Nat /\ frames \in 0..MaxFrames /\ MaxFrames \in Nat
    BY LinkAssumption DEF IInv, TypeOK, DetectorTypeOK
  <2>2. rate_v # 0
    BY <2>1 DEF IInv, BriskInv
  <2> QED
    BY <2>1, <2>2
<1> QED
  BY <1>1, Inductive, PTL
=============================================================================
