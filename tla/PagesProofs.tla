----------------------------- MODULE PagesProofs -----------------------------
(***************************************************************************)
(* Proofs about what the web pages show: the measurement's verdict of      *)
(* web/kfdx.html, for any number of tabs, errors and commands in flight or *)
(* given up; the dashboard of web/frer.html, for any number of polls,      *)
(* bursts and mishaps; and /capture, for files of any length.              *)
(***************************************************************************)
EXTENDS MeasureGui, D10Dashboard, D10Capture, SequenceTheorems, FiniteSetTheorems, TLAPS

-----------------------------------------------------------------------------
(***************************************************************************)
(* MeasureGui.                                                             *)
(***************************************************************************)

\* What the counter of a base says of the errors made when it was read: unless
\* the answer had no counters, no fewer than those since the last reset; and
\* exactly these, when no reset has come in between that the tab did not see.
BaseInv ==
  \A t \in Tabs : \A i \in DOMAIN base[t] :
    LET b == base[t][i]
    IN /\ b.made <= made
       /\ "cut" \notin b.hurt => b.n >= b.made - zero
       /\ b.hurt = {} => b.n = b.made - zero

\* Each command given up leaves at most one more than the bound on presses.
QueueInv == \A t \in Tabs : Len(queue[t]) <= MaxQueue[t] + late

LiveValues == {"no", "jit", "measuring"}

GuiInv == GuiTypeOK /\ QueueInv /\ BaseInv /\ FaultIsTrue /\ FaultIsShown

Commands == [cmd : Cmd, awaited : {"yes", "no"}]

-----------------------------------------------------------------------------
(* Sequences.                                                              *)

\* A command lost from a queue leaves a queue that is shorter by one.
LEMMA RemovedIsShorter ==
  ASSUME NEW q \in Seq(Commands), NEW i \in DOMAIN q
  PROVE  RemoveAt(q, i) \in Seq(Commands) /\ Len(RemoveAt(q, i)) = Len(q) - 1
<1> DEFINE l == SubSeq(q, 1, i-1)
           r == SubSeq(q, i+1, Len(q))
<1>1. i \in 1..Len(q) /\ Len(q) \in Nat  OBVIOUS
<1>2. l \in Seq(Commands) /\ Len(l) = i - 1  BY <1>1, SubSeqProperties
<1>3. r \in Seq(Commands) /\ Len(r) = Len(q) - i  BY <1>1, SubSeqProperties
<1>4. RemoveAt(q, i) = l \o r  BY DEF RemoveAt
<1> HIDE DEF l, r
<1>5. l \o r \in Seq(Commands) /\ Len(l \o r) = Len(l) + Len(r)
  BY <1>2, <1>3, ConcatProperties
<1> QED  BY <1>1, <1>2, <1>3, <1>4, <1>5

\* A command that is no longer awaited leaves a queue of the same length.
LEMMA UnawaitedIsSame ==
  ASSUME NEW q \in Seq(Commands), NEW i \in DOMAIN q
  PROVE  /\ [q EXCEPT ![i].awaited = "no"] \in Seq(Commands)
         /\ Len([q EXCEPT ![i].awaited = "no"]) = Len(q)
<1> DEFINE c == [q[i] EXCEPT !.awaited = "no"]
<1>1. i \in 1..Len(q) /\ q[i] \in Commands  OBVIOUS
<1>2. c \in Commands  BY <1>1 DEF Commands
<1>3. [q EXCEPT ![i].awaited = "no"] = [q EXCEPT ![i] = c]  OBVIOUS
<1> HIDE DEF c
<1>4. [q EXCEPT ![i] = c] \in Seq(Commands) /\ Len([q EXCEPT ![i] = c]) = Len(q)
  BY <1>1, <1>2, ExceptSeq
<1> QED  BY <1>3, <1>4

\* Nor does one whose first half has been answered.
LEMMA HeadAnsweredIsSame ==
  ASSUME NEW q \in Seq(Commands), q # <<>>, NEW cmd \in Cmd
  PROVE  /\ [q EXCEPT ![1].cmd = cmd] \in Seq(Commands)
         /\ Len([q EXCEPT ![1].cmd = cmd]) = Len(q)
<1> DEFINE c == [q[1] EXCEPT !.cmd = cmd]
<1>1. 1 \in 1..Len(q) /\ q[1] \in Commands  OBVIOUS
<1>2. c \in Commands  BY <1>1 DEF Commands
<1>3. [q EXCEPT ![1].cmd = cmd] = [q EXCEPT ![1] = c]  OBVIOUS
<1> HIDE DEF c
<1>4. [q EXCEPT ![1] = c] \in Seq(Commands) /\ Len([q EXCEPT ![1] = c]) = Len(q)
  BY <1>1, <1>2, ExceptSeq
<1> QED  BY <1>3, <1>4

\* A handler goes on with at most one command.
LEMMA GoesOnWithOne ==
  ASSUME NEW cmd, NEW ok \in BOOLEAN
  PROVE  Goes(cmd, ok) \in Seq(Commands) /\ Len(Goes(cmd, ok)) \in 0..1
<1>1. \A c \in Cmd : Given(c) \in Commands  BY DEF Given, Commands
<1>2. \A c \in Cmd : <<Given(c)>> \in Seq(Commands) /\ Len(<<Given(c)>>) = 1  BY <1>1
<1>3. <<>> \in Seq(Commands) /\ Len(<<>>) = 0  OBVIOUS
<1>4. {"reset", "send", "head"} \subseteq Cmd  BY DEF Cmd
<1>5. Goes(cmd, ok) = <<>> \/ \E c \in Cmd : Goes(cmd, ok) = <<Given(c)>>  BY <1>4 DEF Goes
<1>6. CASE Goes(cmd, ok) = <<>>  BY <1>3, <1>6
<1>7. CASE \E c \in Cmd : Goes(cmd, ok) = <<Given(c)>>
  <2>1. PICK c \in Cmd : Goes(cmd, ok) = <<Given(c)>>  BY <1>7
  <2> QED  BY <1>2, <2>1
<1> QED  BY <1>5, <1>6, <1>7

\* A base is kept or forgotten.
LEMMA BaseKeptOrForgotten ==
  ASSUME NEW cmd, NEW ok \in BOOLEAN, NEW old
  PROVE  NextBase(cmd, ok, old) \in {old, <<>>}
BY DEF NextBase

\* What is done to live keeps its values.
LEMMA LiveChanged ==
  ASSUME GuiTypeOK, NEW t \in Tabs, NEW l,
         \/ l \in LiveValues
         \/ \E cmd, ok : l = NextLive(cmd, ok, live[t])
  PROVE  [live EXCEPT ![t] = l] \in [Tabs -> LiveValues]
<1>1. live \in [Tabs -> LiveValues]  BY DEF GuiTypeOK, LiveValues
<1>2. \A cmd, ok : NextLive(cmd, ok, live[t]) \in LiveValues
  BY <1>1 DEF NextLive, LiveValues
<1> QED  BY <1>1, <1>2

-----------------------------------------------------------------------------
(* The steps.                                                              *)

LEMMA GuiInitInv == GuiInit => GuiInv
<1> SUFFICES ASSUME GuiInit PROVE GuiInv  OBVIOUS
<1> USE GuiAssumption DEF GuiInit
<1>1. queue \in [Tabs -> Seq(Commands)] /\ base \in [Tabs -> Seq(Base)]  OBVIOUS
<1>2. badge \in Shown /\ live \in [Tabs -> {"no", "jit", "measuring"}]  BY DEF Shown
<1>3. \A t \in Tabs : queue[t] = <<>> /\ base[t] = <<>>  OBVIOUS
<1>4. \A t \in Tabs : Len(queue[t]) = 0 /\ Len(base[t]) = 0 /\ DOMAIN base[t] = {}
  BY <1>3
<1>5. GuiTypeOK /\ QueueInv  BY <1>1, <1>2, <1>4 DEF GuiTypeOK, QueueInv, Commands
<1>6. BaseInv  BY <1>4 DEF BaseInv
<1>7. FaultIsTrue /\ FaultIsShown  BY DEF FaultIsTrue, FaultIsShown
<1> QED  BY <1>5, <1>6, <1>7 DEF GuiInv

\* What the types say of one queue and of the numbers.
LEMMA Types ==
  ASSUME GuiInv, NEW t \in Tabs
  PROVE  /\ queue \in [Tabs -> Seq(Commands)] /\ queue[t] \in Seq(Commands)
         /\ Len(queue[t]) \in Nat /\ Len(queue[t]) <= MaxQueue[t] + late
         /\ MaxQueue \in [Tabs -> Nat] /\ MaxQueue[t] \in Nat
         /\ late \in Nat /\ MaxLate \in Nat /\ late <= MaxLate
         /\ made \in Nat /\ zero \in 0..made /\ made \in 0..MaxErrors
<1>1. queue \in [Tabs -> Seq(Commands)]  BY DEF GuiInv, GuiTypeOK, Commands
<1>2. Len(queue[t]) <= MaxQueue[t] + late  BY DEF GuiInv, QueueInv
<1>3. late \in 0..MaxLate /\ made \in 0..MaxErrors /\ zero \in 0..made  BY DEF GuiInv, GuiTypeOK
<1> QED  BY <1>1, <1>2, <1>3, GuiAssumption

\* A queue that is changed keeps the bounds when its new value does.
LEMMA QueueChanged ==
  ASSUME GuiInv, NEW t \in Tabs, NEW q \in Seq(Commands),
         queue' = [queue EXCEPT ![t] = q],
         late' \in late..MaxLate, Len(q) <= MaxQueue[t] + late'
  PROVE  /\ queue' \in [Tabs -> Seq(Commands)]
         /\ \A u \in Tabs : Len(queue'[u]) <= MaxQueue[u] + MaxLate
         /\ QueueInv'
<1>1. queue \in [Tabs -> Seq(Commands)] /\ late \in Nat /\ late' \in Nat /\ MaxLate \in Nat
      /\ late <= late' /\ late' <= MaxLate /\ MaxQueue \in [Tabs -> Nat]
  BY Types
<1>2. queue' \in [Tabs -> Seq(Commands)]  BY <1>1
<1>3. \A u \in Tabs : Len(queue'[u]) <= MaxQueue[u] + late'
  <2> SUFFICES ASSUME NEW u \in Tabs PROVE Len(queue'[u]) <= MaxQueue[u] + late'
    OBVIOUS
  <2>1. CASE u = t  BY <1>1, <2>1
  <2>2. CASE u # t
    <3>1. queue'[u] = queue[u] /\ Len(queue[u]) <= MaxQueue[u] + late
      BY <1>1, <2>2 DEF GuiInv, QueueInv
    <3>2. Len(queue[u]) \in Nat /\ MaxQueue[u] \in Nat  BY <1>1
    <3> QED  BY <1>1, <3>1, <3>2
  <2> QED  BY <2>1, <2>2
<1>4. \A u \in Tabs : Len(queue'[u]) \in Nat /\ MaxQueue[u] \in Nat  BY <1>1, <1>2
<1>5. \A u \in Tabs : Len(queue'[u]) <= MaxQueue[u] + MaxLate
  BY <1>1, <1>3, <1>4
<1>6. QueueInv'  BY <1>3 DEF QueueInv
<1> QED  BY <1>2, <1>5, <1>6

LEMMA PressInv ==
  ASSUME GuiInv, NEW t \in Tabs, NEW cmd \in Pressed[t], Press(t, cmd)
  PROVE  GuiInv'
<1> DEFINE q == Append(queue[t], Given(cmd))
<1>1. queue[t] \in Seq(Commands) /\ MaxQueue[t] \in Nat /\ late \in Nat /\ MaxLate \in Nat
      /\ late <= MaxLate
  BY Types
<1>2. Given(cmd) \in Commands  BY GuiAssumption DEF Given, Commands, Cmd
<1>3. q \in Seq(Commands) /\ Len(q) = Len(queue[t]) + 1
  BY <1>1, <1>2, AppendProperties
<1>4. Len(queue[t]) \in Nat /\ Len(queue[t]) < MaxQueue[t] /\ queue' = [queue EXCEPT ![t] = q]
      /\ UNCHANGED <<base, badge, made, zero, late>>
  BY <1>1 DEF Press
<1> HIDE DEF q
<1>5. late' \in late..MaxLate /\ Len(q) <= MaxQueue[t] + late'
  BY <1>1, <1>3, <1>4
<1>6. /\ queue' \in [Tabs -> Seq(Commands)]
      /\ \A u \in Tabs : Len(queue'[u]) <= MaxQueue[u] + MaxLate
      /\ QueueInv'
  BY <1>3, <1>4, <1>5, QueueChanged
<1>7. GuiTypeOK'
  <2>1. live' = live \/ live' = [live EXCEPT ![t] = "measuring"]  BY DEF Press
  <2>3. GuiTypeOK /\ "measuring" \in LiveValues  BY DEF GuiInv, LiveValues
  <2>4. [live EXCEPT ![t] = "measuring"] \in [Tabs -> LiveValues]  BY <2>3, LiveChanged
  <2>2. live' \in [Tabs -> LiveValues]  BY <2>1, <2>3, <2>4 DEF GuiTypeOK, LiveValues
  <2> QED  BY <1>4, <1>6, <2>2 DEF GuiInv, GuiTypeOK, Commands, LiveValues
<1>8. BaseInv' /\ FaultIsTrue' /\ FaultIsShown'
  BY <1>4 DEF GuiInv, BaseInv, FaultIsTrue, FaultIsShown
<1> QED  BY <1>6, <1>7, <1>8 DEF GuiInv

LEMMA BoardErrsInv == ASSUME GuiInv, BoardErrs PROVE GuiInv'
<1>1. /\ made \in Nat /\ zero \in 0..made /\ MaxErrors \in Nat
      /\ made' = made + 1 /\ made' \in 0..MaxErrors /\ zero' \in 0..made'
      /\ UNCHANGED <<queue, base, badge, live, zero, late>>
  BY GuiAssumption DEF GuiInv, GuiTypeOK, BoardErrs
<1>2. GuiTypeOK'  BY <1>1 DEF GuiInv, GuiTypeOK
<1>3. QueueInv' /\ FaultIsTrue' /\ FaultIsShown'
  BY <1>1 DEF GuiInv, QueueInv, FaultIsTrue, FaultIsShown
<1>4. BaseInv'
  <2> SUFFICES ASSUME NEW t \in Tabs, NEW i \in DOMAIN base[t]
               PROVE  base[t][i].made <= made + 1
    BY <1>1 DEF GuiInv, BaseInv
  <2>1. base[t][i] \in Base  BY DEF GuiInv, GuiTypeOK
  <2>2. base[t][i].made \in Nat /\ base[t][i].made <= made
    BY <2>1, <1>1 DEF GuiInv, BaseInv, Base
  <2> QED  BY <1>1, <2>2
<1> QED  BY <1>2, <1>3, <1>4 DEF GuiInv

\* A poll that is answered: with the counter or without.
LEMMA RefreshInv ==
  ASSUME GuiInv, NEW t \in Tabs, NEW mj, NEW n, NEW cut,
         \/ n = made - zero /\ cut = {}
         \/ n = 0 /\ cut = {"cut"},
         Refresh(t, mj, n, cut), UNCHANGED <<made, zero>>
  PROVE  /\ base' \in [Tabs -> Seq(Base)] /\ \A u \in Tabs : Len(base'[u]) <= 1
         /\ badge' \in Shown /\ live' \in [Tabs -> LiveValues]
         /\ BaseInv' /\ FaultIsTrue' /\ FaultIsShown'
<1> DEFINE b == IF base[t] = <<>> THEN [n |-> n, made |-> made, hurt |-> cut] ELSE base[t][1]
<1>0. made \in Nat /\ zero \in 0..made /\ made <= MaxErrors /\ MaxErrors \in Nat
  BY GuiAssumption DEF GuiInv, GuiTypeOK
<1>1. n \in 0..MaxErrors /\ cut \subseteq {"reset", "cut"}  BY <1>0
<1>2. b \in Base
  <2>1. CASE base[t] = <<>>  BY <2>1, <1>0, <1>1 DEF Base
  <2>2. CASE base[t] # <<>>  BY <2>2 DEF GuiInv, GuiTypeOK
  <2> QED  BY <2>1, <2>2
<1>3. /\ b.made <= made
      /\ "cut" \notin b.hurt => b.n >= b.made - zero
      /\ b.hurt = {} => b.n = b.made - zero
  <2>1. CASE base[t] = <<>>  BY <2>1, <1>0
  <2>2. CASE base[t] # <<>>
    <3>1. 1 \in DOMAIN base[t]  BY <2>2 DEF GuiInv, GuiTypeOK
    <3> QED  BY <2>2, <3>1 DEF GuiInv, BaseInv
  <2> QED  BY <2>1, <2>2
<1> DEFINE now == IF mj /\ live[t] = "no" THEN "jit" ELSE live[t]
           v == [verdict |-> IF now = "no" THEN "IDLE"
                             ELSE IF n - b.n > 0 THEN "FAULT" ELSE "NORMAL",
                 since |-> IF made > b.made THEN "yes" ELSE "no",
                 hurt |-> IF now = "no" THEN {"idle"} ELSE b.hurt \cup cut]
<1>4. base' = [base EXCEPT ![t] = <<b>>] /\ badge' = v /\ live' = [live EXCEPT ![t] = now]
  BY DEF Refresh
<1>5. v \in Shown  BY <1>1, <1>2 DEF Shown, Base
<1>11. live' \in [Tabs -> LiveValues]
  <2>1. live[t] \in LiveValues  BY DEF GuiInv, GuiTypeOK, LiveValues
  <2>2. now \in LiveValues  BY <2>1 DEF LiveValues
  <2> HIDE DEF now
  <2> QED  BY <1>4, <2>2, LiveChanged DEF GuiInv
<1>6. v.verdict = "FAULT" /\ "cut" \notin v.hurt => v.since = "yes"
  BY <1>0, <1>1, <1>2, <1>3 DEF Base
<1>7. v.since = "yes" /\ v.hurt = {} => v.verdict = "FAULT"
  <2> SUFFICES ASSUME v.since = "yes", v.hurt = {} PROVE now # "no" /\ n - b.n > 0  OBVIOUS
  <2>1. now # "no" /\ b.hurt = {} /\ cut = {} /\ made > b.made  OBVIOUS
  <2>2. b.n = b.made - zero /\ n = made - zero  BY <1>3, <2>1
  <2>3. b.made \in Nat  BY <1>2, <1>0 DEF Base
  <2> HIDE DEF b
  <2> QED  BY <1>0, <2>1, <2>2, <2>3
<1> HIDE DEF b, v, now
<1>8. /\ base' \in [Tabs -> Seq(Base)] /\ \A u \in Tabs : Len(base'[u]) <= 1
      /\ badge' \in Shown
  BY <1>2, <1>4, <1>5 DEF GuiInv, GuiTypeOK
<1>9. BaseInv'
  BY <1>3, <1>4 DEF GuiInv, GuiTypeOK, BaseInv
<1>10. FaultIsTrue' /\ FaultIsShown'
  BY <1>4, <1>6, <1>7 DEF FaultIsTrue, FaultIsShown
<1> QED  BY <1>8, <1>9, <1>10, <1>11

\* A base whose history changes keeps its counter.
LEMMA HurtChanged ==
  ASSUME NEW A, NEW B, NEW H, NEW o \in [n : A, made : B, hurt : H], NEW h \in H
  PROVE  LET b == [o EXCEPT !.hurt = h]
         IN b \in [n : A, made : B, hurt : H] /\ b.n = o.n /\ b.made = o.made /\ b.hurt = h
OBVIOUS

\* Bases that are kept, forgotten, or marked by a reset the tab did not see.
LEMMA BaseChanged ==
  ASSUME GuiInv, made' = made, zero' \in zero..made,
         base' = [u \in Tabs |-> base'[u]],
         \A u \in Tabs :
           \/ base'[u] = <<>>
           \/ base'[u] = base[u] /\ zero' = zero
           \/ /\ base[u] # <<>>
              /\ base'[u] = <<[base[u][1] EXCEPT !.hurt = @ \cup {"reset"}]>>
  PROVE  /\ base' \in [Tabs -> Seq(Base)] /\ \A u \in Tabs : Len(base'[u]) <= 1
         /\ BaseInv'
<1>1. /\ made \in Nat /\ zero \in Nat /\ zero' \in Nat /\ zero <= zero'
      /\ base \in [Tabs -> Seq(Base)] /\ \A u \in Tabs : Len(base[u]) <= 1
  BY GuiAssumption DEF GuiInv, GuiTypeOK
<1>2. SUFFICES ASSUME NEW u \in Tabs
               PROVE  /\ base'[u] \in Seq(Base) /\ Len(base'[u]) <= 1
                      /\ \A i \in DOMAIN base'[u] :
                           LET b == base'[u][i]
                           IN /\ b.made <= made
                              /\ "cut" \notin b.hurt => b.n >= b.made - zero'
                              /\ b.hurt = {} => b.n = b.made - zero'
  BY DEF BaseInv
<1>3. CASE base'[u] = <<>>  BY <1>3
<1>4. CASE base'[u] = base[u] /\ zero' = zero  BY <1>1, <1>4 DEF GuiInv, BaseInv
<1>5. CASE /\ base[u] # <<>>
           /\ base'[u] = <<[base[u][1] EXCEPT !.hurt = @ \cup {"reset"}]>>
  <2> DEFINE old == base[u][1]
             hurt == old.hurt \cup {"reset"}
             b == [old EXCEPT !.hurt = hurt]
  <2>1. 1 \in DOMAIN base[u] /\ old \in Base  BY <1>1, <1>5
  <2>2. old.made <= made /\ ("cut" \notin old.hurt => old.n >= old.made - zero)
    BY <2>1 DEF GuiInv, BaseInv
  <2>3. old.n \in Nat /\ old.made \in Nat /\ hurt \in SUBSET {"reset", "cut"} /\ hurt # {}
        /\ ("cut" \notin hurt => "cut" \notin old.hurt)
    BY <2>1, GuiAssumption DEF Base
  <2>4. base'[u] = <<b>>  BY <1>5
  <2> HIDE DEF old, hurt
  <2>5. b \in Base /\ b.n = old.n /\ b.made = old.made /\ b.hurt = hurt
    BY <2>1, <2>3, HurtChanged DEF Base
  <2> HIDE DEF b
  <2>6. b.made <= made /\ ("cut" \notin b.hurt => b.n >= b.made - zero') /\ b.hurt # {}
    BY <1>1, <2>2, <2>3, <2>5
  <2> QED  BY <2>4, <2>5, <2>6
<1> QED  BY <1>3, <1>4, <1>5

\* The head of the schedule is answered.
LEMMA ServeHeadInv == ASSUME GuiInv, NEW t \in Tabs, ServeHead(t) PROVE GuiInv'
<1>1. /\ queue[t] \in Seq(Commands) /\ queue[t] # <<>> /\ Len(queue[t]) <= MaxQueue[t] + late
      /\ late \in Nat /\ MaxLate \in Nat /\ late <= MaxLate
      /\ UNCHANGED <<base, badge, live, made, zero, late>>
  BY Types DEF ServeHead
<1>2. PICK cmd \in {"status", "bare"} : queue' = [queue EXCEPT ![t][1].cmd = cmd]
  BY DEF ServeHead
<1> DEFINE q == [queue[t] EXCEPT ![1].cmd = cmd]
<1>3. q \in Seq(Commands) /\ Len(q) = Len(queue[t])
  <2>1. cmd \in Cmd  BY DEF Cmd
  <2> QED  BY <1>1, <2>1, HeadAnsweredIsSame
<1>4. queue' = [queue EXCEPT ![t] = q]  BY <1>2
<1> HIDE DEF q
<1>5. /\ queue' \in [Tabs -> Seq(Commands)]
      /\ \A u \in Tabs : Len(queue'[u]) <= MaxQueue[u] + MaxLate
      /\ QueueInv'
  <2>1. late' \in late..MaxLate /\ Len(q) <= MaxQueue[t] + late'  BY <1>1, <1>3
  <2> QED  BY <1>3, <1>4, <2>1, QueueChanged
<1>6. GuiTypeOK'  BY <1>1, <1>5 DEF GuiInv, GuiTypeOK, Commands
<1>7. BaseInv' /\ FaultIsTrue' /\ FaultIsShown'
  BY <1>1 DEF GuiInv, BaseInv, FaultIsTrue, FaultIsShown
<1> QED  BY <1>5, <1>6, <1>7 DEF GuiInv

LEMMA ServeInv == ASSUME GuiInv, NEW t \in Tabs, Serve(t) PROVE GuiInv'
<1> DEFINE c == Head(queue[t])
           known == c.awaited = "yes"
           g == IF known THEN Goes(c.cmd, TRUE) ELSE <<>>
           q == Tail(queue[t]) \o g
<1>1. /\ queue[t] \in Seq(Commands) /\ queue[t] # <<>> /\ MaxQueue[t] \in Nat
      /\ Len(queue[t]) <= MaxQueue[t] + late
  BY Types DEF Serve
<1>2. late \in Nat /\ MaxLate \in Nat /\ late <= MaxLate /\ made \in Nat /\ zero \in 0..made
  BY Types
<1>3. Tail(queue[t]) \in Seq(Commands) /\ Len(Tail(queue[t])) = Len(queue[t]) - 1
  BY <1>1, HeadTailProperties
<1>4. g \in Seq(Commands) /\ Len(g) \in 0..1
  <2>1. Goes(c.cmd, TRUE) \in Seq(Commands) /\ Len(Goes(c.cmd, TRUE)) \in 0..1
    BY GoesOnWithOne
  <2>2. <<>> \in Seq(Commands) /\ Len(<<>>) = 0  OBVIOUS
  <2>3. CASE known  BY <2>1, <2>3
  <2>4. CASE ~known  BY <2>2, <2>4
  <2> QED  BY <2>3, <2>4
<1>5. q \in Seq(Commands) /\ Len(q) = Len(Tail(queue[t])) + Len(g)
  <2> HIDE DEF g
  <2> QED  BY <1>3, <1>4, ConcatProperties
<1>6. queue' = [queue EXCEPT ![t] = q] /\ made' = made
      /\ zero' = (IF c.cmd \in {"reset", "clear"} THEN made ELSE zero)
  BY DEF Serve
<1>7. \/ /\ c.cmd \in {"status", "bare"}
         /\ \/ Refresh(t, c.cmd = "status", made - zero, {}) /\ late' = late
            \/ /\ late < MaxLate /\ late' = late + 1
               /\ Refresh(t, c.cmd = "status", 0, {"cut"})
      \/ /\ base' = [u \in Tabs |->
               LET b == IF u = t /\ known THEN NextBase(c.cmd, TRUE, base[u]) ELSE base[u]
                   blind == c.cmd \in {"reset", "clear"} /\ ~(u = t /\ known)
               IN IF b # <<>> /\ blind THEN <<[b[1] EXCEPT !.hurt = @ \cup {"reset"}]>> ELSE b]
         /\ live' = IF known THEN [live EXCEPT ![t] = NextLive(c.cmd, TRUE, @)] ELSE live
         /\ UNCHANGED <<badge, late>>
  BY DEF Serve
<1>8. late' \in late..MaxLate
  <2>1. late' = late \/ (late < MaxLate /\ late' = late + 1)  BY <1>7
  <2> QED  BY <1>2, <2>1
<1>9. Len(q) <= MaxQueue[t] + late'
  <2>1. Len(queue[t]) \in Nat  BY <1>1
  <2>2. late' = late \/ late' = late + 1  BY <1>7
  <2> DEFINE n == Len(queue[t])
             ng == Len(g)
             nq == Len(q)
             m == MaxQueue[t]
  <2>3. n \in Nat /\ n <= m + late /\ m \in Nat  BY <1>1, <2>1
  <2>4. ng \in 0..1 /\ nq = n - 1 + ng  BY <1>3, <1>4, <1>5
  <2> HIDE DEF n, ng, nq, m
  <2>5. nq \in Int /\ nq <= n  BY <2>3, <2>4
  <2>6. nq <= m + late'
    <3>1. CASE late' = late  BY <2>3, <2>5, <3>1, <1>2
    <3>2. CASE late' = late + 1  BY <2>3, <2>5, <3>2, <1>2
    <3> QED  BY <2>2, <3>1, <3>2
  <2> QED  BY <2>6 DEF nq, m
<1>10. /\ queue' \in [Tabs -> Seq(Commands)]
       /\ \A u \in Tabs : Len(queue'[u]) <= MaxQueue[u] + MaxLate
       /\ QueueInv'
  <2> HIDE DEF q
  <2> QED  BY <1>5, <1>6, <1>8, <1>9, QueueChanged
<1>11. zero' \in zero..made  BY <1>2, <1>6
<1> HIDE DEF q, g
<1>12. /\ base' \in [Tabs -> Seq(Base)] /\ \A u \in Tabs : Len(base'[u]) <= 1
       /\ badge' \in Shown /\ live' \in [Tabs -> LiveValues]
       /\ BaseInv' /\ FaultIsTrue' /\ FaultIsShown'
  <2>1. CASE c.cmd \in {"status", "bare"} /\ Refresh(t, c.cmd = "status", made - zero, {})
    <3>1. zero' = zero  BY <1>6, <2>1
    <3> QED  BY <1>6, <2>1, <3>1, RefreshInv
  <2>2. CASE c.cmd \in {"status", "bare"} /\ Refresh(t, c.cmd = "status", 0, {"cut"})
    <3>1. zero' = zero  BY <1>6, <2>2
    <3> QED  BY <1>6, <2>2, <3>1, RefreshInv
  <2>3. CASE /\ base' = [u \in Tabs |->
                  LET b == IF u = t /\ known THEN NextBase(c.cmd, TRUE, base[u]) ELSE base[u]
                      blind == c.cmd \in {"reset", "clear"} /\ ~(u = t /\ known)
                  IN IF b # <<>> /\ blind THEN <<[b[1] EXCEPT !.hurt = @ \cup {"reset"}]>> ELSE b]
             /\ live' = IF known THEN [live EXCEPT ![t] = NextLive(c.cmd, TRUE, @)] ELSE live
             /\ badge' = badge
    <3>1. \A u \in Tabs :
            \/ base'[u] = <<>>
            \/ base'[u] = base[u] /\ zero' = zero
            \/ /\ base[u] # <<>>
               /\ base'[u] = <<[base[u][1] EXCEPT !.hurt = @ \cup {"reset"}]>>
      <4> SUFFICES ASSUME NEW u \in Tabs
                   PROVE  \/ base'[u] = <<>>
                          \/ base'[u] = base[u] /\ zero' = zero
                          \/ /\ base[u] # <<>>
                             /\ base'[u] = <<[base[u][1] EXCEPT !.hurt = @ \cup {"reset"}]>>
        OBVIOUS
      <4>1. CASE u = t /\ known
        <5>1. base'[u] = NextBase(c.cmd, TRUE, base[u])  BY <2>3, <4>1
        <5> QED  BY <1>6, <5>1 DEF NextBase
      <4>2. CASE ~(u = t /\ known) /\ c.cmd \in {"reset", "clear"}  BY <2>3, <4>2
      <4>3. CASE ~(u = t /\ known) /\ c.cmd \notin {"reset", "clear"}
        BY <1>6, <2>3, <4>3
      <4> QED  BY <4>1, <4>2, <4>3
    <3>2. base' = [u \in Tabs |-> base'[u]]  BY <2>3
    <3>3. /\ base' \in [Tabs -> Seq(Base)] /\ \A u \in Tabs : Len(base'[u]) <= 1
          /\ BaseInv'
      BY <1>6, <1>11, <3>1, <3>2, BaseChanged
    <3>4. badge' \in Shown /\ FaultIsTrue' /\ FaultIsShown'
      BY <2>3 DEF GuiInv, GuiTypeOK, FaultIsTrue, FaultIsShown
    <3>5. live' \in [Tabs -> LiveValues]
      <4>1. live' = live \/ live' = [live EXCEPT ![t] = NextLive(c.cmd, TRUE, live[t])]
        BY <2>3
      <4>2. GuiTypeOK  BY DEF GuiInv
      <4>3. [live EXCEPT ![t] = NextLive(c.cmd, TRUE, live[t])] \in [Tabs -> LiveValues]
        BY <4>2, LiveChanged
      <4> QED  BY <4>1, <4>2, <4>3 DEF GuiTypeOK, LiveValues
    <3> QED  BY <3>3, <3>4, <3>5
  <2> QED  BY <1>7, <2>1, <2>2, <2>3
<1>13. made' \in 0..MaxErrors /\ zero' \in 0..made' /\ late' \in 0..MaxLate
  BY <1>2, <1>6, <1>8 DEF GuiInv, GuiTypeOK
<1>14. GuiTypeOK'  BY <1>10, <1>12, <1>13 DEF GuiTypeOK, Commands, LiveValues
<1> QED  BY <1>10, <1>12, <1>14 DEF GuiInv

LEMMA GiveUpInv ==
  ASSUME GuiInv, NEW t \in Tabs, NEW i \in 1..(MaxQueue[t] + MaxLate), GiveUp(t, i)
  PROVE  GuiInv'
<1> DEFINE cmd == queue[t][i].cmd
<1>1. /\ queue[t] \in Seq(Commands) /\ i \in DOMAIN queue[t] /\ MaxQueue[t] \in Nat
      /\ Len(queue[t]) <= MaxQueue[t] + late /\ Len(queue[t]) \in Nat
  BY Types DEF GiveUp
<1>2. late \in Nat /\ MaxLate \in Nat /\ late < MaxLate /\ late' = late + 1
      /\ made \in Nat /\ zero \in 0..made
      /\ UNCHANGED <<badge, made, zero>>
  BY Types DEF GiveUp
<1>3. PICK q \in {RemoveAt(queue[t], i), [queue[t] EXCEPT ![i].awaited = "no"]} :
        queue' = [queue EXCEPT ![t] = q \o Goes(cmd, FALSE)]
  BY DEF GiveUp
<1>4. q \in Seq(Commands) /\ Len(q) <= Len(queue[t]) /\ Len(q) \in Nat
  <2>1. CASE q = RemoveAt(queue[t], i)
    <3>1. q \in Seq(Commands) /\ Len(q) = Len(queue[t]) - 1
      BY <1>1, <2>1, RemovedIsShorter
    <3>2. Len(q) \in Nat  BY <3>1, LenProperties
    <3> QED  BY <1>1, <3>1, <3>2
  <2>2. CASE q = [queue[t] EXCEPT ![i].awaited = "no"]
    <3>1. q \in Seq(Commands) /\ Len(q) = Len(queue[t])
      BY <1>1, <2>2, UnawaitedIsSame
    <3> QED  BY <1>1, <3>1
  <2> QED  BY <2>1, <2>2
<1>5. Goes(cmd, FALSE) \in Seq(Commands) /\ Len(Goes(cmd, FALSE)) \in 0..1
  BY GoesOnWithOne
<1> DEFINE all == q \o Goes(cmd, FALSE)
<1>6. all \in Seq(Commands) /\ Len(all) = Len(q) + Len(Goes(cmd, FALSE))
  BY <1>4, <1>5, ConcatProperties
<1>7. late' \in late..MaxLate /\ Len(all) <= MaxQueue[t] + late'
  <2> DEFINE g == Goes(cmd, FALSE)
  <2>1. Len(all) = Len(q) + Len(g) /\ Len(g) \in 0..1  BY <1>5, <1>6
  <2>2. late' \in late..MaxLate  BY <1>2
  <2> DEFINE n == Len(queue[t])
             ng == Len(g)
             nq == Len(q)
             na == Len(all)
             m == MaxQueue[t]
  <2>3. n \in Nat /\ n <= m + late /\ m \in Nat /\ nq \in Nat /\ nq <= n  BY <1>1, <1>4
  <2>4. ng \in 0..1 /\ na = nq + ng  BY <2>1
  <2> HIDE DEF n, ng, nq, na, m
  <2>5. na <= m + late'  BY <1>2, <2>3, <2>4
  <2> QED  BY <2>2, <2>5 DEF na, m
<1>8. /\ queue' \in [Tabs -> Seq(Commands)]
      /\ \A u \in Tabs : Len(queue'[u]) <= MaxQueue[u] + MaxLate
      /\ QueueInv'
  <2>1. queue' = [queue EXCEPT ![t] = all]  BY <1>3
  <2> HIDE DEF all
  <2> QED  BY <1>6, <1>7, <2>1, QueueChanged
<1>9. base' = [base EXCEPT ![t] = NextBase(cmd, FALSE, base[t])]  BY DEF GiveUp
<1>10. base \in [Tabs -> Seq(Base)]  BY DEF GuiInv, GuiTypeOK
<1>11. \A u \in Tabs : base'[u] = <<>> \/ (base'[u] = base[u] /\ zero' = zero)
  BY <1>2, <1>9, <1>10, BaseKeptOrForgotten
<1>12. base' = [u \in Tabs |-> base'[u]]  BY <1>9, <1>10
<1>13. zero' \in zero..made  BY <1>2
<1>14. /\ base' \in [Tabs -> Seq(Base)] /\ \A u \in Tabs : Len(base'[u]) <= 1
       /\ BaseInv'
  BY <1>2, <1>11, <1>12, <1>13, BaseChanged
<1>15. GuiTypeOK'
  <2>1. made' \in 0..MaxErrors /\ zero' \in 0..made' /\ late' \in 0..MaxLate
    BY <1>2, Types
  <2>2. badge' \in Shown  BY <1>2 DEF GuiInv, GuiTypeOK
  <2>3. live' = [live EXCEPT ![t] = NextLive(cmd, FALSE, live[t])]  BY DEF GiveUp
  <2>4. live' \in [Tabs -> LiveValues]  BY <2>3, LiveChanged DEF GuiInv
  <2> HIDE DEF all, cmd
  <2> QED  BY <1>8, <1>14, <2>1, <2>2, <2>4 DEF GuiTypeOK, Commands, LiveValues
<1>16. FaultIsTrue' /\ FaultIsShown'  BY <1>2 DEF GuiInv, FaultIsTrue, FaultIsShown
<1> QED  BY <1>8, <1>14, <1>15, <1>16 DEF GuiInv

LEMMA GuiNextInv == GuiInv /\ [GuiNext]_guiVars => GuiInv'
<1> SUFFICES ASSUME GuiInv, [GuiNext]_guiVars PROVE GuiInv'  OBVIOUS
<1>1. CASE BoardErrs  BY <1>1, BoardErrsInv
<1>2. ASSUME NEW t \in Tabs, NEW cmd \in Pressed[t], Press(t, cmd)
      PROVE  GuiInv'
  BY <1>2, PressInv
<1>3. ASSUME NEW t \in Tabs, Serve(t) PROVE GuiInv'  BY <1>3, ServeInv
<1>6. ASSUME NEW t \in Tabs, ServeHead(t) PROVE GuiInv'  BY <1>6, ServeHeadInv
<1>4. ASSUME NEW t \in Tabs, NEW i \in 1..(MaxQueue[t] + MaxLate), GiveUp(t, i)
      PROVE  GuiInv'
  BY <1>4, GiveUpInv
<1>5. CASE UNCHANGED guiVars
  BY <1>5 DEF guiVars, GuiInv, GuiTypeOK, QueueInv, BaseInv, FaultIsTrue, FaultIsShown
<1> QED  BY <1>1, <1>2, <1>3, <1>4, <1>5, <1>6 DEF GuiNext

-----------------------------------------------------------------------------
(* The theorems.                                                           *)

THEOREM GuiInductive == GuiSpec => []GuiInv
BY GuiInitInv, GuiNextInv, PTL DEF GuiSpec

\* Type correctness, with the bound on each tab's commands in flight.
THEOREM GuiTypeCorrect == GuiSpec => []GuiTypeOK
BY GuiInductive, PTL DEF GuiInv

\* A FAULT that a tab of the KFDX page shows is true: errors were made after
\* its errBase was read, whoever reset the board and whatever was given up.
THEOREM FaultTrue == GuiSpec => []FaultIsTrue
BY GuiInductive, PTL DEF GuiInv

\* And an error made since the base is shown, unless a reset the tab did not see
\* came in between, an answer came without counters, or the tab is idle: it has
\* not started a measurement nor been told a Max Jitter since its last reset.
THEOREM FaultShown == GuiSpec => []FaultIsShown
BY GuiInductive, PTL DEF GuiInv

-----------------------------------------------------------------------------
(***************************************************************************)
(* D10Dashboard.                                                           *)
(***************************************************************************)

\* The readings of n that are on their way or kept, and what one is worth now.
Held(n) == {polls[i].rx[n] : i \in 1..Len(polls)} \cup {prev[i][n] : i \in 1..Len(prev)}
Now(n) == [ok |-> "yes", rx |-> count[n], bursts |-> bursts, cleared |-> cleared]

\* A reading is of the past; what was read since the last burst is still so, or
\* has been cleared.
PastInv ==
  \A n \in Net : \A r \in Held(n) : r.ok = "yes" =>
    /\ r.bursts <= bursts /\ r.cleared <= cleared
    /\ r.bursts = bursts /\ r.cleared = cleared => r.rx = count[n]
    /\ r.bursts = bursts /\ r.cleared < cleared => count[n] = 0

\* Between two readings with no burst between them a counter stays, or is cleared.
SameInv ==
  \A n \in Net : \A r, s \in Held(n) :
    r.ok = "yes" /\ s.ok = "yes" /\ r.bursts = s.bursts =>
      /\ r.cleared = s.cleared => r.rx = s.rx
      /\ r.cleared < s.cleared => s.rx = 0

\* Networks that lost like parts count alike.
AlikeInv ==
  lossy = "no" =>
    /\ count["A"] = count["B"]
    /\ \A r \in Held("A"), s \in Held("B") :
         /\ r.ok = "yes" /\ s.ok = "yes"
         /\ r.bursts = s.bursts /\ r.cleared = s.cleared /\ r.cleared = cleared
         => r.rx = s.rx

\* What is shown is of the snapshot that is kept.
ShownInv ==
  IF prev = <<>> THEN shown.flow = {} /\ shown.verdict = "none"
  ELSE shown.verdict = VerdictOn(shown.flow, prev[1]["A"].rx, prev[1]["B"].rx)

CountInv == cleared <= mishaps /\ \A n \in Net : count[n] <= bursts * Burst

DashInv == /\ DashTypeOK /\ CountInv /\ PastInv /\ SameInv /\ AlikeInv
        /\ ShownInv /\ FlowIsReal

-----------------------------------------------------------------------------
(* Sequences of snapshots.                                                 *)

\* What stays of a sequence when one element is taken out of it.
LEMMA Removed ==
  ASSUME NEW S, NEW s \in Seq(S), NEW i \in 1..Len(s), NEW t, t = RemoveAt(s, i)
  PROVE  /\ t \in Seq(S) /\ Len(t) = Len(s) - 1
         /\ \A j \in 1..Len(t) : \E k \in 1..Len(s) : t[j] = s[k]
<1>1. Len(s) \in Nat /\ i \in Nat /\ i >= 1 /\ i <= Len(s)  BY LenProperties
<1>2. PICK a : a = SubSeq(s, 1, i - 1)  OBVIOUS
<1>3. PICK b : b = SubSeq(s, i + 1, Len(s))  OBVIOUS
<1>4. a \in Seq(S) /\ Len(a) = i - 1 /\ \A j \in 1..i-1 : a[j] = s[j]
  <2>1. \A j \in 1..i-1 : s[j] \in S  BY <1>1, ElementOfSeq
  <2> QED  BY <1>1, <1>2, <2>1, SubSeqProperties
<1>5. b \in Seq(S) /\ Len(b) = Len(s) - i /\ \A j \in 1..Len(s)-i : b[j] = s[i + j]
  <2>1. \A j \in i+1..Len(s) : s[j] \in S  BY <1>1, ElementOfSeq
  <2> QED  BY <1>1, <1>3, <2>1, SubSeqProperties
<1>6. t = a \o b  BY <1>2, <1>3 DEF RemoveAt
<1>7. /\ t \in Seq(S) /\ Len(t) = Len(s) - 1
      /\ \A j \in 1..Len(a) + Len(b) : t[j] = IF j <= Len(a) THEN a[j] ELSE b[j - Len(a)]
  BY <1>1, <1>4, <1>5, <1>6, ConcatProperties
<1>8. ASSUME NEW j \in 1..Len(t) PROVE \E k \in 1..Len(s) : t[j] = s[k]
  <2>1. CASE j <= i - 1
    <3>1. j \in 1..i-1 /\ j \in 1..Len(s) /\ j \in 1..Len(a) + Len(b) /\ j <= Len(a)
      BY <1>1, <1>4, <1>5, <1>7, <2>1
    <3>2. t[j] = a[j]  BY <1>7, <3>1
    <3>3. t[j] = s[j]  BY <1>4, <3>1, <3>2
    <3> QED  BY <3>1, <3>3
  <2>2. CASE j > i - 1
    <3>1. j - (i - 1) \in 1..Len(s)-i /\ j + 1 \in 1..Len(s) /\ i + (j - (i - 1)) = j + 1
      BY <1>1, <1>7, <2>2
    <3>2. t[j] = b[j - (i - 1)]  BY <1>1, <1>4, <1>5, <1>7, <2>2
    <3>3. t[j] = s[j + 1]  BY <1>5, <3>1, <3>2
    <3> QED  BY <3>1, <3>3
  <2> QED  BY <1>1, <1>7, <2>1, <2>2
<1> QED  BY <1>7, <1>8

LEMMA Times ==
  ASSUME NEW a \in Nat, NEW b \in Nat, NEW k \in Nat, a <= b
  PROVE  a * k \in Nat /\ a * k <= b * k /\ (a + 1) * k = a * k + k
  OBVIOUS

-----------------------------------------------------------------------------
(* The switch.                                                             *)

LEMMA NowIsReading ==
  ASSUME DashTypeOK, CountInv, NEW n \in Net
  PROVE  Now(n) \in Reading /\ count[n] \in Nat
<1>1. count[n] \in 0..(MaxBursts * Burst)  BY DEF DashTypeOK
<1> QED  BY <1>1, DashboardAssumption DEF DashTypeOK, Now, Reading

\* What a burst adds to each counter.
LEMMA BurstStep ==
  ASSUME DashTypeOK, SendBurst
  PROVE  \E g \in [Net -> 0..Burst] :
           /\ count' = [n \in Net |-> count[n] + g[n]]
           /\ lossy' = IF g["A"] # g["B"] THEN "yes" ELSE lossy
<1>1. PICK a \in Losses["A"], b \in Losses["B"] :
        LET lost == [A |-> a, B |-> b]
            got == [n \in Net |-> IF n \in up THEN Burst - lost[n] ELSE 0]
        IN /\ count' = [n \in Net |-> count[n] + got[n]]
           /\ lossy' = IF got["A"] # got["B"] THEN "yes" ELSE lossy
  BY DEF SendBurst
<1> DEFINE lost == [A |-> a, B |-> b]
           got == [n \in Net |-> IF n \in up THEN Burst - lost[n] ELSE 0]
<1>2. a \in 0..Burst /\ b \in 0..Burst /\ Burst \in Nat
  BY DashboardAssumption DEF Net
<1>3. \A n \in Net : lost[n] \in 0..Burst  BY <1>2 DEF Net
<1>4. got \in [Net -> 0..Burst]  BY <1>2, <1>3
<1> QED  BY <1>1, <1>4

LEMMA BurstType ==
  ASSUME DashTypeOK, CountInv, SendBurst
  PROVE  DashTypeOK' /\ CountInv'
<1>1. PICK g \in [Net -> 0..Burst] :
        /\ count' = [n \in Net |-> count[n] + g[n]]
        /\ lossy' = IF g["A"] # g["B"] THEN "yes" ELSE lossy
  BY BurstStep
<1>2. /\ bursts \in Nat /\ MaxBursts \in Nat /\ Burst \in Nat
      /\ bursts' = bursts + 1 /\ bursts' <= MaxBursts
  BY DashboardAssumption DEF DashTypeOK, SendBurst
<1>3. \A n \in Net : count[n] \in Nat /\ count[n] <= bursts * Burst
  BY DashboardAssumption DEF DashTypeOK, CountInv
<1>4. \A n \in Net : g[n] \in Nat /\ g[n] <= Burst  BY <1>2
<1>5. bursts * Burst \in Nat /\ bursts' * Burst = bursts * Burst + Burst  BY <1>2, Times
<1>6. bursts' * Burst <= MaxBursts * Burst /\ MaxBursts * Burst \in Nat  BY <1>2, Times
<1>7. \A n \in Net : count'[n] \in Nat /\ count'[n] <= bursts' * Burst
  BY <1>1, <1>2, <1>3, <1>4, <1>5
<1>8. \A n \in Net : count'[n] \in 0..(MaxBursts * Burst)
  BY <1>2, <1>5, <1>6, <1>7
<1>9. count' \in [Net -> 0..(MaxBursts * Burst)]  BY <1>1, <1>8
<1>10. bursts' \in 0..MaxBursts /\ lossy' \in {"yes", "no"}
  BY <1>1, <1>2 DEF DashTypeOK
<1>11. UNCHANGED <<up, frer, cleared, polls, prev, older, shown, basis, mishaps>>
  BY DEF SendBurst, pageVars
<1> QED  BY <1>7, <1>9, <1>10, <1>11 DEF DashTypeOK, CountInv

LEMMA ClearType ==
  ASSUME DashTypeOK, CountInv, ClearCounters
  PROVE  DashTypeOK' /\ CountInv'
<1>1. UNCHANGED <<up, frer, bursts, polls, prev, older, shown, basis>>
  BY DEF ClearCounters, pageVars
<1>2. /\ MaxMishaps \in Nat /\ mishaps \in 0..MaxMishaps /\ cleared \in Nat
      /\ bursts \in Nat /\ Burst \in Nat /\ MaxBursts \in Nat
  BY DashboardAssumption DEF DashTypeOK
<1>3. cleared' \in 0..MaxMishaps /\ mishaps' \in 0..MaxMishaps /\ cleared' <= mishaps'
  BY <1>2 DEF ClearCounters, Mishap, CountInv
<1>4. bursts * Burst \in Nat /\ MaxBursts * Burst \in Nat  BY <1>2, Times
<1>5. count' = [n \in Net |-> 0] /\ lossy' = "no"  BY DEF ClearCounters
<1>6. count' \in [Net -> 0..(MaxBursts * Burst)] /\ \A n \in Net : count'[n] <= bursts' * Burst
  BY <1>1, <1>4, <1>5
<1> QED  BY <1>1, <1>3, <1>5, <1>6 DEF DashTypeOK, CountInv

LEMMA SwitchType ==
  ASSUME DashTypeOK, CountInv, ChangeFrer \/ \E n \in Net : ChangeLink(n)
  PROVE  DashTypeOK' /\ CountInv'
<1>1. UNCHANGED <<count, bursts, cleared, lossy, polls, prev, older, shown, basis>>
  BY DEF ChangeFrer, ChangeLink, pageVars
<1>2. mishaps \in Nat /\ mishaps' \in 0..MaxMishaps /\ mishaps' = mishaps + 1 /\ cleared \in Nat
  BY DashboardAssumption DEF DashTypeOK, ChangeFrer, ChangeLink, Mishap
<1>3. cleared <= mishaps'  BY <1>2 DEF CountInv
<1>4. frer' \in {"yes", "no"} /\ up' \in SUBSET Net
  BY DEF DashTypeOK, ChangeFrer, ChangeLink
<1> QED  BY <1>1, <1>2, <1>3, <1>4 DEF DashTypeOK, CountInv

-----------------------------------------------------------------------------
(* The proxy and the page.                                                 *)

LEMMA StartStep ==
  ASSUME DashTypeOK, StartPoll
  PROVE  /\ polls' \in Seq(Snapshot) /\ Len(polls') = Len(polls) + 1 /\ Len(polls) \in Nat
         /\ \A j \in 1..Len(polls) : polls'[j] = polls[j]
         /\ polls'[Len(polls) + 1] = NewPoll
         /\ Len(polls') <= MaxPolls /\ older' = older
<1>1. NoReading \in Reading
  BY DashboardAssumption, Times DEF NoReading, Reading
<1>2. NewPoll \in Snapshot  BY <1>1 DEF NewPoll, Snapshot, Stage, Net
<1>3. polls \in Seq(Snapshot) /\ Len(polls) \in Nat  BY LenProperties DEF DashTypeOK
<1>4. polls' = Append(polls, NewPoll)  BY DEF StartPoll
<1>5. Len(polls) < MaxPolls /\ MaxPolls \in Nat /\ older' = older
  BY DashboardAssumption DEF StartPoll, pageVars
<1> QED  BY <1>2, <1>3, <1>4, <1>5, AppendProperties

\* An RPC makes one reading, or none, of one snapshot.
LEMMA ReadStep ==
  ASSUME DashTypeOK, CountInv, NEW i \in 1..MaxPolls, Read(i)
  PROVE  /\ i \in 1..Len(polls)
         /\ \E q \in Snapshot : /\ polls' = [polls EXCEPT ![i] = q]
                                /\ \A n \in Net : q.rx[n] \in {polls[i].rx[n], Now(n)}
<1>1. polls \in Seq(Snapshot) /\ i \in 1..Len(polls)
  BY LenProperties DEF DashTypeOK, Read
<1>2. PICK p : p = polls[i]  OBVIOUS
<1>3. p \in Snapshot /\ p.at \in Stage /\ p.at # "sent" /\ p.rx \in [Net -> Reading]
  <2>1. p \in Snapshot  BY <1>1, <1>2, ElementOfSeq
  <2> QED  BY <1>2, <2>1 DEF Snapshot, Read
<1>4. PICK a : a = After(p.at)  OBVIOUS
<1>5. a \in Stage  BY <1>3, <1>4 DEF After, Stage
<1>6. CASE p.at = "ports" /\ polls' = [polls EXCEPT ![i] = [[p EXCEPT !.up = up] EXCEPT !.at = a]]
  <2>1. PICK q : q = [[p EXCEPT !.up = up] EXCEPT !.at = a]  OBVIOUS
  <2>2. q \in Snapshot /\ q.rx = p.rx  BY <1>3, <1>5, <2>1 DEF Snapshot, DashTypeOK
  <2> QED  BY <1>1, <1>2, <1>6, <2>1, <2>2
<1>7. CASE p.at = "frer" /\ polls' = [polls EXCEPT ![i] = [[p EXCEPT !.frer = frer] EXCEPT !.at = a]]
  <2>1. PICK q : q = [[p EXCEPT !.frer = frer] EXCEPT !.at = a]  OBVIOUS
  <2>2. q \in Snapshot /\ q.rx = p.rx  BY <1>3, <1>5, <2>1 DEF Snapshot, DashTypeOK
  <2> QED  BY <1>1, <1>2, <1>7, <2>1, <2>2
<1>8. CASE /\ p.at \in Net
           /\ polls' = [polls EXCEPT ![i] = [[p EXCEPT !.rx[p.at] = Now(p.at)] EXCEPT !.at = a]]
  <2>1. PICK m : m = [p.rx EXCEPT ![p.at] = Now(p.at)]  OBVIOUS
  <2>2. m \in [Net -> Reading] /\ \A n \in Net : m[n] \in {p.rx[n], Now(n)}
    BY <1>3, <1>8, <2>1, NowIsReading
  <2>3. PICK q : q = [[p EXCEPT !.rx = m] EXCEPT !.at = a]  OBVIOUS
  <2>4. q \in Snapshot /\ q.rx = m  BY <1>3, <1>5, <2>2, <2>3 DEF Snapshot
  <2>5. polls' = [polls EXCEPT ![i] = q]  BY <1>3, <1>8, <2>1, <2>3 DEF Snapshot
  <2> QED  BY <1>1, <1>2, <2>2, <2>4, <2>5
<1>9. CASE polls' = [polls EXCEPT ![i] = [p EXCEPT !.at = a]]
  <2>1. PICK q : q = [p EXCEPT !.at = a]  OBVIOUS
  <2>2. q \in Snapshot /\ q.rx = p.rx  BY <1>3, <1>5, <2>1 DEF Snapshot
  <2> QED  BY <1>1, <1>2, <1>9, <2>1, <2>2
<1>10. p.at \in {"ports", "frer"} \cup Net  BY <1>3 DEF Stage, Net
<1> QED  BY <1>2, <1>4, <1>6, <1>7, <1>8, <1>9, <1>10 DEF Read, Now, Net

\* A snapshot that is rendered or lost is not in flight any more.
LEMMA TookStep ==
  ASSUME DashTypeOK, NEW i \in 1..Len(polls), Took(i)
  PROVE  /\ polls' \in Seq(Snapshot) /\ Len(polls') = Len(polls) - 1 /\ Len(polls) \in Nat
         /\ \A j \in 1..Len(polls') : \E k \in 1..Len(polls) : polls'[j] = polls[k]
<1>1. polls \in Seq(Snapshot)  BY DEF DashTypeOK
<1> QED  BY <1>1, LenProperties, Removed DEF Took

LEMMA ProxyType ==
  ASSUME DashTypeOK, CountInv,
         \/ StartPoll \/ \E i \in 1..MaxPolls : Read(i) \/ LosePoll(i)
  PROVE  DashTypeOK' /\ CountInv'
<1>1. UNCHANGED <<count, up, frer, bursts, cleared, lossy, prev, shown, basis>>
  BY DEF StartPoll, Read, LosePoll, switchVars, pageVars
<1>2. mishaps' \in 0..MaxMishaps /\ cleared <= mishaps'
  <2>1. mishaps' = mishaps \/ Mishap  BY DEF StartPoll, Read, LosePoll
  <2>2. mishaps \in 0..MaxMishaps /\ MaxMishaps \in Nat /\ cleared \in Nat /\ cleared <= mishaps
    BY DashboardAssumption DEF DashTypeOK, CountInv
  <2> QED  BY <2>1, <2>2 DEF Mishap
<1>3. polls \in Seq(Snapshot) /\ Len(polls) <= MaxPolls /\ older \in 0..Len(polls) /\ MaxPolls \in Nat
  BY DashboardAssumption DEF DashTypeOK
<1>4. Len(polls) \in Nat  BY <1>3, LenProperties
<1>5. polls' \in Seq(Snapshot) /\ Len(polls') <= MaxPolls /\ older' \in 0..Len(polls')
  <2>1. CASE StartPoll  BY <1>3, <2>1, StartStep
  <2>2. ASSUME NEW i \in 1..MaxPolls, Read(i)
        PROVE  polls' \in Seq(Snapshot) /\ Len(polls') <= MaxPolls /\ older' \in 0..Len(polls')
    <3>1. PICK q \in Snapshot : i \in 1..Len(polls) /\ polls' = [polls EXCEPT ![i] = q]
      BY <2>2, ReadStep
    <3>2. polls' \in Seq(Snapshot) /\ Len(polls') = Len(polls)  BY <1>3, <3>1, ExceptSeq
    <3> QED  BY <1>3, <2>2, <3>2 DEF Read, pageVars
  <2>3. ASSUME NEW i \in 1..MaxPolls, LosePoll(i)
        PROVE  polls' \in Seq(Snapshot) /\ Len(polls') <= MaxPolls /\ older' \in 0..Len(polls')
    <3>1. i \in 1..Len(polls) /\ older' = IF i <= older THEN older - 1 ELSE older
      BY <1>3, <2>3, LenProperties DEF LosePoll
    <3>2. polls' \in Seq(Snapshot) /\ Len(polls') = Len(polls) - 1
      BY <2>3, <3>1, TookStep DEF LosePoll
    <3> QED  BY <1>3, <1>4, <3>1, <3>2
  <2> QED  BY <2>1, <2>2, <2>3
<1> QED  BY <1>1, <1>2, <1>5 DEF DashTypeOK, CountInv

LEMMA RenderType ==
  ASSUME DashTypeOK, CountInv, NEW i \in 1..MaxPolls, Render(i)
  PROVE  DashTypeOK' /\ CountInv'
<1>1. UNCHANGED <<count, up, frer, bursts, cleared, lossy, mishaps>>
  BY DEF Render, switchVars
<1>2. polls \in Seq(Snapshot) /\ Len(polls) <= MaxPolls /\ MaxPolls \in Nat /\ Len(polls) \in Nat
  BY DashboardAssumption, LenProperties DEF DashTypeOK
<1>3. i \in 1..Len(polls) /\ older' = i - 1  BY <1>2, LenProperties DEF Render
<1>4. polls' \in Seq(Snapshot) /\ Len(polls') = Len(polls) - 1
  BY <1>3, TookStep DEF Render
<1>5. PICK p : p = polls[i]  OBVIOUS
<1>6. p \in Snapshot /\ p.rx \in [Net -> Reading] /\ p.up \in SUBSET Net /\ p.frer \in {"yes", "no"}
  <2>1. p \in Snapshot  BY <1>2, <1>3, <1>5, ElementOfSeq
  <2> QED  BY <2>1 DEF Snapshot
<1>7. prev' = <<p.rx>>  BY <1>5 DEF Render, Keep
<1>8. /\ prev' \in Seq([Net -> Reading]) /\ Len(prev') = 1 /\ prev' # <<>> /\ prev'[1] = p.rx
  BY <1>6, <1>7
<1>9. /\ shown'.flow \subseteq Net /\ shown'.up = p.up /\ shown'.frer = p.frer
      /\ shown'.rx = [n \in Net |-> p.rx[n].rx]
      /\ shown'.verdict = VerdictOn(shown'.flow, p.rx["A"].rx, p.rx["B"].rx)
  BY <1>5 DEF Render
<1>10. shown'.verdict \in Verdict /\ shown'.verdict # "none"
  BY <1>9 DEF VerdictOn, Verdict
<1>11. basis'.burst \subseteq Net /\ basis'.doubt \subseteq Net
  BY DEF Render, DashTypeOK
<1> QED
  BY <1>1, <1>2, <1>3, <1>4, <1>6, <1>8, <1>9, <1>10, <1>11 DEF DashTypeOK, CountInv

-----------------------------------------------------------------------------
(* Readings.                                                               *)

LEMMA HeldTyped ==
  ASSUME DashTypeOK, NEW n \in Net
  PROVE  \A r \in Held(n) : r.bursts \in Nat /\ r.cleared \in Nat /\ r.rx \in Nat
                           /\ r.ok \in {"yes", "no"}
<1>1. \A i \in 1..Len(polls) : polls[i].rx[n] \in Reading
  <2>1. \A i \in 1..Len(polls) : polls[i] \in Snapshot  BY ElementOfSeq DEF DashTypeOK
  <2> QED  BY <2>1 DEF Snapshot
<1>2. \A i \in 1..Len(prev) : prev[i][n] \in Reading
  <2>1. \A i \in 1..Len(prev) : prev[i] \in [Net -> Reading]  BY ElementOfSeq DEF DashTypeOK
  <2> QED  BY <2>1
<1>3. \A r \in Held(n) : r \in Reading  BY <1>1, <1>2 DEF Held
<1> QED  BY <1>3 DEF Reading

\* No step of proxy or page makes a reading of anything but the present.
LEMMA ProxyHeld ==
  ASSUME DashTypeOK, CountInv, NEW n \in Net,
         \/ StartPoll \/ \E i \in 1..MaxPolls : Read(i) \/ LosePoll(i)
  PROVE  Held(n)' \subseteq Held(n) \cup {NoReading, Now(n)}
<1>1. prev' = prev  BY DEF StartPoll, Read, LosePoll, pageVars
<1>2. polls \in Seq(Snapshot) /\ Len(polls) \in Nat  BY LenProperties DEF DashTypeOK
<1>3. \A j \in 1..Len(polls) : polls[j].rx[n] \in Held(n)  BY DEF Held
<1>4. \A j \in 1..Len(polls') : polls'[j].rx[n] \in Held(n) \cup {NoReading, Now(n)}
  <2>1. CASE StartPoll
    <3>1. /\ Len(polls') = Len(polls) + 1 /\ \A j \in 1..Len(polls) : polls'[j] = polls[j]
          /\ polls'[Len(polls) + 1] = NewPoll
      BY <2>1, StartStep
    <3>2. NewPoll.rx[n] = NoReading  BY DEF NewPoll
    <3> QED  BY <1>2, <1>3, <3>1, <3>2
  <2>2. ASSUME NEW i \in 1..MaxPolls, Read(i), NEW j \in 1..Len(polls')
        PROVE  polls'[j].rx[n] \in Held(n) \cup {NoReading, Now(n)}
    <3>1. PICK q \in Snapshot : /\ i \in 1..Len(polls) /\ polls' = [polls EXCEPT ![i] = q]
                                /\ q.rx[n] \in {polls[i].rx[n], Now(n)}
      BY <2>2, ReadStep
    <3>2. Len(polls') = Len(polls) /\ polls'[j] = IF j = i THEN q ELSE polls[j]
      BY <1>2, <2>2, <3>1, ExceptSeq
    <3> QED  BY <1>3, <2>2, <3>1, <3>2
  <2>3. ASSUME NEW i \in 1..MaxPolls, LosePoll(i), NEW j \in 1..Len(polls')
        PROVE  polls'[j].rx[n] \in Held(n)
    <3>1. i \in 1..Len(polls)  BY <1>2, <2>3, LenProperties DEF LosePoll
    <3>2. PICK k \in 1..Len(polls) : polls'[j] = polls[k]
      BY <2>3, <3>1, TookStep DEF LosePoll
    <3> QED  BY <1>3, <3>2
  <2> QED  BY <2>1, <2>2, <2>3
<1> QED  BY <1>1, <1>4 DEF Held

LEMMA RenderHeld ==
  ASSUME DashTypeOK, CountInv, NEW i \in 1..MaxPolls, Render(i), NEW n \in Net
  PROVE  /\ i \in 1..Len(polls) /\ prev' = <<polls[i].rx>> /\ polls[i].rx[n] \in Held(n)
         /\ Held(n)' \subseteq Held(n)
<1>1. polls \in Seq(Snapshot) /\ Len(polls) \in Nat  BY LenProperties DEF DashTypeOK
<1>2. i \in 1..Len(polls)  BY <1>1, LenProperties DEF Render
<1>3. prev' = <<polls[i].rx>>  BY DEF Render, Keep
<1>4. \A j \in 1..Len(polls) : polls[j].rx[n] \in Held(n)  BY DEF Held
<1>5. \A j \in 1..Len(prev') : prev'[j][n] \in Held(n)
  <2>1. Len(prev') = 1 /\ prev'[1] = polls[i].rx  BY <1>3
  <2> QED  BY <1>2, <1>4, <2>1
<1>6. \A j \in 1..Len(polls') : polls'[j].rx[n] \in Held(n)
  <2> SUFFICES ASSUME NEW j \in 1..Len(polls') PROVE polls'[j].rx[n] \in Held(n)
    OBVIOUS
  <2>1. PICK k \in 1..Len(polls) : polls'[j] = polls[k]  BY <1>2, TookStep DEF Render
  <2> QED  BY <1>4, <2>1
<1> QED  BY <1>2, <1>3, <1>4, <1>5, <1>6 DEF Held

ReadingInv == PastInv /\ SameInv /\ AlikeInv

\* Readings stay right as the proxy makes them of the present only.
LEMMA ReadingsStay ==
  ASSUME DashTypeOK, ReadingInv, UNCHANGED <<count, bursts, cleared, lossy>>,
         \A n \in Net : Held(n)' \subseteq Held(n) \cup {NoReading, Now(n)}
  PROVE  ReadingInv'
<1> USE DEF ReadingInv
<1>1. \A n \in Net : \A r \in Held(n) : r.bursts \in Nat /\ r.cleared \in Nat
  BY HeldTyped
<1>2. bursts \in Nat /\ cleared \in Nat  BY DashboardAssumption DEF DashTypeOK
<1>3. NoReading.ok = "no"  BY DEF NoReading
<1>4. \A n \in Net : Now(n).bursts = bursts /\ Now(n).cleared = cleared /\ Now(n).rx = count[n]
  BY DEF Now
<1>5. \A n \in Net : \A r \in Held(n)' : r.ok = "yes" => r \in Held(n) \/ r = Now(n)
  BY <1>3
<1>6. PastInv'  BY <1>2, <1>4, <1>5 DEF PastInv
<1>7. SameInv'
  <2> SUFFICES ASSUME NEW n \in Net, NEW r \in Held(n)', NEW s \in Held(n)',
                      r.ok = "yes", s.ok = "yes", r.bursts = s.bursts
               PROVE  /\ r.cleared = s.cleared => r.rx = s.rx
                      /\ r.cleared < s.cleared => s.rx = 0
    BY DEF SameInv
  <2>1. CASE r \in Held(n) /\ s \in Held(n)  BY <2>1 DEF SameInv
  <2>2. CASE r \in Held(n) /\ s = Now(n)  BY <1>1, <1>2, <1>4, <2>2 DEF PastInv
  <2>3. CASE r = Now(n) /\ s \in Held(n)  BY <1>1, <1>2, <1>4, <2>3 DEF PastInv
  <2>4. CASE r = Now(n) /\ s = Now(n)  BY <1>2, <1>4, <2>4
  <2> QED  BY <1>5, <2>1, <2>2, <2>3, <2>4
<1>8. AlikeInv'
  <2> SUFFICES ASSUME lossy = "no"
               PROVE  /\ count["A"] = count["B"]
                      /\ \A r \in Held("A")', s \in Held("B")' :
                           /\ r.ok = "yes" /\ s.ok = "yes"
                           /\ r.bursts = s.bursts /\ r.cleared = s.cleared /\ r.cleared = cleared
                           => r.rx = s.rx
    BY DEF AlikeInv
  <2> SUFFICES ASSUME NEW r \in Held("A")', NEW s \in Held("B")', r.ok = "yes", s.ok = "yes",
                      r.bursts = s.bursts, r.cleared = s.cleared, r.cleared = cleared
               PROVE  r.rx = s.rx
    BY DEF AlikeInv
  <2>0. "A" \in Net /\ "B" \in Net /\ count["A"] = count["B"]  BY DEF Net, AlikeInv
  <2>1. r \in Held("A") \/ r = Now("A")  BY <1>5, <2>0
  <2>2. s \in Held("B") \/ s = Now("B")  BY <1>5, <2>0
  <2>3. CASE r \in Held("A") /\ s \in Held("B")  BY <2>3 DEF AlikeInv
  <2>4. CASE r = Now("A")
    <3>1. r.bursts = bursts /\ r.rx = count["A"]  BY <1>4, <2>0, <2>4
    <3>2. s.rx = count["B"]  BY <1>4, <2>0, <2>2, <3>1 DEF PastInv
    <3> QED  BY <2>0, <3>1, <3>2
  <2>5. CASE s = Now("B")
    <3>1. s.bursts = bursts /\ s.rx = count["B"]  BY <1>4, <2>0, <2>5
    <3>2. r.rx = count["A"]  BY <1>4, <2>0, <2>1, <3>1 DEF PastInv
    <3> QED  BY <2>0, <3>1, <3>2
  <2> QED  BY <2>1, <2>2, <2>3, <2>4, <2>5
<1> QED  BY <1>6, <1>7, <1>8

\* A burst makes every reading one of before it.
LEMMA BurstReadings ==
  ASSUME DashTypeOK, ReadingInv, SendBurst
  PROVE  ReadingInv'
<1> USE DEF ReadingInv
<1>1. PICK g \in [Net -> 0..Burst] :
        /\ count' = [n \in Net |-> count[n] + g[n]]
        /\ lossy' = IF g["A"] # g["B"] THEN "yes" ELSE lossy
  BY BurstStep
<1>2. \A n \in Net : Held(n)' = Held(n)  BY DEF SendBurst, pageVars, Held
<1>3. bursts' = bursts + 1 /\ cleared' = cleared /\ bursts \in Nat
  BY DashboardAssumption DEF SendBurst, DashTypeOK
<1>4. \A n \in Net : \A r \in Held(n) : r.bursts \in Nat  BY HeldTyped
<1>5. PastInv'
  <2>1. \A n \in Net : \A r \in Held(n) : r.ok = "yes" => r.bursts <= bursts /\ r.cleared <= cleared
    BY DEF PastInv
  <2>2. \A n \in Net : \A r \in Held(n) :
          r.ok = "yes" => r.bursts <= bursts' /\ r.bursts # bursts' /\ r.cleared <= cleared'
    BY <1>3, <1>4, <2>1
  <2> QED  BY <1>2, <2>2 DEF PastInv
<1>6. SameInv'  BY <1>2 DEF SameInv
<1>7. AlikeInv'  BY <1>1, <1>2, <1>3 DEF AlikeInv, Net
<1> QED  BY <1>5, <1>6, <1>7

\* Clearing makes every reading one of before it, or of a counter that is 0.
LEMMA ClearReadings ==
  ASSUME DashTypeOK, ReadingInv, ClearCounters
  PROVE  ReadingInv'
<1> USE DEF ReadingInv
<1>1. \A n \in Net : Held(n)' = Held(n)  BY DEF ClearCounters, pageVars, Held
<1>2. /\ bursts' = bursts /\ cleared' = cleared + 1 /\ cleared \in Nat
      /\ count' = [n \in Net |-> 0]
  BY DashboardAssumption DEF ClearCounters, DashTypeOK
<1>3. \A n \in Net : \A r \in Held(n) : r.cleared \in Nat  BY HeldTyped
<1>4. \A n \in Net : \A r \in Held(n) : r.ok = "yes" => r.bursts <= bursts /\ r.cleared <= cleared
  BY DEF PastInv
<1>5. \A n \in Net : \A r \in Held(n) :
        r.ok = "yes" => r.bursts <= bursts' /\ r.cleared <= cleared' /\ r.cleared # cleared'
  BY <1>2, <1>3, <1>4
<1>6. PastInv'  BY <1>1, <1>2, <1>5 DEF PastInv
<1>7. SameInv'  BY <1>1 DEF SameInv
<1>8. AlikeInv'
  <2>1. "A" \in Net /\ "B" \in Net /\ count'["A"] = count'["B"]  BY <1>2 DEF Net
  <2> QED  BY <1>1, <1>5, <2>1 DEF AlikeInv
<1> QED  BY <1>6, <1>7, <1>8

-----------------------------------------------------------------------------
(* What is shown.                                                          *)

LEMMA RenderShows ==
  ASSUME DashTypeOK, CountInv, SameInv, NEW i \in 1..MaxPolls, Render(i)
  PROVE  ShownInv' /\ (FlowIsReal => FlowIsReal')
<1>1. PICK p : p = polls[i]  OBVIOUS
<1>2. /\ prev' = <<p.rx>> /\ prev' # <<>> /\ prev'[1] = p.rx
      /\ shown'.verdict = VerdictOn(shown'.flow, p.rx["A"].rx, p.rx["B"].rx)
  BY <1>1 DEF Render, Keep
<1>3. ShownInv'  BY <1>2 DEF ShownInv
<1>4. CASE prev = <<>>
  <2>1. shown'.flow = {}  BY <1>4 DEF Render
  <2> QED  BY <1>3, <2>1 DEF FlowIsReal
<1>5. CASE prev # <<>>
  <2>1. PICK later : later = (i > older)  OBVIOUS
  <2>2. /\ shown'.flow = {n \in Net : Faster(p.rx[n].rx, prev[1][n].rx, later)}
        /\ basis'.burst = {n \in Net : p.rx[n].bursts # prev[1][n].bursts}
        /\ basis'.doubt = {n \in Net : Doubtful(p.rx[n], prev[1][n], later)}
    BY <1>1, <1>5, <2>1 DEF Render
  <2>3. ASSUME NEW n \in Net, n \in shown'.flow, n \notin basis'.doubt
        PROVE  n \in basis'.burst
    <3>1. PICK now : now = p.rx[n]  OBVIOUS
    <3>2. PICK before : before = prev[1][n]  OBVIOUS
    <3>3. now \in Held(n)  BY <1>1, <3>1, RenderHeld
    <3>4. before \in Held(n)
      <4>1. 1 \in 1..Len(prev)  BY <1>5, EmptySeq DEF DashTypeOK
      <4> QED  BY <3>2, <4>1 DEF Held
    <3>5. /\ now.rx \in Nat /\ now.cleared \in Nat /\ before.rx \in Nat /\ before.cleared \in Nat
      BY <3>3, <3>4, HeldTyped
    <3>6. Faster(now.rx, before.rx, later) /\ ~Doubtful(now, before, later)
      BY <2>2, <2>3, <3>1, <3>2
    <3>7. now.ok # "no" /\ before.ok # "no"  BY <3>6 DEF Doubtful
    <3>8. now.ok = "yes" /\ before.ok = "yes"
      <4>1. \A r \in Held(n) : r.ok \in {"yes", "no"}  BY HeldTyped
      <4> QED  BY <3>3, <3>4, <3>7, <4>1
    <3>9. ASSUME now.bursts = before.bursts PROVE FALSE
      <4>1. CASE now.cleared = before.cleared
        <5>1. now.rx = before.rx  BY <3>3, <3>4, <3>8, <3>9, <4>1 DEF SameInv
        <5> QED  BY <3>5, <3>6, <5>1 DEF Faster
      <4>2. CASE later /\ now.cleared > before.cleared
        <5>1. now.rx = 0  BY <3>3, <3>4, <3>5, <3>8, <3>9, <4>2 DEF SameInv
        <5> QED  BY <3>5, <3>6, <4>2, <5>1 DEF Faster
      <4>3. CASE ~later /\ now.cleared < before.cleared
        <5>1. before.rx = 0  BY <3>3, <3>4, <3>5, <3>8, <3>9, <4>3 DEF SameInv
        <5> QED  BY <3>5, <3>6, <4>3, <5>1 DEF Faster
      <4> QED  BY <3>5, <3>6, <4>1, <4>2, <4>3 DEF Doubtful
    <3> QED  BY <2>2, <3>1, <3>2, <3>9
  <2> QED  BY <1>3, <2>2, <2>3 DEF FlowIsReal
<1> QED  BY <1>4, <1>5

LEMMA DashNextInv == DashInv /\ [DashNext]_dashVars => DashInv'
<1> SUFFICES ASSUME DashInv, [DashNext]_dashVars PROVE DashInv'
  OBVIOUS
<1> USE DEF DashInv
<1>1. CASE SendBurst \/ ClearCounters \/ ChangeFrer \/ \E n \in Net : ChangeLink(n)
  <2>1. DashTypeOK' /\ CountInv'  BY <1>1, BurstType, ClearType, SwitchType
  <2>2. UNCHANGED <<polls, prev, shown, basis>>
    BY <1>1 DEF SendBurst, ClearCounters, ChangeFrer, ChangeLink, pageVars
  <2>3. ReadingInv'
    <3>1. CASE SendBurst  BY <3>1, BurstReadings DEF ReadingInv
    <3>2. CASE ClearCounters  BY <3>2, ClearReadings DEF ReadingInv
    <3>3. CASE ChangeFrer \/ \E n \in Net : ChangeLink(n)
      <4>1. UNCHANGED <<count, bursts, cleared, lossy>>
        BY <3>3 DEF ChangeFrer, ChangeLink
      <4>2. \A n \in Net : Held(n)' = Held(n)  BY <2>2 DEF Held
      <4> QED  BY <4>1, <4>2, ReadingsStay DEF ReadingInv
    <3> QED  BY <1>1, <3>1, <3>2, <3>3
  <2>4. ShownInv' /\ FlowIsReal'  BY <2>2 DEF ShownInv, FlowIsReal
  <2> QED  BY <2>1, <2>3, <2>4 DEF ReadingInv
<1>2. CASE StartPoll \/ \E i \in 1..MaxPolls : Read(i) \/ LosePoll(i)
  <2>1. DashTypeOK' /\ CountInv'  BY <1>2, ProxyType
  <2>2. UNCHANGED <<count, bursts, cleared, lossy, prev, shown, basis>>
    BY <1>2 DEF StartPoll, Read, LosePoll, switchVars, pageVars
  <2>3. \A n \in Net : Held(n)' \subseteq Held(n) \cup {NoReading, Now(n)}
    BY <1>2, ProxyHeld
  <2>4. ReadingInv'  BY <2>2, <2>3, ReadingsStay DEF ReadingInv
  <2>5. ShownInv' /\ FlowIsReal'  BY <2>2 DEF ShownInv, FlowIsReal
  <2> QED  BY <2>1, <2>4, <2>5 DEF ReadingInv
<1>3. ASSUME NEW i \in 1..MaxPolls, Render(i) PROVE DashInv'
  <2>1. DashTypeOK' /\ CountInv'  BY <1>3, RenderType
  <2>2. UNCHANGED <<count, bursts, cleared, lossy>>  BY <1>3 DEF Render, switchVars
  <2>3. \A n \in Net : Held(n)' \subseteq Held(n)  BY <1>3, RenderHeld
  <2>4. ReadingInv'  BY <2>2, <2>3, ReadingsStay DEF ReadingInv
  <2>5. ShownInv' /\ FlowIsReal'  BY <1>3, RenderShows
  <2> QED  BY <2>1, <2>4, <2>5 DEF ReadingInv
<1>4. CASE UNCHANGED dashVars
  <2>1. UNCHANGED <<count, up, frer, bursts, cleared, lossy, polls, prev, older, shown, basis,
                    mishaps>>
    BY <1>4 DEF dashVars, switchVars, pageVars
  <2>2. \A n \in Net : Held(n)' = Held(n)  BY <2>1 DEF Held
  <2>3. ReadingInv'  BY <2>1, <2>2, ReadingsStay DEF ReadingInv
  <2>4. DashTypeOK' /\ CountInv' /\ ShownInv' /\ FlowIsReal'
    BY <2>1 DEF DashTypeOK, CountInv, ShownInv, FlowIsReal
  <2> QED  BY <2>3, <2>4 DEF ReadingInv
<1> QED  BY <1>1, <1>2, <1>3, <1>4 DEF DashNext

LEMMA DashInitInv == DashInit => DashInv
<1> SUFFICES ASSUME DashInit PROVE DashInv
  OBVIOUS
<1>1. /\ count = [n \in Net |-> 0] /\ up = Net /\ frer = "no" /\ polls = <<>> /\ prev = <<>>
      /\ older = 0 /\ bursts = 0 /\ cleared = 0 /\ mishaps = 0 /\ lossy = "no"
      /\ basis = [burst |-> {}, doubt |-> {}]
      /\ shown.flow = {} /\ shown.up = {} /\ shown.frer = "no" /\ shown.verdict = "none"
  BY DEF DashInit
<1>2. MaxBursts * Burst \in Nat /\ 0 * Burst \in Nat  BY DashboardAssumption, Times
<1>3. MaxPolls \in Nat /\ MaxBursts \in Nat /\ MaxMishaps \in Nat  BY DashboardAssumption
<1>4. count \in [Net -> 0..(MaxBursts * Burst)] /\ \A n \in Net : count[n] <= bursts * Burst
  BY <1>1, <1>2
<1>5. Len(polls) = 0 /\ Len(prev) = 0 /\ polls \in Seq(Snapshot) /\ prev \in Seq([Net -> Reading])
  BY <1>1
<1>6. DashTypeOK  BY <1>1, <1>3, <1>4, <1>5 DEF DashTypeOK, Verdict
<1>7. \A n \in Net : Held(n) = {}  BY <1>5 DEF Held
<1>8. PastInv /\ SameInv  BY <1>7 DEF PastInv, SameInv
<1>9. AlikeInv  BY <1>1, <1>7 DEF AlikeInv, Net
<1> QED  BY <1>1, <1>4, <1>6, <1>8, <1>9 DEF DashInv, CountInv, ShownInv, FlowIsReal

LEMMA DashInductive == DashSpec => []DashInv
  BY DashInitInv, DashNextInv, PTL DEF DashSpec

LEMMA DashInvImplies == DashInv => UnbalanceIsLoss
<1> SUFFICES ASSUME DashInv, shown.verdict = "unbalanced",
                    NEW a, a = prev[1]["A"], NEW b, b = prev[1]["B"],
                    a.ok = "yes", b.ok = "yes", a.bursts = b.bursts, a.cleared = b.cleared,
                    a.cleared = cleared
             PROVE  lossy = "yes"
  BY DEF UnbalanceIsLoss
<1> USE DEF DashInv
<1>1. prev # <<>>  BY DEF ShownInv
<1>2. 1 \in 1..Len(prev)  BY <1>1, EmptySeq DEF DashTypeOK
<1>3. a \in Held("A") /\ b \in Held("B")  BY <1>2 DEF Held
<1>4. a.rx \in Nat /\ b.rx \in Nat  BY <1>3, HeldTyped DEF Net
<1>5. a.rx # b.rx
  <2> SUFFICES ASSUME a.rx = b.rx PROVE FALSE
    OBVIOUS
  <2>1. "unbalanced" = VerdictOn(shown.flow, a.rx, a.rx)  BY <1>1 DEF ShownInv
  <2>2. a.rx > 0 /\ 100 * (a.rx - a.rx) >= Percent * a.rx
    BY <1>4, <2>1 DEF VerdictOn
  <2>3. Percent * a.rx > 0  BY <1>4, <2>2, DashboardAssumption
  <2> QED  BY <1>4, <2>2, <2>3, DashboardAssumption
<1>6. lossy # "no"  BY <1>3, <1>5 DEF AlikeInv
<1> QED  BY <1>6 DEF DashTypeOK

\* The types of switch, proxy and page hold however many snapshots are in
\* flight and whatever fails.
THEOREM DashTypes == DashSpec => []DashTypeOK
<1>1. DashInv => DashTypeOK  BY DEF DashInv
<1> QED  BY <1>1, DashInductive, PTL

\* Traffic that is shown is a burst, for bursts of any size, in whatever order
\* overlapping snapshots are read and rendered.
THEOREM FlowReal == DashSpec => []FlowIsReal
<1>1. DashInv => FlowIsReal  BY DEF DashInv
<1> QED  BY <1>1, DashInductive, PTL

\* The verdict "unbalanced" on two reads that belong together means a loss,
\* for every positive tolerance.
THEOREM UnbalanceReal == DashSpec => []UnbalanceIsLoss
  BY DashInvImplies, DashInductive, PTL

-----------------------------------------------------------------------------
(***************************************************************************)
(* D10Capture.                                                             *)
(***************************************************************************)

-----------------------------------------------------------------------------
(* Counting copies.                                                        *)

\* What is numbered one to one is as many.
LEMMA AsMany ==
  ASSUME NEW S, NEW T, IsFiniteSet(S), NEW f \in [S -> T],
         \A x, y \in S : f[x] = f[y] => x = y, \A t \in T : \E x \in S : f[x] = t
  PROVE  IsFiniteSet(T) /\ Cardinality(T) = Cardinality(S)
<1>1. f \in Bijection(S, T)
  BY DEF Bijection, Injection, Surjection, IsInjective
<1>2. ExistsBijection(S, T)  BY <1>1 DEF ExistsBijection
<1> QED  BY <1>2, FS_Bijection

\* And what is numbered so that none is left out is no more.
LEMMA NoMore ==
  ASSUME NEW S, NEW T, IsFiniteSet(S), NEW f \in [S -> T], \A t \in T : \E x \in S : f[x] = t
  PROVE  IsFiniteSet(T) /\ Cardinality(T) <= Cardinality(S)
<1>1. f \in Surjection(S, T)  BY DEF Surjection
<1> QED  BY <1>1, FS_Surjection

\* Fewer than SnMax steps lead from a number to another one.
LEMMA StepsDiffer ==
  ASSUME NEW s \in 1..SnMax, NEW d \in 0..SnMax-1, NEW e \in 0..SnMax-1,
         ((s + d - 1) % SnMax) + 1 = ((s + e - 1) % SnMax) + 1
  PROVE  d = e
<1>1. SnMax \in Nat /\ SnMax > 0  BY CaptureAssumption
<1>2. ASSUME NEW x \in 0..(2 * SnMax - 1)
      PROVE  x % SnMax = IF x < SnMax THEN x ELSE x - SnMax
  BY <1>1
<1>3. (s + d - 1) % SnMax = IF s + d - 1 < SnMax THEN s + d - 1 ELSE s + d - 1 - SnMax
  BY <1>1, <1>2
<1>4. (s + e - 1) % SnMax = IF s + e - 1 < SnMax THEN s + e - 1 ELSE s + e - 1 - SnMax
  BY <1>1, <1>2
<1> QED  BY <1>1, <1>3, <1>4

\* The frames of a link differ in how many came before them, and so in their
\* numbers, as long as there are no more of them than numbers.
LEMMA NumbersDiffer ==
  ASSUME NEW n \in 0..SnMax, NEW first \in [Links -> 1..SnMax], NEW link \in [1..n -> Links],
         NEW i \in 1..n, NEW j \in 1..n, link[i] = link[j],
         Sn(link, first, i) = Sn(link, first, j)
  PROVE  i = j
<1>1. n \in Nat /\ SnMax \in Nat /\ n <= SnMax  BY CaptureAssumption
<1> DEFINE Count(k) == Cardinality(SentBefore(link, k))
<1>2. ASSUME NEW k \in 1..n
      PROVE  IsFiniteSet(SentBefore(link, k)) /\ Count(k) \in 0..SnMax-1
  <2>1. IsFiniteSet(1..k-1) /\ Cardinality(1..k-1) = k - 1  BY <1>1, FS_Interval
  <2>2. SentBefore(link, k) \in SUBSET (1..k-1)  BY DEF SentBefore
  <2>3. IsFiniteSet(SentBefore(link, k)) /\ Count(k) <= k - 1
    BY <2>1, <2>2, FS_Subset
  <2>4. Count(k) \in Nat  BY <2>3, FS_CardinalityType
  <2> QED  BY <1>1, <2>3, <2>4
<1>3. ASSUME NEW k \in 1..n, NEW h \in 1..n, link[k] = link[h], k < h
      PROVE  Count(k) < Count(h)
  <2>1. IsFiniteSet(SentBefore(link, k)) /\ IsFiniteSet(SentBefore(link, h))  BY <1>2
  <2>2. SentBefore(link, k) \cup {k} \in SUBSET SentBefore(link, h)
    BY <1>1, <1>3 DEF SentBefore
  <2>3. k \notin SentBefore(link, k)  BY <1>1 DEF SentBefore
  <2>4. Cardinality(SentBefore(link, k) \cup {k}) = Count(k) + 1
    BY <2>1, <2>3, FS_AddElement
  <2>5. Cardinality(SentBefore(link, k) \cup {k}) <= Count(h)  BY <2>1, <2>2, FS_Subset
  <2>6. Count(k) \in Nat /\ Count(h) \in Nat  BY <2>1, FS_CardinalityType
  <2> HIDE DEF Count
  <2> QED  BY <2>4, <2>5, <2>6
<1>4. Count(i) = Count(j)
  <2>1. first[link[i]] \in 1..SnMax  OBVIOUS
  <2>2. Count(i) \in 0..SnMax-1 /\ Count(j) \in 0..SnMax-1  BY <1>2
  <2>3. ((first[link[i]] + Count(i) - 1) % SnMax) + 1 = ((first[link[i]] + Count(j) - 1) % SnMax) + 1
    BY DEF Sn
  <2> HIDE DEF Count
  <2> QED  BY <2>1, <2>2, <2>3, StepsDiffer
<1>5. ~(i < j) /\ ~(j < i)
  <2>1. Count(i) \in Int  BY <1>2, <1>1
  <2>2. Count(j) \in Int  BY <1>4, <2>1
  <2>3. i < j => Count(i) < Count(j)  BY <1>3
  <2>4. j < i => Count(j) < Count(i)  BY <1>3
  <2> HIDE DEF Count
  <2> QED  BY <1>4, <2>1, <2>2, <2>3, <2>4
<1> QED  BY <1>1, <1>5

\* The copies taken, less their numbers, are the frames taken twice, and of
\* those of other links than v some more.
LEMMA TwiceIsDup ==
  ASSUME NEW n \in 0..SnMax, NEW first \in [Links -> 1..SnMax], NEW link \in [1..n -> Links],
         NEW taken \in SUBSET (1..(2 * n)), NEW dup, dup = Dup(link, first, taken),
         NEW both, both = Cardinality({i \in 1..n : Copies(i) \subseteq taken})
  PROVE  /\ both <= dup
         /\ \A v \in Links :
              dup <= both + Cardinality({j \in taken : link[Frame(j)] # v})
<1> DEFINE A == {i \in 1..n : 2 * i - 1 \in taken}
           B == {i \in 1..n : 2 * i \in taken}
           OfA == {j \in taken : j % 2 = 1}
           OfB == {j \in taken : j % 2 = 0}
           N(i) == Sn(link, first, i)
           sns == {N(Frame(j)) : j \in taken}
<1>1. n \in Nat /\ SnMax \in Nat /\ SnMax > 0 /\ n <= SnMax  BY CaptureAssumption
<1>2. IsFiniteSet(1..n) /\ IsFiniteSet(1..(2 * n))  BY <1>1, FS_Interval
<1>3. IsFiniteSet(A) /\ IsFiniteSet(B)  BY <1>2, FS_Subset
<1>4. IsFiniteSet(taken) /\ IsFiniteSet(OfA) /\ IsFiniteSet(OfB)
  <2>1. IsFiniteSet(taken)  BY <1>2, FS_Subset
  <2> QED  BY <2>1, FS_Subset
<1>5. ASSUME NEW j \in taken
      PROVE  /\ j \in Int /\ Frame(j) \in 1..n
             /\ j % 2 = 1 => j = 2 * Frame(j) - 1
             /\ j % 2 = 0 => j = 2 * Frame(j)
             /\ j % 2 = 1 \/ j % 2 = 0
  BY <1>1 DEF Frame
<1>6. ASSUME NEW i \in 1..n
      PROVE  /\ (2 * i - 1) % 2 = 1 /\ (2 * i) % 2 = 0
             /\ Frame(2 * i - 1) = i /\ Frame(2 * i) = i
  BY <1>1 DEF Frame
<1>7. Cardinality(OfA) = Cardinality(A)
  <2> DEFINE f == [i \in A |-> 2 * i - 1]
  <2>1. f \in [A -> OfA]  BY <1>6
  <2>2. \A x, y \in A : f[x] = f[y] => x = y  BY <1>1
  <2>3. \A t \in OfA : \E x \in A : f[x] = t  BY <1>5
  <2> HIDE DEF A, OfA, f
  <2> QED  BY <1>3, <2>1, <2>2, <2>3, AsMany
<1>8. Cardinality(OfB) = Cardinality(B)
  <2> DEFINE f == [i \in B |-> 2 * i]
  <2>1. f \in [B -> OfB]  BY <1>6
  <2>2. \A x, y \in B : f[x] = f[y] => x = y  BY <1>1
  <2>3. \A t \in OfB : \E x \in B : f[x] = t  BY <1>5
  <2> HIDE DEF B, OfB, f
  <2> QED  BY <1>3, <2>1, <2>2, <2>3, AsMany
<1>9. Cardinality(taken) = Cardinality(A) + Cardinality(B)
  <2>1. taken = OfA \cup OfB
    <3>1. \A j \in taken : j % 2 = 1 \/ j % 2 = 0  BY <1>5
    <3> QED  BY <3>1, Zenon
  <2>4. OfA \cap OfB = {}  OBVIOUS
  <2>2. Cardinality(OfA) \in Nat /\ Cardinality(OfB) \in Nat  BY <1>4, FS_CardinalityType
  <2> HIDE DEF OfA, OfB, A, B
  <2>3. Cardinality(OfA \cup OfB) = Cardinality(OfA) + Cardinality(OfB) - Cardinality(OfA \cap OfB)
    BY <1>4, FS_Union
  <2>5. Cardinality(OfA \cap OfB) = 0  BY <2>4, FS_EmptySet
  <2>6. Cardinality(taken) = Cardinality(OfA) + Cardinality(OfB)
    BY <2>1, <2>2, <2>3, <2>5
  <2> QED  BY <2>6, <1>7, <1>8
<1>10. IsFiniteSet(A \cup B) /\ \A j \in taken : Frame(j) \in A \cup B
  <2>1. IsFiniteSet(A \cup B)  BY <1>3, FS_Union
  <2> QED  BY <2>1, <1>5
<1>11. {i \in 1..n : Copies(i) \subseteq taken} = A \cap B  BY DEF Copies
<1>12. Cardinality(A \cup B) = Cardinality(A) + Cardinality(B) - Cardinality(A \cap B)
  BY <1>3, FS_Union
<1>13. Cardinality(A) \in Nat /\ Cardinality(B) \in Nat /\ Cardinality(A \cap B) \in Nat
  <2>1. IsFiniteSet(A \cap B)  BY <1>3, FS_Intersection
  <2> QED  BY <1>3, <2>1, FS_CardinalityType
<1>14. dup = Cardinality(taken) - Cardinality(sns) /\ both = Cardinality(A \cap B)
  BY <1>11 DEF Dup, Distinct
<1>15. \A i \in A \cup B : \E j \in taken : Frame(j) = i
  BY <1>6
\* There are no more numbers than frames taken.
<1>16. IsFiniteSet(sns) /\ Cardinality(sns) <= Cardinality(A \cup B)
  <2> DEFINE f == [i \in A \cup B |-> N(i)]
  <2>1. f \in [A \cup B -> sns]
    <3> SUFFICES ASSUME NEW i \in A \cup B PROVE N(i) \in sns  OBVIOUS
    <3>1. PICK j \in taken : Frame(j) = i  BY <1>15
    <3> QED  BY <3>1
  <2>2. \A t \in sns : \E x \in A \cup B : f[x] = t  BY <1>10
  <2> HIDE DEF A, B, sns, f
  <2> QED  BY <1>10, <2>1, <2>2, NoMore
<1>17. Cardinality(sns) \in Nat  BY <1>16, FS_CardinalityType
<1>18. both <= dup
  <2> HIDE DEF A, B, sns
  <2> QED  BY <1>9, <1>12, <1>13, <1>14, <1>16, <1>17
\* And no fewer than frames of v.
<1>19. ASSUME NEW v \in Links
       PROVE  dup <= both + Cardinality({j \in taken : link[Frame(j)] # v})
  <2> DEFINE O == {j \in taken : link[Frame(j)] # v}
             V == {i \in A \cup B : link[i] = v}
             W == {i \in A \cup B : link[i] # v}
             own == {N(i) : i \in V}
  <2>1. IsFiniteSet(O) /\ IsFiniteSet(V) /\ IsFiniteSet(W)
    <3>1. O \in SUBSET taken /\ V \in SUBSET (A \cup B) /\ W \in SUBSET (A \cup B)
      OBVIOUS
    <3> HIDE DEF O, V, W, A, B
    <3> QED  BY <1>4, <1>10, <3>1, FS_Subset
  <2>2. IsFiniteSet(own) /\ Cardinality(own) = Cardinality(V)
    <3> DEFINE f == [i \in V |-> N(i)]
    <3>1. f \in [V -> own]  OBVIOUS
    <3>2. \A x, y \in V : f[x] = f[y] => x = y
      <4> SUFFICES ASSUME NEW x \in V, NEW y \in V, N(x) = N(y) PROVE x = y  OBVIOUS
      <4>1. x \in 1..n /\ y \in 1..n /\ link[x] = link[y]  OBVIOUS
      <4> QED  BY <4>1, NumbersDiffer
    <3>3. \A t \in own : \E x \in V : f[x] = t  OBVIOUS
    <3> HIDE DEF V, own, f
    <3> QED  BY <2>1, <3>1, <3>2, <3>3, AsMany
  <2>3. Cardinality(V) <= Cardinality(sns)
    <3>1. own \in SUBSET sns
      <4> SUFFICES ASSUME NEW i \in V PROVE N(i) \in sns  OBVIOUS
      <4>1. PICK j \in taken : Frame(j) = i  BY <1>15
      <4> QED  BY <4>1
    <3> HIDE DEF V, own, sns
    <3> QED  BY <1>16, <2>2, <3>1, FS_Subset
  <2>4. Cardinality(W) <= Cardinality(O)
    <3> DEFINE f == [j \in O |-> Frame(j)]
    <3>1. f \in [O -> W]  BY <1>10
    <3>2. \A t \in W : \E x \in O : f[x] = t
      <4> SUFFICES ASSUME NEW i \in W PROVE \E j \in O : f[j] = i  OBVIOUS
      <4>1. PICK j \in taken : Frame(j) = i  BY <1>15
      <4> QED  BY <4>1
    <3> HIDE DEF O, W, f
    <3> QED  BY <2>1, <3>1, <3>2, NoMore
  <2>5. Cardinality(A \cup B) = Cardinality(V) + Cardinality(W)
    <3>1. A \cup B = V \cup W /\ V \cap W = {}  OBVIOUS
    <3>2. Cardinality(V) \in Nat /\ Cardinality(W) \in Nat  BY <2>1, FS_CardinalityType
    <3> HIDE DEF V, W, A, B
    <3>3. Cardinality(V \cup W) = Cardinality(V) + Cardinality(W) - Cardinality(V \cap W)
      BY <2>1, FS_Union
    <3>4. Cardinality(V \cap W) = 0  BY <3>1, FS_EmptySet
    <3>5. Cardinality(A \cup B) = Cardinality(V \cup W)  BY <3>1, Zenon
    <3> QED  BY <3>2, <3>3, <3>4, <3>5
  <2>6. Cardinality(V) \in Nat /\ Cardinality(W) \in Nat /\ Cardinality(O) \in Nat
    BY <2>1, FS_CardinalityType
  <2> HIDE DEF A, B, sns, O, V, W
  <2>7. dup <= both + Cardinality(O)
    BY <1>9, <1>12, <1>13, <1>14, <1>17, <2>3, <2>4, <2>5, <2>6
  <2> QED  BY <2>7 DEF O
<1> QED  BY <1>18, <1>19

\* Whatever copies are lost and wherever the file ends, /capture's "dup" is no
\* less than the number of frames of which both copies are in the file, and is
\* that number when they are of one link; of several, no more than the copies of
\* all links but one are added.
THEOREM DupsAreCopies == CaptureSpec => []DupCountsCopies
<1>1. CaptureInit => DupCountsCopies  BY DEF CaptureInit, DupCountsCopies
<1>2. DupCountsCopies /\ [GetCapture]_captureVars => DupCountsCopies'
  <2> SUFFICES ASSUME DupCountsCopies, [GetCapture]_captureVars PROVE DupCountsCopies'
    OBVIOUS
  <2>1. CASE GetCapture
    <3> DEFINE Answer(n, link, first, taken) ==
          [count |-> Cardinality(taken), dup |-> Dup(link, first, taken),
           both |-> Cardinality({i \in 1..n : Copies(i) \subseteq taken}),
           besides |-> [v \in Links |-> Cardinality({j \in taken : link[Frame(j)] # v})]]
    <3>1. PICK n \in 0..SnMax, first \in [Links -> 1..SnMax] :
            \E link \in [1..n -> Links], wire \in SUBSET (1..(2 * n)) :
              \E taken \in Taken(wire) : answer' = Answer(n, link, first, taken)
      BY <2>1 DEF GetCapture
    <3>2. PICK link \in [1..n -> Links], wire \in SUBSET (1..(2 * n)) :
            \E taken \in Taken(wire) : answer' = Answer(n, link, first, taken)
      BY <3>1
    <3>3. PICK taken \in Taken(wire) : answer' = Answer(n, link, first, taken)
      BY <3>2
    <3>4. taken \in SUBSET (1..(2 * n))  BY <3>3 DEF Taken
    <3>5. /\ answer'.dup = Dup(link, first, taken)
          /\ answer'.both = Cardinality({i \in 1..n : Copies(i) \subseteq taken})
          /\ \A v \in Links :
               answer'.besides[v] = Cardinality({j \in taken : link[Frame(j)] # v})
      BY <3>3
    <3>6. /\ answer'.both <= answer'.dup
          /\ \A v \in Links :
               answer'.dup <= answer'.both + Cardinality({j \in taken : link[Frame(j)] # v})
      <4> DEFINE dup == answer'.dup
                 both == answer'.both
      <4>1. dup = Dup(link, first, taken)  BY <3>5
      <4>2. both = Cardinality({i \in 1..n : Copies(i) \subseteq taken})  BY <3>5
      <4> HIDE DEF dup, both
      <4>3. /\ both <= dup
            /\ \A v \in Links : dup <= both + Cardinality({j \in taken : link[Frame(j)] # v})
        BY <3>4, <4>1, <4>2, TwiceIsDup
      <4> QED  BY <4>3 DEF dup, both
    <3>7. \A v \in Links : answer'.dup <= answer'.both + answer'.besides[v]
      BY <3>5, <3>6
    <3> QED  BY <3>6, <3>7 DEF DupCountsCopies
  <2>2. CASE UNCHANGED captureVars  BY <2>2 DEF DupCountsCopies, captureVars
  <2> QED  BY <2>1, <2>2
<1> QED  BY <1>1, <1>2, PTL DEF CaptureSpec
=============================================================================
