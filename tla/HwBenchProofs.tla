--------------------------- MODULE HwBenchProofs ---------------------------
(***************************************************************************)
(* Proofs about hw_report.py, multi_vl_hw.py and their capture processes,  *)
(* for any plan of BAGs and link counts, any number of runs and orphans at *)
(* a time and any number of failures.                                      *)
(*                                                                         *)
(* The figures of a step come out of a file that outlives the run, and     *)
(* which frames are in it depends on every command the run gave and on     *)
(* what became of its capture.  The invariant follows a run nobody else    *)
(* came into (LoneInv): whose commands are in the shell, whose frames in   *)
(* the capture and in the file, and which links are on the board.          *)
(***************************************************************************)
EXTENDS HwBench, FiniteSetTheorems, WellFoundedInduction, TLAPS

\* The stages of a step.
Planned == {"setting", "starting", "sending", "waiting", "shown"}
Giving == {"setting", "sending", "restoring"}
Active(r) == r \in Running \/ cap[r] # "off"
Lone(r) == r \in Running /\ "company" \notin marks[r]

\* Where a run is, and what it has then.
RunOK(r) ==
  /\ Active(r) => kind[r] \in {"report", "multi"} /\ k[r] \in DOMAIN Plan(r)
  /\ at[r] \in {"idle", "starting", "waiting", "shown"} => v[r] = 1
  /\ at[r] \in {"setting", "sending"} => v[r] <= LinksOf(r)
  /\ at[r] = "restoring" => IF Multi(r) THEN v[r] # 1 ELSE v[r] = Most + 1
  /\ at[r] \in {"setting", "starting", "shown"} => cap[r] = "off"
  /\ at[r] \in Planned => Free(r, {"raised", "killed"})
BaseInv == TypeOK /\ \A r \in Runs : RunOK(r)

\* Nobody else is about, and no command of anybody else.
Apart(r) ==
  /\ \A q \in Runs \ {r} : at[q] = "idle" /\ cap[q] = "off"
  /\ \A i \in 1..Len(shell) : shell[i].run = r
  /\ shell # <<>> => ~Free(r, {"lost", "raised", "killed"})

\* Frames of this run, of this step, and paced as it asks.
OwnFrame(r, f) ==
  /\ f.run = r
  /\ Free(r, {"lost"}) => f.step = k[r] /\ f.vl <= LinksOf(r)
  /\ Free(r, {"lost", "leftover"}) => f.bag = Pace(r) \/ (Multi(r) /\ f.vl = 1)
Own(r, fs) == \A f \in fs : OwnFrame(r, f)

\* On their way from the capture over the file into the row.
Dumped(r) ==
  /\ Own(r, buf[r])
  /\ cap[r] = "writing" => files[Path(r)].by = r
  /\ at[r] \in {"sending", "waiting"} /\ cap[r] = "off" /\ Free(r, {"nocapture"}) =>
       Own(r, files[Path(r)].frames)
  /\ at[r] = "shown" /\ Free(r, {"nocapture"}) => Own(r, row[r])

\* The BAGs of the links, as long as nothing is left over.
Paced(r) ==
  at[r] \in Planned /\ Free(r, {"lost", "leftover"}) =>
    IF Multi(r) THEN \A n \in Links \ {1} : vl[n] \in {0, MultiBag}
    ELSE vl[1] # 0 /\ (at[r] # "setting" => vl[1] = Pace(r))

\* The links a run has added are set, those of the steps before too.
Added(r) ==
  at[r] \in Planned /\ Multi(r) /\ Free(r, {"lost"}) =>
    \A i \in 1..k[r] : \A n \in 1..Counts[i] :
      (i = k[r] /\ at[r] = "setting" => n < v[r]) => vl[n] # 0

\* The links restore has deleted, and those it has not come to.
Restored(r) ==
  at[r] = "restoring" /\ Multi(r) /\ Free(r, {"lost", "killed"}) =>
    /\ \A n \in 2..v[r] - 1 : vl[n] = 0
    /\ Free(r, {"raised"}) => vl[1] # 0 /\ \A n \in v[r]..Most : vl[n] # 0
Left(r) ==
  at[r] = "leaving" /\ Free(r, {"lost", "killed"}) =>
    /\ Multi(r) => \A n \in Links \ {1} : vl[n] = 0
    /\ Multi(r) \/ Free(r, {"raised"}) => vl[1] \in {0, Default}
NoStray(r) ==
  Multi(r) /\ Free(r, {"lost", "raised", "killed"}) => "stray" \notin marks[r]

\* The capture of a step nothing befell has frames.
Caught(r) ==
  ~Multi(r) /\ marks[r] = {} =>
    /\ at[r] = "sending" => cap[r] = "on"
    /\ at[r] = "waiting" =>
         IF cap[r] = "off" THEN files[Path(r)].whole = "yes" => files[Path(r)].frames # {}
         ELSE buf[r] # {}
    /\ at[r] = "shown" => row[r] # {}

OnBoard(r) == Paced(r) /\ Added(r) /\ Restored(r) /\ Left(r) /\ NoStray(r)
LoneInv ==
  \A r \in Runs : Lone(r) => Apart(r) /\ Dumped(r) /\ OnBoard(r) /\ Caught(r)

IInv == BaseInv /\ LoneInv

-----------------------------------------------------------------------------
(* The plans.                                                              *)

\* A set of numbers has a least one.
LEMMA LeastNumber ==
  ASSUME NEW T, T \subseteq Nat, T # {}
  PROVE  \E x \in T : \A y \in T : x <= y
<1>1. \E x \in T : \A y \in T : ~(<<y, x>> \in OpToRel(<, Nat))
  BY NatLessThanWellFounded, WFMin
<1>2. \E x \in T : \A y \in T : ~(y < x)
  BY <1>1, Zenon DEF OpToRel
<1> QED
  BY <1>2

\* A list of numbers has a largest one: the shortest beginning of it that had
\* none would have one entry more than a beginning that has.
LEMMA LargestEntry ==
  ASSUME NEW n \in Nat \ {0}, NEW s \in [1..n -> Nat]
  PROVE  \E i \in 1..n : \A j \in 1..n : s[j] <= s[i]
<1> DEFINE Has(m) == \E i \in 1..m : \A j \in 1..m : s[j] <= s[i]
           Without == {m \in 1..n : ~Has(m)}
<1>1. ASSUME Without # {} PROVE FALSE
  <2>1. PICK m \in Without : \A y \in Without : m <= y
    <3>1. Without \subseteq Nat
      OBVIOUS
    <3> QED
      BY <1>1, <3>1, LeastNumber
  <2>2. m \in 1..n /\ ~Has(m)
    OBVIOUS
  <2>3. m # 1
    <3>1. Has(1)
      OBVIOUS
    <3> QED
      BY <2>2, <3>1
  <2>4. m - 1 \in 1..n /\ ~(m <= m - 1)
    BY <2>2, <2>3
  <2>5. PICK i \in 1..(m - 1) : \A j \in 1..(m - 1) : s[j] <= s[i]
    <3>1. m - 1 \notin Without
      BY <2>1, <2>4
    <3> QED
      BY <2>4, <3>1
  <2>6. Has(m)
    <3>1. CASE s[m] <= s[i]
      <4>1. i \in 1..m /\ \A j \in 1..m : s[j] <= s[i]
        BY <2>2, <2>5, <3>1
      <4> QED
        BY <4>1
    <3>2. CASE ~(s[m] <= s[i])
      <4>1. m \in 1..m /\ \A j \in 1..m : s[j] <= s[m]
        BY <2>2, <2>5, <3>2
      <4> QED
        BY <4>1
    <3> QED
      BY <3>1, <3>2
  <2> QED
    BY <2>2, <2>6
<1>2. Has(n)
  <2>1. Without = {}
    BY <1>1
  <2>2. n \in 1..n
    OBVIOUS
  <2>3. n \notin Without
    BY <2>1
  <2> QED
    BY <2>2, <2>3
<1> QED
  BY <1>2

\* What the plans are made of.
LEMMA ListFacts ==
  ASSUME NEW s \in Seq(Nat \ {0}), s # <<>>
  PROVE  /\ Len(s) \in Nat \ {0} /\ DOMAIN s = 1..Len(s)
         /\ \A i \in 1..Len(s) : s[i] \in Nat \ {0}
         /\ s \in [1..Len(s) -> Nat]
  OBVIOUS

LEMMA Constants ==
  /\ Len(Bags) \in Nat \ {0} /\ DOMAIN Bags = 1..Len(Bags)
  /\ \A i \in 1..Len(Bags) : Bags[i] \in Nat \ {0} /\ Bags[i] \in Paces
  /\ Len(Counts) \in Nat \ {0} /\ DOMAIN Counts = 1..Len(Counts)
  /\ Most \in Nat \ {0} /\ \A i \in 1..Len(Counts) : Counts[i] \in 1..Most
  /\ \E i \in 1..Len(Counts) : Counts[i] = Most
  /\ MultiBag \in Nat \ {0} /\ Default \in Nat \ {0}
  /\ MultiBag \in Paces /\ Default \in Paces /\ 0 \notin Paces /\ 0 \notin Runs
<1>1. /\ Len(Counts) \in Nat \ {0} /\ DOMAIN Counts = 1..Len(Counts)
      /\ \A i \in 1..Len(Counts) : Counts[i] \in Nat \ {0}
      /\ Counts \in [1..Len(Counts) -> Nat]
  BY BenchAssumption, ListFacts
<1>2. /\ Len(Bags) \in Nat \ {0} /\ DOMAIN Bags = 1..Len(Bags)
      /\ \A i \in 1..Len(Bags) : Bags[i] \in Nat \ {0}
  BY BenchAssumption, ListFacts
<1>3. PICK i \in 1..Len(Counts) : \A j \in 1..Len(Counts) : Counts[j] <= Counts[i]
  BY <1>1, LargestEntry
<1>4. /\ Most \in {Counts[j] : j \in DOMAIN Counts}
      /\ \A j \in DOMAIN Counts : Counts[j] <= Most
  <2>1. \E n \in {Counts[j] : j \in DOMAIN Counts} : \A j \in DOMAIN Counts : Counts[j] <= n
    BY <1>1, <1>3
  <2> QED
    BY <2>1 DEF Most
<1>5. /\ Most \in Nat \ {0} /\ \A j \in 1..Len(Counts) : Counts[j] \in 1..Most
      /\ \E j \in 1..Len(Counts) : Counts[j] = Most
  BY <1>1, <1>4
<1> QED
  BY <1>1, <1>2, <1>5, BenchAssumption DEF Paces

-----------------------------------------------------------------------------
(* What an active run works on, and what a command does.                   *)

LEMMA RunFacts ==
  ASSUME BaseInv, NEW r \in Runs, Active(r)
  PROVE  /\ kind[r] \in {"report", "multi"} /\ k[r] \in Nat \ {0}
         /\ k[r] \in DOMAIN Plan(r) /\ DOMAIN Plan(r) = 1..Len(Plan(r)) /\ Len(Plan(r)) \in Nat
         /\ k[r] \in Steps /\ Pace(r) \in Paces /\ Pace(r) \in Nat \ {0} /\ Path(r) \in Paths
         /\ LinksOf(r) \in 1..Most /\ v[r] \in 1..(Most + 1)
         /\ Multi(r) => k[r] \in 1..Len(Counts) /\ LinksOf(r) = Counts[k[r]]
         /\ ~Multi(r) => k[r] \in 1..Len(Bags) /\ LinksOf(r) = 1
<1>1. /\ kind[r] \in {"report", "multi"} /\ k[r] \in DOMAIN Plan(r)
      /\ v[r] \in 1..(Most + 1)
  BY DEF BaseInv, RunOK, TypeOK
<1>2. CASE Multi(r)
  <2>1. Plan(r) = Counts /\ Pace(r) = MultiBag /\ Path(r) = 0 /\ LinksOf(r) = Counts[k[r]]
    BY <1>2 DEF Plan, Pace, Path, LinksOf
  <2> QED
    BY <1>1, <1>2, <2>1, Constants DEF Steps, Paths
<1>3. CASE ~Multi(r)
  <2>1. Plan(r) = Bags /\ Pace(r) = Bags[k[r]] /\ Path(r) = k[r] /\ LinksOf(r) = 1
    BY <1>3 DEF Plan, Pace, Path, LinksOf
  <2> QED
    BY <1>1, <1>3, <2>1, Constants DEF Steps, Paths
<1> QED
  BY <1>2, <1>3

\* Sequences of commands.
LEMMA AppendFacts ==
  ASSUME NEW S, NEW s \in Seq(S), NEW e \in S
  PROVE  /\ Append(s, e) \in Seq(S) /\ Len(s) \in Nat /\ Len(Append(s, e)) = Len(s) + 1
         /\ \A i \in 1..(Len(s) + 1) : Append(s, e)[i] = IF i = Len(s) + 1 THEN e ELSE s[i]
  OBVIOUS

LEMMA TailFacts ==
  ASSUME NEW S, NEW s \in Seq(S), s # <<>>
  PROVE  /\ Head(s) \in S /\ Head(s) = s[1] /\ Tail(s) \in Seq(S)
         /\ Len(s) \in Nat \ {0} /\ Len(Tail(s)) = Len(s) - 1
         /\ \A i \in 1..(Len(s) - 1) : Tail(s)[i] = s[i + 1]
  OBVIOUS

\* The command a run gives next.
LEMMA AskedFacts ==
  ASSUME BaseInv, NEW r \in Runs, at[r] \in Giving
  PROVE  /\ Asked(r) \in Command /\ Asked(r).run = r /\ Asked(r).step = k[r]
         /\ at[r] \in {"setting", "sending"} =>
              /\ Asked(r).vl = v[r] /\ Asked(r).bag = Pace(r)
              /\ v[r] \in 1..LinksOf(r)
         /\ at[r] = "setting" => Asked(r).op = IF Multi(r) THEN "add" ELSE "set"
         /\ at[r] = "sending" => Asked(r).op = "send"
         /\ at[r] = "restoring" =>
              IF v[r] > Most THEN Asked(r).op = "set" /\ Asked(r).vl = 1 /\ Asked(r).bag = Default
              ELSE Asked(r).op = "del" /\ Asked(r).vl = v[r] /\ Multi(r) /\ v[r] # 1
<1>1. r \in Running /\ Active(r)
  BY DEF Giving, Running, Active
<1>2. /\ k[r] \in Steps /\ Pace(r) \in Paces /\ LinksOf(r) \in 1..Most /\ v[r] \in 1..(Most + 1)
  BY <1>1, RunFacts
<1>3. Most \in Nat \ {0} /\ Default \in Paces
  BY Constants
<1>4. /\ at[r] \in {"setting", "sending"} => v[r] <= LinksOf(r)
      /\ at[r] = "restoring" => IF Multi(r) THEN v[r] # 1 ELSE v[r] = Most + 1
  BY DEF BaseInv, RunOK
<1>5. CASE at[r] = "setting"
  <2>1. Asked(r) = [op |-> IF Multi(r) THEN "add" ELSE "set", run |-> r, step |-> k[r],
                    vl |-> v[r], bag |-> Pace(r)]
    BY <1>5 DEF Asked
  <2> QED
    BY <1>2, <1>3, <1>4, <1>5, <2>1 DEF Command, Who, Links
<1>6. CASE at[r] = "sending"
  <2>1. Asked(r) = [op |-> "send", run |-> r, step |-> k[r], vl |-> v[r], bag |-> Pace(r)]
    BY <1>6 DEF Asked
  <2> QED
    BY <1>2, <1>3, <1>4, <1>6, <2>1 DEF Command, Who, Links
<1>7. CASE at[r] = "restoring" /\ v[r] > Most
  <2>1. Asked(r) = [op |-> "set", run |-> r, step |-> k[r], vl |-> 1, bag |-> Default]
    BY <1>7 DEF Asked
  <2> QED
    BY <1>2, <1>3, <1>7, <2>1 DEF Command, Who, Links
<1>8. CASE at[r] = "restoring" /\ ~(v[r] > Most)
  <2>1. Asked(r) = [op |-> "del", run |-> r, step |-> k[r], vl |-> v[r], bag |-> Default]
    BY <1>8 DEF Asked
  <2> QED
    BY <1>2, <1>3, <1>4, <1>8, <2>1 DEF Command, Who, Links
<1> QED
  BY <1>5, <1>6, <1>7, <1>8 DEF Giving

\* What it leaves on the board.
LEMMA AfterFacts ==
  ASSUME TypeOK, NEW c \in Command, vl' \in After(c)
  PROVE  /\ vl' \in [Links -> Paces \cup {0}]
         /\ \A n \in Links : n # c.vl => vl'[n] = vl[n]
         /\ c.op = "del" => vl'[c.vl] = 0
         /\ c.op = "set" => vl'[c.vl] = IF vl[c.vl] # 0 THEN c.bag ELSE 0
         /\ c.op = "add" => /\ vl'[c.vl] # 0 /\ vl'[c.vl] \in {vl[c.vl], c.bag}
         /\ c.op = "send" => vl' = vl
<1>1. /\ vl \in [Links -> Paces \cup {0}] /\ c.vl \in Links /\ c.bag \in Paces
      /\ c.op \in {"set", "add", "del", "send"} /\ 0 \notin Paces
  BY Constants DEF TypeOK, Command
<1>2. CASE c.op = "del"
  BY <1>1, <1>2 DEF After
<1>3. CASE c.op = "set"
  BY <1>1, <1>3 DEF After
<1>4. CASE c.op = "add"
  BY <1>1, <1>4 DEF After
<1>5. CASE c.op = "send"
  BY <1>1, <1>5 DEF After
<1> QED
  BY <1>1, <1>2, <1>3, <1>4, <1>5

\* And in the captures.
LEMMA CarryFacts ==
  ASSUME TypeOK, NEW c \in Command, Carry(c)
  PROVE  /\ buf' \in [Runs -> SUBSET Frame]
         /\ \A q \in Runs : cap[q] = "off" => buf'[q] = buf[q]
         /\ \A q \in Runs : c.op # "send" => buf'[q] = buf[q]
         /\ \A q \in Runs : \A f \in buf'[q] :
              \/ f \in buf[q]
              \/ /\ c.op = "send" /\ vl[c.vl] # 0 /\ f.run = c.run /\ f.step = c.step
                 /\ f.vl = c.vl /\ f.bag = vl[c.vl]
         /\ \A q \in Runs : buf[q] \subseteq buf'[q]
         /\ \A q \in Runs : c.op = "send" /\ vl[c.vl] # 0 /\ Sees(q, c.vl) => buf'[q] # {}
<1> DEFINE new == [run |-> c.run, step |-> c.step, vl |-> c.vl, bag |-> vl[c.vl]]
<1>1. /\ vl \in [Links -> Paces \cup {0}] /\ buf \in [Runs -> SUBSET Frame]
      /\ c.vl \in Links /\ c.run \in Who /\ c.step \in Steps \cup {0}
  BY DEF TypeOK, Command
<1>2. \A q \in Runs :
        buf'[q] = IF c.op = "send" /\ vl[c.vl] # 0 /\ Sees(q, c.vl)
                  THEN buf[q] \cup {new} ELSE buf[q]
  BY DEF Carry
<1>3. vl[c.vl] # 0 => new \in Frame
  BY <1>1 DEF Frame
<1>4. buf' \in [Runs -> SUBSET Frame]
  <2>1. DOMAIN buf' = Runs /\ buf' = [q \in Runs |-> buf'[q]]
    BY DEF Carry
  <2>2. \A q \in Runs : buf'[q] \in SUBSET Frame
    BY <1>1, <1>2, <1>3
  <2> QED
    BY <2>1, <2>2
<1>5. \A q \in Runs : cap[q] = "off" => ~Sees(q, c.vl)
  BY DEF Sees
<1>6. \A q \in Runs : \A f \in buf'[q] :
        \/ f \in buf[q]
        \/ c.op = "send" /\ vl[c.vl] # 0 /\ f = new
  BY <1>2
<1>7. /\ \A q \in Runs : cap[q] = "off" => buf'[q] = buf[q]
      /\ \A q \in Runs : c.op # "send" => buf'[q] = buf[q]
      /\ \A q \in Runs : buf[q] \subseteq buf'[q]
  BY <1>2, <1>5
<1>8. \A q \in Runs : c.op = "send" /\ vl[c.vl] # 0 /\ Sees(q, c.vl) => new \in buf'[q]
  BY <1>2
<1> HIDE DEF new
<1>9. /\ new.run = c.run /\ new.step = c.step /\ new.vl = c.vl /\ new.bag = vl[c.vl]
  BY DEF new
<1> QED
  BY <1>4, <1>6, <1>7, <1>8, <1>9

\* What is noted of a run.
LEMMA NotedFacts ==
  ASSUME TypeOK, NEW r \in Runs, NEW m \in SUBSET Mark
  PROVE  /\ Noted(r, m) \in [Runs -> SUBSET Mark]
         /\ \A q \in Runs : q # r => Noted(r, m)[q] = marks[q]
         /\ Noted(r, m)[r] \in {{"company"}, marks[r] \cup m}
         /\ "company" \notin Noted(r, m)[r] =>
              /\ "company" \notin marks[r] /\ Noted(r, m)[r] = marks[r] \cup m
         /\ Noted(r, m)[r] \subseteq marks[r] \cup m
  BY DEF TypeOK, Noted, Mark

\* Where a command, or the cut of one, leads.
LEMMA AdvanceFacts ==
  ASSUME BaseInv, NEW r \in Runs, at[r] \in Giving, Advance(r)
  PROVE  /\ at' \in [Runs -> Stage] /\ v' \in [Runs -> 1..(Most + 1)]
         /\ \A q \in Runs : q # r => at'[q] = at[q] /\ v'[q] = v[q]
         /\ at[r] = "setting" =>
              IF v[r] < LinksOf(r) THEN at'[r] = "setting" /\ v'[r] = v[r] + 1
              ELSE at'[r] = "starting" /\ v'[r] = 1
         /\ at[r] = "sending" =>
              \/ at'[r] = "sending" /\ v'[r] \in 1..LinksOf(r)
              \/ at'[r] = "waiting" /\ v'[r] = 1
         /\ at[r] = "restoring" =>
              IF v[r] <= Most THEN at'[r] = "restoring" /\ v'[r] = v[r] + 1
              ELSE at'[r] = "leaving" /\ v'[r] = v[r]
<1>1. at \in [Runs -> Stage] /\ v \in [Runs -> 1..(Most + 1)]
  BY DEF BaseInv, TypeOK
<1>2. LinksOf(r) \in 1..Most /\ v[r] \in 1..(Most + 1) /\ Most \in Nat \ {0}
  BY RunFacts, Constants DEF Giving, Active, Running
<1>3. CASE at[r] = "setting"
  <2>1. CASE v[r] < LinksOf(r)
    <3>1. v' = [v EXCEPT ![r] = @ + 1] /\ at' = at
      BY <1>2, <1>3, <2>1 DEF Advance
    <3> QED
      BY <1>1, <1>2, <1>3, <2>1, <3>1
  <2>2. CASE ~(v[r] < LinksOf(r))
    <3>1. v' = [v EXCEPT ![r] = 1] /\ at' = [at EXCEPT ![r] = "starting"]
      BY <1>2, <1>3, <2>2 DEF Advance, Goto
    <3> QED
      BY <1>1, <1>2, <1>3, <2>2, <3>1 DEF Stage
  <2> QED
    BY <2>1, <2>2
<1>4. CASE at[r] = "sending"
  <2>1. \/ v' = [v EXCEPT ![r] = (@ % LinksOf(r)) + 1] /\ at' = at
        \/ v' = [v EXCEPT ![r] = 1] /\ at' = [at EXCEPT ![r] = "waiting"]
    BY <1>4 DEF Advance, Goto
  <2>2. (v[r] % LinksOf(r)) + 1 \in 1..LinksOf(r)
    BY <1>2
  <2> QED
    BY <1>1, <1>2, <1>4, <2>1, <2>2 DEF Stage
<1>5. CASE at[r] = "restoring"
  <2>1. CASE v[r] <= Most
    <3>1. v' = [v EXCEPT ![r] = @ + 1] /\ at' = at
      BY <1>2, <1>5, <2>1 DEF Advance
    <3> QED
      BY <1>1, <1>2, <1>5, <2>1, <3>1
  <2>2. CASE ~(v[r] <= Most)
    <3>1. v' = v /\ at' = [at EXCEPT ![r] = "leaving"]
      BY <1>2, <1>5, <2>2 DEF Advance, Goto
    <3> QED
      BY <1>1, <1>2, <1>5, <2>2, <3>1 DEF Stage
  <2> QED
    BY <2>1, <2>2
<1> QED
  BY <1>3, <1>4, <1>5 DEF Giving

LEMMA BreakOffFacts ==
  ASSUME BaseInv, NEW r \in Runs, r \in Running, at[r] # "leaving", BreakOff(r)
  PROVE  /\ at' \in [Runs -> Stage] /\ v' \in [Runs -> 1..(Most + 1)]
         /\ \A q \in Runs : q # r => at'[q] = at[q] /\ v'[q] = v[q]
         /\ IF Multi(r) /\ at[r] # "restoring" THEN at'[r] = "restoring" /\ v'[r] = 2
            ELSE at'[r] = "leaving" /\ v'[r] = v[r]
         /\ marks' = Noted(r, {IF at[r] = "restoring" THEN "killed" ELSE "raised"})
<1>1. at \in [Runs -> Stage] /\ v \in [Runs -> 1..(Most + 1)] /\ Most \in Nat \ {0}
  BY Constants DEF BaseInv, TypeOK
<1>2. CASE Multi(r) /\ at[r] # "restoring"
  <2>1. at' = [at EXCEPT ![r] = "restoring"] /\ v' = [v EXCEPT ![r] = 2]
    BY <1>2 DEF BreakOff, BeginRestore, Goto
  <2> QED
    BY <1>1, <1>2, <2>1 DEF Stage, BreakOff
<1>3. CASE ~(Multi(r) /\ at[r] # "restoring")
  <2>1. at' = [at EXCEPT ![r] = "leaving"] /\ v' = v
    BY <1>3 DEF BreakOff, Goto
  <2> QED
    BY <1>1, <1>3, <2>1 DEF Stage, BreakOff
<1> QED
  BY <1>2, <1>3

-----------------------------------------------------------------------------
(* Type correctness.                                                       *)

\* A run whose own state stands still stays as it was.
LEMMA RunKept ==
  ASSUME NEW q \in Runs, RunOK(q),
         kind'[q] = kind[q], at'[q] = at[q], k'[q] = k[q], v'[q] = v[q],
         cap'[q] \in {cap[q], "off"},
         at[q] \in Planned => marks'[q] \cap {"raised", "killed"} = {}
  PROVE  RunOK(q)'
<1>1. Active(q)' => Active(q)
  BY DEF Active, Running
<1>2. Plan(q)' = Plan(q) /\ LinksOf(q)' = LinksOf(q) /\ Multi(q)' = Multi(q)
  BY DEF Plan, LinksOf, Multi
<1> QED
  BY <1>1, <1>2 DEF RunOK, Free

\* Nobody is at a step that is not in his plan.
LEMMA StepsKept ==
  ASSUME \A r \in Runs : RunOK(r)'
  PROVE  (\A r \in Running : k[r] \in DOMAIN Plan(r))'
  BY DEF RunOK, Active, Running

LEMMA LaunchTypes ==
  ASSUME BaseInv, NEW r \in Runs, NEW program \in {"report", "multi"}, Launch(r, program)
  PROVE  BaseInv'
<1>1. TypeOK /\ at[r] = "idle" /\ cap[r] = "off" /\ v[r] = 1
  BY DEF Launch, BaseInv, RunOK
<1>2. /\ kind' = [kind EXCEPT ![r] = program] /\ at' = [at EXCEPT ![r] = "setting"]
      /\ k' = [k EXCEPT ![r] = 1] /\ runs' = runs + 1 /\ runs < MaxRuns
      /\ UNCHANGED <<v, row, cap, buf, files, vl, shell, faults>>
  BY DEF Launch, Goto, dumpVars, boardVars
<1>3. /\ \A q \in Runs : marks'[q] \in {{"company"}, {"leftover"}, {}, marks[q]}
      /\ marks'[r] \in {{"company"}, {"leftover"}, {}}
      /\ \A q \in Runs : q # r => marks'[q] \in {{"company"}, marks[q]}
      /\ DOMAIN marks' = Runs /\ marks' = [q \in Runs |-> marks'[q]]
  BY DEF Launch
<1>4. marks' \in [Runs -> SUBSET Mark]
  <2>1. \A q \in Runs : marks'[q] \in SUBSET Mark
    <3>1. {"company"} \in SUBSET Mark /\ {"leftover"} \in SUBSET Mark /\ {} \in SUBSET Mark
      BY DEF Mark
    <3>2. \A q \in Runs : marks[q] \in SUBSET Mark
      BY <1>1 DEF TypeOK
    <3> QED
      BY <1>3, <3>1, <3>2
  <2> QED
    BY <1>3, <2>1
<1>5. \A q \in Runs : RunOK(q)'
  <2>1. ASSUME NEW q \in Runs, q # r PROVE RunOK(q)'
    <3>1. RunOK(q) /\ kind'[q] = kind[q] /\ at'[q] = at[q] /\ k'[q] = k[q]
      BY <1>1, <1>2, <2>1 DEF BaseInv, TypeOK
    <3>2. at[q] \in Planned => marks'[q] \cap {"raised", "killed"} = {}
      BY <1>3, <2>1, <3>1 DEF RunOK, Free
    <3> QED
      BY <1>2, <3>1, <3>2, RunKept
  <2>2. RunOK(r)'
    <3>1. kind'[r] = program /\ at'[r] = "setting" /\ k'[r] = 1 /\ v'[r] = 1 /\ cap'[r] = "off"
      BY <1>1, <1>2 DEF TypeOK
    <3>2. 1 \in DOMAIN Bags /\ 1 \in DOMAIN Counts /\ Counts[1] \in 1..Most /\ Most \in Nat
      BY Constants
    <3>3. 1 \in (DOMAIN Plan(r))' /\ LinksOf(r)' >= 1
      BY <3>1, <3>2 DEF Plan, LinksOf, Multi
    <3> QED
      BY <1>3, <3>1, <3>3 DEF RunOK, Planned, Free
  <2> QED
    BY <2>1, <2>2
<1>6. TypeOK'
  <2>1. runs' \in 0..MaxRuns
    BY <1>1, <1>2, BenchAssumption DEF TypeOK
  <2> QED
    BY <1>1, <1>2, <1>4, <1>5, <2>1, StepsKept DEF TypeOK, Stage
<1> QED
  BY <1>5, <1>6 DEF BaseInv

\* A run that is given its next place.
LEMMA StageKept ==
  ASSUME BaseInv, NEW r \in Runs, r \in Running, at[r] \in Giving, Advance(r),
         NEW m \in SUBSET {"lost", "stray"}, marks' = Noted(r, m), UNCHANGED <<kind, k, cap>>
  PROVE  \A q \in Runs : RunOK(q)'
<1>1. TypeOK /\ m \in SUBSET Mark
  BY DEF BaseInv, Mark
<1>2. ASSUME NEW q \in Runs, q # r PROVE RunOK(q)'
  <2>1. RunOK(q) /\ at'[q] = at[q] /\ v'[q] = v[q] /\ marks'[q] = marks[q]
    BY <1>1, <1>2, AdvanceFacts, NotedFacts DEF BaseInv
  <2> QED
    BY <2>1, RunKept DEF RunOK, Free
<1>3. RunOK(r)'
  <2>1. /\ Active(r) /\ RunOK(r)
        /\ kind[r] \in {"report", "multi"} /\ k[r] \in DOMAIN Plan(r)
        /\ LinksOf(r) \in 1..Most /\ v[r] \in 1..(Most + 1) /\ Most \in Nat
    BY RunFacts, Constants DEF Active, BaseInv
  <2>2. Plan(r)' = Plan(r) /\ LinksOf(r)' = LinksOf(r) /\ Multi(r)' = Multi(r)
    BY DEF Plan, LinksOf, Multi
  <2>3. Active(r)' => kind'[r] \in {"report", "multi"} /\ k'[r] \in (DOMAIN Plan(r))'
    BY <2>1, <2>2
  <2>4. at'[r] \in Planned => Free(r, {"raised", "killed"})'
    <3>1. at'[r] \in Planned => at[r] \in Planned
      BY AdvanceFacts DEF Giving, Planned
    <3>2. marks'[r] \subseteq marks[r] \cup m \/ marks'[r] = {"company"}
      BY <1>1, NotedFacts
    <3> QED
      BY <2>1, <3>1, <3>2 DEF RunOK, Free
  <2>5. CASE at[r] = "setting"
    <3>1. IF v[r] < LinksOf(r) THEN at'[r] = "setting" /\ v'[r] = v[r] + 1
          ELSE at'[r] = "starting" /\ v'[r] = 1
      BY <2>5, AdvanceFacts
    <3>2. cap'[r] = "off"
      BY <2>1, <2>5 DEF RunOK
    <3> QED
      BY <2>1, <2>2, <2>3, <2>4, <3>1, <3>2 DEF RunOK
  <2>6. CASE at[r] = "sending"
    <3>1. \/ at'[r] = "sending" /\ v'[r] \in 1..LinksOf(r)
          \/ at'[r] = "waiting" /\ v'[r] = 1
      BY <2>6, AdvanceFacts
    <3> QED
      BY <2>1, <2>2, <2>3, <2>4, <3>1 DEF RunOK
  <2>7. CASE at[r] = "restoring"
    <3>1. IF v[r] <= Most THEN at'[r] = "restoring" /\ v'[r] = v[r] + 1
          ELSE at'[r] = "leaving" /\ v'[r] = v[r]
      BY <2>7, AdvanceFacts
    <3>2. v[r] <= Most => Multi(r) /\ v[r] + 1 # 1
      BY <2>1, <2>7 DEF RunOK
    <3> QED
      BY <2>1, <2>2, <2>3, <2>4, <3>1, <3>2 DEF RunOK
  <2> QED
    BY <2>5, <2>6, <2>7 DEF Giving
<1> QED
  BY <1>2, <1>3

LEMMA CommandRunsTypes ==
  ASSUME BaseInv, NEW r \in Runs, CommandRuns(r) PROVE BaseInv'
<1>1. /\ at[r] \in Giving /\ r \in Running /\ TypeOK
      /\ UNCHANGED <<kind, k, row, cap, files, shell, runs, faults>> /\ Advance(r)
      /\ vl' \in After(Asked(r)) /\ Carry(Asked(r)) /\ marks' = Noted(r, Stray(Asked(r)))
  BY DEF CommandRuns, Giving, Running, BaseInv
<1>2. Asked(r) \in Command
  BY <1>1, AskedFacts
<1>3. Stray(Asked(r)) \in SUBSET {"lost", "stray"} /\ Stray(Asked(r)) \in SUBSET Mark
  BY DEF Stray, Mark
<1>4. \A q \in Runs : RunOK(q)'
  BY <1>1, <1>3, StageKept
<1>5. at' \in [Runs -> Stage] /\ v' \in [Runs -> 1..(Most + 1)]
  BY <1>1, AdvanceFacts
<1>6. /\ vl' \in [Links -> Paces \cup {0}] /\ buf' \in [Runs -> SUBSET Frame]
      /\ \A q \in Runs : cap[q] = "off" => buf'[q] = buf[q]
  BY <1>1, <1>2, AfterFacts, CarryFacts
<1>7. marks' \in [Runs -> SUBSET Mark]
  BY <1>1, <1>3, NotedFacts
<1> QED
  BY <1>1, <1>4, <1>5, <1>6, <1>7, StepsKept DEF BaseInv, TypeOK

LEMMA CommandLostTypes ==
  ASSUME BaseInv, NEW r \in Runs, CommandLost(r) PROVE BaseInv'
<1>1. /\ at[r] \in Giving /\ r \in Running /\ TypeOK /\ Fault
      /\ UNCHANGED <<kind, k, row, cap, buf, files, vl>> /\ Advance(r)
      /\ shell' \in {shell, Append(shell, Asked(r))} /\ marks' = Noted(r, {"lost"})
  BY DEF CommandLost, Giving, Running, BaseInv, dumpVars
<1>2. Asked(r) \in Command
  BY <1>1, AskedFacts
<1>3. {"lost"} \in SUBSET {"lost", "stray"} /\ {"lost"} \in SUBSET Mark
  BY DEF Mark
<1>4. \A q \in Runs : RunOK(q)'
  BY <1>1, <1>3, StageKept
<1>5. at' \in [Runs -> Stage] /\ v' \in [Runs -> 1..(Most + 1)]
  BY <1>1, AdvanceFacts
<1>6. shell' \in Seq(Command)
  <2>1. shell \in Seq(Command)
    BY <1>1 DEF TypeOK
  <2>2. Append(shell, Asked(r)) \in Seq(Command)
    BY <1>2, <2>1, AppendFacts
  <2> QED
    BY <1>1, <2>1, <2>2
<1>7. marks' \in [Runs -> SUBSET Mark] /\ runs' \in 0..MaxRuns /\ faults' \in 0..MaxFaults
  BY <1>1, <1>3, NotedFacts, BenchAssumption DEF Fault, TypeOK
<1> QED
  BY <1>1, <1>4, <1>5, <1>6, <1>7, StepsKept DEF BaseInv, TypeOK

\* A run cut off, or one whose file is not there: where it goes.
LEMMA BrokenOff ==
  ASSUME BaseInv, NEW r \in Runs, r \in Running, at[r] # "leaving",
         BreakOff(r), UNCHANGED <<kind, k, cap>>
  PROVE  /\ at' \in [Runs -> Stage] /\ v' \in [Runs -> 1..(Most + 1)]
         /\ marks' \in [Runs -> SUBSET Mark] /\ \A q \in Runs : RunOK(q)'
<1>1. /\ at' \in [Runs -> Stage] /\ v' \in [Runs -> 1..(Most + 1)]
      /\ \A q \in Runs : q # r => at'[q] = at[q] /\ v'[q] = v[q]
      /\ IF Multi(r) /\ at[r] # "restoring" THEN at'[r] = "restoring" /\ v'[r] = 2
         ELSE at'[r] = "leaving" /\ v'[r] = v[r]
      /\ marks' = Noted(r, {IF at[r] = "restoring" THEN "killed" ELSE "raised"})
  BY BreakOffFacts
<1>2. TypeOK /\ {IF at[r] = "restoring" THEN "killed" ELSE "raised"} \in SUBSET Mark
  BY DEF BaseInv, Mark
<1>3. marks' \in [Runs -> SUBSET Mark] /\ \A q \in Runs : q # r => marks'[q] = marks[q]
  BY <1>1, <1>2, NotedFacts
<1>4. ASSUME NEW q \in Runs, q # r PROVE RunOK(q)'
  <2>1. RunOK(q) /\ at'[q] = at[q] /\ v'[q] = v[q] /\ marks'[q] = marks[q]
    BY <1>1, <1>3, <1>4 DEF BaseInv
  <2> QED
    BY <2>1, RunKept DEF RunOK, Free
<1>5. RunOK(r)'
  <2>1. kind[r] \in {"report", "multi"} /\ k[r] \in DOMAIN Plan(r)
    BY RunFacts DEF Active
  <2>2. Plan(r)' = Plan(r) /\ Multi(r)' = Multi(r)
    BY DEF Plan, Multi
  <2> QED
    BY <1>1, <2>1, <2>2 DEF RunOK, Planned
<1> QED
  BY <1>1, <1>3, <1>4, <1>5

LEMMA CutOffFacts ==
  ASSUME BaseInv, NEW r \in Runs, CutOff(r)
  PROVE  /\ r \in Running /\ at[r] # "leaving"
         /\ UNCHANGED <<kind, k, row, cap, buf, files, vl, runs>>
         /\ faults' \in 0..MaxFaults /\ shell' \in Seq(Command)
         /\ \/ shell' = shell
            \/ /\ shell' = Append(shell, Asked(r)) /\ at[r] \in Giving
               /\ Asked(r) \in Command /\ Asked(r).run = r
<1>1. at[r] \in Giving => Asked(r) \in Command /\ Asked(r).run = r
  BY AskedFacts
<1>2. \/ shell' = shell
      \/ shell' = Append(shell, Asked(r)) /\ at[r] \in Giving
  BY DEF CutOff, Giving
<1>3. shell' \in Seq(Command)
  <2>1. shell \in Seq(Command)
    BY DEF BaseInv, TypeOK
  <2>2. at[r] \in Giving => Append(shell, Asked(r)) \in Seq(Command)
    BY <1>1, <2>1, AppendFacts
  <2> QED
    BY <1>2, <2>1, <2>2
<1>4. faults' \in 0..MaxFaults
  BY BenchAssumption DEF CutOff, Fault, BaseInv, TypeOK
<1> QED
  BY <1>1, <1>2, <1>3, <1>4 DEF CutOff, Fault, dumpVars

LEMMA RaiseTypes ==
  ASSUME BaseInv, NEW r \in Runs, Raise(r) PROVE BaseInv'
<1>1. TypeOK /\ CutOff(r) /\ BreakOff(r)
  BY DEF Raise, BaseInv
<1>2. /\ r \in Running /\ at[r] # "leaving"
      /\ UNCHANGED <<kind, k, row, cap, buf, files, vl, runs>>
      /\ faults' \in 0..MaxFaults /\ shell' \in Seq(Command)
  BY <1>1, CutOffFacts
<1>3. /\ at' \in [Runs -> Stage] /\ v' \in [Runs -> 1..(Most + 1)]
      /\ marks' \in [Runs -> SUBSET Mark] /\ \A q \in Runs : RunOK(q)'
  BY <1>1, <1>2, BrokenOff
<1> QED
  BY <1>1, <1>2, <1>3, StepsKept DEF BaseInv, TypeOK

LEMMA KillTypes ==
  ASSUME BaseInv, NEW r \in Runs, Kill(r) PROVE BaseInv'
<1>1. /\ TypeOK /\ CutOff(r) /\ at' = [at EXCEPT ![r] = "leaving"]
      /\ v' = v /\ marks' = Noted(r, {"killed"})
  BY DEF Kill, BaseInv, Goto
<1>2. /\ r \in Running /\ at[r] # "leaving"
      /\ UNCHANGED <<kind, k, row, cap, buf, files, vl, runs>>
      /\ faults' \in 0..MaxFaults /\ shell' \in Seq(Command)
  BY <1>1, CutOffFacts
<1>3. {"killed"} \in SUBSET Mark
  BY DEF Mark
<1>4. marks' \in [Runs -> SUBSET Mark] /\ \A q \in Runs : q # r => marks'[q] = marks[q]
  BY <1>1, <1>3, NotedFacts
<1>5. \A q \in Runs : RunOK(q)'
  <2>1. ASSUME NEW q \in Runs, q # r PROVE RunOK(q)'
    <3>1. RunOK(q) /\ at'[q] = at[q]
      BY <1>1, <2>1 DEF BaseInv, TypeOK
    <3> QED
      BY <1>1, <1>2, <1>4, <2>1, <3>1, RunKept DEF RunOK, Free
  <2>2. RunOK(r)'
    <3>1. kind[r] \in {"report", "multi"} /\ k[r] \in DOMAIN Plan(r) /\ at'[r] = "leaving"
      BY <1>1, <1>2, RunFacts DEF Active, TypeOK
    <3>2. Plan(r)' = Plan(r)
      BY <1>2 DEF Plan, Multi
    <3> QED
      BY <1>2, <3>1, <3>2 DEF RunOK, Planned
  <2> QED
    BY <2>1, <2>2
<1>6. at' \in [Runs -> Stage]
  BY <1>1 DEF TypeOK, Stage
<1> QED
  BY <1>1, <1>2, <1>4, <1>5, <1>6, StepsKept DEF BaseInv, TypeOK

LEMMA CatchUpTypes ==
  ASSUME BaseInv, CatchUp PROVE BaseInv'
<1>1. /\ TypeOK /\ shell \in Seq(Command) /\ shell # <<>> /\ shell' = Tail(shell)
      /\ UNCHANGED <<kind, at, k, v, row, cap, files, runs, faults>>
      /\ vl' \in After(Head(shell)) /\ Carry(Head(shell))
  BY DEF CatchUp, BaseInv, TypeOK, runVars
<1>2. Head(shell) \in Command /\ shell' \in Seq(Command)
  BY <1>1, TailFacts
<1>3. /\ vl' \in [Links -> Paces \cup {0}] /\ buf' \in [Runs -> SUBSET Frame]
      /\ \A q \in Runs : cap[q] = "off" => buf'[q] = buf[q]
  BY <1>1, <1>2, AfterFacts, CarryFacts
<1>4. {"lost"} \cup Stray(Head(shell)) \in SUBSET Mark
  BY DEF Stray, Mark
<1>5. /\ DOMAIN marks' = Runs /\ marks' = [q \in Runs |-> marks'[q]]
      /\ \A q \in Runs : marks'[q] \in
           {{}, {"company"}, Noted(q, {"lost"} \cup Stray(Head(shell)))[q]}
  BY DEF CatchUp
<1>6. \A q \in Runs : marks'[q] \in SUBSET Mark /\ marks'[q] \subseteq
                        marks[q] \cup {"company", "lost", "stray"}
  <2> SUFFICES ASSUME NEW q \in Runs
               PROVE  marks'[q] \in SUBSET Mark /\ marks'[q] \subseteq
                        marks[q] \cup {"company", "lost", "stray"}
    OBVIOUS
  <2> DEFINE noted == Noted(q, {"lost"} \cup Stray(Head(shell)))[q]
  <2>1. noted \in SUBSET Mark /\ noted \subseteq marks[q] \cup {"lost", "stray"}
    <3>1. noted \in SUBSET Mark /\ noted \subseteq marks[q] \cup ({"lost"} \cup Stray(Head(shell)))
      BY <1>1, <1>4, NotedFacts
    <3> QED
      BY <3>1 DEF Stray
  <2>2. {"company"} \in SUBSET Mark
    BY DEF Mark
  <2>3. marks'[q] \in {{}, {"company"}, noted}
    BY <1>5
  <2> HIDE DEF noted
  <2> QED
    BY <2>1, <2>2, <2>3
<1>7. marks' \in [Runs -> SUBSET Mark]
  BY <1>5, <1>6
<1>8. ASSUME NEW q \in Runs PROVE RunOK(q)'
  <2>1. at[q] \in Planned => marks'[q] \cap {"raised", "killed"} = {}
    BY <1>6 DEF BaseInv, RunOK, Free
  <2>2. RunOK(q)
    BY DEF BaseInv
  <2> QED
    BY <1>1, <2>1, <2>2, RunKept
<1> QED
  BY <1>1, <1>2, <1>3, <1>7, <1>8, StepsKept DEF BaseInv, TypeOK

LEMMA StartCaptureTypes ==
  ASSUME BaseInv, NEW r \in Runs, StartCapture(r) PROVE BaseInv'
<1>1. /\ TypeOK /\ at[r] = "starting" /\ at' = [at EXCEPT ![r] = "sending"] /\ r \in Running
      /\ UNCHANGED <<kind, k, v, row, buf, files, vl, shell, runs>>
  BY DEF StartCapture, SetFilterAll, Fault, BaseInv, Goto, boardVars, Running
<1>2. /\ \/ cap' = cap \/ cap' = [cap EXCEPT ![r] = "on"] \/ cap' = [cap EXCEPT ![r] = "deaf"]
      /\ \/ marks' = marks \/ marks' = Noted(r, {"short"}) \/ marks' = Noted(r, {"nocapture"})
      /\ faults' = faults \/ Fault
  BY DEF StartCapture, SetFilterAll
<1>3. {"short"} \in SUBSET Mark /\ {"nocapture"} \in SUBSET Mark
  BY DEF Mark
<1>4. /\ marks' \in [Runs -> SUBSET Mark] /\ \A q \in Runs : q # r => marks'[q] = marks[q]
      /\ marks'[r] \subseteq marks[r] \cup {"short", "nocapture"} \/ marks'[r] = {"company"}
  BY <1>1, <1>2, <1>3, NotedFacts DEF TypeOK
<1>5. /\ cap' \in [Runs -> {"off", "on", "deaf", "writing"}]
      /\ \A q \in Runs : q # r => cap'[q] = cap[q] /\ at'[q] = at[q]
      /\ at' \in [Runs -> Stage] /\ at'[r] = "sending"
  BY <1>1, <1>2 DEF TypeOK, Stage
<1>6. \A q \in Runs : RunOK(q)'
  <2>1. ASSUME NEW q \in Runs, q # r PROVE RunOK(q)'
    BY <1>1, <1>4, <1>5, <2>1, RunKept DEF BaseInv, RunOK, Free
  <2>2. RunOK(r)'
    <3>1. /\ kind[r] \in {"report", "multi"} /\ k[r] \in DOMAIN Plan(r) /\ v[r] = 1
          /\ LinksOf(r) \in 1..Most /\ Most \in Nat /\ Free(r, {"raised", "killed"})
      BY <1>1, RunFacts, Constants DEF Active, BaseInv, RunOK, Planned
    <3>2. Plan(r)' = Plan(r) /\ LinksOf(r)' = LinksOf(r)
      BY <1>1 DEF Plan, LinksOf, Multi
    <3>3. Free(r, {"raised", "killed"})'
      BY <1>4, <3>1 DEF Free
    <3> QED
      BY <1>1, <1>5, <3>1, <3>2, <3>3 DEF RunOK
  <2> QED
    BY <2>1, <2>2
<1>7. faults' \in 0..MaxFaults
  BY <1>1, <1>2, BenchAssumption DEF Fault, TypeOK
<1>8. \A q \in Runs : cap'[q] = "off" => buf'[q] = {}
  <2>1. cap[r] = "off"
    BY <1>1 DEF BaseInv, RunOK
  <2> QED
    BY <1>1, <1>5, <2>1 DEF TypeOK
<1> QED
  BY <1>1, <1>4, <1>5, <1>6, <1>7, <1>8, StepsKept DEF BaseInv, TypeOK

LEMMA CaptureEndsTypes ==
  ASSUME BaseInv, NEW r \in Runs, CaptureEnds(r) PROVE BaseInv'
<1>1. /\ TypeOK /\ cap[r] # "off" /\ Active(r) /\ cap' = [cap EXCEPT ![r] = "writing"]
      /\ files' = [files EXCEPT ![Path(r)] = [by |-> r, whole |-> "no", frames |-> {}]]
      /\ UNCHANGED <<kind, at, k, v, row, buf, vl, shell, runs, faults>>
      /\ marks' = marks \/ (marks' = Noted(r, {"short"}) /\ at[r] = "sending")
  BY DEF CaptureEnds, BaseInv, runVars, boardVars, Active
<1>2. {"short"} \in SUBSET Mark
  BY DEF Mark
<1>3. /\ marks' \in [Runs -> SUBSET Mark] /\ \A q \in Runs : q # r => marks'[q] = marks[q]
      /\ marks'[r] \subseteq marks[r] \cup {"short"} \/ marks'[r] = {"company"}
  BY <1>1, <1>2, NotedFacts DEF TypeOK
<1>4. /\ cap' \in [Runs -> {"off", "on", "deaf", "writing"}] /\ cap'[r] = "writing"
      /\ \A q \in Runs : q # r => cap'[q] = cap[q]
  BY <1>1 DEF TypeOK
<1>5. \A q \in Runs : RunOK(q)'
  <2>1. ASSUME NEW q \in Runs, q # r PROVE RunOK(q)'
    BY <1>1, <1>3, <1>4, <2>1, RunKept DEF BaseInv, RunOK, Free
  <2>2. RunOK(r)'
    <3>1. Plan(r)' = Plan(r) /\ LinksOf(r)' = LinksOf(r) /\ Multi(r)' = Multi(r)
      BY <1>1 DEF Plan, LinksOf, Multi
    <3>2. RunOK(r)
      BY DEF BaseInv
    <3> QED
      BY <1>1, <1>3, <1>4, <3>1, <3>2 DEF RunOK, Free
  <2> QED
    BY <2>1, <2>2
<1>6. files' \in [Paths -> [by : Who, whole : {"yes", "no"}, frames : SUBSET Frame]]
  <2>1. Path(r) \in Paths /\ r \in Who
    BY <1>1, RunFacts DEF Who
  <2> QED
    BY <1>1, <2>1 DEF TypeOK
<1> QED
  BY <1>1, <1>3, <1>4, <1>5, <1>6, StepsKept DEF BaseInv, TypeOK

LEMMA CaptureStops ==
  ASSUME BaseInv, NEW r \in Runs,
         cap' = [cap EXCEPT ![r] = "off"], buf' = [buf EXCEPT ![r] = {}],
         UNCHANGED <<kind, at, k, v, row>>,
         \A q \in Runs : marks'[q] \in {marks[q], {"company"}, marks[q] \cup {"nocapture"}}
  PROVE  /\ cap' \in [Runs -> {"off", "on", "deaf", "writing"}] /\ buf' \in [Runs -> SUBSET Frame]
         /\ \A q \in Runs : cap'[q] = "off" => buf'[q] = {}
         /\ \A q \in Runs : RunOK(q)'
<1>1. TypeOK
  BY DEF BaseInv
<1>2. \A q \in Runs : cap'[q] \in {cap[q], "off"}
  BY <1>1 DEF TypeOK
<1>3. ASSUME NEW q \in Runs PROVE RunOK(q)'
  <2>1. at[q] \in Planned => marks'[q] \cap {"raised", "killed"} = {}
    BY DEF BaseInv, RunOK, Free
  <2> QED
    BY <1>2, <2>1, RunKept DEF BaseInv
<1> QED
  BY <1>1, <1>3 DEF TypeOK

LEMMA CaptureWritesTypes ==
  ASSUME BaseInv, NEW r \in Runs, CaptureWrites(r) PROVE BaseInv'
<1>1. /\ TypeOK /\ cap[r] = "writing" /\ Active(r)
      /\ cap' = [cap EXCEPT ![r] = "off"] /\ buf' = [buf EXCEPT ![r] = {}]
      /\ UNCHANGED <<kind, at, k, v, row, vl, shell, marks, runs, faults>>
  BY DEF CaptureWrites, BaseInv, runVars, boardVars, Active
<1>2. \E whole \in {"yes", "no"} :
        files' = [files EXCEPT ![Path(r)] =
          [by |-> 0, whole |-> whole, frames |-> IF whole = "yes" THEN buf[r] ELSE {}]]
  BY DEF CaptureWrites
<1>3. files' \in [Paths -> [by : Who, whole : {"yes", "no"}, frames : SUBSET Frame]]
  <2>1. Path(r) \in Paths /\ 0 \in Who
    BY <1>1, RunFacts DEF Who
  <2> QED
    BY <1>1, <1>2, <2>1 DEF TypeOK
<1>4. /\ cap' \in [Runs -> {"off", "on", "deaf", "writing"}] /\ buf' \in [Runs -> SUBSET Frame]
      /\ \A q \in Runs : cap'[q] = "off" => buf'[q] = {}
      /\ \A q \in Runs : RunOK(q)'
  BY <1>1, CaptureStops
<1> QED
  BY <1>1, <1>3, <1>4, StepsKept DEF BaseInv, TypeOK

LEMMA CaptureDiesTypes ==
  ASSUME BaseInv, NEW r \in Runs, CaptureDies(r) PROVE BaseInv'
<1>1. /\ TypeOK /\ Fault
      /\ cap' = [cap EXCEPT ![r] = "off"] /\ buf' = [buf EXCEPT ![r] = {}]
      /\ UNCHANGED <<kind, at, k, v, row, files, vl, shell, runs>>
      /\ marks' = marks \/ marks' = Noted(r, {"nocapture"})
  BY DEF CaptureDies, BaseInv, runVars, boardVars, Fault
<1>2. {"nocapture"} \in SUBSET Mark
  BY DEF Mark
<1>3. /\ marks' \in [Runs -> SUBSET Mark]
      /\ \A q \in Runs : marks'[q] \in {marks[q], {"company"}, marks[q] \cup {"nocapture"}}
  <2>1. CASE marks' = marks
    BY <1>1, <2>1 DEF TypeOK
  <2>2. CASE marks' = Noted(r, {"nocapture"})
    <3>1. /\ marks' \in [Runs -> SUBSET Mark] /\ \A q \in Runs : q # r => marks'[q] = marks[q]
          /\ marks'[r] \in {{"company"}, marks[r] \cup {"nocapture"}}
      BY <1>1, <1>2, <2>2, NotedFacts
    <3> QED
      BY <3>1
  <2> QED
    BY <1>1, <2>1, <2>2
<1>4. /\ cap' \in [Runs -> {"off", "on", "deaf", "writing"}] /\ buf' \in [Runs -> SUBSET Frame]
      /\ \A q \in Runs : cap'[q] = "off" => buf'[q] = {}
      /\ \A q \in Runs : RunOK(q)'
  BY <1>1, <1>3, CaptureStops
<1>5. faults' \in 0..MaxFaults
  BY <1>1, BenchAssumption DEF Fault, TypeOK
<1> QED
  BY <1>1, <1>3, <1>4, <1>5, StepsKept DEF BaseInv, TypeOK

LEMMA LoadTypes ==
  ASSUME BaseInv, NEW r \in Runs, Load(r) PROVE BaseInv'
<1>1. /\ TypeOK /\ at[r] = "waiting" /\ cap[r] = "off" /\ r \in Running
      /\ UNCHANGED <<kind, k, cap, buf, files, vl, shell, runs, faults>>
  BY DEF Load, LoadWhen, BaseInv, dumpVars, boardVars, Running
<1>2. CASE BreakOff(r) /\ row' = row
  <2>1. /\ at' \in [Runs -> Stage] /\ v' \in [Runs -> 1..(Most + 1)]
        /\ marks' \in [Runs -> SUBSET Mark] /\ \A q \in Runs : RunOK(q)'
    BY <1>1, <1>2, BrokenOff
  <2> QED
    BY <1>1, <1>2, <2>1, StepsKept DEF BaseInv, TypeOK
<1>3. CASE /\ row' = [row EXCEPT ![r] = files[Path(r)].frames]
           /\ at' = [at EXCEPT ![r] = "shown"] /\ UNCHANGED <<v, marks>>
  <2>1. Path(r) \in Paths
    BY <1>1, RunFacts DEF Active
  <2>2. row' \in [Runs -> SUBSET Frame] /\ at' \in [Runs -> Stage]
    BY <1>1, <1>3, <2>1 DEF TypeOK, Stage
  <2>3. \A q \in Runs : RunOK(q)'
    <3>1. ASSUME NEW q \in Runs, q # r PROVE RunOK(q)'
      BY <1>1, <1>3, <3>1, RunKept DEF BaseInv, TypeOK, RunOK, Free
    <3>2. RunOK(r)'
      <4>1. Plan(r)' = Plan(r) /\ at'[r] = "shown"
        BY <1>1, <1>3 DEF Plan, Multi, TypeOK
      <4>2. RunOK(r) /\ Active(r)
        BY <1>1 DEF BaseInv, Active
      <4> QED
        BY <1>1, <1>3, <4>1, <4>2 DEF RunOK, Planned, Free
    <3> QED
      BY <3>1, <3>2
  <2> QED
    BY <1>1, <1>3, <2>2, <2>3, StepsKept DEF BaseInv, TypeOK
<1> QED
  BY <1>2, <1>3 DEF Load, LoadWhen, Goto

LEMMA NextStepTypes ==
  ASSUME BaseInv, NEW r \in Runs, NextStep(r) PROVE BaseInv'
<1>1. /\ TypeOK /\ at[r] = "shown" /\ r \in Running /\ row' = [row EXCEPT ![r] = {}]
      /\ UNCHANGED <<kind, cap, buf, files, vl, shell, marks, runs, faults>>
      /\ \/ /\ LastStep(r) /\ at' = [at EXCEPT ![r] = "restoring"] /\ k' = k
            /\ v' = [v EXCEPT ![r] = IF Multi(r) THEN 2 ELSE Most + 1]
         \/ /\ ~LastStep(r) /\ at' = [at EXCEPT ![r] = "setting"] /\ v' = v
            /\ k' = [k EXCEPT ![r] = @ + 1]
  BY DEF NextStep, BaseInv, dumpVars, boardVars, Running, Goto, BeginRestore
<1>2. /\ RunOK(r) /\ kind[r] \in {"report", "multi"} /\ k[r] \in Nat \ {0} /\ v[r] = 1
      /\ k[r] \in 1..Len(Plan(r)) /\ DOMAIN Plan(r) = 1..Len(Plan(r)) /\ Len(Plan(r)) \in Nat
      /\ cap[r] = "off" /\ Free(r, {"raised", "killed"}) /\ Most \in Nat \ {0}
  BY <1>1, RunFacts, Constants DEF Active, BaseInv, RunOK, Planned
<1>3. /\ at' \in [Runs -> Stage] /\ k' \in [Runs -> Nat] /\ v' \in [Runs -> 1..(Most + 1)]
      /\ row' \in [Runs -> SUBSET Frame]
      /\ \A q \in Runs : q # r => at'[q] = at[q] /\ k'[q] = k[q] /\ v'[q] = v[q]
  <2>1. at' \in [Runs -> Stage] /\ \A q \in Runs : q # r => at'[q] = at[q]
    BY <1>1 DEF TypeOK, Stage
  <2>2. k' \in [Runs -> Nat] /\ \A q \in Runs : q # r => k'[q] = k[q]
    <3>1. k' = k \/ k' = [k EXCEPT ![r] = k[r] + 1]
      BY <1>1
    <3> QED
      BY <1>1, <1>2, <3>1 DEF TypeOK
  <2>3. v' \in [Runs -> 1..(Most + 1)] /\ \A q \in Runs : q # r => v'[q] = v[q]
    <3>1. 2 \in 1..(Most + 1) /\ Most + 1 \in 1..(Most + 1)
      BY <1>2
    <3> QED
      BY <1>1, <3>1 DEF TypeOK
  <2>4. row' \in [Runs -> SUBSET Frame]
    BY <1>1 DEF TypeOK
  <2> QED
    BY <2>1, <2>2, <2>3, <2>4
<1>4. ASSUME NEW q \in Runs, q # r PROVE RunOK(q)'
  BY <1>1, <1>3, <1>4, RunKept DEF BaseInv, RunOK, Free
<1>5. RunOK(r)'
  <2>1. CASE at'[r] = "restoring" /\ k'[r] = k[r] /\ v'[r] = IF Multi(r) THEN 2 ELSE Most + 1
    <3>1. Plan(r)' = Plan(r) /\ Multi(r)' = Multi(r)
      BY <1>1 DEF Plan, Multi
    <3> QED
      BY <1>1, <1>2, <2>1, <3>1 DEF RunOK, Planned
  <2>2. CASE at'[r] = "setting" /\ k'[r] = k[r] + 1 /\ v'[r] = 1 /\ ~LastStep(r)
    <3>1. Plan(r)' = Plan(r) /\ Multi(r)' = Multi(r) /\ k[r] + 1 \in DOMAIN Plan(r)
      BY <1>1, <1>2, <2>2 DEF Plan, Multi, LastStep
    <3>2. 1 <= LinksOf(r)'
      BY <1>2, <2>2, <3>1, Constants DEF LinksOf, Plan
    <3> QED
      BY <1>1, <1>2, <2>2, <3>1, <3>2 DEF RunOK, Planned, Free
  <2> QED
    BY <1>1, <1>2, <2>1, <2>2 DEF TypeOK
<1> QED
  BY <1>1, <1>3, <1>4, <1>5, StepsKept DEF BaseInv, TypeOK

\* What Leave makes of the frames and of the commands of the run.
LEMMA Forgotten ==
  /\ \A r \in Runs : \A fs \in SUBSET Frame : {IF f.run = r THEN Old ELSE f : f \in fs} \in SUBSET Frame
  /\ \A r \in Runs : \A c \in Command :
       (IF c.run = r THEN [c EXCEPT !.run = 0, !.step = 0] ELSE c) \in Command
<1>1. Old \in Frame
  BY Constants DEF Old, Frame, Who, Links
<1>2. \A r \in Runs : \A fs \in SUBSET Frame : {IF f.run = r THEN Old ELSE f : f \in fs} \in SUBSET Frame
  BY <1>1
<1>3. ASSUME NEW c \in Command PROVE [c EXCEPT !.run = 0, !.step = 0] \in Command
  <2>1. c \in [op : {"set", "add", "del", "send"}, run : Who, step : Steps \cup {0},
               vl : Links, bag : Paces]
    BY DEF Command
  <2>2. [c EXCEPT !.run = 0, !.step = 0] \in [op : {"set", "add", "del", "send"}, run : Who,
               step : Steps \cup {0}, vl : Links, bag : Paces]
    BY <2>1 DEF Who
  <2> QED
    BY <2>2 DEF Command
<1> QED
  BY <1>2, <1>3

LEMMA LeaveFacts ==
  ASSUME BaseInv, NEW r \in Runs, Leave(r)
  PROVE  /\ at[r] = "leaving" /\ at' = [at EXCEPT ![r] = "idle"] /\ v' = [v EXCEPT ![r] = 1]
         /\ row' = [row EXCEPT ![r] = {}] /\ marks' = [marks EXCEPT ![r] = {}]
         /\ UNCHANGED <<cap, vl, runs, faults>>
         /\ buf' \in [Runs -> SUBSET Frame] /\ \A q \in Runs : cap'[q] = "off" => buf'[q] = {}
         /\ files' \in [Paths -> [by : Who, whole : {"yes", "no"}, frames : SUBSET Frame]]
         /\ shell' \in Seq(Command)
         /\ \/ cap[r] = "off" /\ k' = [k EXCEPT ![r] = 1] /\ kind' = [kind EXCEPT ![r] = "none"]
            \/ cap[r] # "off" /\ UNCHANGED <<k, kind>>
<1>1. TypeOK
  BY DEF BaseInv
<1> DEFINE all(fs) == {IF f.run = r THEN Old ELSE f : f \in fs}
           over(c) == IF c.run = r THEN [c EXCEPT !.run = 0, !.step = 0] ELSE c
<1>2. /\ buf' = [q \in Runs |-> all(buf[q])]
      /\ files' = [p \in Paths |-> [files[p] EXCEPT !.frames = all(@)]]
      /\ shell' = [i \in DOMAIN shell |-> over(shell[i])]
  BY DEF Leave
<1>3. /\ \A fs \in SUBSET Frame : all(fs) \in SUBSET Frame
      /\ \A c \in Command : over(c) \in Command
  BY Forgotten
<1>4. all({}) = {}
  OBVIOUS
<1> HIDE DEF all, over
<1>5. buf' \in [Runs -> SUBSET Frame]
  BY <1>1, <1>2, <1>3 DEF TypeOK
<1>6. \A q \in Runs : cap[q] = "off" => buf'[q] = {}
  BY <1>1, <1>2, <1>4 DEF TypeOK
<1>7. files' \in [Paths -> [by : Who, whole : {"yes", "no"}, frames : SUBSET Frame]]
  BY <1>1, <1>2, <1>3 DEF TypeOK
<1>8. shell' \in Seq(Command)
  <2>1. shell \in Seq(Command)
    BY <1>1 DEF TypeOK
  <2>2. Len(shell) \in Nat /\ DOMAIN shell = 1..Len(shell) /\ \A i \in 1..Len(shell) : shell[i] \in Command
    BY <2>1
  <2>3. shell' \in [1..Len(shell) -> Command]
    BY <1>2, <1>3, <2>2
  <2>4. \A n \in Nat : \A s \in [1..n -> Command] : s \in Seq(Command)
    OBVIOUS
  <2> QED
    BY <2>2, <2>3, <2>4
<1>9. /\ at[r] = "leaving" /\ at' = [at EXCEPT ![r] = "idle"] /\ v' = [v EXCEPT ![r] = 1]
      /\ row' = [row EXCEPT ![r] = {}] /\ marks' = [marks EXCEPT ![r] = {}]
      /\ UNCHANGED <<cap, vl, runs, faults>>
      /\ \/ cap[r] = "off" /\ k' = [k EXCEPT ![r] = 1] /\ kind' = [kind EXCEPT ![r] = "none"]
         \/ cap[r] # "off" /\ UNCHANGED <<k, kind>>
  BY DEF Leave, Goto
<1> QED
  BY <1>5, <1>6, <1>7, <1>8, <1>9

LEMMA LeaveTypes ==
  ASSUME BaseInv, NEW r \in Runs, Leave(r) PROVE BaseInv'
<1>1. /\ at[r] = "leaving" /\ at' = [at EXCEPT ![r] = "idle"] /\ v' = [v EXCEPT ![r] = 1]
      /\ row' = [row EXCEPT ![r] = {}] /\ marks' = [marks EXCEPT ![r] = {}]
      /\ UNCHANGED <<cap, vl, runs, faults>>
      /\ \/ cap[r] = "off" /\ k' = [k EXCEPT ![r] = 1] /\ kind' = [kind EXCEPT ![r] = "none"]
         \/ cap[r] # "off" /\ UNCHANGED <<k, kind>>
  BY LeaveFacts
<1>2. /\ buf' \in [Runs -> SUBSET Frame] /\ \A q \in Runs : cap'[q] = "off" => buf'[q] = {}
      /\ files' \in [Paths -> [by : Who, whole : {"yes", "no"}, frames : SUBSET Frame]]
      /\ shell' \in Seq(Command)
  BY LeaveFacts
<1>3. TypeOK /\ Most \in Nat \ {0} /\ Active(r)
  BY <1>1, Constants DEF BaseInv, Active, Running
<1>4. /\ at' \in [Runs -> Stage] /\ v' \in [Runs -> 1..(Most + 1)]
      /\ row' \in [Runs -> SUBSET Frame] /\ marks' \in [Runs -> SUBSET Mark]
  BY <1>1, <1>3 DEF TypeOK, Stage
<1>5. k' \in [Runs -> Nat] /\ kind' \in [Runs -> {"none", "report", "multi"}]
  <2>1. CASE k' = [k EXCEPT ![r] = 1] /\ kind' = [kind EXCEPT ![r] = "none"]
    BY <1>3, <2>1 DEF TypeOK
  <2>2. CASE UNCHANGED <<k, kind>>
    BY <1>3, <2>2 DEF TypeOK
  <2> QED
    BY <1>1, <2>1, <2>2
<1>6. ASSUME NEW q \in Runs, q # r PROVE RunOK(q)'
  <2>1. /\ kind'[q] = kind[q] /\ at'[q] = at[q] /\ k'[q] = k[q] /\ v'[q] = v[q]
        /\ marks'[q] = marks[q]
    BY <1>1, <1>3, <1>6 DEF TypeOK
  <2> QED
    BY <1>1, <2>1, RunKept DEF BaseInv, RunOK, Free
<1>7. RunOK(r)'
  <2>1. at'[r] = "idle" /\ v'[r] = 1
    BY <1>1, <1>3 DEF TypeOK
  <2>2. r \notin Running'
    BY <2>1 DEF Running
  <2>3. CASE cap[r] = "off"
    BY <1>1, <2>1, <2>2, <2>3 DEF RunOK, Active, Planned
  <2>4. CASE cap[r] # "off"
    <3>1. kind'[r] = kind[r] /\ k'[r] = k[r] /\ Plan(r)' = Plan(r)
      BY <1>1, <2>4 DEF Plan, Multi
    <3>2. kind[r] \in {"report", "multi"} /\ k[r] \in DOMAIN Plan(r)
      BY <1>3, RunFacts
    <3> QED
      BY <2>1, <3>1, <3>2 DEF RunOK, Planned
  <2> QED
    BY <2>3, <2>4
<1> QED
  BY <1>1, <1>2, <1>3, <1>4, <1>5, <1>6, <1>7, StepsKept DEF BaseInv, TypeOK

LEMMA InitTypes ==
  ASSUME Init PROVE BaseInv
<1>1. Most \in Nat \ {0} /\ Default \in Paces
  BY Constants
<1>2. Old \in Frame
  BY Constants DEF Old, Frame, Who, Links
<1>3. files \in [Paths -> [by : Who, whole : {"yes", "no"}, frames : SUBSET Frame]]
  BY <1>2 DEF Init, Who
<1>4. shell \in Seq(Command)
  BY DEF Init
<1>5. vl \in [Links -> Paces \cup {0}]
  BY <1>1 DEF Init
<1>6. Running = {}
  BY DEF Init, Running
<1>7. \A r \in Runs : RunOK(r)
  BY <1>6 DEF Init, RunOK, Active, Planned
<1> QED
  BY <1>1, <1>3, <1>4, <1>5, <1>6, <1>7, BenchAssumption DEF BaseInv, TypeOK, Init, Stage

LEMMA NextTypes ==
  ASSUME BaseInv, [Next]_vars PROVE BaseInv'
<1>1. CASE UNCHANGED vars
  BY <1>1 DEF BaseInv, TypeOK, RunOK, Active, Running, Plan, LinksOf, Multi, Free, vars, runVars,
     dumpVars, boardVars
<1>2. CASE Next
  BY <1>2, LaunchTypes, CommandRunsTypes, CommandLostTypes, RaiseTypes, KillTypes, CatchUpTypes,
     StartCaptureTypes, CaptureEndsTypes, CaptureWritesTypes, CaptureDiesTypes, LoadTypes,
     NextStepTypes, LeaveTypes DEF Next, Program, Capture
<1> QED
  BY <1>1, <1>2

\* TypeOK holds in every reachable state: for every plan a run is at a step of
\* it, and no command is for a link beyond it.
THEOREM BenchTypes == Spec => []TypeOK
<1>1. Init => BaseInv
  BY InitTypes
<1>2. BaseInv /\ [Next]_vars => BaseInv'
  BY NextTypes
<1>3. BaseInv => TypeOK
  BY DEF BaseInv
<1> QED
  BY <1>1, <1>2, <1>3, PTL DEF Spec

-----------------------------------------------------------------------------
(* A run that is alone.                                                    *)

Followed(r) == Apart(r) /\ Dumped(r) /\ OnBoard(r) /\ Caught(r)

\* Beside it nobody is active.
LEMMA OnlyOne ==
  ASSUME LoneInv, NEW r \in Runs, Lone(r), NEW p \in Runs, Active(p)
  PROVE  p = r
  BY DEF LoneInv, Apart, Active, Running

\* So after a step of an active p only p can be alone, and was so before.
LEMMA LoneActor ==
  ASSUME LoneInv, NEW p \in Runs, Active(p),
         \A q \in Runs : q # p => at'[q] = at[q] /\ marks'[q] = marks[q],
         NEW r \in Runs, Lone(r)'
  PROVE  r = p
<1>1. ASSUME r # p PROVE FALSE
  <2>1. Lone(r)
    BY <1>1 DEF Lone, Running
  <2> QED
    BY <1>1, <2>1, OnlyOne
<1> QED
  BY <1>1

\* What a run does is the same as long as its program and its step are.
LEMMA SameStep ==
  ASSUME NEW r \in Runs, kind'[r] = kind[r], k'[r] = k[r]
  PROVE  /\ Multi(r)' = Multi(r) /\ Plan(r)' = Plan(r) /\ Pace(r)' = Pace(r)
         /\ Path(r)' = Path(r) /\ LinksOf(r)' = LinksOf(r)
  BY DEF Multi, Plan, Pace, Path, LinksOf

LEMMA StillOwn ==
  ASSUME NEW r \in Runs, kind'[r] = kind[r], k'[r] = k[r], marks[r] \subseteq marks'[r],
         NEW f, OwnFrame(r, f)
  PROVE  OwnFrame(r, f)'
<1>1. Multi(r)' = Multi(r) /\ Pace(r)' = Pace(r) /\ LinksOf(r)' = LinksOf(r)
  BY SameStep
<1> QED
  BY <1>1 DEF OwnFrame, Free

\* A run alone keeps what it has when only its own marks grow.
LEMMA DumpedKept ==
  ASSUME NEW r \in Runs, Dumped(r), kind'[r] = kind[r], k'[r] = k[r],
         marks[r] \subseteq marks'[r], UNCHANGED <<cap, files, row>>,
         Own(r, buf[r])',
         at'[r] \in {"sending", "waiting"} => at[r] \in {"sending", "waiting"},
         at'[r] = "shown" => at[r] = "shown"
  PROVE  Dumped(r)'
<1>1. Path(r)' = Path(r)
  BY SameStep
<1>2. \A fs : Own(r, fs) => \A f \in fs : OwnFrame(r, f)'
  BY StillOwn DEF Own
<1>3. Free(r, {"nocapture"})' => Free(r, {"nocapture"})
  BY DEF Free
<1> QED
  BY <1>1, <1>2, <1>3 DEF Dumped, Own

LEMMA BufferKept ==
  ASSUME NEW r \in Runs, Own(r, buf[r]), kind'[r] = kind[r], k'[r] = k[r],
         marks[r] \subseteq marks'[r], buf'[r] \subseteq buf[r]
  PROVE  Own(r, buf[r])'
  BY StillOwn DEF Own

LEMMA BoardKept ==
  ASSUME NEW r \in Runs, OnBoard(r), kind'[r] = kind[r], k'[r] = k[r],
         v'[r] = v[r], vl' = vl,
         marks[r] \subseteq marks'[r], "stray" \in marks'[r] => "stray" \in marks[r],
         at'[r] = at[r] \/ (at[r] \in Planned \ {"setting"} /\ at'[r] \in Planned \ {"setting"})
  PROVE  OnBoard(r)'
<1>1. Multi(r)' = Multi(r) /\ Pace(r)' = Pace(r)
  BY SameStep
<1>2. \A what : Free(r, what)' => Free(r, what)
  BY DEF Free
<1>3. Paced(r)'
  BY <1>1, <1>2 DEF OnBoard, Paced
<1>4. Added(r)'
  <2>1. Added(r) /\ (at'[r] \in Planned => at[r] \in Planned)
        /\ (at[r] = "setting" => at'[r] = "setting")
    BY DEF OnBoard
  <2> QED
    BY <1>1, <1>2, <2>1 DEF Added
<1>5. Restored(r)'
  <2>1. at'[r] = "restoring" => at[r] = "restoring"
    BY DEF Planned
  <2> QED
    BY <1>1, <1>2, <2>1 DEF OnBoard, Restored
<1>6. Left(r)'
  <2>1. at'[r] = "leaving" => at[r] = "leaving"
    BY DEF Planned
  <2> QED
    BY <1>1, <1>2, <2>1 DEF OnBoard, Left
<1>7. NoStray(r)'
  BY <1>1, <1>2 DEF OnBoard, NoStray
<1> QED
  BY <1>3, <1>4, <1>5, <1>6, <1>7 DEF OnBoard

\* A mark that takes the promises about the board away.
LEMMA BoardGivenUp ==
  ASSUME NEW r \in Runs,
         \/ "lost" \in marks'[r]
         \/ "killed" \in marks'[r] /\ at'[r] \notin Planned
         \/ "raised" \in marks'[r] /\ at'[r] = "leaving" /\ ~Multi(r)'
         \/ "raised" \in marks'[r] /\ at'[r] = "restoring" /\ v'[r] = 2
  PROVE  OnBoard(r)'
<1>1. CASE "lost" \in marks'[r]
  BY <1>1 DEF OnBoard, Paced, Added, Restored, Left, NoStray, Free
<1>2. CASE "killed" \in marks'[r] /\ at'[r] \notin Planned
  BY <1>2 DEF OnBoard, Paced, Added, Restored, Left, NoStray, Free
<1>3. CASE "raised" \in marks'[r] /\ at'[r] = "leaving" /\ ~Multi(r)'
  BY <1>3 DEF OnBoard, Paced, Added, Restored, Left, NoStray, Free, Planned
<1>4. CASE "raised" \in marks'[r] /\ at'[r] = "restoring" /\ v'[r] = 2
  <2>1. \A n : n \notin 2..2 - 1
    OBVIOUS
  <2> QED
    BY <1>4, <2>1 DEF OnBoard, Paced, Added, Restored, Left, NoStray, Free, Planned
<1> QED
  BY <1>1, <1>2, <1>3, <1>4

\* An own command more in the shell.
LEMMA ApartMore ==
  ASSUME TypeOK, NEW r \in Runs, Apart(r), cap' = cap,
         \A q \in Runs : q # r => at'[q] = at[q],
         \/ shell' = shell
         \/ \E c \in Command : shell' = Append(shell, c) /\ c.run = r,
         marks'[r] \cap {"lost", "raised", "killed"} # {}
  PROVE  Apart(r)'
<1>1. \A i \in 1..Len(shell') : shell'[i].run = r
  <2>1. shell \in Seq(Command)
    BY DEF TypeOK
  <2>2. CASE shell' = shell
    BY <2>2 DEF Apart
  <2>3. CASE \E c \in Command : shell' = Append(shell, c) /\ c.run = r
    <3>1. PICK c \in Command : shell' = Append(shell, c) /\ c.run = r
      BY <2>3
    <3>2. /\ Len(shell) \in Nat /\ Len(shell') = Len(shell) + 1
          /\ \A i \in 1..(Len(shell) + 1) : shell'[i] = IF i = Len(shell) + 1 THEN c ELSE shell[i]
      BY <2>1, <3>1, AppendFacts
    <3>3. ASSUME NEW i \in 1..(Len(shell) + 1) PROVE shell'[i].run = r
      <4>1. i # Len(shell) + 1 => i \in 1..Len(shell)
        BY <3>2, <3>3
      <4> QED
        BY <3>1, <3>2, <4>1 DEF Apart
    <3> QED
      BY <3>2, <3>3
  <2> QED
    BY <2>2, <2>3
<1> QED
  BY <1>1 DEF Apart, Free

-----------------------------------------------------------------------------
(* The steps of a run that is alone.                                       *)

\* A run that was alone, and that only got marks.
LEMMA WasLone ==
  ASSUME LoneInv, TypeOK, NEW r \in Runs, r \in Running, Lone(r)', NEW m \in SUBSET Mark,
         marks' = Noted(r, m)
  PROVE  Followed(r) /\ marks'[r] = marks[r] \cup m
<1>1. "company" \notin marks[r] /\ marks'[r] = marks[r] \cup m
  BY NotedFacts DEF Lone
<1> QED
  BY <1>1 DEF LoneInv, Lone, Followed

LEMMA ActiveRunning ==
  ASSUME NEW r \in Runs, r \in Running PROVE Active(r)
  BY DEF Active

LEMMA LaunchLone ==
  ASSUME IInv, NEW r \in Runs, NEW program \in {"report", "multi"}, Launch(r, program)
  PROVE  LoneInv'
<1>1. /\ TypeOK /\ at[r] = "idle" /\ cap[r] = "off" /\ v[r] = 1
      /\ at' = [at EXCEPT ![r] = "setting"] /\ k' = [k EXCEPT ![r] = 1]
      /\ UNCHANGED <<v, row, cap, buf, files, vl, shell>>
  BY DEF Launch, IInv, BaseInv, RunOK, Goto, dumpVars, boardVars
<1>2. /\ \A q \in Runs : q # r /\ q \in Running => marks'[q] = {"company"}
      /\ "company" \notin marks'[r] =>
           /\ Running = {} /\ shell = <<>> /\ \A q \in Runs : cap[q] = "off"
           /\ marks'[r] \subseteq {"leftover"}
           /\ "leftover" \notin marks'[r] => vl[1] # 0 /\ \A n \in Links \ {1} : vl[n] = 0
  BY DEF Launch
<1> SUFFICES ASSUME NEW q \in Runs, Lone(q)'
             PROVE  (Apart(q) /\ Dumped(q) /\ OnBoard(q) /\ Caught(q))'
  BY DEF LoneInv
<1>3. q = r
  BY <1>1, <1>2 DEF Lone, Running, TypeOK
<1>4. /\ Running = {} /\ shell = <<>> /\ \A p \in Runs : cap[p] = "off"
      /\ marks'[q] \subseteq {"leftover"}
      /\ "leftover" \notin marks'[q] => vl[1] # 0 /\ \A n \in Links \ {1} : vl[n] = 0
  BY <1>2, <1>3 DEF Lone
<1>5. at'[q] = "setting" /\ k'[q] = 1 /\ v'[q] = 1 /\ cap'[q] = "off" /\ buf'[q] = {}
  BY <1>1, <1>3 DEF TypeOK
<1>6. Apart(q)'
  <2>1. \A p \in Runs \ {q} : at'[p] = "idle" /\ cap'[p] = "off"
    BY <1>1, <1>3, <1>4 DEF Running, TypeOK
  <2>2. shell' = <<>> /\ Len(shell') = 0
    BY <1>1, <1>4
  <2> QED
    BY <2>1, <2>2 DEF Apart
<1>7. Dumped(q)'
  BY <1>5 DEF Dumped, Own
<1>8. OnBoard(q)'
  <2>1. Paced(q)'
    BY <1>1, <1>4, <1>5 DEF Paced, Free
  <2>2. Added(q)'
    BY <1>5 DEF Added
  <2> QED
    BY <1>4, <1>5, <2>1, <2>2 DEF OnBoard, Restored, Left, NoStray, Free
<1>9. Caught(q)'
  BY <1>5 DEF Caught
<1> QED
  BY <1>6, <1>7, <1>8, <1>9

LEMMA CommandLostLone ==
  ASSUME IInv, NEW r \in Runs, CommandLost(r) PROVE LoneInv'
<1>1. /\ at[r] \in Giving /\ r \in Running /\ BaseInv /\ TypeOK /\ Advance(r)
      /\ UNCHANGED <<kind, k, row, cap, buf, files, vl>>
      /\ shell' \in {shell, Append(shell, Asked(r))} /\ marks' = Noted(r, {"lost"})
  BY DEF CommandLost, Giving, Running, IInv, BaseInv, dumpVars
<1>2. Asked(r) \in Command /\ Asked(r).run = r /\ {"lost"} \in SUBSET Mark
  BY <1>1, AskedFacts DEF Mark
<1>3. /\ \A q \in Runs : q # r => at'[q] = at[q] /\ marks'[q] = marks[q]
      /\ at'[r] \in {"sending", "waiting"} => at[r] \in {"sending", "waiting"}
      /\ at'[r] # "shown"
  BY <1>1, <1>2, AdvanceFacts, NotedFacts DEF Giving
<1> SUFFICES ASSUME NEW q \in Runs, Lone(q)'
             PROVE  (Apart(q) /\ Dumped(q) /\ OnBoard(q) /\ Caught(q))'
  BY DEF LoneInv
<1>4. q = r
  BY <1>1, <1>3, LoneActor, ActiveRunning DEF IInv
<1>5. Followed(r) /\ marks'[r] = marks[r] \cup {"lost"}
  BY <1>1, <1>2, <1>4, WasLone DEF IInv
<1>6. Apart(r)'
  BY <1>1, <1>2, <1>3, <1>5, ApartMore DEF Followed
<1>7. Dumped(r)'
  <2>1. Own(r, buf[r])'
    BY <1>1, <1>5, BufferKept DEF Followed, Dumped
  <2> QED
    BY <1>1, <1>3, <1>5, <2>1, DumpedKept DEF Followed
<1>8. OnBoard(r)' /\ Caught(r)'
  BY <1>5, BoardGivenUp DEF Caught
<1> QED
  BY <1>4, <1>6, <1>7, <1>8

\* A run cut off.
LEMMA CutLone ==
  ASSUME IInv, NEW r \in Runs, CutOff(r), NEW what \in {"raised", "killed"},
         marks' = Noted(r, {what}),
         \A q \in Runs : q # r => at'[q] = at[q],
         at'[r] \in {"restoring", "leaving"},
         \/ what = "killed"
         \/ at'[r] = "leaving" /\ ~Multi(r)
         \/ at'[r] = "restoring" /\ v'[r] = 2
  PROVE  LoneInv'
<1>1. /\ BaseInv /\ TypeOK /\ r \in Running /\ {what} \in SUBSET Mark
      /\ UNCHANGED <<kind, k, row, cap, buf, files, vl>>
      /\ \/ shell' = shell
         \/ shell' = Append(shell, Asked(r)) /\ Asked(r) \in Command /\ Asked(r).run = r
  BY CutOffFacts DEF IInv, BaseInv, Mark
<1>2. \A q \in Runs : q # r => at'[q] = at[q] /\ marks'[q] = marks[q]
  BY <1>1, NotedFacts
<1> SUFFICES ASSUME NEW q \in Runs, Lone(q)'
             PROVE  (Apart(q) /\ Dumped(q) /\ OnBoard(q) /\ Caught(q))'
  BY DEF LoneInv
<1>3. q = r
  BY <1>1, <1>2, LoneActor, ActiveRunning DEF IInv
<1>4. Followed(r) /\ marks'[r] = marks[r] \cup {what}
  BY <1>1, <1>3, WasLone DEF IInv
<1>5. Apart(r)'
  BY <1>1, <1>2, <1>4, ApartMore DEF Followed
<1>6. Dumped(r)'
  <2>1. Own(r, buf[r])'
    BY <1>1, <1>4, BufferKept DEF Followed, Dumped
  <2> QED
    BY <1>1, <1>4, <2>1, DumpedKept DEF Followed
<1>7. OnBoard(r)' /\ Caught(r)'
  <2>1. Multi(r)' = Multi(r)
    BY <1>1, SameStep
  <2>2. what \in marks'[r] /\ at'[r] \notin Planned
    BY <1>4 DEF Planned
  <2> QED
    BY <2>1, <2>2, BoardGivenUp DEF Caught
<1> QED
  BY <1>3, <1>5, <1>6, <1>7

LEMMA RaiseLone ==
  ASSUME IInv, NEW r \in Runs, Raise(r) PROVE LoneInv'
<1>1. BaseInv /\ CutOff(r) /\ BreakOff(r) /\ r \in Running /\ at[r] # "leaving"
  BY CutOffFacts DEF IInv, Raise
<1>2. /\ \A q \in Runs : q # r => at'[q] = at[q]
      /\ IF Multi(r) /\ at[r] # "restoring" THEN at'[r] = "restoring" /\ v'[r] = 2
         ELSE at'[r] = "leaving"
      /\ marks' = Noted(r, {IF at[r] = "restoring" THEN "killed" ELSE "raised"})
  BY <1>1, BreakOffFacts
<1> QED
  BY <1>1, <1>2, CutLone

LEMMA KillLone ==
  ASSUME IInv, NEW r \in Runs, Kill(r) PROVE LoneInv'
<1>1. CutOff(r) /\ at' = [at EXCEPT ![r] = "leaving"] /\ marks' = Noted(r, {"killed"})
  BY DEF Kill, Goto
<1>2. at'[r] = "leaving" /\ \A q \in Runs : q # r => at'[q] = at[q]
  BY <1>1 DEF IInv, BaseInv, TypeOK
<1> QED
  BY <1>1, <1>2, CutLone

\* A late command that comes to a run alone is its own.
LEMMA CatchUpLone ==
  ASSUME IInv, CatchUp PROVE LoneInv'
<1>1. /\ TypeOK /\ shell \in Seq(Command) /\ shell # <<>> /\ shell' = Tail(shell)
      /\ UNCHANGED <<kind, at, k, v, row, cap, files>> /\ Carry(Head(shell))
  BY DEF CatchUp, IInv, BaseInv, TypeOK, runVars
<1>2. /\ Head(shell) \in Command /\ Len(shell) \in Nat \ {0} /\ Len(shell') = Len(shell) - 1
      /\ \A i \in 1..(Len(shell) - 1) : shell'[i] = shell[i + 1]
  BY <1>1, TailFacts
<1>3. \A q \in Runs : \A f \in buf'[q] : f \in buf[q] \/ f.run = Head(shell).run
  BY <1>1, <1>2, CarryFacts
<1> SUFFICES ASSUME NEW q \in Runs, Lone(q)'
             PROVE  (Apart(q) /\ Dumped(q) /\ OnBoard(q) /\ Caught(q))'
  BY DEF LoneInv
<1>4. q \in Running /\ Head(shell).run = q
      /\ marks'[q] = Noted(q, {"lost"} \cup Stray(Head(shell)))[q]
  BY <1>1 DEF CatchUp, Lone, Running
<1>5. /\ "company" \notin marks[q] /\ marks'[q] = marks[q] \cup ({"lost"} \cup Stray(Head(shell)))
  <2>1. {"lost"} \cup Stray(Head(shell)) \in SUBSET Mark
    BY DEF Stray, Mark
  <2> QED
    BY <1>1, <1>4, <2>1, NotedFacts DEF Lone
<1>6. Followed(q) /\ marks[q] \subseteq marks'[q] /\ "lost" \in marks'[q]
  BY <1>4, <1>5 DEF IInv, LoneInv, Lone, Followed
<1>7. Apart(q)'
  <2>1. \A i \in 1..Len(shell') : shell'[i].run = q
    <3> SUFFICES ASSUME NEW i \in 1..(Len(shell) - 1) PROVE shell'[i].run = q
      BY <1>2
    <3>1. i + 1 \in 1..Len(shell) /\ shell'[i] = shell[i + 1]
      BY <1>2
    <3> QED
      BY <1>6, <3>1 DEF Followed, Apart
  <2> QED
    BY <1>1, <1>6, <2>1 DEF Followed, Apart, Free
<1>8. Dumped(q)'
  <2>1. Own(q, buf[q])'
    <3>1. \A f \in buf[q] : OwnFrame(q, f)'
      BY <1>1, <1>6, StillOwn DEF Followed, Dumped, Own
    <3>2. \A f : f.run = q => OwnFrame(q, f)'
      BY <1>6 DEF OwnFrame, Free
    <3> QED
      BY <1>3, <1>4, <3>1, <3>2 DEF Own
  <2> QED
    BY <1>1, <1>6, <2>1, DumpedKept DEF Followed
<1>9. OnBoard(q)' /\ Caught(q)'
  BY <1>6, BoardGivenUp DEF Caught
<1> QED
  BY <1>7, <1>8, <1>9

\* The commands in the shell and who is about stay as they are.
LEMMA ApartKept ==
  ASSUME NEW r \in Runs, Apart(r), shell' = shell, marks[r] \subseteq marks'[r],
         \A q \in Runs : q # r => at'[q] = at[q] /\ cap'[q] = cap[q]
  PROVE  Apart(r)'
  BY DEF Apart, Free

LEMMA StartCaptureLone ==
  ASSUME IInv, NEW r \in Runs, StartCapture(r) PROVE LoneInv'
<1>1. /\ TypeOK /\ at[r] = "starting" /\ at' = [at EXCEPT ![r] = "sending"] /\ r \in Running
      /\ UNCHANGED <<kind, k, v, row, buf, files, vl, shell>>
  BY DEF StartCapture, IInv, BaseInv, Goto, boardVars, Running
<1>2. \/ cap' = [cap EXCEPT ![r] = "on"] /\ marks' = marks
      \/ cap' = [cap EXCEPT ![r] = "deaf"] /\ marks' = Noted(r, {"short"})
      \/ cap' = cap /\ marks' = Noted(r, {"nocapture"})
  BY DEF StartCapture, SetFilterAll
<1>3. {"short"} \in SUBSET Mark /\ {"nocapture"} \in SUBSET Mark
  BY DEF Mark
<1>4. /\ \A q \in Runs : q # r => at'[q] = at[q] /\ marks'[q] = marks[q] /\ cap'[q] = cap[q]
      /\ at'[r] = "sending"
  <2>1. \A q \in Runs : q # r => marks'[q] = marks[q]
    BY <1>1, <1>2, <1>3, NotedFacts
  <2> QED
    BY <1>1, <1>2, <2>1 DEF TypeOK
<1> SUFFICES ASSUME NEW q \in Runs, Lone(q)'
             PROVE  (Apart(q) /\ Dumped(q) /\ OnBoard(q) /\ Caught(q))'
  BY DEF LoneInv
<1>5. q = r
  BY <1>1, <1>4, LoneActor, ActiveRunning DEF IInv
<1>6. \/ cap'[r] = "on" /\ marks'[r] = marks[r] /\ Followed(r)
      \/ cap'[r] = "deaf" /\ marks'[r] = marks[r] \cup {"short"} /\ Followed(r)
      \/ cap'[r] = cap[r] /\ marks'[r] = marks[r] \cup {"nocapture"} /\ Followed(r)
  <2>1. CASE cap' = [cap EXCEPT ![r] = "on"] /\ marks' = marks
    BY <1>1, <1>5, <2>1 DEF TypeOK, Lone, IInv, LoneInv, Followed
  <2>2. CASE cap' = [cap EXCEPT ![r] = "deaf"] /\ marks' = Noted(r, {"short"})
    <3>1. Followed(r) /\ marks'[r] = marks[r] \cup {"short"}
      BY <1>1, <1>3, <1>5, <2>2, WasLone DEF IInv
    <3> QED
      BY <1>1, <2>2, <3>1 DEF TypeOK
  <2>3. CASE cap' = cap /\ marks' = Noted(r, {"nocapture"})
    <3>1. Followed(r) /\ marks'[r] = marks[r] \cup {"nocapture"}
      BY <1>1, <1>3, <1>5, <2>3, WasLone DEF IInv
    <3> QED
      BY <2>3, <3>1
  <2> QED
    BY <1>2, <2>1, <2>2, <2>3
<1>7. /\ Followed(r) /\ marks[r] \subseteq marks'[r]
      /\ "stray" \in marks'[r] => "stray" \in marks[r]
  BY <1>6
<1>8. Apart(r)'
  BY <1>1, <1>4, <1>7, ApartKept DEF Followed
<1>9. Dumped(r)'
  <2>1. cap[r] = "off"
    BY <1>1 DEF IInv, BaseInv, RunOK
  <2>2. Own(r, buf[r])'
    BY <1>1, <1>7, BufferKept DEF Followed, Dumped
  <2> QED
    BY <1>4, <1>6, <2>1, <2>2 DEF Dumped, Free
<1>10. OnBoard(r)'
  BY <1>1, <1>4, <1>7, BoardKept DEF Followed, Planned
<1>11. Caught(r)'
  BY <1>4, <1>6 DEF Caught
<1> QED
  BY <1>5, <1>8, <1>9, <1>10, <1>11

LEMMA CaptureEndsLone ==
  ASSUME IInv, NEW r \in Runs, CaptureEnds(r) PROVE LoneInv'
<1>1. /\ BaseInv /\ TypeOK /\ cap[r] # "off" /\ Active(r) /\ cap' = [cap EXCEPT ![r] = "writing"]
      /\ files' = [files EXCEPT ![Path(r)] = [by |-> r, whole |-> "no", frames |-> {}]]
      /\ UNCHANGED <<kind, at, k, v, row, buf, vl, shell>>
      /\ marks' = IF at[r] = "sending" THEN Noted(r, {"short"}) ELSE marks
  BY DEF CaptureEnds, IInv, BaseInv, runVars, boardVars, Active
<1>2. {"short"} \in SUBSET Mark /\ Path(r) \in Paths
  BY <1>1, RunFacts DEF Mark
<1>3. \A q \in Runs : q # r => at'[q] = at[q] /\ marks'[q] = marks[q] /\ cap'[q] = cap[q]
  BY <1>1, <1>2, NotedFacts DEF TypeOK
<1> SUFFICES ASSUME NEW q \in Runs, Lone(q)'
             PROVE  (Apart(q) /\ Dumped(q) /\ OnBoard(q) /\ Caught(q))'
  BY DEF LoneInv
<1>4. q = r
  BY <1>1, <1>3, LoneActor DEF IInv
<1>5. /\ Followed(r) /\ marks'[r] = marks[r] \cup IF at[r] = "sending" THEN {"short"} ELSE {}
  <2>0. r \in Running
    BY <1>1, <1>4 DEF Lone, Running
  <2>1. CASE at[r] = "sending"
    BY <1>1, <1>2, <1>4, <2>0, <2>1, WasLone DEF IInv
  <2>2. CASE at[r] # "sending"
    BY <1>1, <1>4, <2>0, <2>2 DEF Lone, IInv, LoneInv, Followed
  <2> QED
    BY <2>1, <2>2
<1>6. /\ marks[r] \subseteq marks'[r] /\ ("stray" \in marks'[r] => "stray" \in marks[r])
      /\ Followed(r) /\ UNCHANGED <<kind, at, k, v, row, buf, vl, shell>>
  BY <1>1, <1>5
<1>7. cap'[r] = "writing" /\ files'[Path(r)].by = r /\ Path(r)' = Path(r)
  BY <1>1, <1>2, SameStep DEF TypeOK
<1>8. Apart(r)'
  BY <1>3, <1>6, ApartKept DEF Followed
<1>9. Dumped(r)'
  <2>1. Own(r, buf[r])'
    BY <1>6, BufferKept DEF Followed, Dumped
  <2>2. at[r] # "shown"
    BY <1>1 DEF BaseInv, RunOK
  <2> QED
    BY <1>1, <1>7, <2>1, <2>2 DEF Dumped
<1>10. OnBoard(r)'
  BY <1>6, BoardKept DEF Followed
<1>11. Caught(r)'
  <2>1. at[r] # "shown"
    BY <1>1 DEF BaseInv, RunOK
  <2>2. Multi(r)' = Multi(r)
    BY <1>1, SameStep
  <2> QED
    BY <1>1, <1>5, <1>7, <2>1, <2>2 DEF Caught, Followed
<1> QED
  BY <1>4, <1>8, <1>9, <1>10, <1>11

LEMMA CaptureWritesLone ==
  ASSUME IInv, NEW r \in Runs, CaptureWrites(r) PROVE LoneInv'
<1>1. /\ BaseInv /\ TypeOK /\ cap[r] = "writing" /\ Active(r)
      /\ cap' = [cap EXCEPT ![r] = "off"] /\ buf' = [buf EXCEPT ![r] = {}]
      /\ UNCHANGED <<kind, at, k, v, row, vl, shell, marks>>
  BY DEF CaptureWrites, IInv, BaseInv, runVars, boardVars, Active
<1>2. PICK whole \in IF files[Path(r)].by = r THEN {"yes"} ELSE {"yes", "no"} :
        files' = [files EXCEPT ![Path(r)] =
          [by |-> 0, whole |-> whole, frames |-> IF whole = "yes" THEN buf[r] ELSE {}]]
  BY DEF CaptureWrites
<1>3. \A q \in Runs : q # r => cap'[q] = cap[q]
  BY <1>1 DEF TypeOK
<1> SUFFICES ASSUME NEW q \in Runs, Lone(q)'
             PROVE  (Apart(q) /\ Dumped(q) /\ OnBoard(q) /\ Caught(q))'
  BY DEF LoneInv
<1>4. q = r
  BY <1>1, LoneActor DEF IInv
<1>5. Followed(r)
  BY <1>1, <1>4 DEF Lone, Running, IInv, LoneInv, Followed
<1>6. /\ cap'[r] = "off" /\ buf'[r] = {} /\ Path(r)' = Path(r) /\ Multi(r)' = Multi(r)
      /\ files'[Path(r)].frames = buf[r]
  <2>1. Path(r) \in Paths /\ whole = "yes"
    BY <1>1, <1>2, <1>5, RunFacts DEF Followed, Dumped
  <2> QED
    BY <1>1, <1>2, <2>1, SameStep DEF TypeOK
<1>7. Apart(r)'
  BY <1>1, <1>3, <1>5, ApartKept DEF Followed
<1>8. Dumped(r)'
  <2>1. \A fs : Own(r, fs) => \A f \in fs : OwnFrame(r, f)'
    BY <1>1, StillOwn DEF Own
  <2>2. at[r] # "shown"
    BY <1>1 DEF BaseInv, RunOK
  <2> QED
    BY <1>1, <1>5, <1>6, <2>1, <2>2 DEF Followed, Dumped, Own
<1>9. OnBoard(r)'
  BY <1>1, <1>5, BoardKept DEF Followed
<1>10. Caught(r)'
  BY <1>1, <1>5, <1>6 DEF Followed, Caught
<1> QED
  BY <1>4, <1>7, <1>8, <1>9, <1>10

LEMMA CaptureDiesLone ==
  ASSUME IInv, NEW r \in Runs, CaptureDies(r) PROVE LoneInv'
<1>1. /\ BaseInv /\ TypeOK /\ Active(r)
      /\ cap' = [cap EXCEPT ![r] = "off"] /\ buf' = [buf EXCEPT ![r] = {}]
      /\ UNCHANGED <<kind, at, k, v, row, files, vl, shell>>
      /\ marks' = IF r \in Running THEN Noted(r, {"nocapture"}) ELSE marks
  BY DEF CaptureDies, IInv, BaseInv, runVars, boardVars, Active
<1>2. {"nocapture"} \in SUBSET Mark
  BY DEF Mark
<1>3. \A q \in Runs : q # r => at'[q] = at[q] /\ marks'[q] = marks[q] /\ cap'[q] = cap[q]
  <2>1. \A q \in Runs : q # r => marks'[q] = marks[q]
    BY <1>1, <1>2, NotedFacts
  <2> QED
    BY <1>1, <2>1 DEF TypeOK
<1> SUFFICES ASSUME NEW q \in Runs, Lone(q)'
             PROVE  (Apart(q) /\ Dumped(q) /\ OnBoard(q) /\ Caught(q))'
  BY DEF LoneInv
<1>4. q = r
  BY <1>1, <1>3, LoneActor DEF IInv
<1>5. r \in Running
  BY <1>1, <1>4 DEF Lone, Running
<1>6. Followed(r) /\ marks'[r] = marks[r] \cup {"nocapture"}
  BY <1>1, <1>2, <1>4, <1>5, WasLone DEF IInv
<1>7. cap'[r] = "off" /\ buf'[r] = {}
  BY <1>1 DEF TypeOK
<1>8. Apart(r)'
  BY <1>1, <1>3, <1>6, ApartKept DEF Followed
<1>9. Dumped(r)'
  BY <1>6, <1>7 DEF Dumped, Own, Free
<1>10. OnBoard(r)'
  BY <1>1, <1>6, BoardKept DEF Followed
<1>11. Caught(r)'
  BY <1>6 DEF Caught
<1> QED
  BY <1>4, <1>8, <1>9, <1>10, <1>11

LEMMA LoadLone ==
  ASSUME IInv, NEW r \in Runs, Load(r) PROVE LoneInv'
<1>1. /\ BaseInv /\ TypeOK /\ at[r] = "waiting" /\ cap[r] = "off" /\ r \in Running
      /\ UNCHANGED <<kind, k, cap, buf, files, vl, shell>>
  BY DEF Load, LoadWhen, IInv, BaseInv, dumpVars, boardVars, Running
<1>2. CASE BreakOff(r) /\ row' = row
  <2>1. /\ \A q \in Runs : q # r => at'[q] = at[q]
        /\ IF Multi(r) THEN at'[r] = "restoring" /\ v'[r] = 2 ELSE at'[r] = "leaving"
        /\ marks' = Noted(r, {"raised"})
    BY <1>1, <1>2, BreakOffFacts
  <2>2. {"raised"} \in SUBSET Mark
    BY DEF Mark
  <2>3. \A q \in Runs : q # r => at'[q] = at[q] /\ marks'[q] = marks[q]
    BY <1>1, <2>1, <2>2, NotedFacts
  <2> SUFFICES ASSUME NEW q \in Runs, Lone(q)'
               PROVE  (Apart(q) /\ Dumped(q) /\ OnBoard(q) /\ Caught(q))'
    BY DEF LoneInv
  <2>4. q = r
    BY <1>1, <2>3, LoneActor, ActiveRunning DEF IInv
  <2>5. Followed(r) /\ marks'[r] = marks[r] \cup {"raised"}
    BY <1>1, <2>1, <2>2, <2>4, WasLone DEF IInv
  <2>6. Apart(r)'
    BY <1>1, <2>3, <2>5, ApartKept DEF Followed
  <2>7. Dumped(r)'
    <3>1. Own(r, buf[r])'
      BY <1>1, <2>5, BufferKept DEF Followed, Dumped
    <3> QED
      BY <1>1, <1>2, <2>1, <2>5, <3>1, DumpedKept DEF Followed
  <2>8. OnBoard(r)' /\ Caught(r)'
    <3>1. Multi(r)' = Multi(r)
      BY <1>1, SameStep
    <3> QED
      BY <2>1, <2>5, <3>1, BoardGivenUp DEF Caught
  <2> QED
    BY <2>4, <2>6, <2>7, <2>8
<1>3. CASE /\ files[Path(r)].whole = "yes"
           /\ row' = [row EXCEPT ![r] = files[Path(r)].frames]
           /\ at' = [at EXCEPT ![r] = "shown"] /\ UNCHANGED <<v, marks>>
  <2>1. /\ \A q \in Runs : q # r => at'[q] = at[q] /\ marks'[q] = marks[q]
        /\ at'[r] = "shown" /\ row'[r] = files[Path(r)].frames
    BY <1>1, <1>3 DEF TypeOK
  <2> SUFFICES ASSUME NEW q \in Runs, Lone(q)'
               PROVE  (Apart(q) /\ Dumped(q) /\ OnBoard(q) /\ Caught(q))'
    BY DEF LoneInv
  <2>2. q = r
    BY <1>1, <2>1, LoneActor, ActiveRunning DEF IInv
  <2>3. Followed(r)
    BY <1>1, <1>3, <2>2 DEF Lone, IInv, LoneInv, Followed
  <2>4. Path(r)' = Path(r) /\ Multi(r)' = Multi(r)
    BY <1>1, SameStep
  <2>5. Apart(r)'
    BY <1>1, <1>3, <2>1, <2>3, ApartKept DEF Followed
  <2>6. Dumped(r)'
    <3>1. \A fs : Own(r, fs) => \A f \in fs : OwnFrame(r, f)'
      BY <1>1, <1>3, StillOwn DEF Own
    <3>2. Free(r, {"nocapture"})' => Own(r, files[Path(r)].frames)
      BY <1>1, <1>3, <2>3 DEF Followed, Dumped, Free
    <3> QED
      BY <1>1, <2>1, <2>3, <3>1, <3>2 DEF Followed, Dumped, Own
  <2>7. OnBoard(r)'
    BY <1>1, <1>3, <2>1, <2>3, BoardKept DEF Followed, Planned
  <2>8. Caught(r)'
    BY <1>1, <1>3, <2>1, <2>3, <2>4 DEF Followed, Caught
  <2> QED
    BY <2>2, <2>5, <2>6, <2>7, <2>8
<1> QED
  BY <1>2, <1>3 DEF Load, LoadWhen, Goto

\* The next step, or the restore after the last one: every link of the board
\* that multi_vl_hw.py may use has been added by then.
LEMMA NextStepLone ==
  ASSUME IInv, NEW r \in Runs, NextStep(r) PROVE LoneInv'
<1>1. /\ BaseInv /\ TypeOK /\ at[r] = "shown" /\ r \in Running
      /\ UNCHANGED <<kind, cap, buf, files, vl, shell, marks>>
      /\ \/ /\ LastStep(r) /\ at' = [at EXCEPT ![r] = "restoring"] /\ k' = k
            /\ v' = [v EXCEPT ![r] = IF Multi(r) THEN 2 ELSE Most + 1]
         \/ /\ ~LastStep(r) /\ at' = [at EXCEPT ![r] = "setting"] /\ v' = v
            /\ k' = [k EXCEPT ![r] = @ + 1]
  BY DEF NextStep, IInv, BaseInv, dumpVars, boardVars, Running, Goto, BeginRestore
<1>2. /\ k[r] \in Nat \ {0} /\ v[r] = 1 /\ cap[r] = "off" /\ buf[r] = {}
      /\ Multi(r) => k[r] \in 1..Len(Counts)
      /\ Multi(r)' = Multi(r) /\ Free(r, {"raised", "killed"})
  <2>1. Active(r)
    BY <1>1, ActiveRunning
  <2> QED
    BY <1>1, <2>1, RunFacts DEF BaseInv, RunOK, TypeOK, Planned, Multi
<1>3. \A q \in Runs : q # r => at'[q] = at[q]
  BY <1>1 DEF TypeOK
<1> SUFFICES ASSUME NEW q \in Runs, Lone(q)'
             PROVE  (Apart(q) /\ Dumped(q) /\ OnBoard(q) /\ Caught(q))'
  BY DEF LoneInv
<1>4. q = r
  BY <1>1, <1>3, LoneActor, ActiveRunning DEF IInv
<1>5. Followed(r)
  BY <1>1, <1>4 DEF Lone, IInv, LoneInv, Followed
<1>6. Apart(r)'
  BY <1>1, <1>3, <1>5, ApartKept DEF Followed
<1>7. \/ at'[r] = "restoring" /\ k' = k /\ LastStep(r) /\ (Multi(r) => v'[r] = 2)
      \/ at'[r] = "setting" /\ v'[r] = 1 /\ k'[r] = k[r] + 1
  BY <1>1, <1>2 DEF TypeOK
<1>8. Dumped(r)'
  BY <1>1, <1>2, <1>7 DEF Dumped, Own
<1>9. OnBoard(r)'
  <2>1. \A what : Free(r, what)' = Free(r, what)
    BY <1>1 DEF Free
  <2>2. Paced(r) /\ Added(r) /\ NoStray(r)
    BY <1>5 DEF Followed, OnBoard
  <2>3. NoStray(r)'
    BY <1>1, <1>2, <2>1, <2>2 DEF NoStray
  <2>4. CASE at'[r] = "restoring" /\ k' = k /\ LastStep(r) /\ (Multi(r) => v'[r] = 2)
    <3>1. ASSUME Multi(r), Free(r, {"lost"}) PROVE \A n \in 1..Most : vl[n] # 0
      <4>1. PICK i \in 1..Len(Counts) : Counts[i] = Most
        BY Constants
      <4>2. k[r] = Len(Counts)
        BY <2>4, <3>1 DEF LastStep, Plan
      <4> QED
        BY <1>1, <2>2, <3>1, <4>1, <4>2 DEF Added, Planned
    <3>2. Restored(r)'
      <4> SUFFICES ASSUME Multi(r), Free(r, {"lost"})
                   PROVE  /\ \A n \in 2..2 - 1 : vl[n] = 0
                          /\ vl[1] # 0 /\ \A n \in 2..Most : vl[n] # 0
        BY <1>1, <1>2, <2>1, <2>4 DEF Restored, Free
      <4>1. \A n \in 1..Most : vl[n] # 0
        BY <3>1
      <4> QED
        BY <4>1, Constants
    <3> QED
      BY <2>3, <2>4, <3>2 DEF OnBoard, Paced, Added, Left, Planned
  <2>5. CASE at'[r] = "setting" /\ v'[r] = 1 /\ k'[r] = k[r] + 1
    <3>1. Paced(r)'
      BY <1>1, <1>2, <2>1, <2>2, <2>5 DEF Paced, Planned
    <3>2. Added(r)'
      <4> SUFFICES ASSUME Multi(r), Free(r, {"lost"}), NEW i \in 1..(k[r] + 1),
                          NEW n \in 1..Counts[i], i = k[r] + 1 => n < 1
                   PROVE  vl[n] # 0
        BY <1>1, <1>2, <2>1, <2>5 DEF Added
      <4>1. i \in 1..Len(Counts) => Counts[i] \in Nat
        BY Constants
      <4>2. i # k[r] + 1 => i \in 1..k[r] /\ i \in 1..Len(Counts)
        BY <1>2, Constants
      <4>3. i # k[r] + 1
        BY <1>2
      <4> QED
        BY <1>1, <2>2, <4>2, <4>3 DEF Added, Planned
    <3> QED
      BY <2>3, <2>5, <3>1, <3>2 DEF OnBoard, Restored, Left
  <2> QED
    BY <1>7, <2>4, <2>5
<1>10. Caught(r)'
  BY <1>7 DEF Caught
<1> QED
  BY <1>4, <1>6, <1>8, <1>9, <1>10

LEMMA LeaveLone ==
  ASSUME IInv, NEW r \in Runs, Leave(r) PROVE LoneInv'
<1>1. /\ TypeOK /\ r \in Running /\ at' = [at EXCEPT ![r] = "idle"]
      /\ marks' = [marks EXCEPT ![r] = {}]
  BY LeaveFacts DEF IInv, BaseInv, Running
<1>2. \A q \in Runs : q # r => at'[q] = at[q] /\ marks'[q] = marks[q]
  BY <1>1 DEF TypeOK
<1> SUFFICES ASSUME NEW q \in Runs, Lone(q)' PROVE FALSE
  BY DEF LoneInv
<1>3. q = r
  BY <1>1, <1>2, LoneActor, ActiveRunning DEF IInv
<1> QED
  BY <1>1, <1>3 DEF Lone, Running, TypeOK

\* A command answered in time.
LEMMA CommandRunsLone ==
  ASSUME IInv, NEW r \in Runs, CommandRuns(r) PROVE LoneInv'
<1> DEFINE c == Asked(r)
<1>1. /\ at[r] \in Giving /\ r \in Running /\ BaseInv /\ TypeOK /\ shell = <<>>
      /\ UNCHANGED <<kind, k, row, cap, files, shell>> /\ Advance(r)
      /\ vl' \in After(c) /\ Carry(c) /\ marks' = Noted(r, Stray(c))
  BY DEF CommandRuns, Giving, Running, IInv, BaseInv
<1>2. c \in Command /\ c.run = r /\ c.step = k[r] /\ Stray(c) \in SUBSET Mark
  BY <1>1, AskedFacts DEF Stray, Mark
<1>3. \A q \in Runs : q # r => at'[q] = at[q] /\ marks'[q] = marks[q]
  BY <1>1, <1>2, AdvanceFacts, NotedFacts
<1> SUFFICES ASSUME NEW q \in Runs, Lone(q)'
             PROVE  (Apart(q) /\ Dumped(q) /\ OnBoard(q) /\ Caught(q))'
  BY DEF LoneInv
<1>4. q = r
  BY <1>1, <1>3, LoneActor, ActiveRunning DEF IInv
<1>5. Followed(r) /\ marks'[r] = marks[r] \cup Stray(c)
  BY <1>1, <1>2, <1>4, WasLone DEF IInv
<1>6. /\ k[r] \in Nat \ {0} /\ LinksOf(r) \in 1..Most /\ v[r] \in 1..(Most + 1)
      /\ Most \in Nat \ {0} /\ Pace(r) \in Nat \ {0}
      /\ Multi(r) => k[r] \in 1..Len(Counts) /\ LinksOf(r) = Counts[k[r]] /\ Pace(r) = MultiBag
      /\ ~Multi(r) => LinksOf(r) = 1
  BY <1>1, RunFacts, ActiveRunning, Constants DEF Pace
<1>7. Multi(r)' = Multi(r) /\ Pace(r)' = Pace(r) /\ LinksOf(r)' = LinksOf(r) /\ Path(r)' = Path(r)
  BY <1>1, SameStep
<1>8. \A what : Free(r, what)' => Free(r, what)
  BY <1>5 DEF Free
<1>9. Apart(r)'
  BY <1>1, <1>3, <1>5, ApartKept DEF Followed
<1>10. CASE at[r] = "setting"
  <2>1. /\ c.vl = v[r] /\ c.bag = Pace(r) /\ v[r] \in 1..LinksOf(r)
        /\ c.op = IF Multi(r) THEN "add" ELSE "set"
    BY <1>1, <1>10, AskedFacts
  <2>2. IF v[r] < LinksOf(r) THEN at'[r] = "setting" /\ v'[r] = v[r] + 1
        ELSE at'[r] = "starting" /\ v'[r] = 1
    BY <1>1, <1>10, AdvanceFacts
  <2>3. /\ \A n \in Links : n # v[r] => vl'[n] = vl[n]
        /\ Multi(r) => vl'[v[r]] # 0 /\ vl'[v[r]] \in {vl[v[r]], MultiBag}
        /\ ~Multi(r) => v[r] = 1 /\ vl'[1] = IF vl[1] # 0 THEN Pace(r) ELSE 0
    BY <1>1, <1>2, <1>6, <2>1, AfterFacts
  <2>4. Dumped(r)'
    <3>1. buf'[r] = buf[r]
      BY <1>1, <1>2, <2>1, CarryFacts
    <3>2. Own(r, buf[r])'
      BY <1>1, <1>5, <3>1, BufferKept DEF Followed, Dumped
    <3> QED
      BY <1>1, <1>5, <2>2, <3>2, DumpedKept DEF Followed
  <2>5. Paced(r) /\ Added(r) /\ NoStray(r)
    BY <1>5 DEF Followed, OnBoard
  <2>6. Paced(r)'
    BY <1>6, <1>7, <1>8, <1>10, <2>2, <2>3, <2>5 DEF Paced, Planned
  <2>7. Added(r)'
    <3> SUFFICES ASSUME Multi(r), Free(r, {"lost"}), NEW i \in 1..k[r], NEW n \in 1..Counts[i],
                        i = k[r] /\ at'[r] = "setting" => n < v'[r]
                 PROVE  vl'[n] # 0
      BY <1>1, <1>7, <1>8 DEF Added
    <3>1. i \in 1..Len(Counts) /\ Counts[i] \in 1..Most /\ n \in Links
      BY <1>6, Constants DEF Links
    <3>2. i = k[r] => n <= v[r]
      BY <1>6, <2>1, <2>2, <3>1
    <3>3. CASE n = v[r]
      BY <2>3, <3>3
    <3>4. CASE n # v[r]
      <4>1. i = k[r] => n < v[r]
        BY <1>6, <3>1, <3>2, <3>4
      <4> QED
        BY <1>10, <2>3, <2>5, <3>1, <3>4, <4>1 DEF Added, Planned
    <3> QED
      BY <3>3, <3>4
  <2>8. NoStray(r)'
    <3>1. Multi(r) => Stray(c) = {}
      BY <2>1 DEF Stray
    <3> QED
      BY <1>5, <1>7, <1>8, <2>5, <3>1 DEF NoStray
  <2>9. OnBoard(r)' /\ Caught(r)'
    BY <2>2, <2>6, <2>7, <2>8 DEF OnBoard, Restored, Left, Caught
  <2> QED
    BY <1>4, <1>9, <2>4, <2>9
<1>11. CASE at[r] = "sending"
  <2>1. c.vl = v[r] /\ v[r] \in 1..LinksOf(r) /\ v[r] \in Links /\ c.op = "send"
    BY <1>1, <1>6, <1>11, AskedFacts DEF Links
  <2>2. at'[r] \in {"sending", "waiting"}
    BY <1>1, <1>11, AdvanceFacts
  <2>3. vl' = vl
    BY <1>1, <1>2, <2>1, AfterFacts
  <2>4. Paced(r) /\ Added(r) /\ NoStray(r)
    BY <1>5 DEF Followed, OnBoard
  <2>5. Own(r, buf[r])'
    <3>1. \A f \in buf[r] : OwnFrame(r, f)'
      BY <1>1, <1>5, StillOwn DEF Followed, Dumped, Own
    <3>2. ASSUME NEW f, f.run = r, f.step = k[r], f.vl = v[r], f.bag = vl[v[r]], vl[v[r]] # 0
          PROVE  OwnFrame(r, f)'
      <4>1. Free(r, {"lost", "leftover"}) => f.bag = Pace(r) \/ (Multi(r) /\ f.vl = 1)
        BY <1>6, <1>11, <2>1, <2>4, <3>2 DEF Paced, Planned
      <4>2. f.vl <= LinksOf(r)
        BY <1>6, <2>1, <3>2
      <4> QED
        BY <1>1, <1>7, <1>8, <3>2, <4>1, <4>2 DEF OwnFrame
    <3>3. \A f \in buf'[r] : \/ f \in buf[r]
                            \/ /\ f.run = r /\ f.step = k[r] /\ f.vl = v[r]
                               /\ f.bag = vl[v[r]] /\ vl[v[r]] # 0
      BY <1>1, <1>2, <2>1, CarryFacts
    <3> QED
      BY <3>1, <3>2, <3>3 DEF Own
  <2>6. Dumped(r)'
    BY <1>1, <1>5, <1>11, <2>2, <2>5, DumpedKept DEF Followed
  <2>7. OnBoard(r)'
    <3>1. Multi(r) /\ Free(r, {"lost"}) => vl[v[r]] # 0
      BY <1>6, <1>11, <2>1, <2>4 DEF Added, Planned
    <3>2. NoStray(r)'
      <4>1. Multi(r) /\ Free(r, {"lost"}) => Stray(c) = {}
        BY <2>1, <3>1 DEF Stray
      <4> QED
        BY <1>5, <1>7, <1>8, <2>4, <4>1 DEF NoStray, Free
    <3>3. Paced(r)'
      BY <1>7, <1>8, <1>11, <2>2, <2>3, <2>4 DEF Paced, Planned
    <3>4. Added(r)'
      BY <1>1, <1>7, <1>8, <1>11, <2>2, <2>3, <2>4 DEF Added, Planned
    <3> QED
      BY <2>2, <3>2, <3>3, <3>4 DEF OnBoard, Restored, Left
  <2>8. Caught(r)'
    <3> SUFFICES ASSUME ~Multi(r), marks[r] = {}
                 PROVE  cap[r] = "on" /\ buf'[r] # {}
      BY <1>1, <1>5, <1>7, <2>2 DEF Caught
    <3>1. cap[r] = "on" /\ v[r] = 1 /\ vl[1] # 0
      BY <1>5, <1>6, <1>11, <2>1, <2>4 DEF Followed, Caught, Paced, Planned, Free
    <3>2. Sees(r, c.vl) /\ vl[c.vl] # 0
      BY <2>1, <3>1 DEF Sees
    <3> QED
      BY <1>1, <1>2, <2>1, <3>1, <3>2, CarryFacts
  <2> QED
    BY <1>4, <1>9, <2>6, <2>7, <2>8
<1>12. CASE at[r] = "restoring"
  <2>1. IF v[r] > Most THEN c.op = "set" /\ c.vl = 1 /\ c.bag = Default
        ELSE c.op = "del" /\ c.vl = v[r] /\ Multi(r) /\ v[r] # 1
    BY <1>1, <1>12, AskedFacts
  <2>2. IF v[r] <= Most THEN at'[r] = "restoring" /\ v'[r] = v[r] + 1
        ELSE at'[r] = "leaving" /\ v'[r] = v[r]
    BY <1>1, <1>12, AdvanceFacts
  <2>3. Restored(r) /\ NoStray(r)
    BY <1>5 DEF Followed, OnBoard
  <2>4. Dumped(r)'
    <3>1. buf'[r] = buf[r]
      BY <1>1, <1>2, <2>1, CarryFacts
    <3>2. Own(r, buf[r])'
      BY <1>1, <1>5, <3>1, BufferKept DEF Followed, Dumped
    <3> QED
      BY <1>1, <1>5, <2>2, <3>2, DumpedKept DEF Followed
  <2>5. NoStray(r)'
    <3>1. Multi(r) /\ Free(r, {"lost", "raised", "killed"}) => vl[c.vl] # 0
      BY <1>6, <1>12, <2>1, <2>3 DEF Restored, Free
    <3> QED
      BY <1>5, <1>7, <1>8, <2>3, <3>1 DEF NoStray, Stray, Free
  <2>6. CASE v[r] <= Most
    <3>1. /\ v[r] \in 2..Most /\ v'[r] = v[r] + 1 /\ at'[r] = "restoring"
          /\ vl'[v[r]] = 0 /\ \A n \in Links : n # v[r] => vl'[n] = vl[n]
      BY <1>1, <1>2, <1>6, <2>1, <2>2, <2>6, AfterFacts
    <3>2. Restored(r)'
      <4> SUFFICES ASSUME Multi(r), Free(r, {"lost", "killed"})
                   PROVE  /\ \A n \in 2..v[r] : vl'[n] = 0
                          /\ Free(r, {"raised"}) =>
                               vl'[1] # 0 /\ \A n \in v[r] + 1..Most : vl'[n] # 0
        BY <1>6, <1>7, <1>8, <3>1 DEF Restored
      <4>1. /\ \A n \in 2..v[r] - 1 : vl[n] = 0
            /\ Free(r, {"raised"}) => vl[1] # 0 /\ \A n \in v[r]..Most : vl[n] # 0
        BY <1>12, <2>3 DEF Restored
      <4>2. /\ \A n \in 2..v[r] : n # v[r] => n \in 2..v[r] - 1 /\ n \in Links
            /\ \A n \in v[r] + 1..Most : n # v[r] /\ n \in v[r]..Most /\ n \in Links
            /\ 1 \in Links /\ 1 # v[r]
        BY <1>6, <3>1 DEF Links
      <4> QED
        BY <3>1, <4>1, <4>2
    <3> QED
      BY <1>4, <1>9, <2>4, <2>5, <3>1, <3>2 DEF OnBoard, Paced, Added, Left, Caught, Planned
  <2>7. CASE ~(v[r] <= Most)
    <3>1. /\ v[r] = Most + 1 /\ at'[r] = "leaving" /\ 1 \in Links
          /\ vl'[1] \in {0, Default} /\ \A n \in Links : n # 1 => vl'[n] = vl[n]
      <4>1. c.op = "set" /\ c.vl = 1 /\ c.bag = Default /\ v[r] = Most + 1 /\ at'[r] = "leaving"
        BY <1>6, <2>1, <2>2, <2>7
      <4>2. 1 \in Links
        BY <1>6 DEF Links
      <4> QED
        BY <1>1, <1>2, <4>1, <4>2, AfterFacts
    <3>2. Left(r)'
      <4>1. Multi(r) /\ Free(r, {"lost", "killed"}) => \A n \in Links \ {1} : vl'[n] = 0
        BY <1>6, <1>12, <2>3, <3>1 DEF Restored, Links
      <4> QED
        BY <1>7, <1>8, <3>1, <4>1 DEF Left
    <3> QED
      BY <1>4, <1>9, <2>4, <2>5, <3>1, <3>2 DEF OnBoard, Paced, Added, Restored, Caught, Planned
  <2> QED
    BY <2>6, <2>7
<1> QED
  BY <1>1, <1>4, <1>9, <1>10, <1>11, <1>12 DEF Giving

-----------------------------------------------------------------------------
(* The theorems.                                                           *)

LEMMA InitLone ==
  ASSUME Init PROVE LoneInv
<1>1. Running = {}
  BY DEF Init, Running
<1> QED
  BY <1>1 DEF LoneInv, Lone

LEMMA NextLone ==
  ASSUME IInv, [Next]_vars PROVE LoneInv'
<1>1. CASE UNCHANGED vars
  BY <1>1 DEF IInv, LoneInv, Lone, Running, Apart, Dumped, Own, OwnFrame, OnBoard, Paced, Added,
     Restored, Left, NoStray, Caught, Path, Pace, LinksOf, Multi, Free, vars, runVars,
     dumpVars, boardVars
<1>2. CASE Next
  BY <1>2, LaunchLone, CommandRunsLone, CommandLostLone, RaiseLone, KillLone, CatchUpLone,
     StartCaptureLone, CaptureEndsLone, CaptureWritesLone, CaptureDiesLone, LoadLone,
     NextStepLone, LeaveLone DEF Next, Program, Capture
<1> QED
  BY <1>1, <1>2

LEMMA Inductive == Spec => []IInv
<1>1. Init => IInv
  BY InitTypes, InitLone DEF IInv
<1>2. IInv /\ [Next]_vars => IInv'
  BY NextTypes, NextLone DEF IInv
<1> QED
  BY <1>1, <1>2, PTL DEF Spec

\* LoneRowIsItsOwn holds in every reachable state: whatever files, links and
\* orphans the runs before left, a step that nobody else came into computes its
\* figures from its own frames.
THEOREM RowsAreTheirOwn == Spec => []LoneRowIsItsOwn
<1>1. IInv => LoneRowIsItsOwn
  <2> SUFFICES ASSUME IInv, NEW r \in Running, at[r] = "shown",
                      Free(r, {"company", "nocapture"}), NEW f \in row[r]
               PROVE  /\ f.run = r
                      /\ Free(r, {"lost"}) => f.step = k[r] /\ f.vl <= LinksOf(r)
                      /\ Free(r, {"lost", "leftover"}) =>
                           f.bag = Pace(r) \/ (Multi(r) /\ f.vl = 1)
    BY DEF LoneRowIsItsOwn
  <2>1. Lone(r) /\ r \in Runs /\ Free(r, {"nocapture"})
    BY DEF Lone, Free, Running
  <2>2. Own(r, row[r])
    BY <2>1 DEF IInv, LoneInv, Dumped
  <2> QED
    BY <2>2 DEF Own, OwnFrame
<1> QED
  BY <1>1, Inductive, PTL

\* CleanStepHasFigures holds in every reachable state: a step of hw_report.py
\* nothing befell has frames, and each of them is near the BAG asked for.
THEOREM CleanStepsHaveFigures == Spec => []CleanStepHasFigures
<1>1. IInv => CleanStepHasFigures
  <2> SUFFICES ASSUME IInv, NEW r \in Running, at[r] = "shown", ~Multi(r), marks[r] = {}
               PROVE  Figures(r) # {}
    BY DEF CleanStepHasFigures
  <2>1. r \in Runs /\ Lone(r) /\ Free(r, {"lost", "leftover"}) /\ Free(r, {"nocapture"})
    BY DEF Lone, Free, Running
  <2>2. Own(r, row[r]) /\ row[r] # {}
    BY <2>1 DEF IInv, LoneInv, Dumped, Caught
  <2>3. PICK f \in row[r] : f.bag = Pace(r)
    BY <2>1, <2>2 DEF Own, OwnFrame
  <2>4. Pace(r) \in Nat \ {0}
    BY <2>1, RunFacts, ActiveRunning DEF IInv
  <2>5. 3 * Pace(r) < 10 * f.bag /\ 10 * f.bag < 17 * Pace(r)
    BY <2>3, <2>4
  <2> QED
    BY <2>5 DEF Figures, Compute, Near
<1> QED
  BY <1>1, Inductive, PTL

\* BoardLeftAsFound holds in every reachable state: the finally clause of
\* multi_vl_hw.py leaves no link behind, whichever steps were done before.
THEOREM BoardsLeftAsFound == Spec => []BoardLeftAsFound
<1>1. IInv => BoardLeftAsFound
  <2> SUFFICES ASSUME IInv, NEW r \in Running, at[r] = "leaving",
                      Free(r, {"company", "lost", "killed"})
               PROVE  /\ Multi(r) => \A n \in Links \ {1} : vl[n] = 0
                      /\ Multi(r) \/ Free(r, {"raised"}) => vl[1] \in {0, Default}
    BY DEF BoardLeftAsFound
  <2>1. r \in Runs /\ Lone(r) /\ Free(r, {"lost", "killed"})
    BY DEF Lone, Free, Running
  <2>2. Left(r)
    BY <2>1 DEF IInv, LoneInv, OnBoard
  <2> QED
    BY <2>1, <2>2 DEF Left
<1> QED
  BY <1>1, Inductive, PTL

\* OnlySetLinks holds in every reachable state: restore deletes exactly links
\* that some step has added, whatever the order of --nvls.
THEOREM LinksAreSet == Spec => []OnlySetLinks
<1>1. IInv => OnlySetLinks
  <2> SUFFICES ASSUME IInv, NEW r \in Running, Multi(r),
                      Free(r, {"company", "lost", "raised", "killed"})
               PROVE  "stray" \notin marks[r]
    BY DEF OnlySetLinks
  <2>1. r \in Runs /\ Lone(r) /\ Free(r, {"lost", "raised", "killed"})
    BY DEF Lone, Free, Running
  <2> QED
    BY <2>1 DEF IInv, LoneInv, OnBoard, NoStray
<1> QED
  BY <1>1, Inductive, PTL

=============================================================================
