------------------------ MODULE FaultInjectionProofs -------------------------
(***************************************************************************)
(* Proofs about fault_injection_test.py, for any number of --send commands *)
(* in a scenario and of things that go wrong, and any suites before.       *)
(*                                                                         *)
(* That a scenario passes, and that a pass is earned, depends on every     *)
(* command it gave and on what was in the capture: the invariant follows   *)
(* the commands (GivingInv), the frames in the file (FileInv) and what the *)
(* verdicts so far say of each other (CountInv, KeptInv, EarnedInv).       *)
(***************************************************************************)
EXTENDS FaultInjection, SequenceTheorems, TLAPS

Stages == {"over", "broken", "capturing", "giving", "waiting"}
OrderOf == [op : {"clear", "add", "send"}, vl : Lines, bag : {Fast, Slow},
            big : {"yes", "no"}, scene : Scenes \cup {Earlier}]
FrameOf == [scene : Scenes \cup {Earlier}, vl : Lines, bag : {Fast, Slow}, big : {"yes", "no"}]
FileOf == [there : {"yes", "no"}, frames : SUBSET FrameOf]
Found == [an : BOOLEAN, bad : BOOLEAN, lmax : BOOLEAN, rate : BOOLEAN,
          loss : BOOLEAN, other : BOOLEAN]
Misfortune == {"nodump", "stale", "lost", "raised", "late", "cut", "split", "dropped"}
Capture == [amount : {"none", "few", "some", "many"}, found : Found, marks : SUBSET Misfortune]
Verdict == [scene : Scenes, pass : BOOLEAN, earned : BOOLEAN, marks : SUBSET Misfortune]

SuiteTypeOK ==
  /\ stage \in Stages /\ scene \in Scenes
  /\ todo \in Seq(OrderOf) /\ backlog \in Seq(OrderOf)
  /\ line \in [Lines -> {0, Fast, Slow}]
  /\ dump \in {"on", "off"} /\ mine \in {"yes", "no"}
  /\ file \in FileOf
  /\ kept \in Capture /\ verdicts \in Seq(Verdict)
  /\ befell \in SUBSET Misfortune

\* What a scenario sets.
Width(s) == IF s = 4 THEN 2 ELSE 1
PaceOf(s) == IF s = 2 THEN Fast ELSE Slow
SizeOf(s) == IF s = 1 THEN "yes" ELSE "no"

\* A scenario gives its own commands, and gets their frames; the file of another
\* user stays what it was.
OwnOrder(s, c) == c.scene = s /\ c.vl <= Width(s)
OwnFrame(s, f) == f.scene = s /\ f.vl <= Width(s)
FileInv ==
  /\ stage = "capturing" => dump = "off"
  /\ stage \in {"giving", "waiting"} => scene # 3
  /\ stage = "giving" => todo # <<>> /\ \A i \in 1..Len(todo) : OwnOrder(scene, todo[i])
  /\ mine = "no" => dump = "off" /\ file.frames = {OldFrame}
  /\ stage \in {"giving", "waiting"} /\ mine = "yes" /\ "late" \notin befell =>
       \A f \in file.frames : OwnFrame(scene, f)

\* The first g commands of a scenario nothing befell have been run.
DoneBy(g) ==
  /\ Len(todo) = Len(Orders(scene)) - g
  /\ \A i \in 1..Len(todo) : todo[i] = Orders(scene)[g + i]
  /\ g = 0 => file.frames = {}
  /\ g > 0 => /\ backlog = <<>>
              /\ \A n \in Lines : line[n] = IF n <= Width(scene) /\ n < g THEN PaceOf(scene) ELSE 0
  /\ \A f \in file.frames : f.bag = PaceOf(scene) /\ f.big = SizeOf(scene)
  /\ g > 1 + Width(scene) => \E f \in file.frames : f.vl = 1
  /\ Width(scene) = 2 /\ g > 3 + Rounds => \E f \in file.frames : f.vl = 2
GivingInv ==
  /\ stage = "giving" /\ befell = {} =>
       dump = "on" /\ file.there = "yes" /\ mine = "yes" /\ \E g \in Nat : DoneBy(g)
  /\ stage = "waiting" /\ befell = {} =>
       /\ file.there = "yes" /\ mine = "yes"
       /\ \A f \in file.frames : f.bag = PaceOf(scene) /\ f.big = SizeOf(scene)
       /\ \A n \in 1..Width(scene) : \E f \in file.frames : f.vl = n

\* The verdicts are of the scenarios in their order, S3 left out when S0 had no
\* frames to judge: then S0 did not pass.
Done(s) == IF s > 3 /\ kept = NoCapture THEN s - 1 ELSE s
CountInv ==
  /\ stage \in {"capturing", "giving", "waiting"} => Len(verdicts) = Done(scene)
  /\ stage = "over" => verdicts = <<>> \/ Len(verdicts) = Done(6)
KeptInv ==
  /\ verdicts = <<>> => kept = NoCapture
  /\ kept = NoCapture /\ verdicts # <<>> => ~verdicts[1].pass
  /\ kept # NoCapture =>
       /\ kept.found.an \/ kept.found.bad
       /\ verdicts[1].pass => kept.found.an /\ ~kept.found.bad /\ ~kept.found.loss
       /\ kept.marks = {} => kept.found.an /\ ~kept.found.bad /\ kept.amount = "many"

\* Nothing passes S1 in a file of another user; else what passes is earned.
EarnedInv ==
  /\ mine = "no" /\ Len(verdicts) >= 2 => ~verdicts[2].pass
  /\ mine = "yes" /\ verdicts # <<>> /\ verdicts[1].pass =>
       \A i \in 1..Len(verdicts) : verdicts[i].pass =>
         verdicts[i].earned \/ verdicts[i].marks \cap {"late", "split"} # {}

VerdictInv == CountInv /\ KeptInv /\ EarnedInv /\ CleanScenePasses

IInv == SuiteTypeOK /\ FileInv /\ GivingInv /\ VerdictInv

-----------------------------------------------------------------------------
(* The commands of a scenario.                                             *)

\* What the constants are.
LEMMA Numbers ==
  /\ Rounds \in Nat /\ Rounds > 0
  /\ Lines = {1, 2} /\ Fast = 50 /\ Slow = 200 /\ Earlier = 6 /\ Scenes = 0..5
  /\ \A s \in Scenes : Width(s) \in {1, 2}
BY SuiteAssumption DEF Lines, Fast, Slow, Earlier, Scenes, Width

\* Which link the j-th --send is of: the first Rounds are of link 1.
LEMMA LinkOfSend ==
  ASSUME NEW j \in Nat, j > 0
  PROVE  /\ j <= Rounds => ((j - 1) \div Rounds) + 1 = 1
         /\ Rounds < j /\ j <= 2 * Rounds => ((j - 1) \div Rounds) + 1 = 2
<1>1. Rounds \in Nat /\ Rounds > 0  BY Numbers
<1>2. ASSUME NEW r \in Nat, NEW x \in Nat, r > 0
      PROVE  /\ x < r => x \div r = 0
             /\ r <= x /\ x < 2 * r => x \div r = 1
  <2>1. CASE x < r
    <3>1. x = r * 0 + x  BY <1>2
    <3> QED  BY <1>2, <2>1, <3>1, SMTT(30)
  <2>2. CASE r <= x /\ x < 2 * r
    <3>1. x = r * 1 + (x - r)  BY <1>2
    <3> QED  BY <1>2, <2>2, <3>1, SMTT(30)
  <2> QED  BY <1>2, <2>1, <2>2
<1>3. j - 1 \in Nat  OBVIOUS
<1> QED  BY <1>1, <1>2, <1>3

\* A list of commands after another.
Joined(a, b) == a \o b
LEMMA JoinedOrders ==
  \A a, b \in Seq(OrderOf) :
    /\ Joined(a, b) \in Seq(OrderOf) /\ Len(Joined(a, b)) = Len(a) + Len(b)
    /\ \A i \in 1..Len(a) : Joined(a, b)[i] = a[i]
    /\ \A i \in 1..Len(b) : Joined(a, b)[Len(a) + i] = b[i]
<1> SUFFICES ASSUME NEW a \in Seq(OrderOf), NEW b \in Seq(OrderOf)
             PROVE  /\ Joined(a, b) \in Seq(OrderOf) /\ Len(Joined(a, b)) = Len(a) + Len(b)
                    /\ \A i \in 1..Len(a) : Joined(a, b)[i] = a[i]
                    /\ \A i \in 1..Len(b) : Joined(a, b)[Len(a) + i] = b[i]
  OBVIOUS
<1>1. Len(a) \in Nat /\ Len(b) \in Nat  OBVIOUS
<1> QED  BY <1>1, ConcatProperties DEF Joined

\* SET, then the --adds, then the --sends.
LEMMA OrdersOf ==
  ASSUME NEW s \in Scenes
  PROVE  /\ Orders(s) \in Seq(OrderOf)
         /\ Len(Orders(s)) = 1 + Width(s) + Rounds * Width(s)
         /\ Orders(s)[1] = Order(s, "clear", 1)
         /\ \A i \in 1..Width(s) : Orders(s)[1 + i] = Order(s, "add", i)
         /\ \A j \in 1..(Rounds * Width(s)) :
              Orders(s)[1 + Width(s) + j] = Order(s, "send", ((j - 1) \div Rounds) + 1)
         /\ \A j \in 1..(Rounds * Width(s)) : ((j - 1) \div Rounds) + 1 \in 1..Width(s)
<1> DEFINE links == IF s = 4 THEN <<1, 2>> ELSE <<1>>
           adds == [i \in 1..Len(links) |-> Order(s, "add", links[i])]
           link(j) == links[((j - 1) \div Rounds) + 1]
           sends == [j \in 1..(Rounds * Len(links)) |-> Order(s, "send", link(j))]
<1>1. /\ Len(links) = Width(s)
      /\ \A i \in 1..Width(s) : links[i] = i
  BY DEF Width
<1>2. \A j \in 1..(Rounds * Width(s)) : ((j - 1) \div Rounds) + 1 \in 1..Width(s)
  <2> TAKE j \in 1..(Rounds * Width(s))
  <2>1. Rounds * Width(s) = IF Width(s) = 1 THEN Rounds ELSE 2 * Rounds
    BY Numbers
  <2>2. j \in Nat /\ j > 0 /\ j <= Rounds * Width(s)
    BY <2>1, Numbers
  <2> QED  BY <2>1, <2>2, LinkOfSend, Numbers
<1>3. \A n \in 1..Width(s), op \in {"clear", "add", "send"} : Order(s, op, n) \in OrderOf
  BY Numbers DEF Order, OrderOf
<1> HIDE DEF links
<1>4. Rounds * Width(s) \in Nat /\ Width(s) \in Nat /\ 1 \in 1..Width(s)  BY Numbers
<1>5. adds \in Seq(OrderOf) /\ Len(adds) = Width(s)
      /\ \A i \in 1..Width(s) : adds[i] = Order(s, "add", i)
  <2>1. adds = [i \in 1..Width(s) |-> Order(s, "add", i)]  BY <1>1
  <2>2. \A i \in 1..Width(s) : Order(s, "add", i) \in OrderOf  BY <1>3
  <2>3. adds \in [1..Width(s) -> OrderOf]  BY <2>1, <2>2
  <2> HIDE DEF adds
  <2>4. adds \in Seq(OrderOf) /\ Len(adds) = Width(s)  BY <2>1, <2>3, <1>4
  <2> QED  BY <2>1, <2>4
<1>6. sends \in Seq(OrderOf) /\ Len(sends) = Rounds * Width(s)
      /\ \A j \in 1..(Rounds * Width(s)) :
           sends[j] = Order(s, "send", ((j - 1) \div Rounds) + 1)
  <2> DEFINE send(j) == Order(s, "send", ((j - 1) \div Rounds) + 1)
             total == Rounds * Width(s)
  <2>1. sends = [j \in 1..total |-> send(j)]  BY <1>1, <1>2
  <2>2. \A j \in 1..total : send(j) \in OrderOf
    <3> TAKE j \in 1..total
    <3>1. ((j - 1) \div Rounds) + 1 \in 1..Width(s)  BY <1>2
    <3> QED  BY <3>1, <1>3
  <2>3. total \in Nat  BY <1>4
  <2> HIDE DEF send, sends, total
  <2>4. sends \in Seq(OrderOf) /\ Len(sends) = total  BY <2>1, <2>2, <2>3
  <2>5. \A j \in 1..total : sends[j] = send(j)  BY <2>1
  <2> QED  BY <2>4, <2>5 DEF send, total
<1>7. Set(s) \in Seq(OrderOf) /\ Len(Set(s)) = 1 /\ Set(s)[1] = Order(s, "clear", 1)
  BY <1>3, <1>4 DEF Set
<1>8. Orders(s) = (Set(s) \o adds) \o sends  BY DEF Orders, links
<1> HIDE DEF adds, sends
<1> DEFINE head == Joined(Set(s), adds)
<1>9. head \in Seq(OrderOf) /\ Len(head) = 1 + Width(s)
      /\ (\A i \in 1..1 : head[i] = Set(s)[i])
      /\ (\A i \in 1..Width(s) : head[1 + i] = adds[i])
  <2>1. Set(s) \in Seq(OrderOf) /\ adds \in Seq(OrderOf)  BY <1>5, <1>7
  <2>2. /\ head \in Seq(OrderOf) /\ Len(head) = Len(Set(s)) + Len(adds)
        /\ \A i \in 1..Len(Set(s)) : head[i] = Set(s)[i]
        /\ \A i \in 1..Len(adds) : head[Len(Set(s)) + i] = adds[i]
    BY <2>1, JoinedOrders, Zenon
  <2> HIDE DEF head
  <2>3. Len(Set(s)) = 1 /\ Len(adds) = Width(s)  BY <1>5, <1>7
  <2> QED  BY <2>2, <2>3
<1>10. Orders(s) = Joined(head, sends)  BY <1>8 DEF Joined
<1> HIDE DEF head
<1>11. /\ Orders(s) \in Seq(OrderOf) /\ Len(Orders(s)) = Len(head) + Len(sends)
       /\ \A i \in 1..Len(head) : Orders(s)[i] = head[i]
       /\ \A i \in 1..Len(sends) : Orders(s)[Len(head) + i] = sends[i]
  <2>1. head \in Seq(OrderOf) /\ sends \in Seq(OrderOf)  BY <1>6, <1>9
  <2> DEFINE both == Joined(head, sends)
  <2>2. /\ both \in Seq(OrderOf) /\ Len(both) = Len(head) + Len(sends)
        /\ \A i \in 1..Len(head) : both[i] = head[i]
        /\ \A i \in 1..Len(sends) : both[Len(head) + i] = sends[i]
    BY <2>1, JoinedOrders, Zenon
  <2>3. Orders(s) = both  BY <1>10
  <2> HIDE DEF both
  <2> QED  BY <2>2, <2>3
<1>12. Len(Orders(s)) = 1 + Width(s) + Rounds * Width(s)  BY <1>6, <1>9, <1>11
<1>13. Orders(s)[1] = Order(s, "clear", 1)
  <2>1. 1 \in 1..Len(head) /\ 1 \in 1..1  BY <1>4, <1>9
  <2> QED  BY <2>1, <1>7, <1>9, <1>11
<1>14. ASSUME NEW i \in 1..Width(s) PROVE Orders(s)[1 + i] = Order(s, "add", i)
  <2>1. 1 + i \in 1..Len(head)  BY <1>4, <1>9
  <2> QED  BY <2>1, <1>5, <1>9, <1>11
<1>15. ASSUME NEW j \in 1..(Rounds * Width(s))
       PROVE  Orders(s)[1 + Width(s) + j] = Order(s, "send", ((j - 1) \div Rounds) + 1)
  <2>1. j \in 1..Len(sends)  BY <1>6
  <2>2. Orders(s)[Len(head) + j] = sends[j]  BY <2>1, <1>11
  <2> QED  BY <2>2, <1>6, <1>9
<1> QED  BY <1>2, <1>11, <1>12, <1>13, <1>14, <1>15

-----------------------------------------------------------------------------
(* What the board does with a command.                                     *)

\* A command changes a link or adds one frame, of the link's pace.
LEMMA BoardTypes ==
  ASSUME NEW c \in OrderOf, line \in [Lines -> {0, Fast, Slow}], file \in FileOf,
         BoardRuns(c)
  PROVE  line' \in [Lines -> {0, Fast, Slow}] /\ file' \in FileOf
<1>1. c.vl \in Lines /\ c.bag \in {Fast, Slow} /\ c.big \in {"yes", "no"}
      /\ c.scene \in Scenes \cup {Earlier} /\ c.op \in {"clear", "add", "send"}
  BY DEF OrderOf
<1>2. line' \in [Lines -> {0, Fast, Slow}]
  <2>1. CASE c.op = "clear"
    <3>1. line' = [n \in Lines |-> 0]  BY <2>1 DEF BoardRuns
    <3> QED  BY <3>1
  <2>2. CASE c.op = "add"
    <3>1. line' = line \/ line' = [line EXCEPT ![c.vl] = c.bag]  BY <2>2 DEF BoardRuns
    <3> QED  BY <3>1, <1>1
  <2>3. CASE c.op = "send"
    <3>1. line' = line  BY <2>3 DEF BoardRuns
    <3> QED  BY <3>1
  <2> QED  BY <1>1, <2>1, <2>2, <2>3
<1>3. file' \in FileOf
  <2>1. CASE c.op = "send" /\ line[c.vl] # 0 /\ dump = "on"
    <3> DEFINE f == [scene |-> c.scene, vl |-> c.vl, bag |-> line[c.vl], big |-> c.big]
    <3>1. file' = [file EXCEPT !.frames = @ \cup {f}]  BY <2>1 DEF BoardRuns
    <3>2. line[c.vl] \in {Fast, Slow}  BY <1>1, <2>1
    <3>3. f \in FrameOf  BY <1>1, <3>2 DEF FrameOf
    <3> HIDE DEF f
    <3>4. file.there \in {"yes", "no"} /\ file.frames \cup {f} \in SUBSET FrameOf
      BY <3>3 DEF FileOf
    <3> QED  BY <3>1, <3>4 DEF FileOf
  <2>2. CASE ~(c.op = "send" /\ line[c.vl] # 0 /\ dump = "on")
    BY <2>2 DEF BoardRuns
  <2> QED  BY <2>1, <2>2
<1> QED  BY <1>2, <1>3

\* What the file has after a command.
LEMMA BoardFrames ==
  ASSUME NEW c, file \in FileOf, BoardRuns(c)
  PROVE  /\ file'.there = file.there
         /\ dump = "off" => file' = file
         /\ c.op # "send" => file' = file
         /\ file.frames \subseteq file'.frames
         /\ \A f \in file'.frames : \/ f \in file.frames
              \/ f = [scene |-> c.scene, vl |-> c.vl, bag |-> line[c.vl], big |-> c.big]
         /\ c.op = "send" /\ line[c.vl] # 0 /\ dump = "on" => \E f \in file'.frames : f.vl = c.vl
<1> DEFINE new == [scene |-> c.scene, vl |-> c.vl, bag |-> line[c.vl], big |-> c.big]
<1>1. CASE c.op = "send" /\ line[c.vl] # 0 /\ dump = "on"
  <2>1. file' = [file EXCEPT !.frames = @ \cup {new}]  BY <1>1 DEF BoardRuns
  <2>2. new.vl = c.vl  OBVIOUS
  <2> HIDE DEF new
  <2>3. file'.there = file.there /\ file'.frames = file.frames \cup {new}  BY <2>1 DEF FileOf
  <2>4. /\ file.frames \subseteq file'.frames
        /\ \A f \in file'.frames : f \in file.frames \/ f = new
        /\ new \in file'.frames
    BY <2>3
  <2> QED  BY <1>1, <2>2, <2>3, <2>4 DEF new
<1>2. CASE ~(c.op = "send" /\ line[c.vl] # 0 /\ dump = "on")
  <2>1. file' = file  BY <1>2 DEF BoardRuns
  <2> QED  BY <1>2, <2>1
<1> QED  BY <1>1, <1>2

-----------------------------------------------------------------------------
(* Types.                                                                  *)

\* The first of a list and the others.
LEMMA HeadTail ==
  ASSUME NEW S, NEW q \in Seq(S), q # <<>>
  PROVE  /\ Head(q) \in S /\ Head(q) = q[1] /\ Tail(q) \in Seq(S) /\ Len(Tail(q)) = Len(q) - 1
         /\ \A i \in 1..Len(Tail(q)) : Tail(q)[i] = q[i + 1]
OBVIOUS

LEMMA NoVerdictYet == NoCapture \in Capture
BY DEF NoCapture, Nothing, Capture, Found

LEMMA DetectedType ==
  ASSUME NEW s, NEW frames, NEW amount, NEW split \in BOOLEAN, NEW gap
  PROVE  Detected(s, frames, amount, split, gap) \in Found
BY DEF Detected, Found

LEMMA PassesType ==
  ASSUME NEW s \in Scenes, NEW d \in Found
  PROVE  Passes(s, d) \in BOOLEAN
BY DEF Passes

\* A verdict changes the list and the place in the suite.
LEMMA ConcludeType ==
  ASSUME SuiteTypeOK, NEW d \in Found, NEW earned \in BOOLEAN, NEW marks \in SUBSET Misfortune,
         Conclude(d, earned, marks)
  PROVE  /\ verdicts' \in Seq(Verdict) /\ Len(verdicts') = Len(verdicts) + 1
         /\ verdicts'[Len(verdicts) + 1] = [scene |-> scene, pass |-> Passes(scene, d),
                                            earned |-> earned, marks |-> marks]
         /\ \A i \in 1..Len(verdicts) : verdicts'[i] = verdicts[i]
         /\ stage' \in Stages /\ scene' \in Scenes /\ todo' = <<>>
         /\ UNCHANGED <<line, backlog, dump, file, mine>>
<1> DEFINE v == [scene |-> scene, pass |-> Passes(scene, d), earned |-> earned, marks |-> marks]
<1>1. v \in Verdict
  <2>1. scene \in Scenes /\ Passes(scene, d) \in BOOLEAN  BY PassesType DEF SuiteTypeOK
  <2> QED  BY <2>1 DEF Verdict
<1>2. verdicts' = Append(verdicts, v)  BY DEF Conclude
<1>3. stage' \in Stages /\ scene' \in Scenes
  <2>1. CASE scene = 5  BY <2>1 DEF Conclude, SuiteTypeOK, Stages
  <2>2. CASE scene # 5
    <3>1. scene' = scene + 1 /\ stage' = "capturing"  BY <2>2 DEF Conclude
    <3> QED  BY <2>2, <3>1 DEF SuiteTypeOK, Stages, Scenes
  <2> QED  BY <2>1, <2>2
<1>4. todo' = <<>> /\ UNCHANGED <<line, backlog, dump, file, mine>>
  BY DEF Conclude, boardVars, pcapVars
<1> HIDE DEF v
<1>5. /\ verdicts' \in Seq(Verdict) /\ Len(verdicts') = Len(verdicts) + 1
      /\ verdicts'[Len(verdicts) + 1] = v
      /\ \A i \in 1..Len(verdicts) : verdicts'[i] = verdicts[i]
  <2>1. verdicts \in Seq(Verdict)  BY DEF SuiteTypeOK
  <2> QED  BY <1>1, <1>2, <2>1, AppendProperties
<1> QED  BY <1>3, <1>4, <1>5 DEF v

\* Every step keeps the types.
LEMMA StartSuiteTypes ==
  ASSUME SuiteTypeOK, StartSuite PROVE SuiteTypeOK'
<1>1. backlog' \in Seq(OrderOf)
  <2> DEFINE late == [i \in DOMAIN backlog |-> [backlog[i] EXCEPT !.scene = Earlier]]
  <2>1. backlog \in Seq(OrderOf)  BY DEF SuiteTypeOK
  <2>2. \A i \in 1..Len(backlog) : backlog[i] \in OrderOf  BY <2>1
  <2>3. \A i \in 1..Len(backlog) : [backlog[i] EXCEPT !.scene = Earlier] \in OrderOf
    BY <2>2 DEF OrderOf
  <2>4. Len(backlog) \in Nat /\ DOMAIN backlog = 1..Len(backlog)  BY <2>1
  <2>5. late \in Seq(OrderOf)  BY <2>3, <2>4
  <2>6. backlog' = late  BY DEF StartSuite
  <2> QED  BY <2>5, <2>6
<1>2. file' \in FileOf  BY DEF StartSuite, SuiteTypeOK, Missing, FileOf
<1>3. stage' \in Stages /\ scene' \in Scenes /\ todo' \in Seq(OrderOf)
      /\ dump' \in {"on", "off"} /\ kept' \in Capture /\ verdicts' \in Seq(Verdict)
      /\ befell' \in SUBSET Misfortune
  BY NoVerdictYet DEF StartSuite, Stages, Scenes
<1>4. UNCHANGED <<line, mine>>  BY DEF StartSuite
<1> QED  BY <1>1, <1>2, <1>3, <1>4 DEF SuiteTypeOK

LEMMA StartTcpdumpTypes ==
  ASSUME SuiteTypeOK, StartTcpdump PROVE SuiteTypeOK'
<1>1. todo' \in Seq(OrderOf)
  <2>1. scene \in Scenes  BY DEF SuiteTypeOK
  <2> QED  BY <2>1, OrdersOf DEF StartTcpdump
<1>2. file' \in FileOf /\ dump' \in {"on", "off"} /\ befell' \in SUBSET Misfortune
  BY DEF StartTcpdump, SuiteTypeOK, Missing, FileOf, Well, Ill, Misfortune
<1>3. stage' \in Stages /\ UNCHANGED <<scene, line, backlog, mine, kept, verdicts>>
  BY DEF StartTcpdump, Stages, boardVars
<1> QED  BY <1>1, <1>2, <1>3 DEF SuiteTypeOK

LEMMA GiveTypes ==
  ASSUME SuiteTypeOK, todo # <<>>, Give
  PROVE  /\ todo' \in Seq(OrderOf) /\ Head(todo) \in OrderOf /\ stage' \in Stages
         /\ UNCHANGED <<scene, dump, mine, kept, verdicts>>
<1>1. todo \in Seq(OrderOf)  BY DEF SuiteTypeOK
<1>2. Head(todo) \in OrderOf /\ Tail(todo) \in Seq(OrderOf)  BY <1>1, HeadTail
<1> QED  BY <1>2 DEF Give, Stages

LEMMA CommandTypes ==
  ASSUME SuiteTypeOK, todo # <<>>, CommandDone \/ CommandLost \/ CommandRaises
  PROVE  SuiteTypeOK'
<1>1. CASE CommandDone
  <2>1. Give /\ BoardRuns(Head(todo)) /\ UNCHANGED <<backlog, befell>>
    BY <1>1 DEF CommandDone, Well
  <2>2. line' \in [Lines -> {0, Fast, Slow}] /\ file' \in FileOf
    BY <2>1, GiveTypes, BoardTypes DEF SuiteTypeOK
  <2> QED  BY <2>1, <2>2, GiveTypes DEF SuiteTypeOK
<1>2. CASE CommandLost
  <2>1. Give /\ befell' = befell \cup {"lost"} /\ UNCHANGED <<line, file>>
        /\ backlog' \in {backlog, Append(backlog, Head(todo))}
    BY <1>2 DEF CommandLost, Ill
  <2>2. backlog' \in Seq(OrderOf)
    <3>1. Head(todo) \in OrderOf /\ backlog \in Seq(OrderOf)
      BY <2>1, GiveTypes DEF SuiteTypeOK
    <3>2. Append(backlog, Head(todo)) \in Seq(OrderOf)  BY <3>1, AppendProperties
    <3> QED  BY <2>1, <3>1, <3>2
  <2>3. befell' \in SUBSET Misfortune  BY <2>1 DEF SuiteTypeOK, Misfortune
  <2> QED  BY <2>1, <2>2, <2>3, GiveTypes DEF SuiteTypeOK
<1>3. CASE CommandRaises
  <2>1. /\ befell' = befell \cup {"raised"} /\ stage' = "broken"
        /\ backlog' \in {backlog, Append(backlog, Head(todo))}
        /\ UNCHANGED <<scene, todo, line, dump, file, mine, kept, verdicts>>
    BY <1>3 DEF CommandRaises, Ill, pcapVars
  <2>2. Head(todo) \in OrderOf  BY HeadTail DEF SuiteTypeOK
  <2>3. backlog' \in Seq(OrderOf)
    BY <2>1, <2>2, AppendProperties DEF SuiteTypeOK
  <2>4. befell' \in SUBSET Misfortune /\ stage' \in Stages
    BY <2>1 DEF SuiteTypeOK, Misfortune, Stages
  <2> QED  BY <2>1, <2>3, <2>4 DEF SuiteTypeOK
<1> QED  BY <1>1, <1>2, <1>3

LEMMA LateTypes ==
  ASSUME SuiteTypeOK, LateCommand PROVE SuiteTypeOK'
<1>1. Head(backlog) \in OrderOf /\ Tail(backlog) \in Seq(OrderOf)
  BY HeadTail DEF SuiteTypeOK, LateCommand
<1>2. line' \in [Lines -> {0, Fast, Slow}] /\ file' \in FileOf
  BY <1>1, BoardTypes DEF SuiteTypeOK, LateCommand
<1>3. befell' \in SUBSET Misfortune  BY DEF SuiteTypeOK, LateCommand, Misfortune
<1> QED  BY <1>1, <1>2, <1>3 DEF SuiteTypeOK, LateCommand

\* What a scenario's frames are judged as, and what S0's leave for S3.
LoadsAs(m, marks, amount, gap, d) ==
  /\ m \in {"fine", "split", "dropped"} /\ marks \in SUBSET Misfortune
  /\ marks = befell \cup ({m} \ {"fine"})
  /\ amount \in {"none", "few", "some", "many"} /\ amount \in Amounts(file.frames, marks)
  /\ gap \in {"none", "loss", "other"}
  /\ marks \cap {"dropped", "late"} = {} => gap = "none"
  /\ d = Detected(scene, file.frames, amount, m = "split", gap)
  /\ d \in Found /\ Earned(scene, file.frames) \in BOOLEAN
  /\ Conclude(d, Earned(scene, file.frames), marks)
  /\ kept' = IF scene = 0 /\ (d.an \/ d.bad)
             THEN [amount |-> amount, found |-> d, marks |-> marks]
             ELSE kept
  /\ befell' = {}
LEMMA Loaded ==
  ASSUME SuiteTypeOK, LoadFrames
  PROVE  \E m, marks, amount, gap, d : LoadsAs(m, marks, amount, gap, d)
<1>1. PICK m \in {"fine", "split", "dropped"} :
        LET marks == befell \cup ({m} \ {"fine"})
            gaps == IF marks \cap {"dropped", "late"} = {} THEN {"none"}
                    ELSE {"none", "loss", "other"}
        IN \E amount \in Amounts(file.frames, marks), gap \in gaps :
             LET d == Detected(scene, file.frames, amount, m = "split", gap)
             IN /\ Conclude(d, Earned(scene, file.frames), marks)
                /\ kept' = IF scene = 0 /\ (d.an \/ d.bad)
                           THEN [amount |-> amount, found |-> d, marks |-> marks]
                           ELSE kept
  BY DEF LoadFrames
<1> DEFINE marks == befell \cup ({m} \ {"fine"})
           gaps == IF marks \cap {"dropped", "late"} = {} THEN {"none"}
                   ELSE {"none", "loss", "other"}
<1>2. PICK amount \in Amounts(file.frames, marks), gap \in gaps :
        LET d == Detected(scene, file.frames, amount, m = "split", gap)
        IN /\ Conclude(d, Earned(scene, file.frames), marks)
           /\ kept' = IF scene = 0 /\ (d.an \/ d.bad)
                      THEN [amount |-> amount, found |-> d, marks |-> marks]
                      ELSE kept
  BY <1>1
<1>3. marks \in SUBSET Misfortune  BY DEF SuiteTypeOK, Misfortune
<1>4. gap \in {"none", "loss", "other"} /\ (marks \cap {"dropped", "late"} = {} => gap = "none")
  OBVIOUS
<1>5. amount \in {"none", "few", "some", "many"}  BY DEF Amounts
<1>6. Earned(scene, file.frames) \in BOOLEAN
  <2>1. scene \in {0, 5} \/ scene = 1 \/ scene = 2 \/ scene \in {3, 4}
    BY DEF SuiteTypeOK, Scenes
  <2> QED  BY <2>1 DEF Earned
<1> DEFINE d == Detected(scene, file.frames, amount, m = "split", gap)
<1>7. d \in Found  BY DetectedType
<1>8. befell' = {}  BY DEF LoadFrames
<1> HIDE DEF marks, d
<1>9. /\ Conclude(d, Earned(scene, file.frames), marks)
      /\ kept' = IF scene = 0 /\ (d.an \/ d.bad)
                 THEN [amount |-> amount, found |-> d, marks |-> marks]
                 ELSE kept
  BY <1>2 DEF marks, d
<1>10. marks = befell \cup ({m} \ {"fine"})  BY DEF marks
<1>11. d = Detected(scene, file.frames, amount, m = "split", gap)  BY DEF d
<1>12. LoadsAs(m, marks, amount, gap, d)
  BY <1>2, <1>3, <1>4, <1>5, <1>6, <1>7, <1>8, <1>9, <1>10, <1>11 DEF LoadsAs
<1> QED  BY <1>12

LEMMA JudgeTypes ==
  ASSUME SuiteTypeOK, LoadFrames \/ LoadRaises \/ ReuseS0 \/ DumpEnds PROVE SuiteTypeOK'
<1>1. CASE LoadFrames
  <2>1. PICK m, marks, amount, gap, d : LoadsAs(m, marks, amount, gap, d)  BY <1>1, Loaded
  <2>2. d \in Found /\ Earned(scene, file.frames) \in BOOLEAN /\ marks \in SUBSET Misfortune
        /\ Conclude(d, Earned(scene, file.frames), marks) /\ befell' = {}
    BY <2>1 DEF LoadsAs
  <2>3. kept' \in Capture  BY <2>1 DEF LoadsAs, Capture, SuiteTypeOK
  <2>4. /\ verdicts' \in Seq(Verdict) /\ stage' \in Stages /\ scene' \in Scenes /\ todo' = <<>>
        /\ UNCHANGED <<line, backlog, dump, file, mine>>
    BY <2>2, ConcludeType
  <2> QED  BY <2>2, <2>3, <2>4 DEF SuiteTypeOK
<1>2. CASE LoadRaises
  BY <1>2 DEF LoadRaises, SuiteTypeOK, Stages, boardVars, pcapVars
<1>3. CASE ReuseS0
  <2>1. CASE kept = NoCapture
    BY <1>3, <2>1 DEF ReuseS0, SuiteTypeOK, Stages, Scenes, boardVars, pcapVars
  <2>2. CASE kept # NoCapture
    <3>1. PICK found \in BOOLEAN :
            Conclude([kept.found EXCEPT !.loss = @ \/ found], Cuts(kept.amount), kept.marks)
      BY <1>3, <2>2 DEF ReuseS0
    <3>2. [kept.found EXCEPT !.loss = @ \/ found] \in Found /\ Cuts(kept.amount) \in BOOLEAN
          /\ kept.marks \in SUBSET Misfortune
      BY DEF SuiteTypeOK, Capture, Found, Cuts
    <3>3. /\ verdicts' \in Seq(Verdict) /\ stage' \in Stages /\ scene' \in Scenes
          /\ todo' = <<>> /\ UNCHANGED <<line, backlog, dump, file, mine>>
      BY <3>1, <3>2, ConcludeType
    <3>4. befell' = {} /\ UNCHANGED kept  BY <1>3 DEF ReuseS0
    <3> QED  BY <3>3, <3>4 DEF SuiteTypeOK
  <2> QED  BY <2>1, <2>2
<1>4. CASE DumpEnds
  <2>1. befell' \in SUBSET Misfortune  BY <1>4 DEF DumpEnds, SuiteTypeOK, Misfortune
  <2> QED  BY <1>4, <2>1 DEF DumpEnds, SuiteTypeOK, boardVars
<1> QED  BY <1>1, <1>2, <1>3, <1>4

\* A scenario gives commands while it has some.
LEMMA SomethingToGive ==
  ASSUME FileInv, CommandDone \/ CommandLost \/ CommandRaises
  PROVE  todo # <<>> /\ stage = "giving"
BY DEF FileInv, CommandDone, CommandLost, CommandRaises, Give

LEMMA Types == SuiteTypeOK /\ FileInv /\ [SuiteNext]_suiteVars => SuiteTypeOK'
<1> SUFFICES ASSUME SuiteTypeOK, FileInv, [SuiteNext]_suiteVars PROVE SuiteTypeOK'
  OBVIOUS
<1>1. CASE StartSuite  BY <1>1, StartSuiteTypes
<1>2. CASE StartTcpdump  BY <1>2, StartTcpdumpTypes
<1>3. CASE CommandDone \/ CommandLost \/ CommandRaises
  <2>1. todo # <<>>  BY <1>3, SomethingToGive
  <2> QED  BY <1>3, <2>1, CommandTypes
<1>4. CASE LateCommand  BY <1>4, LateTypes
<1>5. CASE LoadFrames \/ LoadRaises \/ ReuseS0 \/ DumpEnds  BY <1>5, JudgeTypes
<1>6. CASE UNCHANGED suiteVars
  BY <1>6 DEF SuiteTypeOK, suiteVars, boardVars, pcapVars
<1> QED  BY <1>1, <1>2, <1>3, <1>4, <1>5, <1>6 DEF SuiteNext

-----------------------------------------------------------------------------
(* Whose commands and whose frames.                                        *)

\* The commands of a scenario are its own, of links it sets.
LEMMA OrdersAreOwn ==
  ASSUME NEW s \in Scenes, NEW i \in 1..Len(Orders(s)) PROVE OwnOrder(s, Orders(s)[i])
<1> DEFINE W == Width(s)
           total == Rounds * W
<1>1. W \in {1, 2} /\ total \in Nat /\ Len(Orders(s)) = 1 + W + total
  <2>1. W \in {1, 2} /\ Rounds \in Nat  BY Numbers
  <2> QED  BY <2>1, OrdersOf
<1>2. CASE i = 1
  <2>1. Orders(s)[i] = Order(s, "clear", 1)  BY <1>2, OrdersOf
  <2> QED  BY <1>1, <2>1 DEF OwnOrder, Order
<1>3. CASE 1 < i /\ i <= 1 + W
  <2>1. i - 1 \in 1..W /\ i = 1 + (i - 1)  BY <1>1, <1>3
  <2>2. Orders(s)[1 + (i - 1)] = Order(s, "add", i - 1)  BY <2>1, OrdersOf
  <2> QED  BY <1>1, <1>3, <2>1, <2>2 DEF OwnOrder, Order
<1>4. CASE 1 + W < i
  <2> DEFINE j == i - (1 + W)
             n == ((j - 1) \div Rounds) + 1
  <2>1. j \in 1..total /\ i = 1 + W + j  BY <1>1, <1>4
  <2>2. Orders(s)[1 + W + j] = Order(s, "send", n) /\ n \in 1..W  BY <2>1, OrdersOf
  <2> HIDE DEF n
  <2>3. Orders(s)[i] = Order(s, "send", n)  BY <2>1, <2>2
  <2> QED  BY <1>1, <2>2, <2>3 DEF OwnOrder, Order
<1> QED  BY <1>1, <1>2, <1>3, <1>4

\* Every step keeps whose commands and frames there are.
LEMMA FileStay == SuiteTypeOK /\ FileInv /\ [SuiteNext]_suiteVars => FileInv'
<1> SUFFICES ASSUME SuiteTypeOK, FileInv, [SuiteNext]_suiteVars PROVE FileInv'
  OBVIOUS
<1>1. CASE StartSuite  BY <1>1 DEF FileInv, StartSuite
<1>2. CASE StartTcpdump
  <2>1. scene \in Scenes /\ scene # 3 /\ dump = "off" /\ UNCHANGED <<scene, mine>>
        /\ todo' = Orders(scene) /\ stage' = "giving"
    BY <1>2 DEF StartTcpdump, SuiteTypeOK, FileInv
  <2>2. \A i \in 1..Len(todo') : OwnOrder(scene, todo'[i])  BY <2>1, OrdersAreOwn
  <2>3. todo' # <<>>
    <3>1. Len(todo') > 0
      <4>1. Width(scene) \in {1, 2} /\ Rounds * Width(scene) \in Nat  BY <2>1, Numbers
      <4> QED  BY <2>1, <4>1, OrdersOf
    <3> QED  BY <3>1
  <2>4. mine = "no" => dump' = "off" /\ file' = file
    BY <1>2, <2>1 DEF StartTcpdump
  <2>5. mine = "yes" => file'.frames = {}  BY <1>2 DEF StartTcpdump, Missing
  <2> QED  BY <2>1, <2>2, <2>3, <2>4, <2>5 DEF FileInv
<1>3. CASE CommandDone \/ CommandLost
  <2>1. /\ todo # <<>> /\ stage = "giving" /\ Give /\ todo' = Tail(todo)
        /\ UNCHANGED <<scene, dump, mine>> /\ stage' \in {"giving", "waiting"}
        /\ stage' = "giving" => Len(todo) # 1
    BY <1>3, SomethingToGive DEF CommandDone, CommandLost, Give
  <2>2. /\ Head(todo) \in OrderOf /\ Head(todo) = todo[1] /\ Tail(todo) \in Seq(OrderOf)
        /\ Len(Tail(todo)) = Len(todo) - 1 /\ Len(todo) \in Nat /\ Len(todo) > 0
        /\ \A i \in 1..Len(Tail(todo)) : Tail(todo)[i] = todo[i + 1]
    BY <2>1, HeadTail DEF SuiteTypeOK
  <2>3. stage' = "giving" => todo' # <<>>
    <3>1. SUFFICES ASSUME stage' = "giving", todo' = <<>> PROVE FALSE  OBVIOUS
    <3>2. Len(todo') = Len(todo) - 1 /\ Len(todo) # 1  BY <2>1, <2>2, <3>1
    <3>3. Len(todo') = 0  BY <3>1
    <3> QED  BY <3>2, <3>3, <2>2
  <2>4. \A i \in 1..Len(todo') : OwnOrder(scene, todo'[i])
    <3> TAKE i \in 1..Len(todo')
    <3>1. i + 1 \in 1..Len(todo) /\ todo'[i] = todo[i + 1]  BY <2>1, <2>2
    <3>2. OwnOrder(scene, todo[i + 1])  BY <2>1, <3>1 DEF FileInv
    <3> QED  BY <3>1, <3>2
  <2>5. mine = "no" => file' = file
    <3>1. CASE CommandLost  BY <3>1 DEF CommandLost
    <3>2. CASE CommandDone
      BY <3>2, BoardFrames DEF CommandDone, FileInv, SuiteTypeOK
    <3> QED  BY <1>3, <3>1, <3>2
  <2>6. mine = "yes" /\ "late" \notin befell' => \A f \in file'.frames : OwnFrame(scene, f)
    <3> SUFFICES ASSUME mine = "yes", "late" \notin befell', NEW f \in file'.frames
                 PROVE  OwnFrame(scene, f)
      OBVIOUS
    <3>1. "late" \notin befell  BY <1>3 DEF CommandDone, CommandLost, Well, Ill
    <3>2. \A e \in file.frames : OwnFrame(scene, e)  BY <2>1, <3>1 DEF FileInv
    <3>3. CASE CommandLost  BY <3>2, <3>3 DEF CommandLost
    <3>4. CASE CommandDone
      <4>1. BoardRuns(Head(todo))  BY <3>4 DEF CommandDone
      <4>2. OwnOrder(scene, Head(todo))  BY <2>1, <2>2 DEF FileInv
      <4>3. f \in file.frames \/ (f.scene = Head(todo).scene /\ f.vl = Head(todo).vl)
        BY <4>1, BoardFrames DEF SuiteTypeOK
      <4> QED  BY <3>2, <4>2, <4>3 DEF OwnOrder, OwnFrame
    <3> QED  BY <1>3, <3>3, <3>4
  <2> QED  BY <2>1, <2>3, <2>4, <2>5, <2>6 DEF FileInv
<1>4. CASE CommandRaises
  BY <1>4 DEF CommandRaises, FileInv, pcapVars
<1>5. CASE LateCommand
  <2>1. /\ "late" \in befell' /\ UNCHANGED <<stage, scene, todo, dump, mine>>
        /\ BoardRuns(Head(backlog))
    BY <1>5 DEF LateCommand
  <2>2. dump = "off" => file' = file  BY <2>1, BoardFrames DEF SuiteTypeOK
  <2> QED  BY <2>1, <2>2 DEF FileInv
<1>6. CASE DumpEnds
  <2>1. /\ dump' = "off" /\ UNCHANGED <<stage, scene, todo, file, mine>>
        /\ befell \subseteq befell'
    BY <1>6 DEF DumpEnds
  <2> QED  BY <2>1 DEF FileInv
<1>7. CASE LoadFrames \/ ReuseS0
  <2>1. dump = "off" /\ UNCHANGED <<dump, file, mine>> /\ stage' \in {"over", "capturing"}
    <3>1. CASE LoadFrames  BY <3>1 DEF LoadFrames, Conclude, pcapVars
    <3>2. CASE ReuseS0  BY <3>2 DEF ReuseS0, Conclude, pcapVars, FileInv
    <3> QED  BY <1>7, <3>1, <3>2
  <2> QED  BY <2>1 DEF FileInv
<1>8. CASE LoadRaises  BY <1>8 DEF LoadRaises, FileInv, pcapVars
<1>9. CASE UNCHANGED suiteVars
  BY <1>9 DEF FileInv, suiteVars, boardVars, pcapVars
<1> QED  BY <1>1, <1>2, <1>3, <1>4, <1>5, <1>6, <1>7, <1>8, <1>9 DEF SuiteNext

-----------------------------------------------------------------------------
(* A scenario nothing befalls.                                             *)

\* What a command of a scenario says.
LEMMA OrderIs ==
  ASSUME NEW s, NEW op, NEW n
  PROVE  /\ Order(s, op, n).op = op /\ Order(s, op, n).vl = n /\ Order(s, op, n).scene = s
         /\ Order(s, op, n).bag = PaceOf(s) /\ Order(s, op, n).big = SizeOf(s)
BY DEF Order, PaceOf, SizeOf

\* The command after the first g does what DoneBy says of g + 1.
LEMMA GivesNext ==
  ASSUME SuiteTypeOK, FileInv, stage = "giving", dump = "on", CommandDone,
         NEW g \in Nat, DoneBy(g)
  PROVE  DoneBy(g + 1)'
<1> DEFINE W == Width(scene)
           total == Rounds * W
           c == Head(todo)
<1>1. /\ W \in {1, 2} /\ total \in Nat /\ Rounds \in Nat /\ Rounds > 0
      /\ Len(Orders(scene)) = 1 + W + total /\ scene \in Scenes
      /\ total = IF W = 1 THEN Rounds ELSE 2 * Rounds
  <2>1. scene \in Scenes  BY DEF SuiteTypeOK
  <2>2. W \in {1, 2} /\ Rounds \in Nat /\ Rounds > 0  BY <2>1, Numbers
  <2> QED  BY <2>1, <2>2, OrdersOf
<1>2. /\ todo \in Seq(OrderOf) /\ todo # <<>> /\ todo' = Tail(todo) /\ backlog = <<>>
      /\ BoardRuns(c) /\ UNCHANGED <<scene, backlog, befell>>
  BY SomethingToGive DEF SuiteTypeOK, CommandDone, Give, Well
<1>3. /\ c = todo[1] /\ Len(todo) \in Nat /\ Len(todo) >= 1
      /\ Len(todo') = Len(todo) - 1 /\ \A i \in 1..Len(todo') : todo'[i] = todo[i + 1]
  BY <1>2, HeadTail
<1>4. /\ Len(todo) = 1 + W + total - g /\ c = Orders(scene)[g + 1]
      /\ \A i \in 1..Len(todo) : todo[i] = Orders(scene)[g + i]
  <2>1. /\ Len(todo) = Len(Orders(scene)) - g
        /\ \A i \in 1..Len(todo) : todo[i] = Orders(scene)[g + i]
    BY DEF DoneBy
  <2>2. 1 \in 1..Len(todo)  BY <1>3
  <2>3. todo[1] = Orders(scene)[g + 1]  BY <2>1, <2>2
  <2> HIDE DEF W, total
  <2> QED  BY <1>1, <1>3, <2>1, <2>3
<1>5. Len(todo') = 1 + W + total - (g + 1)
      /\ \A i \in 1..Len(todo') : todo'[i] = Orders(scene)[(g + 1) + i]
  <2>1. Len(todo') = 1 + W + total - (g + 1)
    <3> HIDE DEF W, total
    <3> QED  BY <1>1, <1>3, <1>4
  <2>2. ASSUME NEW i \in 1..Len(todo') PROVE todo'[i] = Orders(scene)[(g + 1) + i]
    <3>1. i + 1 \in 1..Len(todo)  BY <1>3
    <3>2. todo[i + 1] = Orders(scene)[g + (i + 1)]  BY <3>1, <1>4
    <3>3. g + (i + 1) = (g + 1) + i  BY <3>1
    <3> QED  BY <1>3, <3>2, <3>3
  <2> QED  BY <2>1, <2>2
<1>6. /\ file \in FileOf /\ line \in [Lines -> {0, Fast, Slow}]
      /\ \A f \in file.frames : f.bag = PaceOf(scene) /\ f.big = SizeOf(scene)
      /\ g > 0 => \A n \in Lines : line[n] = IF n <= W /\ n < g THEN PaceOf(scene) ELSE 0
      /\ g > 1 + W => \E f \in file.frames : f.vl = 1
      /\ W = 2 /\ g > 3 + Rounds => \E f \in file.frames : f.vl = 2
  BY DEF DoneBy, SuiteTypeOK
<1>7. /\ file.frames \subseteq file'.frames
      /\ c.op # "send" => file' = file
      /\ \A f \in file'.frames : \/ f \in file.frames
           \/ f = [scene |-> c.scene, vl |-> c.vl, bag |-> line[c.vl], big |-> c.big]
      /\ c.op = "send" /\ line[c.vl] # 0 /\ dump = "on" => \E f \in file'.frames : f.vl = c.vl
  BY <1>2, <1>6, BoardFrames
<1>8. Lines = {1, 2} /\ PaceOf(scene) # 0  BY Numbers DEF PaceOf
<1> DEFINE Line == \A n \in Lines : line'[n] = IF n <= W /\ n < g + 1 THEN PaceOf(scene) ELSE 0
           Frames == /\ \A f \in file'.frames : f.bag = PaceOf(scene) /\ f.big = SizeOf(scene)
                     /\ g + 1 > 1 + W => \E f \in file'.frames : f.vl = 1
                     /\ W = 2 /\ g + 1 > 3 + Rounds => \E f \in file'.frames : f.vl = 2
<1>9. Line /\ Frames
  <2>1. CASE g = 0
    <3>1. c = Order(scene, "clear", 1)  BY <1>1, <1>4, <2>1, OrdersOf
    <3>2. c.op = "clear"  BY <3>1, OrderIs
    <3>3. line' = [n \in Lines |-> 0] /\ file' = file  BY <1>2, <1>7, <3>2 DEF BoardRuns
    <3> QED  BY <1>1, <1>6, <1>8, <2>1, <3>3
  <2>2. CASE g > 0 /\ g <= W
    <3>1. c = Order(scene, "add", g)
      <4>1. g \in 1..W /\ g + 1 = 1 + g  BY <1>1, <2>2
      <4> QED  BY <4>1, <1>1, <1>4, OrdersOf
    <3>2. c.op = "add" /\ c.vl = g /\ c.bag = PaceOf(scene)  BY <3>1, OrderIs
    <3>3. g \in Lines /\ line[g] = 0  BY <1>1, <1>6, <1>8, <2>2
    <3>4. line' = [line EXCEPT ![g] = PaceOf(scene)] /\ file' = file
      BY <1>2, <1>7, <3>2, <3>3 DEF BoardRuns
    <3>5. \A n \in Lines : line'[n] = IF n = g THEN PaceOf(scene) ELSE line[n]
      BY <1>6, <3>3, <3>4
    <3>6. Line  BY <1>1, <1>6, <1>8, <2>2, <3>5
    <3> QED  BY <1>1, <1>6, <2>2, <3>4, <3>6
  <2>3. CASE g > W
    <3> DEFINE j == g - W
               n == ((j - 1) \div Rounds) + 1
    <3>1. j \in 1..total /\ g + 1 = 1 + W + j
      <4> HIDE DEF W, total
      <4> QED  BY <1>1, <1>3, <1>4, <2>3
    <3>2. c = Order(scene, "send", n) /\ n \in 1..W
      BY <1>1, <1>4, <3>1, OrdersOf
    <3>3. /\ j <= Rounds => n = 1
          /\ Rounds < j => n = 2
      <4>1. j \in Nat /\ j > 0 /\ j <= 2 * Rounds  BY <1>1, <3>1
      <4> QED  BY <4>1, LinkOfSend
    <3> HIDE DEF n
    <3>4. c.op = "send" /\ c.vl = n /\ c.big = SizeOf(scene)  BY <3>2, OrderIs
    <3>5. n \in Lines /\ n <= W /\ n < g  BY <1>1, <1>8, <2>3, <3>2
    <3>6. line[n] = PaceOf(scene) /\ line[n] # 0  BY <1>6, <1>8, <2>3, <3>5
    <3>7. line' = line  BY <1>2, <3>4 DEF BoardRuns
    <3>8. Line  BY <1>1, <1>6, <1>8, <2>3, <3>7
    <3>9. \A f \in file'.frames : f.bag = PaceOf(scene) /\ f.big = SizeOf(scene)
      BY <1>6, <1>7, <3>4, <3>6
    <3>10. \E f \in file'.frames : f.vl = n  BY <1>7, <3>4, <3>6
    <3>11. \E f \in file'.frames : f.vl = 1
      <4>1. CASE g > 1 + W  BY <4>1, <1>6, <1>7
      <4>2. CASE g = 1 + W
        <5>1. n = 1  BY <1>1, <3>3, <4>2
        <5> QED  BY <3>10, <5>1
      <4> QED  BY <1>1, <2>3, <4>1, <4>2
    <3>12. W = 2 /\ g + 1 > 3 + Rounds => \E f \in file'.frames : f.vl = 2
      <4>1. CASE g > 3 + Rounds  BY <4>1, <1>6, <1>7
      <4>2. CASE W = 2 /\ g = 3 + Rounds
        <5>1. n = 2  BY <1>1, <3>3, <4>2
        <5> QED  BY <3>10, <5>1
      <4> QED  BY <1>1, <4>1, <4>2
    <3> QED  BY <3>8, <3>9, <3>11, <3>12
  <2> QED  BY <1>1, <2>1, <2>2, <2>3
<1>10. backlog' = <<>> /\ scene' = scene /\ g + 1 # 0  BY <1>2
<1> HIDE DEF total, c
<1>11. Len(todo') = Len(Orders(scene)) - (g + 1)  BY <1>1, <1>5
<1> QED  BY <1>5, <1>9, <1>10, <1>11 DEF DoneBy

\* Every step keeps what a scenario nothing befell has done.
LEMMA GivingStay ==
  SuiteTypeOK /\ FileInv /\ GivingInv /\ [SuiteNext]_suiteVars => GivingInv'
<1> SUFFICES ASSUME SuiteTypeOK, FileInv, GivingInv, [SuiteNext]_suiteVars
             PROVE  GivingInv'
  OBVIOUS
<1>1. CASE StartSuite  BY <1>1 DEF GivingInv, StartSuite
<1>2. CASE StartTcpdump
  <2>1. stage' = "giving" /\ UNCHANGED <<scene, mine, backlog>> /\ todo' = Orders(scene)
    BY <1>2 DEF StartTcpdump, boardVars
  <2> SUFFICES ASSUME befell' = {}
               PROVE  dump' = "on" /\ file'.there = "yes" /\ mine = "yes" /\ DoneBy(0)'
    BY <2>1 DEF GivingInv
  <2>2. mine = "yes" /\ dump' = "on" /\ file' = [Missing EXCEPT !.there = "yes"]
    BY <1>2 DEF StartTcpdump, Ill
  <2>3. file'.there = "yes" /\ file'.frames = {}  BY <2>2 DEF Missing
  <2>4. scene \in Scenes  BY DEF SuiteTypeOK
  <2>5. Width(scene) \in {1, 2} /\ Rounds \in Nat  BY <2>4, Numbers
  <2>6. Len(Orders(scene)) \in Nat  BY <2>4, OrdersOf
  <2>7. DoneBy(0)'
    <3>1. \A i \in 1..Len(todo') : todo'[i] = Orders(scene)[0 + i]  BY <2>1
    <3> QED  BY <2>1, <2>3, <2>5, <2>6, <3>1 DEF DoneBy
  <2> QED  BY <2>2, <2>3, <2>7
<1>3. CASE CommandDone
  <2>1. /\ stage = "giving" /\ todo # <<>> /\ UNCHANGED <<scene, dump, mine, befell>>
        /\ stage' = IF Len(todo) = 1 THEN "waiting" ELSE "giving"
        /\ todo' = Tail(todo) /\ BoardRuns(Head(todo))
    BY <1>3, SomethingToGive DEF CommandDone, Give, Well
  <2> SUFFICES ASSUME befell = {} PROVE GivingInv'
    BY <2>1 DEF GivingInv
  <2>2. /\ dump = "on" /\ file.there = "yes" /\ mine = "yes"
        /\ \E g \in Nat : DoneBy(g)
    BY <2>1 DEF GivingInv
  <2>3. PICK g \in Nat : DoneBy(g)  BY <2>2
  <2>4. DoneBy(g + 1)'  BY <1>3, <2>1, <2>2, <2>3, GivesNext
  <2>5. file'.there = "yes"  BY <2>1, <2>2, BoardFrames DEF SuiteTypeOK
  <2>6. CASE Len(todo) # 1
    <3>1. g + 1 \in Nat /\ stage' = "giving"  BY <2>1, <2>6
    <3> QED  BY <2>1, <2>2, <2>4, <2>5, <3>1 DEF GivingInv
  <2>7. CASE Len(todo) = 1
    <3> DEFINE W == Width(scene)
    <3>1. W \in {1, 2} /\ Rounds \in Nat /\ Rounds > 0
          /\ Len(Orders(scene)) = 1 + W + Rounds * W
      <4>1. scene \in Scenes  BY DEF SuiteTypeOK
      <4> QED  BY <4>1, Numbers, OrdersOf
    <3>2. Rounds * W = IF W = 1 THEN Rounds ELSE 2 * Rounds  BY <3>1
    <3>3. g + 1 = 1 + W + Rounds * W
      <4>1. Len(todo) = Len(Orders(scene)) - g  BY <2>3 DEF DoneBy
      <4>2. Len(Orders(scene)) \in Nat
        <5>1. Rounds * W \in Nat  BY <3>1, <3>2
        <5> HIDE DEF W
        <5> QED  BY <3>1, <5>1
      <4> DEFINE all == Len(Orders(scene))
      <4>4. all \in Nat /\ 1 = all - g /\ g \in Nat  BY <2>3, <2>7, <4>1, <4>2
      <4> HIDE DEF all
      <4>5. g + 1 = all  BY <4>4
      <4>3. g + 1 = Len(Orders(scene))  BY <4>5 DEF all
      <4> QED  BY <3>1, <4>3
    <3>4. /\ \A f \in file'.frames : f.bag = PaceOf(scene) /\ f.big = SizeOf(scene)
          /\ g + 1 > 1 + W => \E f \in file'.frames : f.vl = 1
          /\ W = 2 /\ g + 1 > 3 + Rounds => \E f \in file'.frames : f.vl = 2
      BY <2>1, <2>4 DEF DoneBy
    <3>5. \A n \in 1..W : \E f \in file'.frames : f.vl = n
      <4>1. \E f \in file'.frames : f.vl = 1  BY <3>1, <3>2, <3>3, <3>4
      <4>2. W = 2 => \E f \in file'.frames : f.vl = 2  BY <3>1, <3>2, <3>3, <3>4
      <4> QED  BY <3>1, <4>1, <4>2
    <3>6. stage' = "waiting"  BY <2>1, <2>7
    <3> QED  BY <2>1, <2>2, <2>5, <3>4, <3>5, <3>6 DEF GivingInv
  <2> QED  BY <2>6, <2>7
<1>4. CASE CommandLost
  <2>1. "lost" \in befell'  BY <1>4 DEF CommandLost, Ill
  <2> QED  BY <2>1 DEF GivingInv
<1>5. CASE CommandRaises  BY <1>5 DEF CommandRaises, GivingInv
<1>6. CASE LateCommand
  <2>1. "late" \in befell'  BY <1>6 DEF LateCommand
  <2> QED  BY <2>1 DEF GivingInv
<1>7. CASE DumpEnds
  <2>1. /\ UNCHANGED <<stage, scene, file, mine>>
        /\ befell' = IF stage = "giving" THEN befell \cup {"cut"} ELSE befell
    BY <1>7 DEF DumpEnds
  <2> QED  BY <2>1 DEF GivingInv
<1>8. CASE LoadFrames \/ ReuseS0
  <2>1. stage' \in {"over", "capturing"}
    BY <1>8 DEF LoadFrames, ReuseS0, Conclude
  <2> QED  BY <2>1 DEF GivingInv
<1>9. CASE LoadRaises  BY <1>9 DEF LoadRaises, GivingInv
<1>10. CASE UNCHANGED suiteVars
  <2>1. UNCHANGED <<stage, scene, todo, line, backlog, dump, file, mine, befell>>
    BY <1>10 DEF suiteVars, boardVars, pcapVars
  <2>2. \A g \in Nat : DoneBy(g)' <=> DoneBy(g)  BY <2>1 DEF DoneBy
  <2> QED  BY <2>1, <2>2 DEF GivingInv
<1> QED  BY <1>1, <1>2, <1>3, <1>4, <1>5, <1>6, <1>7, <1>8, <1>9, <1>10 DEF SuiteNext

-----------------------------------------------------------------------------
(* Verdicts.                                                               *)

\* What a scenario nothing befell and that lost no frame has.
LEMMA CleanFinds ==
  ASSUME SuiteTypeOK, FileInv, GivingInv, stage = "waiting", NEW m, NEW marks, NEW amount,
         NEW gap, NEW d, LoadsAs(m, marks, amount, gap, d), marks = {}
  PROVE  /\ amount = "many" /\ d.an /\ (d.bad <=> scene = 4)
         /\ (d.lmax <=> scene = 1) /\ (d.rate <=> scene = 2) /\ ~d.loss /\ ~d.other
<1>1. befell = {} /\ m = "fine" /\ gap = "none" /\ scene \in Scenes
      /\ file.frames \subseteq FrameOf
  BY DEF LoadsAs, SuiteTypeOK, FileOf
<1>2. /\ \A f \in file.frames : f.bag = PaceOf(scene) /\ f.big = SizeOf(scene)
      /\ \A n \in 1..Width(scene) : \E f \in file.frames : f.vl = n
      /\ \A f \in file.frames : f.vl <= Width(scene)
  BY <1>1 DEF GivingInv, FileInv, OwnFrame
<1>3. Width(scene) = IF scene = 4 THEN 2 ELSE 1  BY DEF Width
<1>4. \E f \in file.frames : f.vl = 1  BY <1>2, <1>3
<1>5. scene = 4 => \E f \in file.frames : f.vl = 2  BY <1>2, <1>3
<1>6. \A f \in file.frames : f.vl \in {1, 2}  BY <1>1, Numbers DEF FrameOf
<1>7. scene # 4 => \A f \in file.frames : f.vl = 1  BY <1>2, <1>3, <1>6
<1>8. amount = "many"  BY <1>4 DEF LoadsAs, Amounts
<1>9. d = Detected(scene, file.frames, amount, FALSE, "none")  BY <1>1 DEF LoadsAs
<1> DEFINE own == {f \in file.frames : f.vl = 1}
<1>10. /\ d.an <=> own # {} /\ amount \in {"some", "many"}
       /\ d.bad <=> \E f \in file.frames : f.vl # 1
       /\ d.lmax <=> scene = 1 /\ \E f \in own : f.big = "yes"
       /\ d.rate <=> \E f \in own : f.bag = Fast
       /\ ~d.loss /\ ~d.other
  BY <1>9 DEF Detected
<1>11. own # {}  BY <1>4
<1>12. d.an  BY <1>8, <1>10, <1>11
<1>13. d.bad <=> scene = 4  BY <1>5, <1>7, <1>10
<1>14. d.lmax <=> scene = 1
  <2>1. \A f \in own : f.big = SizeOf(scene)  BY <1>2
  <2> QED  BY <2>1, <1>10, <1>11 DEF SizeOf
<1>15. d.rate <=> scene = 2
  <2>1. \A f \in own : f.bag = PaceOf(scene)  BY <1>2
  <2> QED  BY <2>1, <1>10, <1>11, Numbers DEF PaceOf
<1> QED  BY <1>8, <1>10, <1>12, <1>13, <1>14, <1>15

\* A scenario nothing befell passes.
LEMMA CleanPasses ==
  ASSUME SuiteTypeOK, FileInv, GivingInv, stage = "waiting", NEW m, NEW marks, NEW amount,
         NEW gap, NEW d, LoadsAs(m, marks, amount, gap, d), marks = {}
  PROVE  Passes(scene, d)
<1>1. /\ d.an /\ (d.bad <=> scene = 4)
      /\ (d.lmax <=> scene = 1) /\ (d.rate <=> scene = 2) /\ ~d.loss /\ ~d.other
  BY CleanFinds
<1>2. scene \in {0, 1, 2, 4, 5}  BY DEF SuiteTypeOK, FileInv, Scenes
<1>3. Judge(d) = "NORMAL" <=> scene \in {0, 5}
  BY <1>1, <1>2 DEF Judge
<1> QED  BY <1>1, <1>2, <1>3 DEF Passes, CauseOk

\* A scenario that no late command came into and that passes, passes for its
\* fault, or for frames of its own, unless the file is another user's.
LEMMA PassIsEarned ==
  ASSUME SuiteTypeOK, FileInv, stage = "waiting", mine = "yes", NEW m, NEW marks, NEW amount,
         NEW gap, NEW d, LoadsAs(m, marks, amount, gap, d), marks \cap {"late", "split"} = {},
         Passes(scene, d)
  PROVE  Earned(scene, file.frames)
<1>1. "late" \notin befell /\ m # "split" /\ scene \in {0, 1, 2, 4, 5}
      /\ file.frames \subseteq FrameOf
  <2>1. m # "split" /\ "late" \notin befell
    <3>1. marks = befell \cup ({m} \ {"fine"})  BY DEF LoadsAs
    <3>2. "late" \notin marks /\ "split" \notin marks  OBVIOUS
    <3> QED  BY <3>1, <3>2
  <2>2. scene \in 0..5 /\ scene # 3  BY DEF SuiteTypeOK, FileInv, Scenes
  <2>3. file.frames \subseteq FrameOf  BY DEF SuiteTypeOK, FileOf
  <2> QED  BY <2>1, <2>2, <2>3
<1>2. \A f \in file.frames : f.scene = scene /\ f.vl <= Width(scene) /\ f.vl \in {1, 2}
  <2>1. \A f \in file.frames : f.vl \in {1, 2}  BY <1>1, Numbers DEF FrameOf
  <2> QED  BY <1>1, <2>1 DEF FileInv, OwnFrame
<1>3. d = Detected(scene, file.frames, amount, FALSE, gap)  BY <1>1 DEF LoadsAs
<1> DEFINE own == {f \in file.frames : f.vl = 1}
<1>4. /\ d.an <=> own # {} /\ amount \in {"some", "many"}
      /\ d.bad <=> \E f \in file.frames : f.vl # 1
      /\ d.lmax <=> scene = 1 /\ \E f \in own : f.big = "yes"
      /\ d.rate <=> \E f \in own : f.bag = Fast
  BY <1>3 DEF Detected
<1>5. d.an \/ d.bad  BY DEF Passes
<1>6. scene # 4 => ~d.bad  BY <1>2, <1>4 DEF Width
<1>7. CASE scene \in {0, 5}
  <2>1. \E f \in file.frames : f.scene = scene  BY <1>2, <1>4, <1>5
  <2> QED  BY <1>7, <2>1 DEF Earned
<1>8. CASE scene = 1
  <2>1. d.lmax  BY <1>5, <1>6, <1>8 DEF Passes, CauseOk
  <2> QED  BY <1>4, <1>8, <2>1 DEF Earned
<1>9. CASE scene = 2
  <2>1. d.rate  BY <1>5, <1>6, <1>9 DEF Passes, CauseOk
  <2> QED  BY <1>4, <1>9, <2>1 DEF Earned
<1>10. CASE scene = 4
  <2>1. d.bad  BY <1>10 DEF Passes, CauseOk
  <2>2. \E f \in file.frames : f.vl = 2  BY <1>2, <1>4, <2>1
  <2> QED  BY <1>10, <2>2 DEF Earned
<1> QED  BY <1>1, <1>7, <1>8, <1>9, <1>10

\* In a file of another user nothing is too big.
LEMMA OldFramePassesNotS1 ==
  ASSUME FileInv, mine = "no", scene = 1, NEW m, NEW marks, NEW amount,
         NEW gap, NEW d, LoadsAs(m, marks, amount, gap, d)
  PROVE  ~Passes(scene, d)
<1>1. file.frames = {OldFrame} /\ OldFrame.vl = 1 /\ OldFrame.big = "no"
  BY DEF FileInv, OldFrame
<1>2. d = Detected(scene, file.frames, amount, m = "split", gap)  BY DEF LoadsAs
<1>3. ~d.bad /\ ~d.lmax  BY <1>1, <1>2 DEF Detected
<1> QED  BY <1>3 DEF Passes, CauseOk

\* The verdict on a scenario's frames.
LEMMA LoadVerdicts ==
  ASSUME SuiteTypeOK, FileInv, GivingInv, VerdictInv, LoadFrames
  PROVE  VerdictInv'
<1>1. PICK m, marks, amount, gap, d : LoadsAs(m, marks, amount, gap, d)  BY Loaded
<1> DEFINE k == Len(verdicts)
           e == Earned(scene, file.frames)
           v == [scene |-> scene, pass |-> Passes(scene, d), earned |-> e, marks |-> marks]
<1>2. /\ d \in Found /\ e \in BOOLEAN /\ marks \in SUBSET Misfortune
      /\ Conclude(d, e, marks) /\ stage = "waiting"
      /\ kept' = IF scene = 0 /\ (d.an \/ d.bad)
                 THEN [amount |-> amount, found |-> d, marks |-> marks]
                 ELSE kept
  BY <1>1 DEF LoadsAs, LoadFrames
<1>3. /\ verdicts' \in Seq(Verdict) /\ Len(verdicts') = k + 1 /\ verdicts'[k + 1] = v
      /\ \A i \in 1..k : verdicts'[i] = verdicts[i]
      /\ UNCHANGED mine
  BY <1>2, ConcludeType
<1>4. v.marks = marks /\ (v.pass <=> Passes(scene, d)) /\ (v.earned <=> e)
  BY <1>2, PassesType DEF SuiteTypeOK
<1>5. /\ scene \in {0, 1, 2, 4, 5} /\ verdicts \in Seq(Verdict) /\ k \in Nat /\ k = Done(scene)
      /\ kept \in Capture
  BY <1>2 DEF SuiteTypeOK, FileInv, Scenes, VerdictInv, CountInv
<1>6. /\ scene = 5 => stage' = "over"
      /\ scene # 5 => stage' = "capturing" /\ scene' = scene + 1
  BY <1>2 DEF Conclude
<1>7. DOMAIN verdicts' = 1..(k + 1) /\ DOMAIN verdicts = 1..k  BY <1>3, <1>5
<1> HIDE DEF v, e, k
<1>8. /\ scene = 0 => k = 0
      /\ scene # 0 => k >= 1 /\ kept' = kept
      /\ k = 1 => scene = 1
  BY <1>2, <1>5 DEF Done
<1>9. CountInv'
  <2>1. CASE scene = 5
    <3>1. k + 1 = Done(6)'  BY <1>5, <1>8, <2>1 DEF Done
    <3> QED  BY <1>3, <1>6, <2>1, <3>1 DEF CountInv
  <2>2. CASE scene # 5
    <3>1. k + 1 = Done(scene)'  BY <1>5, <1>6, <1>8, <2>2 DEF Done
    <3> QED  BY <1>3, <1>6, <2>2, <3>1 DEF CountInv
  <2> QED  BY <2>1, <2>2
<1>10. KeptInv'
  <2>1. verdicts' # <<>>  BY <1>3, <1>5
  <2>2. CASE scene = 0
    <3>1. verdicts'[1] = v /\ kept = NoCapture
      <4>1. verdicts = <<>>  BY <1>5, <1>8, <2>2 DEF k
      <4> QED  BY <1>3, <1>8, <2>2, <4>1 DEF VerdictInv, KeptInv
    <3>2. CASE d.an \/ d.bad
      <4>1. kept' = [amount |-> amount, found |-> d, marks |-> marks]  BY <1>2, <2>2, <3>2
      <4>2. kept'.amount = amount /\ kept'.found = d /\ kept'.marks = marks  BY <4>1
      <4>3. kept' # NoCapture  BY <3>2, <4>2 DEF NoCapture, Nothing
      <4>4. v.pass => d.an /\ ~d.bad /\ ~d.loss
        BY <1>4, <2>2 DEF Passes, Judge
      <4>5. marks = {} => d.an /\ ~d.bad /\ amount = "many"
        BY <1>1, <1>2, <2>2, CleanFinds
      <4> QED  BY <2>1, <3>1, <3>2, <4>2, <4>3, <4>4, <4>5 DEF KeptInv
    <3>3. CASE ~(d.an \/ d.bad)
      <4>1. ~v.pass /\ kept' = NoCapture  BY <1>2, <1>4, <3>1, <3>3 DEF Passes
      <4> QED  BY <2>1, <3>1, <4>1 DEF KeptInv
    <3> QED  BY <3>2, <3>3
  <2>3. CASE scene # 0
    <3>1. verdicts'[1] = verdicts[1] /\ kept' = kept /\ verdicts # <<>>
      BY <1>3, <1>5, <1>8, <2>3 DEF k
    <3> QED  BY <2>1, <3>1 DEF KeptInv, VerdictInv
  <2> QED  BY <2>2, <2>3
<1>11. EarnedInv'
  <2>1. ASSUME mine = "no", k + 1 >= 2 PROVE ~verdicts'[2].pass
    <3>1. CASE k >= 2
      <4>1. verdicts'[2] = verdicts[2]  BY <1>3, <1>5, <3>1
      <4> QED  BY <2>1, <3>1, <4>1 DEF VerdictInv, EarnedInv, k
    <3>2. CASE k = 1
      <4>1. verdicts'[2] = v /\ scene = 1  BY <1>3, <1>8, <3>2
      <4> QED  BY <1>1, <1>4, <2>1, <4>1, OldFramePassesNotS1
    <3> QED  BY <1>5, <2>1, <3>1, <3>2
  <2>2. ASSUME mine = "yes", verdicts'[1].pass, NEW i \in 1..(k + 1), verdicts'[i].pass
        PROVE  verdicts'[i].earned \/ verdicts'[i].marks \cap {"late", "split"} # {}
    <3>1. CASE i = k + 1
      <4>1. verdicts'[i] = v  BY <1>3, <3>1
      <4>2. SUFFICES ASSUME marks \cap {"late", "split"} = {} PROVE e
        BY <1>4, <4>1
      <4> QED  BY <1>1, <1>2, <1>4, <2>2, <4>1, <4>2, PassIsEarned DEF e
    <3>2. CASE i # k + 1
      <4>1. i \in 1..k /\ 1 \in 1..k  BY <1>5, <3>2
      <4>2. verdicts'[i] = verdicts[i] /\ verdicts'[1] = verdicts[1] /\ verdicts # <<>>
        BY <1>3, <1>5, <4>1 DEF k
      <4> QED  BY <1>7, <2>2, <4>1, <4>2 DEF VerdictInv, EarnedInv, k
    <3> QED  BY <3>1, <3>2
  <2> QED  BY <1>3, <2>1, <2>2 DEF EarnedInv
<1>12. CleanScenePasses'
  <2>1. ASSUME NEW i \in 1..(k + 1), verdicts'[i].marks = {} PROVE verdicts'[i].pass
    <3>1. CASE i = k + 1
      <4>1. verdicts'[i] = v  BY <1>3, <3>1
      <4>2. Passes(scene, d)  BY <1>1, <1>2, <1>4, <2>1, <4>1, CleanPasses
      <4> QED  BY <1>4, <4>1, <4>2
    <3>2. CASE i # k + 1
      <4>1. i \in 1..k  BY <1>5, <3>2
      <4> QED  BY <1>3, <1>7, <2>1, <4>1 DEF VerdictInv, CleanScenePasses
    <3> QED  BY <3>1, <3>2
  <2> QED  BY <1>7, <2>1 DEF CleanScenePasses
<1> QED  BY <1>9, <1>10, <1>11, <1>12 DEF VerdictInv

\* The verdict on S3's frames, which are S0's.
LEMMA ReuseVerdicts ==
  ASSUME SuiteTypeOK, VerdictInv, ReuseS0
  PROVE  VerdictInv'
<1> DEFINE k == Len(verdicts)
<1>1. /\ verdicts \in Seq(Verdict) /\ k \in Nat /\ k = 3 /\ scene = 3 /\ kept' = kept
      /\ kept \in Capture
  BY DEF SuiteTypeOK, VerdictInv, CountInv, ReuseS0, Done
<1>2. CASE kept = NoCapture
  <2>1. UNCHANGED <<verdicts, kept, mine>> /\ scene' = 4 /\ stage' = "capturing"
    BY <1>2 DEF ReuseS0, pcapVars
  <2>2. CountInv'  BY <1>1, <1>2, <2>1 DEF CountInv, Done
  <2> QED  BY <2>1, <2>2 DEF VerdictInv, KeptInv, EarnedInv, CleanScenePasses
<1>3. CASE kept # NoCapture
  <2>1. PICK found \in BOOLEAN :
          /\ kept.marks = {} /\ Cuts(kept.amount) => found
          /\ found => Cuts(kept.amount)
          /\ Conclude([kept.found EXCEPT !.loss = @ \/ found], Cuts(kept.amount), kept.marks)
    BY <1>3 DEF ReuseS0
  <2> DEFINE d == [kept.found EXCEPT !.loss = @ \/ found]
             cuts == Cuts(kept.amount)
             v == [scene |-> scene, pass |-> Passes(scene, d), earned |-> cuts,
                   marks |-> kept.marks]
  <2>2. d \in Found /\ cuts \in BOOLEAN /\ kept.marks \in SUBSET Misfortune
    BY <1>1 DEF Capture, Found, Cuts
  <2>3. d.an = kept.found.an /\ d.bad = kept.found.bad /\ (d.loss <=> kept.found.loss \/ found)
    BY <1>1 DEF Capture, Found
  <2> HIDE DEF d, cuts
  <2>4. Conclude(d, cuts, kept.marks)  BY <2>1 DEF d, cuts
  <2>5. /\ verdicts' \in Seq(Verdict) /\ Len(verdicts') = k + 1 /\ verdicts'[k + 1] = v
        /\ \A i \in 1..k : verdicts'[i] = verdicts[i]
        /\ UNCHANGED mine
    BY <2>2, <2>4, ConcludeType
  <2>6. v.marks = kept.marks /\ (v.pass <=> Passes(3, d)) /\ (v.earned <=> cuts)
    BY <1>1, <2>2, PassesType DEF Scenes
  <2>7. DOMAIN verdicts' = 1..4 /\ DOMAIN verdicts = 1..3  BY <1>1, <2>5
  <2> HIDE DEF v
  <2>8. verdicts'[4] = v /\ (\A i \in 1..3 : verdicts'[i] = verdicts[i]) /\ Len(verdicts') = 4
    BY <1>1, <2>5
  <2>9. CountInv'
    <3>1. scene' = 4 /\ stage' = "capturing"  BY <1>1, <2>4 DEF Conclude
    <3> QED  BY <1>1, <1>3, <2>8, <3>1 DEF CountInv, Done
  <2>10. KeptInv'
    <3>1. verdicts'[1] = verdicts[1] /\ verdicts # <<>> /\ verdicts' # <<>>
      BY <1>1, <2>8
    <3> QED  BY <1>1, <3>1 DEF KeptInv, VerdictInv
  <2>11. EarnedInv'
    <3>1. mine = "no" => ~verdicts'[2].pass
      BY <1>1, <2>8 DEF VerdictInv, EarnedInv
    <3>2. ASSUME mine = "yes", verdicts'[1].pass, NEW i \in 1..4, verdicts'[i].pass
          PROVE  verdicts'[i].earned \/ verdicts'[i].marks \cap {"late", "split"} # {}
      <4>1. verdicts[1].pass /\ verdicts # <<>>  BY <1>1, <2>8, <3>2
      <4>2. CASE i = 4
        <5>1. kept.found.an /\ ~kept.found.loss
          BY <1>3, <4>1 DEF VerdictInv, KeptInv
        <5>2. d.loss  BY <2>3, <2>6, <2>8, <3>2, <4>2, <5>1 DEF Passes, CauseOk
        <5> QED  BY <2>1, <2>3, <2>6, <2>8, <4>2, <5>1, <5>2 DEF cuts
      <4>3. CASE i # 4
        <5>1. i \in 1..3  BY <4>3
        <5> QED  BY <2>7, <2>8, <3>2, <4>1, <5>1 DEF VerdictInv, EarnedInv
      <4> QED  BY <4>2, <4>3
    <3>3. mine' = mine  BY <2>5
    <3>4. mine = "yes" /\ verdicts'[1].pass => \A i \in DOMAIN verdicts' : verdicts'[i].pass =>
            verdicts'[i].earned \/ verdicts'[i].marks \cap {"late", "split"} # {}
      BY <2>7, <3>2, Zenon
    <3> QED  BY <3>1, <3>3, <3>4 DEF EarnedInv
  <2>12. CleanScenePasses'
    <3>1. ASSUME NEW i \in 1..4, verdicts'[i].marks = {} PROVE verdicts'[i].pass
      <4>1. CASE i = 4
        <5>1. kept.marks = {}  BY <2>6, <2>8, <3>1, <4>1
        <5>2. kept.found.an /\ ~kept.found.bad /\ kept.amount = "many"
          BY <1>3, <5>1 DEF VerdictInv, KeptInv
        <5>3. d.an /\ ~d.bad /\ d.loss  BY <2>1, <2>3, <5>1, <5>2 DEF Cuts
        <5>4. Passes(3, d)  BY <5>3 DEF Passes, Judge, CauseOk
        <5> QED  BY <2>6, <2>8, <4>1, <5>4
      <4>2. CASE i # 4
        <5>1. i \in 1..3  BY <4>2
        <5> QED  BY <2>7, <2>8, <3>1, <5>1 DEF VerdictInv, CleanScenePasses
      <4> QED  BY <4>1, <4>2
    <3> QED  BY <2>7, <3>1 DEF CleanScenePasses
  <2> QED  BY <2>9, <2>10, <2>11, <2>12 DEF VerdictInv
<1> QED  BY <1>2, <1>3

\* The verdicts change only when one is given and when a suite starts.
LEMMA VerdictStay ==
  SuiteTypeOK /\ FileInv /\ GivingInv /\ VerdictInv /\ [SuiteNext]_suiteVars => VerdictInv'
<1> SUFFICES ASSUME SuiteTypeOK, FileInv, GivingInv, VerdictInv, [SuiteNext]_suiteVars
             PROVE  VerdictInv'
  OBVIOUS
<1>1. CASE StartSuite
  <2>1. stage' = "capturing" /\ scene' = 0 /\ verdicts' = <<>> /\ kept' = NoCapture
    BY <1>1 DEF StartSuite
  <2>2. CountInv'  BY <2>1 DEF CountInv, Done
  <2>3. KeptInv' /\ EarnedInv' /\ CleanScenePasses'
    BY <2>1 DEF KeptInv, EarnedInv, CleanScenePasses
  <2> QED  BY <2>2, <2>3 DEF VerdictInv
<1>2. ASSUME UNCHANGED <<scene, mine, kept, verdicts>>,
             stage' \in {"capturing", "giving", "waiting"} =>
               stage \in {"capturing", "giving", "waiting"},
             stage' = "over" => stage = "over"
      PROVE  VerdictInv'
  BY <1>2 DEF VerdictInv, CountInv, Done, KeptInv, EarnedInv, CleanScenePasses
<1>3. CASE StartTcpdump \/ CommandDone \/ CommandLost \/ CommandRaises \/ LateCommand
           \/ DumpEnds \/ LoadRaises
  <2>1. UNCHANGED <<scene, mine, kept, verdicts>>
    BY <1>3 DEF StartTcpdump, CommandDone, CommandLost, CommandRaises, LateCommand, DumpEnds,
                LoadRaises, Give, pcapVars
  <2>2. \/ stage' = stage
        \/ stage' \in {"giving", "waiting"} /\ stage \in {"capturing", "giving"}
        \/ stage' = "broken"
    BY <1>3 DEF StartTcpdump, CommandDone, CommandLost, CommandRaises, LateCommand, DumpEnds,
                LoadRaises, Give
  <2> QED  BY <1>2, <2>1, <2>2
<1>4. CASE LoadFrames  BY <1>4, LoadVerdicts
<1>5. CASE ReuseS0  BY <1>5, ReuseVerdicts
<1>6. CASE UNCHANGED suiteVars
  BY <1>2, <1>6 DEF suiteVars, pcapVars
<1> QED  BY <1>1, <1>3, <1>4, <1>5, <1>6 DEF SuiteNext

-----------------------------------------------------------------------------
(* The theorems.                                                           *)

LEMMA InitInv == SuiteInit => IInv
<1> SUFFICES ASSUME SuiteInit PROVE IInv  OBVIOUS
<1>1. file \in FileOf /\ (mine = "no" => file.frames = {OldFrame})
  <2>1. OldFrame \in FrameOf  BY Numbers DEF OldFrame, FrameOf
  <2>2. file = IF mine = "yes" THEN Missing ELSE [there |-> "yes", frames |-> {OldFrame}]
    BY DEF SuiteInit
  <2> QED  BY <2>1, <2>2 DEF Missing, FileOf
<1>2. SuiteTypeOK
  BY <1>1, NoVerdictYet DEF SuiteInit, SuiteTypeOK, Stages, Scenes
<1>3. FileInv  BY <1>1 DEF SuiteInit, FileInv
<1>4. GivingInv  BY DEF SuiteInit, GivingInv
<1>5. VerdictInv
  BY DEF SuiteInit, VerdictInv, CountInv, KeptInv, EarnedInv, CleanScenePasses
<1> QED  BY <1>2, <1>3, <1>4, <1>5 DEF IInv

\* When every result is a pass, S0's was: S3 was not left out, and the file is
\* none of another user's, so that each was earned.
LEMMA AllPass == IInv => AllPassIsEarned
<1> SUFFICES ASSUME IInv, stage = "over", verdicts # <<>>,
                    \A i \in DOMAIN verdicts : verdicts[i].pass
             PROVE  /\ Len(verdicts) = 6
                    /\ \A i \in DOMAIN verdicts :
                         verdicts[i].earned \/ verdicts[i].marks \cap {"late", "split"} # {}
  BY DEF AllPassIsEarned
<1>1. verdicts \in Seq(Verdict) /\ mine \in {"yes", "no"}  BY DEF IInv, SuiteTypeOK
<1>2. DOMAIN verdicts = 1..Len(verdicts) /\ Len(verdicts) \in Nat /\ Len(verdicts) > 0
  BY <1>1
<1>3. verdicts[1].pass  BY <1>2
<1>4. kept # NoCapture  BY <1>3 DEF IInv, VerdictInv, KeptInv
<1>5. Len(verdicts) = 6  BY <1>4 DEF IInv, VerdictInv, CountInv, Done
<1>6. mine = "yes"
  <2>1. verdicts[2].pass /\ Len(verdicts) >= 2  BY <1>2, <1>5
  <2> QED  BY <1>1, <2>1 DEF IInv, VerdictInv, EarnedInv
<1> QED  BY <1>3, <1>5, <1>6 DEF IInv, VerdictInv, EarnedInv

LEMMA Inductive == SuiteSpec => []IInv
<1>1. IInv /\ [SuiteNext]_suiteVars => IInv'
  BY Types, FileStay, GivingStay, VerdictStay DEF IInv
<1> QED  BY <1>1, InitInv, PTL DEF SuiteSpec

\* The types of fault_injection_test.py's suite, its board and its capture file
\* hold in every suite, whatever went wrong in it and before it.
THEOREM SuiteTypes == SuiteSpec => []SuiteTypeOK
<1>1. IInv => SuiteTypeOK  BY DEF IInv
<1> QED  BY <1>1, Inductive, PTL

\* However earlier scenarios and suites ended and whatever links they left, a
\* scenario of fault_injection_test.py that nothing befell passes, for any
\* number of --sends.
THEOREM CleanScenesPass == SuiteSpec => []CleanScenePasses
<1>1. IInv => CleanScenePasses  BY DEF IInv, VerdictInv
<1> QED  BY <1>1, Inductive, PTL

\* When all results are passes there are six, and each was judged by the fault
\* that it is about, unless a late command came in or stamps came late.
THEOREM AllPassesAreEarned == SuiteSpec => []AllPassIsEarned
BY AllPass, Inductive, PTL
=============================================================================
