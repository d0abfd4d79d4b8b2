---------------------------- MODULE FaultInjection ----------------------------
(***************************************************************************)
(* fault_injection_test.py: six scenarios on one board, each of which sets *)
(* its links, captures what it lets the board send, and compares what the  *)
(* detector finds with what it is to find; S3 takes frames out of the      *)
(* capture of S0 instead.                                                  *)
(*                                                                         *)
(* tcpdump, the board and its shell are external; the shell is reached by  *)
(* RPCs whose "ok" nobody looks at.  What the detector makes of frames is  *)
(* AnomalyDetector's subject: here they differ by link, pace and size.     *)
(***************************************************************************)
EXTENDS Naturals, Sequences

CONSTANTS Rounds,   \* --send commands of a link in a scenario
          MaxIlls   \* bound: commands, captures and frames that go wrong

ASSUME SuiteAssumption == Rounds \in Nat \ {0} /\ MaxIlls \in Nat

VARIABLES
  stage,    \* where the suite is
  scene,    \* the scenario it is at
  todo,     \* commands the scenario has yet to give
  line,     \* line[n]: the BAG of virtual link n on the board, 0 when not set
  backlog,  \* commands the board will run late, in their order
  dump,     \* is tcpdump "on" or "off"?
  file,     \* /tmp/afdx_fi.pcap, when tcpdump has ended
  mine,     \* "no" when that file is another user's, who keeps it
  kept,     \* normal_cap
  verdicts, \* results, with history
  befell,   \* history: what befell the scenario
  ills      \* counter for the bound

boardVars == <<line, backlog>>
pcapVars == <<dump, file, mine>>
suiteVars == <<stage, scene, todo, boardVars, pcapVars, kept, verdicts, befell, ills>>

Scenes == 0..5
Earlier == 6     \* a scenario of an earlier suite
Slow == 200
Fast == 50      \* a quarter of the interval the detector is told
Lines == 1..2

\* A command of a scenario.
Order(s, op, n) ==
  [op |-> op, vl |-> n, bag |-> IF s = 2 THEN Fast ELSE Slow,
   big |-> IF s = 1 THEN "yes" ELSE "no", scene |-> s]

\* Mutant: a scenario takes the links as the one before left them.
NoSet(s) == <<>>
\* SET, one line, deletes both links.
Set(s) == <<Order(s, "clear", 1)>>

Orders(s) ==
  LET links == IF s = 4 THEN <<1, 2>> ELSE <<1>>
  IN Set(s) \o [i \in 1..Len(links) |-> Order(s, "add", links[i])]
       \o [i \in 1..(Rounds * Len(links)) |->
             Order(s, "send", links[((i - 1) \div Rounds) + 1])]

Missing == [there |-> "no", frames |-> {}]
OldFrame == [scene |-> Earlier, vl |-> 1, bag |-> Slow, big |-> "no"]
Nothing == [an |-> FALSE, bad |-> FALSE, lmax |-> FALSE, rate |-> FALSE,
            loss |-> FALSE, other |-> FALSE]
NoCapture == [amount |-> "none", found |-> Nothing, marks |-> {}]

SuiteInit ==
  /\ stage = "over" /\ scene = 0 /\ todo = <<>>
  /\ line \in [Lines -> {0, Fast, Slow}] /\ backlog = <<>>
  /\ dump = "off" /\ mine \in {"yes", "no"}
  /\ file = IF mine = "yes" THEN Missing ELSE [there |-> "yes", frames |-> {OldFrame}]
  /\ kept = NoCapture /\ verdicts = <<>> /\ befell = {} /\ ills = 0

Ill(m) == ills < MaxIlls /\ ills' = ills + 1 /\ befell' = befell \cup {m}
Well == UNCHANGED <<befell, ills>>

\* The suite is started by hand, on a board as an earlier one left it.
StartSuite ==
  /\ stage \in {"over", "broken"}
  /\ stage' = "capturing" /\ scene' = 0 /\ todo' = <<>>
  /\ backlog' = [i \in DOMAIN backlog |-> [backlog[i] EXCEPT !.scene = Earlier]]
  /\ dump' = "off" /\ file' = IF mine = "yes" THEN Missing ELSE file
  /\ kept' = NoCapture /\ verdicts' = <<>> /\ befell' = {}
  /\ UNCHANGED <<line, mine, ills>>

-----------------------------------------------------------------------------
(* run_scenario up to the frames.                                          *)

\* capture: the file before is removed, if it can be, and tcpdump started,
\* which may not run: nothing notices until the file is read.
StartTcpdump ==
  /\ stage = "capturing" /\ scene # 3
  /\ stage' = "giving" /\ todo' = Orders(scene)
  /\ \/ /\ mine = "yes" /\ dump' = "on" /\ file' = [Missing EXCEPT !.there = "yes"]
        /\ Well
     \/ mine = "yes" /\ Ill("nodump") /\ file' = Missing /\ UNCHANGED dump
     \/ mine = "no" /\ befell' = {"stale"} /\ UNCHANGED <<dump, file, ills>>
  /\ UNCHANGED <<scene, boardVars, mine, kept, verdicts>>

\* What the board does; a link that is there an --add keeps or re-paces.
BoardRuns(c) ==
  /\ line' \in CASE c.op = "clear" -> {[n \in Lines |-> 0]}
                 [] c.op = "add" /\ line[c.vl] # 0 -> {line, [line EXCEPT ![c.vl] = c.bag]}
                 [] c.op = "add" /\ line[c.vl] = 0 -> {[line EXCEPT ![c.vl] = c.bag]}
                 [] OTHER -> {line}
  /\ file' = IF c.op = "send" /\ line[c.vl] # 0 /\ dump = "on"
             THEN [file EXCEPT !.frames = @ \cup {[scene |-> c.scene, vl |-> c.vl,
                                                  bag |-> line[c.vl], big |-> c.big]}]
             ELSE file

\* The next command is given; after the last, tcpdump is waited for.
Give ==
  /\ stage = "giving" /\ todo' = Tail(todo)
  /\ stage' = IF Len(todo) = 1 THEN "waiting" ELSE "giving"
  /\ UNCHANGED <<scene, dump, mine, kept, verdicts>>

CommandDone ==
  /\ Give /\ backlog = <<>> /\ BoardRuns(Head(todo)) /\ Well /\ UNCHANGED backlog

\* rpc returns the output of a command that ran into its limit like any other;
\* the board may run it later.
CommandLost ==
  /\ Give /\ Ill("lost")
  /\ backlog' \in {backlog, Append(backlog, Head(todo))}
  /\ UNCHANGED <<line, file>>

\* No answer, or the bridge hangs up: the exception leaves main.
CommandRaises ==
  /\ stage = "giving" /\ Ill("raised")
  /\ stage' = "broken"
  /\ backlog' \in {backlog, Append(backlog, Head(todo))}
  /\ UNCHANGED <<scene, todo, line, pcapVars, kept, verdicts>>

LateCommand ==
  /\ backlog # <<>> /\ backlog' = Tail(backlog)
  /\ BoardRuns(Head(backlog)) /\ befell' = befell \cup {"late"}
  /\ UNCHANGED <<stage, scene, todo, dump, mine, kept, verdicts, ills>>

\* "timeout 12" ends tcpdump, however far the commands are.
DumpEnds ==
  /\ dump = "on" /\ dump' = "off"
  /\ befell' = IF stage = "giving" THEN befell \cup {"cut"} ELSE befell
  /\ UNCHANGED <<stage, scene, todo, boardVars, file, mine, kept, verdicts, ills>>

-----------------------------------------------------------------------------
(* run_scenario's verdict.                                                 *)

\* How many frames there are: "few" are less than 8, "many" more than 28.
Amounts(frames, marks) ==
  IF frames = {} THEN {"none"}
  ELSE IF marks = {} THEN {"many"} ELSE {"few", "some", "many"}

\* What the detector finds among a scenario's frames of link 1, when there are
\* enough of them (an), and whether there are others (bad).  A late command
\* may set a link again, whose sequence numbers then start again.
Detected(s, frames, amount, split, gap) ==
  LET own == {f \in frames : f.vl = 1}
  IN [an |-> own # {} /\ amount \in {"some", "many"},
      bad |-> \E f \in frames : f.vl # 1,
      lmax |-> s = 1 /\ \E f \in own : f.big = "yes",
      rate |-> split \/ \E f \in own : f.bag = Fast,
      loss |-> gap = "loss", other |-> gap = "other"]

Judge(d) ==
  IF d.bad \/ (d.an /\ (d.loss \/ d.other \/ d.lmax)) THEN "FAULT"
  ELSE IF d.an /\ d.rate THEN "WARNING" ELSE "NORMAL"

\* Mutant: any fault will do.
AnyCause(s, d) == s = 4 => d.bad
CauseOk(s, d) ==
  /\ d.an => /\ s = 1 => d.lmax
             /\ s = 2 => d.rate
             /\ s = 3 => d.loss
  /\ s = 4 => d.bad

Passes(s, d) ==
  /\ d.an \/ d.bad
  /\ s \in {0, 5} <=> Judge(d) = "NORMAL"
  /\ CauseOk(s, d)

\* A scenario's result, and the next scenario.
Conclude(d, earned, marks) ==
  /\ verdicts' = Append(verdicts, [scene |-> scene, pass |-> Passes(scene, d),
                                   earned |-> earned, marks |-> marks])
  /\ IF scene = 5 THEN stage' = "over" /\ UNCHANGED scene
     ELSE stage' = "capturing" /\ scene' = scene + 1
  /\ todo' = <<>> /\ UNCHANGED <<boardVars, pcapVars>>

\* The fault of a scenario was there; without one, the frames were its own.
Earned(s, frames) ==
  CASE s \in {0, 5} -> \E f \in frames : f.scene = s
    [] s = 1 -> \E f \in frames : f.vl = 1 /\ f.big = "yes"
    [] s = 2 -> \E f \in frames : f.vl = 1 /\ f.bag = Fast
    [] OTHER -> \E f \in frames : f.vl = 2

\* tcpdump has been waited for and the file is read.  The link may have lost
\* frames, or late stamps be taken for a fast sender.
LoadFrames ==
  /\ stage = "waiting" /\ dump = "off" /\ file.there = "yes"
  /\ \E m \in {"fine", "split", "dropped"} :
       LET marks == befell \cup ({m} \ {"fine"})
           gaps == IF marks \cap {"dropped", "late"} = {} THEN {"none"}
                   ELSE {"none", "loss", "other"}
       IN /\ m # "fine" => ills < MaxIlls
          /\ ills' = IF m = "fine" THEN ills ELSE ills + 1
          /\ \E amount \in Amounts(file.frames, marks), gap \in gaps :
               LET d == Detected(scene, file.frames, amount, m = "split", gap)
               IN /\ Conclude(d, Earned(scene, file.frames), marks)
                  /\ kept' = IF scene = 0 /\ (d.an \/ d.bad)
                             THEN [amount |-> amount, found |-> d, marks |-> marks]
                             ELSE kept
  /\ befell' = {}

\* rdpcap raises.
LoadRaises ==
  /\ stage = "waiting" /\ dump = "off" /\ file.there = "no"
  /\ stage' = "broken"
  /\ UNCHANGED <<scene, todo, boardVars, pcapVars, kept, verdicts, befell, ills>>

\* 8 frames are taken out of more than 28 (fewer stay as they are).
Cuts(amount) == amount = "many"

\* S3 has the frames of S0; a gap may fall into a pause that is too long for
\* the detector, when a command of S0 took its time.
ReuseS0 ==
  /\ stage = "capturing" /\ scene = 3
  /\ IF kept = NoCapture
     THEN /\ stage' = "capturing" /\ scene' = 4
          /\ UNCHANGED <<todo, verdicts, boardVars, pcapVars>>
     ELSE \E found \in IF ~Cuts(kept.amount) THEN {FALSE}
                       ELSE IF kept.marks = {} THEN {TRUE} ELSE BOOLEAN :
            Conclude([kept.found EXCEPT !.loss = @ \/ found], Cuts(kept.amount), kept.marks)
  /\ befell' = {} /\ UNCHANGED <<kept, ills>>

SuiteNext ==
  \/ StartSuite \/ StartTcpdump
  \/ CommandDone \/ CommandLost \/ CommandRaises \/ LateCommand \/ DumpEnds
  \/ LoadFrames \/ LoadRaises \/ ReuseS0

SuiteSpec == SuiteInit /\ [][SuiteNext]_suiteVars

-----------------------------------------------------------------------------
\* However earlier scenarios and suites ended and whatever links they left, a
\* scenario that nothing befell passes (S3 if nothing befell S0).
CleanScenePasses ==
  \A i \in DOMAIN verdicts : verdicts[i].marks = {} => verdicts[i].pass

\* When all results are passes, no scenario was left out, and each was judged
\* by the fault that it is about, S0 and S5 by frames of their own; unless a
\* late command came in, or late stamps were taken for S2's fast sender.
AllPassIsEarned ==
  stage = "over" /\ verdicts # <<>> /\ (\A i \in DOMAIN verdicts : verdicts[i].pass) =>
    /\ Len(verdicts) = 6
    /\ \A i \in DOMAIN verdicts :
         verdicts[i].earned \/ verdicts[i].marks \cap {"late", "split"} # {}
=============================================================================
