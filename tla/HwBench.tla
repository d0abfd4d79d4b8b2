------------------------------ MODULE HwBench -------------------------------
(***************************************************************************)
(* The measurements with hardware time stamps: hw_report.py (one virtual   *)
(* link, BAG after BAG) and multi_vl_hw.py (1, 2, ... links at one BAG).   *)
(* A step of either gives the board its links by RPC, starts               *)
(* hwts_jitter.py as a process of its own, lets the board send until a     *)
(* deadline, waits for that process and loads the file it dumped; at the   *)
(* end the board is set back, by multi_vl_hw.py in a finally clause.       *)
(*                                                                         *)
(* Runs are started by hand, one after the other or at a time; a process   *)
(* of hwts_jitter.py outlives a run that is broken off.  The board and its *)
(* shell are external: what it does with an --add of a link that is there, *)
(* keep it or re-pace it, no file of the repository says.                  *)
(***************************************************************************)
EXTENDS Naturals, Sequences

CONSTANTS Runs,      \* bound: runs and orphans at a time
          Bags,      \* --bags of hw_report.py
          Counts,    \* --nvls of multi_vl_hw.py
          MultiBag,  \* its --bag
          Default,   \* the BAG both set back (200)
          MaxRuns,   \* bound: runs in all
          MaxFaults  \* bound: failures of a command, a capture or a run

ASSUME BenchAssumption ==
  /\ Bags \in Seq(Nat \ {0}) /\ Counts \in Seq(Nat \ {0}) /\ 0 \notin Runs
  /\ Bags # <<>> /\ Counts # <<>>   \* split(",") returns one at least
  /\ MultiBag \in Nat \ {0} /\ Default \in Nat \ {0} /\ MaxFaults \in Nat /\ MaxRuns \in Nat

VARIABLES
  kind,   \* kind[r]: the program of run r ("none": not started)
  at,     \* at[r]: where it is
  k,      \* k[r]: its step, an index of Bags or Counts
  v,      \* v[r]: the link its next command is about
  row,    \* row[r]: the frames the step has loaded
  cap,    \* cap[r]: its capture process: "off", "on", "deaf" (the interface
          \* stamps nothing) or "writing" (its dump is opened)
  buf,    \* buf[r]: the frames that process has seen, with their stamps
  files,  \* files[p]: dump file p: [by, whole, frames]; by the process
          \* that opened it last, until one has written
  vl,     \* vl[n]: the BAG of link n on the board, 0 when it is not set
  shell,  \* commands the board will run late, in their order
  marks,  \* history: marks[r]: what befell run r
  runs, faults  \* counters for the bounds

runVars == <<kind, at, k, v, row>>
dumpVars == <<cap, buf, files>>
boardVars == <<vl, shell>>
vars == <<runVars, dumpVars, boardVars, marks, runs, faults>>

Most == CHOOSE n \in {Counts[i] : i \in DOMAIN Counts} :
          \A i \in DOMAIN Counts : Counts[i] <= n
Links == 1..Most
Paces == {Bags[i] : i \in DOMAIN Bags} \cup {MultiBag, Default}
Steps == 1..(Len(Bags) + Len(Counts))
Who == Runs \cup {0}    \* 0: a run that is over
Frame == [run : Who, step : Steps \cup {0}, vl : Links, bag : Paces]
Command == [op : {"set", "add", "del", "send"}, run : Who, step : Steps \cup {0},
            vl : Links, bag : Paces]
Paths == 0..Len(Bags)   \* 0: mvl_frames.json; i: frames_bag<Bags[i]>.json
Stage == {"idle", "setting", "starting", "sending", "waiting", "shown",
          "restoring", "leaving"}
\* "company": another run, an orphan or a late command was about; "lost": a
\* command of its own was lost or late; "nocapture", "short": the capture did
\* not run or died, was deaf or ended before the sends; "raised", "killed":
\* an exception or a signal cut it off, one in the restore included; "stray":
\* it gave a command for a link not set; "leftover": so were the links at its
\* start that a run leaves unset, or link 1 was not.
Mark == {"company", "lost", "nocapture", "short", "raised", "killed", "stray", "leftover"}

\* A frame of a run that is over.
Old == [run |-> 0, step |-> 0, vl |-> 1, bag |-> Default]
Init ==
  /\ kind = [r \in Runs |-> "none"] /\ at = [r \in Runs |-> "idle"]
  /\ k = [r \in Runs |-> 1] /\ v = [r \in Runs |-> 1]
  /\ row = [r \in Runs |-> {}]
  /\ cap = [r \in Runs |-> "off"] /\ buf = [r \in Runs |-> {}]
  /\ \E dump \in {[by |-> 0, whole |-> "no", frames |-> {}],
                 [by |-> 0, whole |-> "yes", frames |-> {Old}]} :
       files = [p \in Paths |-> dump]
  /\ vl \in [Links -> {0, Default}] /\ \A n \in Links \ {1} : vl[n] = 0
  /\ shell = <<>> /\ marks = [r \in Runs |-> {}]
  /\ runs = 0 /\ faults = 0

-----------------------------------------------------------------------------
Running == {r \in Runs : at[r] # "idle"}
Multi(r) == kind[r] = "multi"
Plan(r) == IF Multi(r) THEN Counts ELSE Bags
Path(r) == IF Multi(r) THEN 0 ELSE k[r]
Pace(r) == IF Multi(r) THEN MultiBag ELSE Bags[k[r]]
Goto(r, stage) == at' = [at EXCEPT ![r] = stage]
\* What befalls a run that is not alone is not noted any more.
Noted(r, m) ==
  [marks EXCEPT ![r] = IF "company" \in @ \cup m THEN {"company"} ELSE @ \cup m]
Fault == faults < MaxFaults /\ faults' = faults + 1 /\ UNCHANGED runs

Launch(r, program) ==
  /\ at[r] = "idle" /\ cap[r] = "off" /\ runs < MaxRuns /\ runs' = runs + 1
  /\ kind' = [kind EXCEPT ![r] = program] /\ Goto(r, "setting")
  /\ LET lonely == Running = {} /\ shell = <<>> /\ \A q \in Runs : cap[q] = "off"
         unready == vl[1] = 0 \/ \E n \in Links \ {1} : vl[n] # 0
     IN marks' = [q \in Runs |->
          IF q # r THEN IF q \in Running THEN {"company"} ELSE marks[q]
          ELSE IF ~lonely THEN {"company"} ELSE IF unready THEN {"leftover"} ELSE {}]
  /\ k' = [k EXCEPT ![r] = 1]
  /\ UNCHANGED <<v, row, dumpVars, boardVars, faults>>

\* The command a run gives next: add_vls or --set, the sender, restore.
Asked(r) ==
  LET order(op, n, bag) == [op |-> op, run |-> r, step |-> k[r], vl |-> n, bag |-> bag]
  IN CASE at[r] = "setting" -> order(IF Multi(r) THEN "add" ELSE "set", v[r], Pace(r))
       [] at[r] = "sending" -> order("send", v[r], Pace(r))
       [] at[r] = "restoring" /\ v[r] > Most -> order("set", 1, Default)
       [] OTHER -> order("del", v[r], Default)

LinksOf(r) == IF Multi(r) THEN Counts[k[r]] ELSE 1

\* Mutant: VL 1 is deleted like the others.
BeginRestoreAtOne(r) == v' = [v EXCEPT ![r] = IF Multi(r) THEN 1 ELSE Most + 1]

\* restore leaves VL 1 out, and then sets it.
BeginRestore(r) == v' = [v EXCEPT ![r] = IF Multi(r) THEN 2 ELSE Most + 1]

\* And where it goes from there.  The deadline of the sender may come after
\* any send, in the middle of a round too.
Advance(r) ==
  CASE at[r] = "setting" /\ v[r] < LinksOf(r) -> v' = [v EXCEPT ![r] = @ + 1] /\ UNCHANGED at
    [] at[r] = "setting" /\ v[r] >= LinksOf(r) ->
         v' = [v EXCEPT ![r] = 1] /\ Goto(r, "starting")
    [] at[r] = "sending" ->
         \/ v' = [v EXCEPT ![r] = (@ % LinksOf(r)) + 1] /\ UNCHANGED at
         \/ v' = [v EXCEPT ![r] = 1] /\ Goto(r, "waiting")
    [] at[r] = "restoring" /\ v[r] <= Most -> v' = [v EXCEPT ![r] = @ + 1] /\ UNCHANGED at
    [] OTHER -> Goto(r, "leaving") /\ UNCHANGED v

\* The links after the board has run command c.
After(c) ==
  LET set(bag) == [vl EXCEPT ![c.vl] = bag]
  IN CASE c.op = "del" -> {set(0)}
       [] c.op = "set" /\ vl[c.vl] # 0 -> {set(c.bag)}
       [] c.op = "add" -> IF vl[c.vl] = 0 THEN {set(c.bag)} ELSE {vl, set(c.bag)}
       [] OTHER -> {vl}

\* Mutant: the filter is the wrong way round.
SeesOthers(q, n) == cap[q] = "on" /\ (Multi(q) \/ n # 1)

\* capture_frames looks for one link, capture_frames_vl for any.
Sees(q, n) == cap[q] = "on" /\ (Multi(q) \/ n = 1)
Carry(c) ==
  buf' = [q \in Runs |->
    IF c.op = "send" /\ vl[c.vl] # 0 /\ Sees(q, c.vl)
    THEN buf[q] \cup {[run |-> c.run, step |-> c.step, vl |-> c.vl, bag |-> vl[c.vl]]}
    ELSE buf[q]]
Stray(c) == IF c.op # "add" /\ vl[c.vl] = 0 THEN {"stray"} ELSE {}

\* A command answered in time: the shell runs commands in their order.
CommandRuns(r) ==
  /\ at[r] \in {"setting", "sending", "restoring"} /\ shell = <<>>
  /\ vl' \in After(Asked(r)) /\ Carry(Asked(r))
  /\ marks' = Noted(r, Stray(Asked(r)))
  /\ Advance(r)
  /\ UNCHANGED <<kind, k, row, cap, files, shell, runs, faults>>

\* A command the bridge answers at its time limit, when it has not run yet or
\* never will (a send of 3000 frames takes longer at a large BAG): _rpc takes
\* any answer.
CommandLost(r) ==
  /\ at[r] \in {"setting", "sending", "restoring"} /\ Fault
  /\ shell' \in {shell, Append(shell, Asked(r))}
  /\ marks' = Noted(r, {"lost"}) /\ Advance(r)
  /\ UNCHANGED <<kind, k, row, dumpVars, vl>>

\* Mutant: the restore is not in a finally clause.
BreakOffAtOnce(r) ==
  /\ Goto(r, "leaving") /\ UNCHANGED v
  /\ marks' = Noted(r, {IF at[r] = "restoring" THEN "killed" ELSE "raised"})

\* An exception leaves main: at once, without a wait for the capture, or, in
\* multi_vl_hw.py, through restore, which it may leave half done.
BreakOff(r) ==
  /\ IF Multi(r) /\ at[r] # "restoring"
     THEN Goto(r, "restoring") /\ BeginRestore(r)
     ELSE Goto(r, "leaving") /\ UNCHANGED v
  /\ marks' = Noted(r, {IF at[r] = "restoring" THEN "killed" ELSE "raised"})

\* No answer in time, the bridge hangs up, Ctrl-C; or a signal that no finally
\* clause survives.  A command that was given may run later.
CutOff(r) ==
  /\ r \in Running /\ at[r] # "leaving" /\ Fault
  /\ \/ UNCHANGED shell
     \/ at[r] \in {"setting", "sending", "restoring"} /\ shell' = Append(shell, Asked(r))
  /\ UNCHANGED <<kind, k, row, dumpVars, vl>>
Raise(r) == CutOff(r) /\ BreakOff(r)
Kill(r) ==
  /\ CutOff(r) /\ Goto(r, "leaving") /\ marks' = Noted(r, {"killed"})
  /\ UNCHANGED v

\* A late command meets whoever runs then.
CatchUp ==
  /\ shell # <<>> /\ shell' = Tail(shell)
  /\ vl' \in After(Head(shell)) /\ Carry(Head(shell))
  /\ marks' = [r \in Runs |->
       IF r \notin Running THEN {}
       ELSE IF r # Head(shell).run THEN {"company"}
       ELSE Noted(r, {"lost"} \cup Stray(Head(shell)))[r]]
  /\ UNCHANGED <<runVars, cap, files, runs, faults>>

-----------------------------------------------------------------------------
(* hwts_jitter.py, and the programs around it.                             *)

\* set_filter_all: when it fails there is a warning, and frames without stamps.
SetFilterAll(r) ==
  \/ cap' = [cap EXCEPT ![r] = "on"] /\ UNCHANGED <<marks, runs, faults>>
  \/ cap' = [cap EXCEPT ![r] = "deaf"] /\ Fault /\ marks' = Noted(r, {"short"})

\* Popen; 1.2 s later the sender starts, whether or not sudo let it run.
StartCapture(r) ==
  /\ at[r] = "starting" /\ Goto(r, "sending")
  /\ \/ SetFilterAll(r)
     \/ Fault /\ marks' = Noted(r, {"nocapture"}) /\ UNCHANGED cap
  /\ UNCHANGED <<kind, k, v, row, buf, files, boardVars>>

\* After --dur, wherever the sender is, the dump is opened, and emptied.
CaptureEnds(r) ==
  /\ cap[r] \in {"on", "deaf"}
  /\ cap' = [cap EXCEPT ![r] = "writing"]
  /\ files' = [files EXCEPT ![Path(r)] = [by |-> r, whole |-> "no", frames |-> {}]]
  /\ marks' = IF at[r] = "sending" THEN Noted(r, {"short"}) ELSE marks
  /\ UNCHANGED <<runVars, buf, boardVars, runs, faults>>

\* json.dump; if another process has opened the file since, one text or a mix
\* of both is left.
CaptureWrites(r) ==
  /\ cap[r] = "writing"
  /\ cap' = [cap EXCEPT ![r] = "off"] /\ buf' = [buf EXCEPT ![r] = {}]
  /\ \E whole \in IF files[Path(r)].by = r THEN {"yes"} ELSE {"yes", "no"} :
       files' = [files EXCEPT ![Path(r)] =
         [by |-> 0, whole |-> whole, frames |-> IF whole = "yes" THEN buf[r] ELSE {}]]
  /\ UNCHANGED <<runVars, boardVars, marks, runs, faults>>

CaptureDies(r) ==
  /\ cap[r] # "off" /\ Fault
  /\ cap' = [cap EXCEPT ![r] = "off"] /\ buf' = [buf EXCEPT ![r] = {}]
  /\ marks' = IF r \in Running THEN Noted(r, {"nocapture"}) ELSE marks
  /\ UNCHANGED <<runVars, files, boardVars>>

LoadWhen(r, ended) ==
  /\ at[r] = "waiting" /\ ended
  /\ LET dump == files[Path(r)]
     IN IF dump.whole = "yes"
        THEN /\ row' = [row EXCEPT ![r] = dump.frames]
             /\ Goto(r, "shown") /\ UNCHANGED <<v, marks>>
        ELSE BreakOff(r) /\ UNCHANGED row
  /\ UNCHANGED <<kind, k, dumpVars, boardVars, runs, faults>>

\* Mutant: p.wait() is forgotten.
LoadAtOnce(r) == LoadWhen(r, TRUE)

\* p.wait(); json.load(open(dump)): whatever file is there; one that is
\* missing or no JSON raises.
Load(r) == LoadWhen(r, cap[r] = "off")

\* The frames a step's figures are computed from: intervals between stamps
\* that are near the BAG asked for.
Near(r, lo, hi) ==
  {f \in row[r] : lo * Pace(r) < 10 * f.bag /\ 10 * f.bag < hi * Pace(r)}
Compute(r) == Near(r, 3, 17)
PerVlMetrics(r) == Near(r, 5, 15)
Figures(r) == IF Multi(r) THEN PerVlMetrics(r) ELSE Compute(r)

\* Mutant: one step too many.
LastStepAndOne(r) == k[r] > Len(Plan(r))
LastStep(r) == k[r] = Len(Plan(r))

NextStep(r) ==
  /\ at[r] = "shown"
  /\ row' = [row EXCEPT ![r] = {}]
  /\ IF LastStep(r)
     THEN Goto(r, "restoring") /\ BeginRestore(r) /\ UNCHANGED k
     ELSE k' = [k EXCEPT ![r] = @ + 1] /\ Goto(r, "setting") /\ UNCHANGED v
  /\ UNCHANGED <<kind, dumpVars, boardVars, marks, runs, faults>>

\* The process is gone; its frames and late commands are of a run that is over.
Leave(r) ==
  /\ at[r] = "leaving"
  /\ Goto(r, "idle") /\ v' = [v EXCEPT ![r] = 1] /\ row' = [row EXCEPT ![r] = {}]
  /\ marks' = [marks EXCEPT ![r] = {}]
  /\ LET all(fs) == {IF f.run = r THEN Old ELSE f : f \in fs}
         over(c) == IF c.run = r THEN [c EXCEPT !.run = 0, !.step = 0] ELSE c
     IN /\ buf' = [q \in Runs |-> all(buf[q])]
        /\ files' = [p \in Paths |-> [files[p] EXCEPT !.frames = all(@)]]
        /\ shell' = [i \in DOMAIN shell |-> over(shell[i])]
  /\ IF cap[r] = "off" THEN k' = [k EXCEPT ![r] = 1] /\ kind' = [kind EXCEPT ![r] = "none"]
     ELSE UNCHANGED <<k, kind>>
  /\ UNCHANGED <<cap, vl, runs, faults>>

-----------------------------------------------------------------------------
Program(r) ==
  \/ CommandRuns(r) \/ StartCapture(r) \/ Load(r) \/ NextStep(r) \/ Leave(r)
Capture(r) == CaptureEnds(r) \/ CaptureWrites(r)

Next ==
  \/ \E r \in Runs :
       \/ \E program \in {"report", "multi"} : Launch(r, program)
       \/ Program(r) \/ Capture(r)
       \/ CommandLost(r) \/ Raise(r) \/ Kill(r) \/ CaptureDies(r)
  \/ CatchUp

Spec == Init /\ [][Next]_vars
-----------------------------------------------------------------------------
\* Type invariant.  A run is at a step of its plan, and a process that is not
\* there holds no frames.
TypeOK ==
  /\ kind \in [Runs -> {"none", "report", "multi"}] /\ at \in [Runs -> Stage]
  /\ k \in [Runs -> Nat] /\ \A r \in Running : k[r] \in DOMAIN Plan(r)
  /\ v \in [Runs -> 1..(Most + 1)] /\ row \in [Runs -> SUBSET Frame]
  /\ cap \in [Runs -> {"off", "on", "deaf", "writing"}]
  /\ buf \in [Runs -> SUBSET Frame] /\ \A r \in Runs : cap[r] = "off" => buf[r] = {}
  /\ files \in [Paths -> [by : Who, whole : {"yes", "no"}, frames : SUBSET Frame]]
  /\ vl \in [Links -> Paces \cup {0}] /\ shell \in Seq(Command)
  /\ marks \in [Runs -> SUBSET Mark] /\ runs \in 0..MaxRuns /\ faults \in 0..MaxFaults

Free(r, what) == marks[r] \cap what = {}

\* What a step of a run computes its figures from are frames of that run,
\* whatever dump files, links and orphans earlier runs left, when no other run,
\* orphan or late command came into it and its capture ran; of that step, when
\* no command was late; and paced as the step asks, when none was lost and the
\* board was as a run leaves it: but of VL 1 of multi_vl_hw.py only as far as
\* an --add of a link that is there re-paces it.
LoneRowIsItsOwn ==
  \A r \in Running : at[r] = "shown" /\ Free(r, {"company", "nocapture"}) =>
    \A f \in row[r] :
      /\ f.run = r
      /\ Free(r, {"lost"}) => f.step = k[r] /\ f.vl <= LinksOf(r)
      /\ Free(r, {"lost", "leftover"}) => f.bag = Pace(r) \/ (Multi(r) /\ f.vl = 1)

\* A step of hw_report.py nothing befell has figures.
CleanStepHasFigures ==
  \A r \in Running : at[r] = "shown" /\ ~Multi(r) /\ marks[r] = {} => Figures(r) # {}

\* However multi_vl_hw.py ends, by an exception too, it leaves VL 1 at BAG 200
\* and the links it may have added unset (multi_vl_hw.py:12), unless it is
\* killed, a command is lost, or it was not alone; and so does a hw_report.py
\* that is not cut off.
BoardLeftAsFound ==
  \A r \in Running :
    at[r] = "leaving" /\ Free(r, {"company", "lost", "killed"}) =>
      /\ Multi(r) => \A n \in Links \ {1} : vl[n] = 0
      /\ Multi(r) \/ Free(r, {"raised"}) => vl[1] \in {0, Default}

\* multi_vl_hw.py gives no command for a link that is not set (the board may
\* hang: multi_vl_hw.py:11), unless a command was lost, somebody else was
\* about, or an exception came before the links were added.
OnlySetLinks ==
  \A r \in Running : Multi(r) /\ "stray" \in marks[r] =>
    ~Free(r, {"company", "lost", "raised", "killed"})
=============================================================================
