----------------------- MODULE CapturePipelineProofs ------------------------
(***************************************************************************)
(* Proofs about CapturePipeline: its types, and what the answer to a run   *)
(* that overlaps no other shows, for any tabs, BAGs, numbers of requests,  *)
(* of commands and of failures.                                            *)
(*                                                                         *)
(* An answer is made of what the run found or left in files and on a board *)
(* that all runs share.  The invariant follows a lone run from stage to    *)
(* stage: what the path of the capture file names, who paced the link,     *)
(* whose frames tcpdump has, what the JSON file holds.                     *)
(***************************************************************************)
EXTENDS CapturePipeline, TLAPS

Dumping == {"deleting", "adding", "sending", "draining", "raised"}
Giving == {"clearing", "starting", "deleting", "adding", "sending"}
After == Dumping \cup {"reading", "writing", "exited"}

\* A run keeps its count of commands until it gave the last; tcpdump is on
\* between its start and the wait for it; marks belong to runs.
StageInv ==
  \A c \in Tabs :
    /\ at[c] \in Giving => left[c] # 0
    /\ tdump[c] # 0 => at[c] \in Dumping
    /\ tdump[c] = 0 => buf[c] = {}
    /\ c \notin Running => marks[c] = {}
    /\ "failed" \in marks[c] => at[c] = "exited"
    /\ marks[c] \cap {"late", "lostcmd"} # {} => "hurt" \in marks[c]

\* A torn file has a name or a writer.
TornInv == \A f \in torn : f = pcap \/ \E d \in Tabs : tdump[d] = f

Alone(c) == c \in Running /\ "overlapped" \notin marks[c]
AloneInv == \A c \in Tabs : Alone(c) => \A d \in Tabs : d # c => d \notin Running

\* The capture file of a lone run is one of its own making, whole, or none.
FileOf(c) ==
  /\ at[c] = "starting" => pcap = 0
  /\ at[c] \in After => /\ pcap \in {0, req[c]} /\ tdump[c] \in {0, pcap}
                        /\ torn = {}

\* Its link is its own, when no command was lost or late.
LinkOf(c) ==
  marks[c] \cap {"late", "lostcmd"} = {} =>
    /\ at[c] = "adding" => vl = 0
    /\ at[c] = "sending" => vl = BagOf[req[c]]

Own(c, frames) ==
  \A f \in frames : /\ f.run = req[c]
                    /\ "lostcmd" \notin marks[c] => f.bag = BagOf[req[c]]

\* So are the frames it has, wherever they are, when no other user's file is in
\* the place of its own.
FramesOf(c) ==
  "late" \notin marks[c] /\ theirs = 0 =>
    /\ Own(c, buf[c])
    /\ at[c] \in After => Own(c, Captured)
    /\ at[c] = "writing" => Own(c, result[c])
    /\ at[c] = "exited" /\ "failed" \notin marks[c] => Own(c, json.frames)

JsonOf(c) ==
  /\ at[c] = "writing" => json.by = req[c]
  /\ at[c] = "exited" /\ "failed" \notin marks[c] => json.by = req[c] /\ json.whole = "yes"

\* A run that meets no failure has a frame of its own, in tcpdump's buffer
\* until that has ended, then in the capture file, at last in the JSON file.
Mine(c) == [run |-> req[c], bag |-> BagOf[req[c]]]
CleanOf(c) ==
  "hurt" \notin marks[c] =>
    /\ at[c] \in {"deleting", "adding", "sending"} => tdump[c] = req[c]
    /\ at[c] \in {"draining", "reading"} =>
         pcap = req[c] /\ Mine(c) \in IF tdump[c] # 0 THEN buf[c] ELSE content[pcap]
    /\ at[c] # "raised"
    /\ at[c] = "writing" => result[c] # {}
    /\ at[c] = "exited" => "failed" \notin marks[c] /\ json.frames # {}

LoneInv ==
  \A c \in Tabs : Alone(c) => FileOf(c) /\ LinkOf(c) /\ FramesOf(c) /\ JsonOf(c) /\ CleanOf(c)

IInv == TypeOK /\ StageInv /\ TornInv /\ AloneInv /\ LoneInv

-----------------------------------------------------------------------------
(* Types.                                                                  *)

LEMMA InitTypes == Init => TypeOK
  BY PipelineAssumption DEF Init, TypeOK, Running, Stage, Json, NoJson, Ids

LEMMA BagType == \A r \in Ids : BagOf[r] \in Bags /\ BagOf[r] \in Nat /\ BagOf[r] # 0
  BY PipelineAssumption DEF Bags, Ids

\* A frame that the board sends is a frame.
LEMMA FrameTypes ==
  ASSUME TypeOK, NEW kind, NEW r \in Ids, BoardDoes(kind, r)
  PROVE  vl' \in Bags \cup {0} /\ buf' \in [Tabs -> SUBSET Frame]
<1>1. vl' \in Bags \cup {0}
  BY BagType DEF TypeOK, BoardDoes
<1>2. \A d \in Tabs : vl # 0 => [run |-> r, bag |-> vl] \in Frame
  BY PipelineAssumption DEF TypeOK, Frame, Ids
<1>3. buf' \in [Tabs -> SUBSET Frame]
  BY <1>2, Zenon DEF TypeOK, BoardDoes
<1> QED  BY <1>1, <1>3

LEMMA AppendType ==
  ASSUME NEW S, NEW q \in Seq(S), NEW e \in S
  PROVE  Append(q, e) \in Seq(S)
  OBVIOUS

LEMMA RunType == \A c \in Tabs : TypeOK /\ c \in Running => req[c] \in Ids
  BY PipelineAssumption DEF TypeOK, Ids

LEMMA RpcTypes ==
  ASSUME TypeOK, NEW c \in Tabs, c \in Running, NEW kind \in {"del", "add", "send"}, Rpc(c, kind)
  PROVE  /\ vl' \in Bags \cup {0} /\ buf' \in [Tabs -> SUBSET Frame]
         /\ shell' \in Seq(Command) /\ marks' \in [Tabs -> SUBSET Mark]
         /\ faults' \in 0..MaxFaults
<1>1. req[c] \in Ids
  BY RunType
<1>2. CASE shell = <<>> /\ BoardDoes(kind, req[c]) /\ UNCHANGED <<shell, marks, faults>>
  BY <1>1, <1>2, FrameTypes DEF TypeOK
<1>3. CASE CommandLost(c, kind)
  <2>1. <<kind, req[c]>> \in Command
    BY <1>1 DEF Command
  <2>2. shell' \in Seq(Command)
    <3>1. shell \in Seq(Command)
      BY DEF TypeOK
    <3>2. Append(shell, <<kind, req[c]>>) \in Seq(Command)
      BY <2>1, <3>1, AppendType
    <3> QED  BY <1>3, <3>1, <3>2 DEF CommandLost
  <2>3. marks' \in [Tabs -> SUBSET Mark]
    BY <1>3 DEF CommandLost, MarkRun, TypeOK, Mark
  <2>4. faults' \in 0..MaxFaults
    BY <1>3, PipelineAssumption DEF CommandLost, TypeOK
  <2> QED  BY <1>3, <2>2, <2>3, <2>4 DEF CommandLost, TypeOK
<1> QED  BY <1>2, <1>3 DEF Rpc

\* What the tabs do touches no run.
LEMMA TabTypes ==
  ASSUME TypeOK, NEW c \in Tabs, Ask(c) \/ GiveUp(c) \/ CloseTab(c)
  PROVE  TypeOK'
<1>1. CASE Ask(c)
  <2>1. asked + 1 \in Ids
    BY <1>1, PipelineAssumption DEF Ask, TypeOK, Ids
  <2>2. queue' \in [Tabs -> Seq(Ids)]
    BY <1>1, <2>1 DEF Ask, TypeOK
  <2>3. waits' \in [Tabs -> 0..MaxRuns] /\ asked' \in 0..MaxRuns
    BY <1>1, <2>1, PipelineAssumption DEF Ask, TypeOK, Ids
  <2> QED  BY <1>1, <2>2, <2>3 DEF Ask, TypeOK, Running, runVars, dumpVars, boardVars, history
<1>2. CASE GiveUp(c)
  BY <1>2, PipelineAssumption DEF GiveUp, TypeOK, Running, runVars, dumpVars, boardVars, history
<1>3. CASE CloseTab(c)
  BY <1>3, PipelineAssumption DEF CloseTab, TypeOK, Running, runVars, dumpVars, boardVars, history
<1> QED  BY <1>1, <1>2, <1>3

LEMMA HandlerTypes ==
  ASSUME TypeOK, StageInv, NEW c \in Tabs, Spawn(c) \/ Answer(c) \/ EndOfStream(c)
  PROVE  TypeOK'
<1>1. CASE Spawn(c)
  <2>1. Head(queue[c]) \in Ids /\ Tail(queue[c]) \in Seq(Ids) /\ Repeat \in 0..Repeat
    BY <1>1, PipelineAssumption DEF Spawn, TypeOK
  <2>2. queue' \in [Tabs -> Seq(Ids)] /\ req' \in [Tabs -> 0..MaxRuns] /\ left' \in [Tabs -> 0..Repeat]
    BY <1>1, <2>1 DEF Spawn, TypeOK, Ids
  <2>3. at' \in [Tabs -> Stage]
    BY <1>1 DEF Spawn, Goto, TypeOK, Stage
  <2>4. marks' \in [Tabs -> SUBSET Mark]
    BY <1>1, Zenon DEF Spawn, TypeOK, Mark
  <2>5. \A d \in Tabs : d \in Running' <=> req'[d] # 0
    BY <1>1, <2>1 DEF Spawn, Goto, TypeOK, Running, Ids
  <2>6. \A d \in Tabs : tdump'[d] # 0 => d \in Running'
    BY <1>1 DEF Spawn, Goto, TypeOK, Running, dumpVars
  <2> QED  BY <1>1, <2>2, <2>3, <2>4, <2>5, <2>6 DEF Spawn, TypeOK, dumpVars, boardVars
<1>2. CASE Answer(c)
  <2>1. queue' \in [Tabs -> Seq(Ids)]
    <3>1. <<>> \in Seq(Ids)
      OBVIOUS
    <3>2. queue' = queue \/ queue' = [queue EXCEPT ![c] = <<>>]
      BY <1>2 DEF Answer, AnswerWith
    <3> QED  BY <3>1, <3>2, Zenon DEF TypeOK
  <2>2. waits' \in [Tabs -> 0..MaxRuns] /\ req' \in [Tabs -> 0..MaxRuns] /\ left' \in [Tabs -> 0..Repeat]
    BY <1>2, PipelineAssumption DEF Answer, AnswerWith, TypeOK
  <2>3. at' \in [Tabs -> Stage]
    BY <1>2 DEF Answer, AnswerWith, Goto, TypeOK, Stage
  <2>4. marks' \in [Tabs -> SUBSET Mark]
    BY <1>2 DEF Answer, AnswerWith, TypeOK
  <2>5. \A d \in Tabs : d \in Running' <=> req'[d] # 0
    BY <1>2 DEF Answer, AnswerWith, Goto, TypeOK, Running
  <2>6. \A d \in Tabs : tdump'[d] # 0 => d \in Running'
    BY <1>2 DEF Answer, AnswerWith, Goto, TypeOK, Running, dumpVars, StageInv, Dumping
  <2> QED  BY <1>2, <2>1, <2>2, <2>3, <2>4, <2>5, <2>6 DEF Answer, AnswerWith, TypeOK, dumpVars, boardVars
<1>3. CASE EndOfStream(c)
  BY <1>3 DEF EndOfStream, Goto, TypeOK, Running, Stage, tabVars, dumpVars, boardVars, history
<1> QED  BY <1>1, <1>2, <1>3

\* A step of a run to another stage of it keeps who runs.
LEMMA StillRunning ==
  ASSUME TypeOK, NEW c \in Tabs, c \in Running, NEW s \in Stage \ {"idle", "closed"}, Goto(c, s), UNCHANGED req
  PROVE  at' \in [Tabs -> Stage] /\ Running' = Running /\ \A d \in Tabs : d \in Running' <=> req'[d] # 0
  BY DEF TypeOK, Goto, Running

LEMMA SweepType ==
  ASSUME NEW files \in [Ids -> SUBSET Frame]
  PROVE  Sweep(files) \in [Ids -> SUBSET Frame]
  BY DEF Sweep

LEMMA FileTypes ==
  ASSUME TypeOK, NEW c \in Tabs, RemovePcap(c) \/ StartTcpdump(c) \/ TcpdumpEnds(c)
  PROVE  TypeOK'
<1>1. CASE RemovePcap(c)
  <2>1. c \in Running /\ "starting" \in Stage \ {"idle", "closed"}
    BY <1>1 DEF RemovePcap, ClearTo, Running, Stage
  <2>2. content' \in [Ids -> SUBSET Frame] /\ torn' \subseteq Ids
    BY <1>1, SweepType DEF RemovePcap, ClearTo, TypeOK
  <2>3. pcap' \in 0..MaxRuns /\ pcap' = 0 /\ theirs' = theirs
    BY <1>1, PipelineAssumption DEF RemovePcap, ClearTo
  <2>4. UNCHANGED <<tabVars, req, left, result, tdump, buf, json, boardVars, history>> /\ Goto(c, "starting")
    BY <1>1 DEF RemovePcap, ClearTo
  <2> QED  BY <2>1, <2>2, <2>3, <2>4, StillRunning DEF TypeOK, tabVars, boardVars, history
<1>2. CASE StartTcpdump(c)
  <2>1. c \in Running /\ "deleting" \in Stage \ {"idle", "closed"} /\ Goto(c, "deleting")
    BY <1>2 DEF StartTcpdump, Running, Stage
  <2>2. UNCHANGED <<tabVars, req, left, result, buf, theirs, json, boardVars>>
    BY <1>2 DEF StartTcpdump
  <2> DEFINE f == IF pcap = 0 THEN req[c] ELSE pcap
  <2>3. f \in Ids
    BY <2>1, RunType DEF TypeOK, Ids
  <2>4. /\ tdump' \in [Tabs -> 0..MaxRuns] /\ pcap' \in 0..MaxRuns
        /\ content' \in [Ids -> SUBSET Frame] /\ torn' \subseteq Ids
        /\ \A d \in Tabs : tdump'[d] # 0 => d \in Running
        /\ theirs # 0 => pcap' = 0
    <3>1. CASE /\ theirs = 0 /\ pcap' = f /\ tdump' = [tdump EXCEPT ![c] = f]
               /\ content' = [content EXCEPT ![f] = {}]
               /\ torn' = IF \E d \in Tabs : tdump[d] = f THEN torn \cup {f} ELSE torn
      <4>1. f \in 0..MaxRuns
        BY <2>3 DEF Ids
      <4>2. content' \in [Ids -> SUBSET Frame] /\ torn' \subseteq Ids
        BY <2>3, <3>1 DEF TypeOK
      <4> QED  BY <2>1, <3>1, <4>1, <4>2 DEF TypeOK
    <3>2. CASE UNCHANGED <<tdump, pcap, content, torn>>
      BY <3>2 DEF TypeOK
    <3> QED  BY <1>2, <3>1, <3>2 DEF StartTcpdump
  <2>5. marks' \in [Tabs -> SUBSET Mark] /\ faults' \in 0..MaxFaults
    <3>1. CASE UNCHANGED <<marks, faults>>
      BY <3>1 DEF TypeOK
    <3>2. CASE /\ faults' = faults \/ (faults < MaxFaults /\ faults' = faults + 1)
               /\ MarkRun(c, {"hurt"})
      BY <3>2, PipelineAssumption DEF MarkRun, Mark, TypeOK
    <3> QED  BY <1>2, <3>1, <3>2 DEF StartTcpdump
  <2>6. at' \in [Tabs -> Stage] /\ Running' = Running /\ \A d \in Tabs : d \in Running' <=> req'[d] # 0
    BY <2>1, <2>2, StillRunning
  <2> QED  BY <2>2, <2>4, <2>5, <2>6 DEF TypeOK, tabVars, boardVars
<1>3. CASE TcpdumpEnds(c)
  <2>1. tdump[c] \in Ids
    BY <1>3 DEF TcpdumpEnds, TypeOK, Ids
  <2>2. [content EXCEPT ![tdump[c]] = @ \cup buf[c]] \in [Ids -> SUBSET Frame]
    BY <2>1 DEF TypeOK
  <2>3. content' \in [Ids -> SUBSET Frame] /\ torn' \subseteq Ids
    BY <1>3, <2>2, SweepType DEF TcpdumpEnds, TypeOK
  <2>4. marks' \in [Tabs -> SUBSET Mark]
    BY <1>3 DEF TcpdumpEnds, Mark, TypeOK
  <2>5. /\ tdump' \in [Tabs -> 0..MaxRuns] /\ buf' \in [Tabs -> SUBSET Frame]
        /\ \A d \in Tabs : tdump'[d] # 0 => d \in Running
    BY <1>3, PipelineAssumption DEF TcpdumpEnds, TypeOK
  <2>6. UNCHANGED <<tabVars, runVars, pcap, theirs, json, boardVars, faults>>
    BY <1>3 DEF TcpdumpEnds
  <2> QED  BY <2>3, <2>4, <2>5, <2>6 DEF TypeOK, Running, tabVars, runVars, boardVars
<1> QED  BY <1>1, <1>2, <1>3

LEMMA CommandTypes ==
  ASSUME TypeOK, StageInv, NEW c \in Tabs, DeleteVl(c) \/ AddVl(c) \/ SendFrames(c)
  PROVE  TypeOK'
<1>1. c \in Running /\ at[c] \in {"deleting", "adding", "sending"}
  BY DEF DeleteVl, AddVl, SendFrames, Running
<1>2. \E kind \in {"del", "add", "send"} : Rpc(c, kind)
  BY DEF DeleteVl, AddVl, SendFrames
<1>3. /\ vl' \in Bags \cup {0} /\ buf' \in [Tabs -> SUBSET Frame]
      /\ shell' \in Seq(Command) /\ marks' \in [Tabs -> SUBSET Mark]
      /\ faults' \in 0..MaxFaults
  BY <1>1, <1>2, RpcTypes
<1>4. UNCHANGED <<tabVars, req, result, tdump, pcap, theirs, content, torn, json>>
  BY <1>2 DEF Rpc
<1>5. \E s \in Stage \ {"idle", "closed"} : Goto(c, s)
  BY DEF DeleteVl, AddVl, SendFrames, Stage
<1>6. at' \in [Tabs -> Stage] /\ Running' = Running /\ \A d \in Tabs : d \in Running' <=> req'[d] # 0
  BY <1>1, <1>4, <1>5, StillRunning
<1>7. left' \in [Tabs -> 0..Repeat]
  <2>1. left \in [Tabs -> 0..Repeat] /\ left[c] # 0
    BY <1>1 DEF TypeOK, StageInv, Giving
  <2>2. left[c] - 1 \in 0..Repeat
    BY <2>1, PipelineAssumption
  <2>3. left' = left \/ left' = [left EXCEPT ![c] = left[c] - 1]
    BY DEF DeleteVl, AddVl, SendFrames
  <2> QED  BY <2>1, <2>2, <2>3
<1> QED  BY <1>3, <1>4, <1>6, <1>7 DEF TypeOK, tabVars

LEMMA LateTypes ==
  ASSUME TypeOK, CatchUp
  PROVE  TypeOK'
<1>1. Head(shell) \in Command /\ Tail(shell) \in Seq(Command)
  BY DEF CatchUp, TypeOK
<1>2. Head(shell)[2] \in Ids
  BY <1>1 DEF Command
<1>3. vl' \in Bags \cup {0} /\ buf' \in [Tabs -> SUBSET Frame]
  BY <1>2, FrameTypes DEF CatchUp
<1>4. marks' \in [Tabs -> SUBSET Mark]
  BY Zenon DEF CatchUp, TypeOK, Mark
<1> QED  BY <1>1, <1>3, <1>4 DEF CatchUp, TypeOK, Running, tabVars, runVars

LEMMA EndTypes ==
  ASSUME TypeOK, NEW c \in Tabs, RpcRaises(c) \/ Drain(c) \/ Analyze(c) \/ WriteJson(c) \/ OpenFails(c)
  PROVE  TypeOK'
<1>1. c \in Running
  BY DEF RpcRaises, Raise, Drain, DrainWhen, Analyze, WriteJson, OpenFails, Running
<1>2. req[c] \in Ids
  BY <1>1, RunType
<1>3. \E s \in Stage \ {"idle", "closed"} : Goto(c, s)
  BY DEF RpcRaises, Raise, Drain, DrainWhen, Analyze, WriteJson, OpenFails, Stage
<1>4. UNCHANGED <<tabVars, req, left, dumpVars, vl>>
  BY DEF RpcRaises, Raise, Drain, DrainWhen, Analyze, WriteJson, OpenFails, boardVars
<1>5. at' \in [Tabs -> Stage] /\ Running' = Running /\ \A d \in Tabs : d \in Running' <=> req'[d] # 0
  BY <1>1, <1>3, <1>4, StillRunning
<1>6. marks' \in [Tabs -> SUBSET Mark]
  <2>1. marks' = marks \/ MarkRun(c, {"hurt"}) \/ MarkRun(c, {"failed"})
        \/ MarkRun(c, {"hurt", "failed"})
    BY DEF RpcRaises, Raise, Drain, DrainWhen, Analyze, WriteJson, OpenFails, history
  <2>2. ASSUME NEW m \in SUBSET {"hurt", "failed"}, MarkRun(c, m)
        PROVE  marks' \in [Tabs -> SUBSET Mark]
    BY <2>2 DEF MarkRun, Mark, TypeOK
  <2>3. CASE marks' = marks
    BY <2>3 DEF TypeOK
  <2> QED  BY <2>1, <2>2, <2>3
<1>7. faults' \in 0..MaxFaults
  BY PipelineAssumption DEF RpcRaises, Raise, Drain, DrainWhen, Analyze, WriteJson, OpenFails, TypeOK, history
<1>8. shell' \in Seq(Command)
  <2>1. Given(c) \in Command
    BY <1>2 DEF Given, Command
  <2>2. shell' \in {shell, Append(shell, Given(c))}
    BY DEF RpcRaises, Raise, Drain, DrainWhen, Analyze, WriteJson, OpenFails, boardVars
  <2>3. shell \in Seq(Command)
    BY DEF TypeOK
  <2> QED  BY <2>1, <2>2, <2>3, AppendType
<1>9. Captured \in SUBSET Frame
  BY PipelineAssumption DEF Captured, TypeOK, Ids, Frame
<1>10. result' \in [Tabs -> SUBSET Frame]
  BY <1>9 DEF RpcRaises, Raise, Drain, DrainWhen, Analyze, WriteJson, OpenFails, TypeOK
<1>11. json' \in Json
  <2>1. CASE RpcRaises(c) \/ Drain(c) \/ OpenFails(c)
    BY <2>1 DEF RpcRaises, Raise, Drain, DrainWhen, OpenFails, TypeOK
  <2>2. CASE Analyze(c)
    BY <2>2, <1>2 DEF Analyze, TypeOK, Json, Ids
  <2>3. CASE WriteJson(c)
    <3>1. result[c] \in SUBSET Frame /\ json \in Json
      BY DEF TypeOK
    <3>2. [by |-> req[c], whole |-> "yes", frames |-> result[c]] \in Json
      BY <1>2, <3>1 DEF Json, Ids
    <3>3. [json EXCEPT !.whole = "no", !.frames = {}] \in Json
      BY <3>1 DEF Json
    <3> QED  BY <2>3, <3>2, <3>3 DEF WriteJson
  <2> QED  BY <2>1, <2>2, <2>3
<1> QED  BY <1>4, <1>5, <1>6, <1>7, <1>8, <1>10, <1>11 DEF TypeOK, tabVars, dumpVars

LEMMA StepTypes ==
  ASSUME TypeOK, StageInv, [Next]_vars
  PROVE  TypeOK'
<1>1. CASE UNCHANGED vars
  BY <1>1 DEF vars, tabVars, runVars, dumpVars, boardVars, history, TypeOK, Running
<1>2. CASE CatchUp
  BY <1>2, LateTypes
<1>3. ASSUME NEW c \in Tabs,
             Ask(c) \/ GiveUp(c) \/ CloseTab(c) \/ Process(c) \/ RpcRaises(c) \/ TcpdumpEnds(c)
               \/ OpenFails(c)
      PROVE  TypeOK'
  BY <1>3, TabTypes, HandlerTypes, FileTypes, CommandTypes, EndTypes DEF Process
<1> QED  BY <1>1, <1>2, <1>3 DEF Next

-----------------------------------------------------------------------------
(* Stages, torn files, and who is alone.                                   *)

LEMMA InitStages == Init => StageInv /\ TornInv /\ AloneInv /\ LoneInv
  BY DEF Init, StageInv, TornInv, AloneInv, LoneInv, Alone, Running, Giving

LEMMA TabStages ==
  ASSUME TypeOK, StageInv, NEW c \in Tabs,
         Ask(c) \/ GiveUp(c) \/ CloseTab(c) \/ Spawn(c) \/ Answer(c) \/ EndOfStream(c)
  PROVE  StageInv'
<1>1. CASE Ask(c) \/ GiveUp(c) \/ CloseTab(c)
  BY <1>1 DEF Ask, GiveUp, CloseTab, StageInv, Running, runVars, dumpVars, history
<1>2. CASE Spawn(c)
  <2>1. /\ at' = [at EXCEPT ![c] = "clearing"] /\ left' = [left EXCEPT ![c] = Repeat]
        /\ Repeat # 0 /\ UNCHANGED <<tdump, buf>>
    BY <1>2, PipelineAssumption DEF Spawn, Goto, dumpVars
  <2>2. \A d \in Tabs : marks'[d] \in {marks[d], marks[d] \cup {"overlapped"}}
    BY <1>2 DEF Spawn
  <2>3. \A d \in Tabs : d \notin Running /\ d # c => marks'[d] = marks[d]
    BY <1>2 DEF Spawn
  <2>4. "failed" \notin marks[c] /\ tdump[c] = 0
    BY <1>2 DEF Spawn, StageInv, Dumping
  <2>5. /\ at'[c] = "clearing" /\ left'[c] # 0 /\ c \in Running'
        /\ \A d \in Tabs : d # c => at'[d] = at[d] /\ left'[d] = left[d]
    BY <2>1 DEF TypeOK, Running
  <2> SUFFICES ASSUME NEW d \in Tabs
               PROVE  /\ at'[d] \in Giving => left'[d] # 0
                      /\ tdump'[d] # 0 => at'[d] \in Dumping
                      /\ tdump'[d] = 0 => buf'[d] = {}
                      /\ d \notin Running' => marks'[d] = {}
                      /\ "failed" \in marks'[d] => at'[d] = "exited"
                      /\ marks'[d] \cap {"late", "lostcmd"} # {} => "hurt" \in marks'[d]
    BY DEF StageInv
  <2>6. CASE d = c
    <3>1. marks[c] = {} /\ buf[c] = {}
      BY <1>2, <2>4 DEF Spawn, StageInv, Running
    <3> QED  BY <2>1, <2>2, <2>4, <2>5, <2>6, <3>1
  <2>7. CASE d # c
    <3>1. d \in Running' <=> d \in Running
      BY <2>5, <2>7 DEF Running
    <3> QED  BY <2>1, <2>2, <2>3, <2>5, <2>7, <3>1 DEF StageInv
  <2> QED  BY <2>6, <2>7
<1>3. CASE Answer(c)
  BY <1>3 DEF Answer, AnswerWith, Goto, StageInv, Running, Giving, Dumping, TypeOK, dumpVars
<1>4. CASE EndOfStream(c)
  BY <1>4 DEF EndOfStream, Goto, StageInv, Running, Giving, Dumping, TypeOK, dumpVars, history
<1> QED  BY <1>1, <1>2, <1>3, <1>4

LEMMA FileStages ==
  ASSUME TypeOK, StageInv, NEW c \in Tabs, RemovePcap(c) \/ StartTcpdump(c) \/ TcpdumpEnds(c)
  PROVE  StageInv'
<1>1. CASE RemovePcap(c)
  BY <1>1 DEF RemovePcap, ClearTo, Goto, StageInv, Running, Giving, Dumping, TypeOK, history
<1>2. CASE StartTcpdump(c)
  <2>1. /\ at[c] = "starting" /\ at' = [at EXCEPT ![c] = "deleting"] /\ UNCHANGED <<left, buf>>
        /\ \A d \in Tabs : d # c => tdump'[d] = tdump[d] /\ marks'[d] = marks[d]
        /\ marks'[c] \in {marks[c], marks[c] \cup {"hurt"}}
    BY <1>2 DEF StartTcpdump, Goto, MarkRun, TypeOK
  <2>2. buf[c] = {}
    BY <2>1 DEF StageInv, Dumping
  <2> QED  BY <2>1, <2>2 DEF StageInv, Running, Giving, Dumping, TypeOK
<1>3. CASE TcpdumpEnds(c)
  BY <1>3 DEF TcpdumpEnds, StageInv, Running, Giving, Dumping, TypeOK, runVars
<1> QED  BY <1>1, <1>2, <1>3

\* What a command, run or lost, does to marks and buffers.
LEMMA RpcEffect ==
  ASSUME TypeOK, NEW c \in Tabs, NEW kind \in {"del", "add", "send"}, Rpc(c, kind)
  PROVE  /\ \A d \in Tabs : d # c => marks'[d] = marks[d]
         /\ marks'[c] \in {marks[c], marks[c] \cup {"hurt", "lostcmd"}}
         /\ \A d \in Tabs : tdump[d] = 0 => buf'[d] = buf[d]
         /\ UNCHANGED <<tdump, pcap, theirs, content, torn, json, req, result>>
<1>1. \A d \in Tabs : d # c => marks'[d] = marks[d]
  BY DEF Rpc, CommandLost, MarkRun, TypeOK
<1>2. marks'[c] \in {marks[c], marks[c] \cup {"hurt", "lostcmd"}}
  BY DEF Rpc, CommandLost, MarkRun, TypeOK
<1>3. \A d \in Tabs : tdump[d] = 0 => buf'[d] = buf[d]
  BY Zenon DEF Rpc, CommandLost, BoardDoes
<1> QED  BY <1>1, <1>2, <1>3 DEF Rpc

LEMMA CommandStages ==
  ASSUME TypeOK, StageInv, NEW c \in Tabs, DeleteVl(c) \/ AddVl(c) \/ SendFrames(c)
  PROVE  StageInv'
<1>1. \E kind \in {"del", "add", "send"} : Rpc(c, kind)
  BY DEF DeleteVl, AddVl, SendFrames
<1>2. /\ \A d \in Tabs : d # c => marks'[d] = marks[d]
      /\ marks'[c] \in {marks[c], marks[c] \cup {"hurt", "lostcmd"}}
      /\ \A d \in Tabs : tdump[d] = 0 => buf'[d] = buf[d]
      /\ UNCHANGED tdump
  BY <1>1, RpcEffect
<1>3. /\ at[c] \in {"deleting", "adding", "sending"}
      /\ at'[c] \in {"adding", "sending", "draining"}
      /\ \A d \in Tabs : d # c => at'[d] = at[d] /\ left'[d] = left[d]
      /\ at'[c] \in Giving => left'[c] # 0
  BY PipelineAssumption DEF DeleteVl, AddVl, SendFrames, Goto, TypeOK, StageInv, Giving
<1> QED  BY <1>2, <1>3 DEF StageInv, Running, Giving, Dumping

LEMMA EndStages ==
  ASSUME TypeOK, StageInv, NEW c \in Tabs, RpcRaises(c) \/ Drain(c) \/ Analyze(c) \/ WriteJson(c)
         \/ OpenFails(c)
  PROVE  StageInv'
<1>1. /\ \A d \in Tabs : d # c => at'[d] = at[d] /\ marks'[d] = marks[d]
      /\ UNCHANGED <<left, tdump, buf>>
  BY DEF RpcRaises, Raise, Drain, DrainWhen, Analyze, WriteJson, OpenFails, Goto, MarkRun, TypeOK, dumpVars, history
<1>2. /\ c \in Running /\ at[c] # "exited" /\ at'[c] \in {"raised", "reading", "writing", "exited"}
      /\ tdump[c] # 0 => at'[c] = "raised"
  BY DEF RpcRaises, Raise, Drain, DrainWhen, Analyze, WriteJson, OpenFails, Goto, TypeOK, Running, StageInv, Dumping
<1>3. \/ marks'[c] = marks[c] \/ marks'[c] = marks[c] \cup {"hurt"}
      \/ /\ marks'[c] \in {marks[c] \cup {"failed"}, marks[c] \cup {"hurt", "failed"}}
         /\ at'[c] = "exited"
  BY DEF RpcRaises, Raise, Drain, DrainWhen, Analyze, WriteJson, OpenFails, Goto, MarkRun, TypeOK, history
<1> QED  BY <1>1, <1>2, <1>3 DEF StageInv, Running, Giving, Dumping

LEMMA LateStages ==
  ASSUME TypeOK, StageInv, CatchUp
  PROVE  StageInv'
<1>1. \A d \in Tabs : marks'[d] = IF d \in Running THEN marks[d] \cup {"hurt", "late"} ELSE marks[d]
  BY Zenon DEF CatchUp, TypeOK
<1>2. \A d \in Tabs : tdump[d] = 0 => buf'[d] = buf[d]
  BY Zenon DEF CatchUp, BoardDoes
<1> QED  BY <1>1, <1>2 DEF CatchUp, StageInv, Running, runVars

LEMMA StepStages ==
  ASSUME TypeOK, StageInv, [Next]_vars
  PROVE  StageInv'
<1>1. CASE UNCHANGED vars
  BY <1>1 DEF vars, tabVars, runVars, dumpVars, boardVars, history, StageInv, Running
<1>2. CASE CatchUp
  BY <1>2, LateStages
<1>3. ASSUME NEW c \in Tabs,
             Ask(c) \/ GiveUp(c) \/ CloseTab(c) \/ Process(c) \/ RpcRaises(c) \/ TcpdumpEnds(c)
               \/ OpenFails(c)
      PROVE  StageInv'
  BY <1>3, TabStages, FileStages, CommandStages, EndStages DEF Process
<1> QED  BY <1>1, <1>2, <1>3 DEF Next

LEMMA StepTorn ==
  ASSUME TypeOK, StageInv, TornInv, [Next]_vars
  PROVE  TornInv'
<1>1. CASE UNCHANGED <<tdump, pcap, torn>>
  BY <1>1 DEF TornInv
<1>2. ASSUME NEW c \in Tabs, RemovePcap(c) \/ TcpdumpEnds(c)
      PROVE  TornInv'
  BY <1>2 DEF RemovePcap, ClearTo, TcpdumpEnds, Free, TornInv
<1>3. ASSUME NEW c \in Tabs, StartTcpdump(c)
      PROVE  TornInv'
  <2>1. tdump[c] = 0
    BY <1>3 DEF StartTcpdump, StageInv, Dumping
  <2>2. \A d \in Tabs : tdump[d] # 0 => tdump'[d] = tdump[d]
    BY <1>3, <2>1 DEF StartTcpdump, TypeOK
  <2>3. \A f \in torn' : f = pcap' \/ f \in torn
    BY <1>3 DEF StartTcpdump
  <2>4. pcap' = pcap \/ pcap = 0
    BY <1>3 DEF StartTcpdump
  <2>5. \A f \in torn : f # 0
    BY DEF TypeOK, Ids
  <2> QED  BY <2>2, <2>3, <2>4, <2>5 DEF TornInv
<1>4. \/ UNCHANGED <<tdump, pcap, torn>>
      \/ \E c \in Tabs : RemovePcap(c) \/ TcpdumpEnds(c) \/ StartTcpdump(c)
  <2>1. CASE UNCHANGED vars
    BY <2>1 DEF vars, dumpVars
  <2>2. CASE CatchUp
    BY <2>2 DEF CatchUp
  <2>3. ASSUME NEW c \in Tabs, Ask(c) \/ GiveUp(c) \/ CloseTab(c) \/ Process(c) \/ RpcRaises(c) \/ TcpdumpEnds(c)
               \/ OpenFails(c)
        PROVE  \/ UNCHANGED <<tdump, pcap, torn>>
               \/ RemovePcap(c) \/ TcpdumpEnds(c) \/ StartTcpdump(c)
    BY <2>3 DEF Ask, GiveUp, CloseTab, Process, Spawn, DeleteVl, AddVl, SendFrames, Rpc, Drain, DrainWhen,
                Analyze, WriteJson, OpenFails, Answer, AnswerWith, EndOfStream, RpcRaises, Raise,
                dumpVars
  <2> QED  BY <2>1, <2>2, <2>3 DEF Next
<1> QED  BY <1>2, <1>3, <1>1, <1>4

-----------------------------------------------------------------------------
(* Steps of a run that is alone.                                           *)

RunInv(c) == FileOf(c) /\ LinkOf(c) /\ FramesOf(c) /\ JsonOf(c) /\ CleanOf(c)

\* While a run is alone, what another tab does is no step of a run.
LEMMA RunChanged ==
  ASSUME AloneInv, LoneInv, NEW c \in Tabs, c \in Running,
         \A d \in Tabs : d # c => at'[d] = at[d] /\ marks'[d] = marks[d],
         Alone(c)' => Alone(c) /\ RunInv(c)'
  PROVE  AloneInv' /\ LoneInv'
<1>1. \A d \in Tabs : d # c => ~Alone(d)
  BY DEF AloneInv
<1>2. \A d \in Tabs : d # c => ~Alone(d)'
  BY <1>1 DEF Alone, Running
<1>3. AloneInv'
  BY <1>2 DEF AloneInv, Alone, Running
<1>4. LoneInv'
  BY <1>2 DEF LoneInv, RunInv
<1> QED  BY <1>3, <1>4

\* And what starts or ends no run and touches nothing of it, keeps its state.
LEMMA RunsUnchanged ==
  ASSUME AloneInv, LoneInv, UNCHANGED <<req, result, dumpVars, json, vl, marks>>,
         \A d \in Tabs : at'[d] = at[d] \/ (d \notin Running /\ d \notin Running')
  PROVE  AloneInv' /\ LoneInv'
<1>1. \A d \in Tabs : d \in Running' <=> d \in Running
  BY DEF Running
<1>2. \A d \in Tabs : Alone(d)' => Alone(d)
  BY <1>1 DEF Alone
<1>3. AloneInv'
  BY <1>1, <1>2 DEF AloneInv
<1>4. ASSUME NEW d \in Tabs, Alone(d)'
      PROVE  (FileOf(d) /\ LinkOf(d) /\ FramesOf(d) /\ JsonOf(d) /\ CleanOf(d))'
  <2>1. Alone(d) /\ at'[d] = at[d]
    BY <1>1, <1>2, <1>4 DEF Alone
  <2>2. FileOf(d) /\ LinkOf(d) /\ FramesOf(d) /\ JsonOf(d) /\ CleanOf(d)
    BY <2>1 DEF LoneInv
  <2> QED  BY <2>1, <2>2 DEF FileOf, LinkOf, FramesOf, JsonOf, CleanOf, Own, Mine, Captured, dumpVars
<1> QED  BY <1>3, <1>4 DEF LoneInv

LEMMA TabLone ==
  ASSUME IInv, NEW c \in Tabs, Ask(c) \/ GiveUp(c) \/ CloseTab(c) \/ EndOfStream(c)
  PROVE  AloneInv' /\ LoneInv'
<1>1. UNCHANGED <<req, result, dumpVars, json, vl, marks>>
  BY DEF Ask, GiveUp, CloseTab, EndOfStream, runVars, boardVars, history
<1>2. \A d \in Tabs : at'[d] = at[d] \/ (d \notin Running /\ d \notin Running')
  BY DEF IInv, TypeOK, Ask, GiveUp, CloseTab, EndOfStream, Goto, Running, runVars
<1> QED  BY <1>1, <1>2, RunsUnchanged DEF IInv

LEMMA SpawnLone ==
  ASSUME IInv, NEW c \in Tabs, Spawn(c)
  PROVE  AloneInv' /\ LoneInv'
<1>1. /\ c \notin Running /\ c \in Running' /\ at'[c] = "clearing"
      /\ \A d \in Tabs : d # c => (d \in Running' <=> d \in Running)
  BY DEF IInv, TypeOK, Spawn, Goto, Running
<1>2. CASE Running # {}
  <2>1. \A d \in Tabs : d \in Running \cup {c} => "overlapped" \in marks'[d]
    BY <1>2 DEF Spawn
  <2>2. \A d \in Tabs : ~Alone(d)'
    BY <1>1, <2>1 DEF Alone
  <2> QED  BY <2>2 DEF AloneInv, LoneInv
<1>3. CASE Running = {}
  <2>1. \A d \in Tabs : Alone(d)' => d = c
    BY <1>1, <1>3 DEF Alone
  <2>2. buf'[c] = {}
    BY <1>1 DEF IInv, StageInv, Dumping, Running, Spawn, dumpVars
  <2>3. RunInv(c)'
    BY <1>1, <2>2 DEF RunInv, FileOf, LinkOf, FramesOf, JsonOf, CleanOf, Own, After, Dumping
  <2> QED  BY <1>1, <1>3, <2>1, <2>3 DEF AloneInv, LoneInv, RunInv
<1> QED  BY <1>2, <1>3

LEMMA AnswerLone ==
  ASSUME IInv, NEW c \in Tabs, Answer(c)
  PROVE  AloneInv' /\ LoneInv'
<1>1. /\ c \in Running /\ c \notin Running'
      /\ \A d \in Tabs : d # c => at'[d] = at[d] /\ marks'[d] = marks[d]
  BY DEF IInv, TypeOK, Answer, AnswerWith, Goto, Running
<1>2. ~Alone(c)'
  BY <1>1 DEF Alone
<1> QED  BY <1>1, <1>2, RunChanged DEF IInv

\* Only tcpdump of a lone run is on.
LEMMA OneDump ==
  ASSUME IInv, NEW c \in Tabs, Alone(c)
  PROVE  RunInv(c) /\ \A d \in Tabs : d # c => tdump[d] = 0
  BY DEF IInv, TypeOK, AloneInv, LoneInv, RunInv

LEMMA RemoveLone ==
  ASSUME IInv, NEW c \in Tabs, RemovePcap(c)
  PROVE  AloneInv' /\ LoneInv'
<1>1. /\ at[c] = "clearing" /\ at'[c] = "starting" /\ pcap' = 0 /\ c \in Running
      /\ \A d \in Tabs : d # c => at'[d] = at[d] /\ marks'[d] = marks[d]
      /\ UNCHANGED <<buf, marks>>
  BY DEF IInv, TypeOK, RemovePcap, ClearTo, Goto, Running, history
<1>2. buf[c] = {}
  BY <1>1 DEF IInv, StageInv, Dumping
<1>3. RunInv(c)'
  BY <1>1, <1>2 DEF RunInv, FileOf, LinkOf, FramesOf, JsonOf, CleanOf, Own, After, Dumping
<1>4. Alone(c)' => Alone(c)
  BY <1>1 DEF Alone
<1> QED  BY <1>1, <1>3, <1>4, RunChanged DEF IInv

LEMMA StartLone ==
  ASSUME IInv, NEW c \in Tabs, StartTcpdump(c)
  PROVE  AloneInv' /\ LoneInv'
<1>1. /\ at[c] = "starting" /\ at'[c] = "deleting" /\ c \in Running
      /\ \A d \in Tabs : d # c => at'[d] = at[d] /\ marks'[d] = marks[d]
      /\ UNCHANGED <<buf, req, theirs>>
  BY DEF IInv, TypeOK, StartTcpdump, Goto, MarkRun, Running
<1>2. buf[c] = {} /\ tdump[c] = 0
  BY <1>1 DEF IInv, StageInv, Dumping
<1>3. Alone(c)' => Alone(c)
  BY <1>1 DEF StartTcpdump, Alone, MarkRun, IInv, TypeOK
<1>4. ASSUME Alone(c)
      PROVE  RunInv(c)'
  <2>1. pcap = 0 /\ \A d \in Tabs : tdump[d] = 0
    BY <1>1, <1>2, <1>4, OneDump DEF RunInv, FileOf
  <2>2. torn = {}
    BY <2>1 DEF IInv, TornInv, TypeOK, Ids
  <2>3. req[c] \in Ids
    BY <1>1, RunType DEF IInv
  <2>4. CASE /\ pcap' = req[c] /\ tdump' = [tdump EXCEPT ![c] = req[c]]
             /\ content' = [content EXCEPT ![req[c]] = {}] /\ torn' = {}
    <3>1. (theirs = 0 => Captured' = {}) /\ tdump'[c] = req[c]
      BY <1>1, <2>3, <2>4 DEF Captured, IInv, TypeOK
    <3> QED  BY <1>1, <1>2, <2>4, <3>1
             DEF RunInv, FileOf, LinkOf, FramesOf, JsonOf, CleanOf, Own, After, Dumping
  <2>5. CASE MarkRun(c, {"hurt"}) /\ UNCHANGED <<tdump, pcap, content, torn>>
    <3>1. (theirs = 0 => Captured' = {}) /\ "hurt" \in marks'[c]
      BY <1>1, <2>1, <2>5 DEF Captured, MarkRun, IInv, TypeOK
    <3> QED  BY <1>1, <1>2, <2>1, <2>2, <2>5, <3>1
             DEF RunInv, FileOf, LinkOf, FramesOf, JsonOf, CleanOf, Own, After, Dumping
  <2>6. req[c] # 0
    BY <2>3, PipelineAssumption DEF Ids
  <2>7. \A d \in Tabs : tdump[d] # req[c]
    BY <2>1, <2>6
  <2> QED  BY <1>4, <2>1, <2>2, <2>4, <2>5, <2>7 DEF StartTcpdump
<1> QED  BY <1>1, <1>3, <1>4, RunChanged DEF IInv

LEMMA EndsLone ==
  ASSUME IInv, NEW c \in Tabs, TcpdumpEnds(c)
  PROVE  AloneInv' /\ LoneInv'
<1>1. /\ tdump[c] # 0 /\ at[c] \in Dumping /\ at' = at /\ c \in Running
      /\ \A d \in Tabs : d # c => marks'[d] = marks[d]
      /\ marks'[c] \in {marks[c], marks[c] \cup {"hurt"}}
      /\ at[c] \in {"deleting", "adding", "sending"} => "hurt" \in marks'[c]
  BY DEF IInv, StageInv, TypeOK, TcpdumpEnds, runVars
<1>2. /\ tdump' = [tdump EXCEPT ![c] = 0] /\ buf' = [buf EXCEPT ![c] = {}]
      /\ UNCHANGED <<req, result, pcap, theirs, json, vl>>
      /\ content' = Sweep([content EXCEPT ![tdump[c]] = @ \cup buf[c]])
      /\ torn' \subseteq torn
  BY DEF TcpdumpEnds, runVars, boardVars
<1>3. Alone(c)' => Alone(c)
  BY <1>1 DEF Alone, Running
<1>4. ASSUME Alone(c)
      PROVE  RunInv(c)'
  <2>1. RunInv(c) /\ at[c] \in After
    BY <1>1, <1>4, OneDump DEF After
  <2>2. pcap = req[c] /\ tdump[c] = pcap /\ pcap # 0 /\ torn = {} /\ pcap \in Ids
    BY <1>1, <2>1 DEF RunInv, FileOf, IInv, TypeOK, Ids
  <2>3. content'[pcap] = content[pcap] \cup buf[c]
    BY <1>2, <2>2 DEF Sweep, Free, IInv, TypeOK
  <2>4. theirs = 0 => Captured' = Captured \cup buf[c]
    BY <1>2, <2>2, <2>3 DEF Captured
  <2>5. tdump'[c] = 0 /\ buf'[c] = {}
    BY <1>2 DEF IInv, TypeOK
  <2>6. FileOf(c)' /\ LinkOf(c)' /\ JsonOf(c)'
    BY <1>1, <1>2, <2>1, <2>2, <2>5 DEF RunInv, FileOf, LinkOf, JsonOf, Dumping
  <2>7. FramesOf(c)'
    BY <1>1, <1>2, <2>1, <2>4, <2>5 DEF RunInv, FramesOf, Own, Dumping
  <2>8. CleanOf(c)'
    BY <1>1, <1>2, <2>1, <2>2, <2>3, <2>5 DEF RunInv, CleanOf, Mine, Dumping
  <2> QED  BY <2>6, <2>7, <2>8 DEF RunInv
<1> QED  BY <1>1, <1>3, <1>4, RunChanged DEF IInv

\* A command of a lone run that the board runs changes its link and what its
\* own tcpdump sees, if that is on.
LEMMA CommandLone ==
  ASSUME IInv, NEW c \in Tabs, DeleteVl(c) \/ AddVl(c) \/ SendFrames(c)
  PROVE  AloneInv' /\ LoneInv'
<1> DEFINE kind == CASE at[c] = "deleting" -> "del" [] at[c] = "adding" -> "add" [] OTHER -> "send"
<1>1. /\ Rpc(c, kind) /\ kind \in {"del", "add", "send"}
      /\ at[c] \in {"deleting", "adding", "sending"} /\ c \in Running
      /\ at'[c] \in CASE at[c] = "deleting" -> {"adding"} [] at[c] = "adding" -> {"sending"}
                      [] OTHER -> {"sending", "draining"}
      /\ \A d \in Tabs : d # c => at'[d] = at[d]
  BY DEF DeleteVl, AddVl, SendFrames, Goto, IInv, TypeOK, Running
<1>2. /\ \A d \in Tabs : d # c => marks'[d] = marks[d]
      /\ marks'[c] \in {marks[c], marks[c] \cup {"hurt", "lostcmd"}}
      /\ UNCHANGED <<tdump, pcap, theirs, content, torn, json, req, result>>
  BY <1>1, RpcEffect DEF IInv
<1>3. Alone(c)' => Alone(c)
  BY <1>1, <1>2 DEF Alone
<1>4. ASSUME Alone(c)
      PROVE  RunInv(c)'
  <2>1. RunInv(c) /\ at[c] \in After /\ at'[c] \in After /\ Captured' = Captured
    BY <1>1, <1>2, <1>4, OneDump DEF After, Dumping, Captured
  <2>2. FileOf(c)' /\ JsonOf(c)'
    BY <1>1, <1>2, <2>1 DEF RunInv, FileOf, JsonOf
  <2>3. CASE shell = <<>> /\ BoardDoes(kind, req[c]) /\ UNCHANGED <<shell, marks, faults>>
    <3>1. vl' = CASE kind = "del" -> 0 [] kind = "add" /\ vl = 0 -> BagOf[req[c]] [] OTHER -> vl
      BY <2>3 DEF BoardDoes
    <3>2. LinkOf(c)'
      BY <1>1, <1>2, <2>1, <2>3, <3>1 DEF RunInv, LinkOf
    <3>3. buf'[c] = IF kind = "send" /\ vl # 0 /\ tdump[c] # 0
                    THEN buf[c] \cup {[run |-> req[c], bag |-> vl]} ELSE buf[c]
      BY <2>3 DEF BoardDoes
    <3>4. kind = "send" /\ marks[c] \cap {"late", "lostcmd"} = {} => vl = BagOf[req[c]]
      BY <1>1, <2>1 DEF RunInv, LinkOf
    <3>5. "late" \notin marks[c] /\ theirs = 0 => Own(c, buf'[c])
      BY <2>1, <3>3, <3>4 DEF RunInv, FramesOf, Own
    <3>6. FramesOf(c)'
      BY <1>1, <1>2, <2>1, <2>3, <3>5 DEF RunInv, FramesOf, Own
    <3>7. ASSUME "hurt" \notin marks[c]
          PROVE  CleanOf(c)'
      <4>1. tdump[c] = req[c] /\ marks[c] \cap {"late", "lostcmd"} = {}
        BY <1>1, <2>1, <3>7 DEF RunInv, CleanOf, IInv, StageInv
      <4>2. req[c] \in Ids /\ BagOf[req[c]] # 0
        BY <1>1, RunType, BagType DEF IInv
      <4>3. req[c] # 0 /\ pcap = req[c]
        BY <2>1, <4>1, <4>2 DEF RunInv, FileOf, Ids
      <4>4. kind = "send" => Mine(c) \in buf'[c]
        BY <3>3, <3>4, <4>1, <4>2, <4>3 DEF Mine
      <4>5. at'[c] \in {"draining", "reading"} => kind = "send"
        BY <1>1
      <4> QED  BY <1>1, <1>2, <4>1, <4>3, <4>4, <4>5 DEF CleanOf, Mine
    <3>8. "hurt" \in marks[c] => CleanOf(c)'
      BY <2>3 DEF CleanOf
    <3> QED  BY <2>2, <3>2, <3>6, <3>7, <3>8 DEF RunInv
  <2>4. CASE CommandLost(c, kind)
    <3>1. {"hurt", "lostcmd"} \subseteq marks'[c] /\ UNCHANGED buf
      BY <2>4 DEF CommandLost, MarkRun, IInv, TypeOK
    <3>2. marks'[c] = marks[c] \cup {"hurt", "lostcmd"}
      BY <1>2, <3>1
    <3>3. LinkOf(c)' /\ CleanOf(c)'
      BY <3>1 DEF LinkOf, CleanOf
    <3>4. FramesOf(c)'
      BY <1>1, <1>2, <2>1, <3>1, <3>2 DEF RunInv, FramesOf, Own
    <3> QED  BY <2>2, <3>3, <3>4 DEF RunInv
  <2> QED  BY <1>1, <2>3, <2>4 DEF Rpc
<1> QED  BY <1>1, <1>2, <1>3, <1>4, RunChanged DEF IInv

LEMMA RaisesLone ==
  ASSUME IInv, NEW c \in Tabs, RpcRaises(c)
  PROVE  AloneInv' /\ LoneInv'
<1>1. /\ at[c] \in Dumping /\ at'[c] = "raised" /\ c \in Running
      /\ marks'[c] = marks[c] \cup {"hurt"}
      /\ \A d \in Tabs : d # c => at'[d] = at[d] /\ marks'[d] = marks[d]
      /\ UNCHANGED <<req, result, dumpVars, json, vl>>
  BY DEF RpcRaises, Raise, Goto, MarkRun, Dumping, Running, IInv, TypeOK
<1>2. Alone(c)' => Alone(c)
  BY <1>1 DEF Alone
<1>3. ASSUME Alone(c)
      PROVE  RunInv(c)'
  <2>1. RunInv(c)
    BY <1>3, OneDump
  <2> QED  BY <1>1, <2>1 DEF RunInv, FileOf, LinkOf, FramesOf, JsonOf, CleanOf, Own, Captured,
                             After, Dumping, dumpVars
<1> QED  BY <1>1, <1>2, <1>3, RunChanged DEF IInv

LEMMA DrainLone ==
  ASSUME IInv, NEW c \in Tabs, Drain(c)
  PROVE  AloneInv' /\ LoneInv'
<1>1. /\ tdump[c] = 0 /\ c \in Running
      /\ \/ at[c] = "draining" /\ at'[c] = "reading" /\ marks'[c] = marks[c]
         \/ at[c] = "raised" /\ at'[c] = "exited" /\ marks'[c] = marks[c] \cup {"failed"}
      /\ \A d \in Tabs : d # c => at'[d] = at[d] /\ marks'[d] = marks[d]
      /\ UNCHANGED <<req, result, dumpVars, json, vl>>
  BY DEF Drain, DrainWhen, Goto, MarkRun, Running, IInv, TypeOK, boardVars
<1>2. Alone(c)' => Alone(c)
  BY <1>1 DEF Alone
<1>3. ASSUME Alone(c)
      PROVE  RunInv(c)'
  <2>1. RunInv(c)
    BY <1>3, OneDump
  <2>2. FileOf(c)' /\ LinkOf(c)' /\ FramesOf(c)' /\ JsonOf(c)'
    BY <1>1, <2>1 DEF RunInv, FileOf, LinkOf, FramesOf, JsonOf, Own, Captured, After, Dumping, dumpVars
  <2>3. CleanOf(c)'
    BY <1>1, <2>1 DEF RunInv, CleanOf, Mine, dumpVars
  <2> QED  BY <2>2, <2>3 DEF RunInv
<1> QED  BY <1>1, <1>2, <1>3, RunChanged DEF IInv

LEMMA AnalyzeLone ==
  ASSUME IInv, NEW c \in Tabs, Analyze(c)
  PROVE  AloneInv' /\ LoneInv'
<1>1. /\ at[c] = "reading" /\ c \in Running
      /\ at'[c] \in {"writing", "exited"} /\ marks'[c] \in {marks[c], marks[c] \cup {"failed"}}
      /\ \A d \in Tabs : d # c => at'[d] = at[d] /\ marks'[d] = marks[d]
      /\ UNCHANGED <<req, dumpVars, vl>>
  BY DEF Analyze, Goto, MarkRun, Running, IInv, TypeOK, boardVars
<1>2. Alone(c)' => Alone(c)
  BY <1>1 DEF Alone
<1>3. ASSUME Alone(c)
      PROVE  RunInv(c)'
  <2>1. RunInv(c) /\ Captured' = Captured
    BY <1>1, <1>3, OneDump DEF Captured, dumpVars
  <2>2. tdump[c] = 0 /\ "failed" \notin marks[c]
    BY <1>1 DEF IInv, StageInv, Dumping
  <2>3. req[c] \in Ids /\ pcap \notin torn
    BY <1>1, <2>1, RunType DEF RunInv, FileOf, After, IInv
  <2>4. FileOf(c)' /\ LinkOf(c)'
    BY <1>1, <2>1 DEF RunInv, FileOf, LinkOf, After, dumpVars
  <2>5. "hurt" \notin marks[c] => Mine(c) \in Captured
    BY <1>1, <2>1, <2>2, <2>3 DEF RunInv, CleanOf, Captured, Ids, IInv, TypeOK
  <2>6. CASE /\ Usable(BagOf[req[c]], Captured) /\ result' = [result EXCEPT ![c] = Captured]
             /\ json' = [by |-> req[c], whole |-> "no", frames |-> {}]
             /\ at'[c] = "writing" /\ marks' = marks
    <3>1. result'[c] = Captured
      BY <2>6 DEF IInv, TypeOK
    <3>2. FramesOf(c)' /\ JsonOf(c)'
      BY <1>1, <2>1, <2>6, <3>1 DEF RunInv, FramesOf, JsonOf, Own, After, dumpVars
    <3>3. CleanOf(c)'
      BY <2>5, <2>6, <3>1 DEF CleanOf
    <3> QED  BY <2>4, <3>2, <3>3 DEF RunInv
  <2>7. CASE /\ ~Usable(BagOf[req[c]], Captured) /\ at'[c] = "exited"
             /\ marks'[c] = marks[c] \cup {"failed"} /\ UNCHANGED <<result, json>>
    <3>1. "hurt" \in marks[c]
      <4>1. Mine(c) \in Captured => Usable(BagOf[req[c]], Captured)
        BY <2>3, BagType DEF Usable, Mine
      <4> QED  BY <2>5, <2>7, <4>1
    <3>2. FramesOf(c)' /\ JsonOf(c)' /\ CleanOf(c)'
      BY <1>1, <2>1, <2>7, <3>1 DEF RunInv, FramesOf, JsonOf, CleanOf, Own, After, dumpVars
    <3> QED  BY <2>4, <3>2 DEF RunInv
  <2> QED  BY <2>3, <2>6, <2>7 DEF Analyze, Goto, MarkRun, IInv, TypeOK
<1> QED  BY <1>1, <1>2, <1>3, RunChanged DEF IInv

LEMMA OpenLone ==
  ASSUME IInv, NEW c \in Tabs, OpenFails(c)
  PROVE  AloneInv' /\ LoneInv'
<1>1. /\ at[c] \in {"starting", "reading"} /\ at'[c] = "exited" /\ c \in Running
      /\ marks'[c] = marks[c] \cup {"hurt", "failed"}
      /\ \A d \in Tabs : d # c => at'[d] = at[d] /\ marks'[d] = marks[d]
      /\ UNCHANGED <<req, result, dumpVars, json, vl>>
  BY DEF OpenFails, Goto, MarkRun, Running, IInv, TypeOK, boardVars
<1>2. Alone(c)' => Alone(c)
  BY <1>1 DEF Alone
<1>3. ASSUME Alone(c)
      PROVE  RunInv(c)'
  <2>1. RunInv(c) /\ \A d \in Tabs : d # c => tdump[d] = 0
    BY <1>3, OneDump
  <2>2. \A d \in Tabs : tdump[d] = 0
    BY <1>1, <2>1 DEF IInv, StageInv, Dumping
  <2>3. pcap \in {0, req[c]} /\ torn = {}
    <3>1. CASE at[c] = "starting"
      <4>1. pcap = 0
        BY <2>1, <3>1 DEF RunInv, FileOf
      <4>2. torn = {}
        <5>1. torn \subseteq Ids /\ 0 \notin Ids
          BY DEF IInv, TypeOK, Ids
        <5>2. \A f \in torn : f = 0
          BY <2>2, <4>1, <5>1 DEF IInv, TornInv
        <5> QED  BY <5>1, <5>2
      <4> QED  BY <4>1, <4>2
    <3>2. CASE at[c] = "reading"
      BY <2>1, <3>2 DEF RunInv, FileOf, After
    <3> QED  BY <1>1, <3>1, <3>2
  <2>4. FileOf(c)' /\ LinkOf(c)' /\ JsonOf(c)' /\ CleanOf(c)'
    BY <1>1, <2>2, <2>3 DEF FileOf, LinkOf, JsonOf, CleanOf, dumpVars
  <2>5. "late" \notin marks[c] /\ theirs = 0 => Own(c, Captured)
    <3>1. CASE at[c] = "starting"
      BY <2>1, <3>1 DEF RunInv, FileOf, Captured, Own
    <3>2. CASE at[c] = "reading"
      BY <2>1, <3>2 DEF RunInv, FramesOf, After
    <3> QED  BY <1>1, <3>1, <3>2
  <2>6. FramesOf(c)'
    BY <1>1, <2>1, <2>5 DEF RunInv, FramesOf, Own, Captured, dumpVars
  <2> QED  BY <2>4, <2>6 DEF RunInv
<1> QED  BY <1>1, <1>2, <1>3, RunChanged DEF IInv

LEMMA WriteLone ==
  ASSUME IInv, NEW c \in Tabs, WriteJson(c)
  PROVE  AloneInv' /\ LoneInv'
<1>1. /\ at[c] = "writing" /\ c \in Running /\ at'[c] = "exited" /\ marks' = marks
      /\ \A d \in Tabs : d # c => at'[d] = at[d]
      /\ UNCHANGED <<req, dumpVars, vl>>
  BY DEF WriteJson, Goto, Running, IInv, TypeOK, boardVars, history
<1>2. Alone(c)' => Alone(c)
  BY <1>1 DEF Alone
<1>3. ASSUME Alone(c)
      PROVE  RunInv(c)'
  <2>1. RunInv(c) /\ Captured' = Captured
    BY <1>1, <1>3, OneDump DEF Captured, dumpVars
  <2>2. json' = [by |-> req[c], whole |-> "yes", frames |-> result[c]]
    BY <1>1, <2>1 DEF RunInv, JsonOf, WriteJson
  <2>3. "failed" \notin marks[c]
    BY <1>1 DEF IInv, StageInv
  <2>4. FileOf(c)' /\ LinkOf(c)' /\ JsonOf(c)'
    BY <1>1, <2>1, <2>2 DEF RunInv, FileOf, LinkOf, JsonOf, After, dumpVars
  <2>5. FramesOf(c)' /\ CleanOf(c)'
    BY <1>1, <2>1, <2>2, <2>3 DEF RunInv, FramesOf, CleanOf, Own, After, dumpVars
  <2> QED  BY <2>4, <2>5 DEF RunInv
<1> QED  BY <1>1, <1>2, <1>3, RunChanged DEF IInv

LEMMA LateLone ==
  ASSUME IInv, CatchUp
  PROVE  AloneInv' /\ LoneInv'
<1>1. \A d \in Tabs : marks'[d] = IF d \in Running THEN marks[d] \cup {"hurt", "late"} ELSE marks[d]
  BY Zenon DEF CatchUp
<1>2. UNCHANGED <<at, req, tdump, pcap, theirs, content, torn, json>>
  BY DEF CatchUp, runVars
<1>3. \A d \in Tabs : Alone(d)' => Alone(d) /\ {"hurt", "late"} \subseteq marks'[d]
  BY <1>1, <1>2 DEF Alone, Running
<1>4. AloneInv'
  BY <1>2, <1>3 DEF IInv, AloneInv, Running
<1>5. ASSUME NEW d \in Tabs, Alone(d)'
      PROVE  (FileOf(d) /\ LinkOf(d) /\ FramesOf(d) /\ JsonOf(d) /\ CleanOf(d))'
  <2>1. RunInv(d) /\ {"hurt", "late"} \subseteq marks'[d]
    BY <1>3, <1>5, OneDump
  <2>2. FileOf(d)' /\ JsonOf(d)'
    BY <1>1, <1>2, <2>1 DEF RunInv, FileOf, JsonOf
  <2> QED  BY <2>1, <2>2 DEF LinkOf, FramesOf, CleanOf
<1> QED  BY <1>4, <1>5 DEF LoneInv

LEMMA StepLone ==
  ASSUME IInv, [Next]_vars
  PROVE  AloneInv' /\ LoneInv'
<1>1. CASE UNCHANGED vars
  <2>1. UNCHANGED <<req, result, dumpVars, json, vl, marks, at>>
    BY <1>1 DEF vars, runVars, boardVars, history
  <2> QED  BY <2>1, RunsUnchanged DEF IInv
<1>2. CASE CatchUp
  BY <1>2, LateLone
<1>3. ASSUME NEW c \in Tabs,
             Ask(c) \/ GiveUp(c) \/ CloseTab(c) \/ Process(c) \/ RpcRaises(c) \/ TcpdumpEnds(c)
               \/ OpenFails(c)
      PROVE  AloneInv' /\ LoneInv'
  BY <1>3, TabLone, SpawnLone, AnswerLone, RemoveLone, StartLone, EndsLone, CommandLone,
     RaisesLone, DrainLone, AnalyzeLone, OpenLone, WriteLone DEF Process
<1> QED  BY <1>1, <1>2, <1>3 DEF Next

-----------------------------------------------------------------------------
(* The invariant, and what it implies.                                     *)

LEMMA Inductive == Spec => []IInv
<1>1. Init => IInv
  BY InitTypes, InitStages DEF IInv
<1>2. IInv /\ [Next]_vars => IInv'
  BY StepTypes, StepStages, StepTorn, StepLone DEF IInv
<1> QED  BY <1>1, <1>2, PTL DEF Spec

\* The types of the capture operation's state, for any tabs and requests: a
\* tcpdump that is on belongs to a run, which has a request.
THEOREM PipelineTypes == Spec => []TypeOK
<1>1. IInv => TypeOK
  BY DEF IInv
<1> QED  BY <1>1, Inductive, PTL

\* Whatever files, links and commands earlier runs left, a run of ws_handler's
\* that overlaps no other and writes its JSON file answers with that file, and
\* its frames are its own but for the lost and late commands named and for a
\* capture file that it may neither remove nor write.
THEOREM LoneResults == Spec => []LoneResultIsItsOwn
<1>1. IInv => LoneResultIsItsOwn
  <2>1. ASSUME IInv, NEW c \in Tabs, at[c] = "exited", marks[c] \cap {"overlapped", "failed"} = {}
        PROVE  /\ Loaded.by = req[c]
               /\ "late" \notin marks[c] /\ theirs = 0 => Own(c, Loaded.frames)
    <3>1. Alone(c) /\ "failed" \notin marks[c]
      BY <2>1 DEF Alone, Running
    <3>2. FramesOf(c) /\ JsonOf(c)
      BY <2>1, <3>1, OneDump DEF RunInv
    <3>3. Loaded = json
      BY <2>1, <3>1, <3>2 DEF Loaded, JsonOf
    <3> QED  BY <2>1, <3>1, <3>2, <3>3 DEF FramesOf, JsonOf
  <2> QED  BY <2>1 DEF LoneResultIsItsOwn, Own
<1> QED  BY <1>1, Inductive, PTL

\* And one that besides meets no failure is answered with frames.
THEOREM CleanRuns == Spec => []CleanRunSucceeds
<1>1. IInv => CleanRunSucceeds
  <2>1. ASSUME IInv, NEW c \in Tabs, at[c] = "exited", marks[c] \cap {"overlapped", "hurt"} = {}
        PROVE  Loaded.by = req[c] /\ Loaded.frames # {}
    <3>1. Alone(c) /\ "hurt" \notin marks[c]
      BY <2>1 DEF Alone, Running
    <3>2. CleanOf(c) /\ JsonOf(c)
      BY <2>1, <3>1, OneDump DEF RunInv
    <3> QED  BY <2>1, <3>1, <3>2 DEF CleanOf, JsonOf, Loaded
  <2> QED  BY <2>1 DEF CleanRunSucceeds
<1> QED  BY <1>1, Inductive, PTL
=============================================================================
