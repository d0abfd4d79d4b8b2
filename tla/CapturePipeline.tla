-------------------------- MODULE CapturePipeline ---------------------------
(***************************************************************************)
(* The "capture" operation, end to end: a browser tab (web/kfdx.html) asks *)
(* the bridge; ws_handler of serial_bridge.py spawns capture_jitter.py and *)
(* waits for it; that process starts tcpdump, makes the board send through *)
(* the command RPC, analyses the capture file and writes a JSON file;      *)
(* ws_handler reads the JSON file and answers.  All runs use one capture   *)
(* file and one JSON file, and the board has one virtual link for them.    *)
(*                                                                         *)
(* Each tab has its own coroutine, which serves its requests one by one;   *)
(* the runs of two tabs overlap.  Frames are told apart by the run that    *)
(* sent them and the BAG they were paced with; what a capture shows is     *)
(* module AnomalyDetector's subject.  tcpdump and the board are external.  *)
(***************************************************************************)
EXTENDS Naturals, Sequences

CONSTANTS Tabs,       \* browser tabs, each with its WebSocket
          BagOf,      \* BagOf[r]: the BAG request r asks for
          Repeat,     \* --send commands per run
          MaxRuns,    \* bound: requests
          MaxFaults   \* bound: failures of tcpdump, of a command, of the RPC,
                      \* of opening a file

ASSUME PipelineAssumption ==
  /\ BagOf \in [1..MaxRuns -> Nat \ {0}] /\ Repeat \in Nat \ {0}
  /\ MaxRuns \in Nat /\ MaxFaults \in Nat

VARIABLES
  conn,      \* conn[c]: the WebSocket is "up" or "gone"
  queue,     \* queue[c]: capture requests ws_handler has not read
  waits,     \* waits[c]: the id of the request the tab waits for, or 0
  asked,     \* requests made so far, all tabs together
  at,        \* at[c]: where the capture process of c's coroutine is
  req,       \* req[c]: the request it serves
  left,      \* left[c]: --send commands it has yet to give
  result,    \* result[c]: the frames its analysis is about
  tdump,     \* tdump[c]: the file its tcpdump writes, 0 when it has none; a
             \* file is known by the request that created it
  buf,       \* buf[c]: frames tcpdump has seen; written when it ends
  pcap,      \* the file of ours at the path of --pcap now (0: none)
  theirs,    \* the BAG of the frames in a file there that another user owns,
             \* 0 when there is none: /tmp lets nobody else remove or write it
  content,   \* content[f]: the frames in file f
  torn,      \* files two tcpdumps wrote at a time
  json,      \* the file of --out: [by, whole, frames]
  vl,        \* the BAG of the board's virtual link, 0 when not configured
  shell,     \* commands the board's shell has been given and not run yet,
             \* though the bridge waits for them no more
  marks,     \* history: marks[c]: what befell the run, of "overlapped" (ran
             \* beside another), "hurt" (met a failure, or its tcpdump ended
             \* early), "lostcmd" (a command of it was lost or late), "late"
             \* (a late command ran meanwhile) and "failed" (its process
             \* wrote no JSON file)
  faults     \* counter for the bound

tabVars == <<conn, queue, waits, asked>>
runVars == <<at, req, left, result>>
dumpVars == <<tdump, buf, pcap, theirs, content, torn>>
boardVars == <<vl, shell>>
history == <<marks, faults>>
vars == <<tabVars, runVars, dumpVars, json, boardVars, history>>

Ids == 1..MaxRuns
Bags == {BagOf[r] : r \in Ids}
\* Run 0 is what the other user captured.
Frame == [run : 0..MaxRuns, bag : Bags]
Json == [by : 0..MaxRuns, whole : {"yes", "no"}, frames : SUBSET Frame]
NoJson == [by |-> 0, whole |-> "no", frames |-> {}]
Mark == {"overlapped", "hurt", "lostcmd", "late", "failed"}
Command == {"del", "add", "send"} \X Ids
Stage == {"idle", "clearing", "starting", "deleting", "adding", "sending",
          "raised", "draining", "reading", "writing", "exited", "closed"}

Init ==
  /\ conn = [c \in Tabs |-> "up"] /\ queue = [c \in Tabs |-> <<>>]
  /\ waits = [c \in Tabs |-> 0] /\ asked = 0
  /\ at = [c \in Tabs |-> "idle"] /\ req = [c \in Tabs |-> 0]
  /\ left = [c \in Tabs |-> 0] /\ result = [c \in Tabs |-> {}]
  /\ tdump = [c \in Tabs |-> 0] /\ buf = [c \in Tabs |-> {}]
  /\ pcap = 0 /\ content = [f \in Ids |-> {}] /\ torn = {}
  /\ theirs \in Bags \cup {0}
  /\ json = NoJson /\ vl = 0 /\ shell = <<>>
  /\ marks = [c \in Tabs |-> {}] /\ faults = 0

-----------------------------------------------------------------------------
(* The browser tab.                                                        *)

\* The button is disabled while an answer is awaited.
Ask(c) ==
  /\ conn[c] = "up" /\ waits[c] = 0 /\ asked < MaxRuns
  /\ asked' = asked + 1
  /\ waits' = [waits EXCEPT ![c] = asked + 1]
  /\ queue' = [queue EXCEPT ![c] = Append(@, asked + 1)]
  /\ UNCHANGED <<conn, runVars, dumpVars, json, boardVars, history>>

\* After 60 s the tab forgets the request; the run goes on.
GiveUp(c) ==
  /\ conn[c] = "up" /\ waits[c] # 0
  /\ waits' = [waits EXCEPT ![c] = 0]
  /\ UNCHANGED <<conn, queue, asked, runVars, dumpVars, json, boardVars, history>>

CloseTab(c) ==
  /\ conn[c] = "up"
  /\ conn' = [conn EXCEPT ![c] = "gone"]
  /\ waits' = [waits EXCEPT ![c] = 0]
  /\ UNCHANGED <<queue, asked, runVars, dumpVars, json, boardVars, history>>

-----------------------------------------------------------------------------
(* ws_handler around the process.                                          *)

Goto(c, stage) == at' = [at EXCEPT ![c] = stage]
Running == {c \in Tabs : at[c] \notin {"idle", "closed"}}
MarkRun(c, m) == marks' = [marks EXCEPT ![c] = @ \cup m]

Spawn(c) ==
  /\ at[c] = "idle" /\ queue[c] # <<>>
  /\ queue' = [queue EXCEPT ![c] = Tail(@)]
  /\ req' = [req EXCEPT ![c] = Head(queue[c])]
  /\ left' = [left EXCEPT ![c] = Repeat]
  /\ Goto(c, "clearing")
  /\ marks' = [d \in Tabs |->
                 IF Running # {} /\ d \in Running \cup {c}
                 THEN marks[d] \cup {"overlapped"} ELSE marks[d]]
  /\ UNCHANGED <<conn, waits, asked, result, dumpVars, json, boardVars, faults>>

\* After the process has exited, whatever its exit code, the JSON file is
\* loaded and answered with; one that cannot be makes an error answer.  On a
\* closed WebSocket the answer raises and the coroutine ends.
Loaded == IF json.whole = "yes" THEN json ELSE NoJson
AnswerWith(c, answered) ==
  /\ at[c] = "exited"
  /\ IF conn[c] = "up"
     THEN /\ waits' = [waits EXCEPT ![c] = IF @ = answered THEN 0 ELSE @]
          /\ Goto(c, "idle") /\ UNCHANGED queue
     ELSE /\ Goto(c, "closed") /\ queue' = [queue EXCEPT ![c] = <<>>]
          /\ UNCHANGED waits
  /\ req' = [req EXCEPT ![c] = 0]
  /\ left' = [left EXCEPT ![c] = 0]
  /\ marks' = [marks EXCEPT ![c] = {}]
  /\ UNCHANGED <<conn, asked, result, dumpVars, json, boardVars, faults>>

\* Mutant: there is no answer without data.
AnswerOnlyData(c) == AnswerWith(c, IF Loaded = NoJson THEN 0 ELSE req[c])
Answer(c) == AnswerWith(c, req[c])

\* The stream of a closed tab ends between two requests.
EndOfStream(c) ==
  /\ at[c] = "idle" /\ queue[c] = <<>> /\ conn[c] = "gone"
  /\ Goto(c, "closed")
  /\ UNCHANGED <<tabVars, req, left, result, dumpVars, json, boardVars, history>>

-----------------------------------------------------------------------------
(* capture_jitter.py.                                                      *)

\* A file that has no name and no writer left is gone.
Free(f) == f # pcap' /\ \A d \in Tabs : tdump'[d] # f
Sweep(files) == [f \in Ids |-> IF Free(f) THEN {} ELSE files[f]]

\* A file that cannot be removed stays, and nothing notices.
ClearTo(c, file) ==
  /\ at[c] = "clearing"
  /\ pcap' = file /\ Goto(c, "starting") /\ UNCHANGED tdump
  /\ content' = Sweep(content) /\ torn' = {f \in torn : ~Free(f)}
  /\ UNCHANGED <<tabVars, req, left, result, buf, theirs, json, boardVars, history>>

\* Mutant: the file of the run before stays.
RemoveNothing(c) == ClearTo(c, pcap)
RemovePcap(c) == ClearTo(c, 0)

\* tcpdump opens the file, truncating one that is there; when it cannot run or
\* may not write the file, nothing notices until the file is read.
StartTcpdump(c) ==
  /\ at[c] = "starting" /\ Goto(c, "deleting")
  /\ \/ LET f == IF pcap = 0 THEN req[c] ELSE pcap
        IN /\ theirs = 0
           /\ pcap' = f
           /\ tdump' = [tdump EXCEPT ![c] = f]
           /\ content' = [content EXCEPT ![f] = {}]
           /\ torn' = IF \E d \in Tabs : tdump[d] = f THEN torn \cup {f} ELSE torn
           /\ UNCHANGED <<marks, faults>>
     \/ /\ \/ theirs # 0 /\ UNCHANGED faults
           \/ theirs = 0 /\ faults < MaxFaults /\ faults' = faults + 1
        /\ MarkRun(c, {"hurt"})
        /\ UNCHANGED <<tdump, pcap, content, torn>>
  /\ UNCHANGED <<tabVars, req, left, result, buf, theirs, json, boardVars>>

\* The log file of tcpdump, or the JSON file, cannot be opened: the process
\* ends with an exception.
OpenFails(c) ==
  /\ at[c] \in {"starting", "reading"} /\ faults < MaxFaults
  /\ faults' = faults + 1 /\ Goto(c, "exited") /\ MarkRun(c, {"hurt", "failed"})
  /\ UNCHANGED <<tabVars, req, left, result, dumpVars, json, boardVars>>

\* What the board does when its shell runs a command: it refuses to add a
\* virtual link that is there, and every tcpdump that is on sees the frames of
\* a send, paced as the link is configured.
BoardDoes(kind, r) ==
  /\ vl' = CASE kind = "del" -> 0
             [] kind = "add" /\ vl = 0 -> BagOf[r]
             [] OTHER -> vl
  /\ buf' = [d \in Tabs |->
               IF kind = "send" /\ vl # 0 /\ tdump[d] # 0
               THEN buf[d] \cup {[run |-> r, bag |-> vl]} ELSE buf[d]]

\* A command that is lost, or run only after its time limit: _rpc does not look
\* at "ok", so board_seq goes on as if it had been run.
CommandLost(c, kind) ==
  /\ faults < MaxFaults /\ faults' = faults + 1
  /\ MarkRun(c, {"hurt", "lostcmd"})
  /\ shell' \in {shell, Append(shell, <<kind, req[c]>>)}
  /\ UNCHANGED <<vl, buf>>

\* The shell runs commands in their order.
Rpc(c, kind) ==
  /\ \/ /\ shell = <<>> /\ BoardDoes(kind, req[c])
        /\ UNCHANGED <<shell, marks, faults>>
     \/ CommandLost(c, kind)
  /\ UNCHANGED <<tabVars, req, result, tdump, pcap, theirs, content, torn, json>>

DeleteVl(c) ==
  /\ at[c] = "deleting" /\ Goto(c, "adding")
  /\ Rpc(c, "del") /\ UNCHANGED left

AddVl(c) ==
  /\ at[c] = "adding" /\ Goto(c, "sending")
  /\ Rpc(c, "add") /\ UNCHANGED left

SendFrames(c) ==
  /\ at[c] = "sending"
  /\ left' = [left EXCEPT ![c] = @ - 1]
  /\ Goto(c, IF left[c] = 1 THEN "draining" ELSE "sending")
  /\ Rpc(c, "send")

\* A board that was slow runs what it was given.
CatchUp ==
  /\ shell # <<>> /\ shell' = Tail(shell)
  /\ BoardDoes(Head(shell)[1], Head(shell)[2])
  /\ marks' = [d \in Tabs |->
                 IF d \in Running THEN marks[d] \cup {"hurt", "late"} ELSE marks[d]]
  /\ UNCHANGED <<tabVars, runVars, tdump, pcap, theirs, content, torn, json, faults>>

\* No cmdresult in time (the command may wait for the bridge's lock and be run
\* later), or the bridge hangs up: the exception leaves board_seq, tcpdump is
\* waited for and nothing is analysed.
Given(c) ==
  <<CASE at[c] = "deleting" -> "del" [] at[c] = "adding" -> "add" [] OTHER -> "send",
    req[c]>>
Raise(c, next) ==
  /\ at[c] \in {"deleting", "adding", "sending"} /\ faults < MaxFaults
  /\ faults' = faults + 1 /\ Goto(c, next)
  /\ shell' \in {shell, Append(shell, Given(c))}
  /\ UNCHANGED <<tabVars, req, left, result, dumpVars, json, vl>>
\* Mutant: the process ends without waiting for tcpdump.
RaiseWithoutFinally(c) == Raise(c, "exited") /\ MarkRun(c, {"hurt", "failed"})
RpcRaises(c) == Raise(c, "raised") /\ MarkRun(c, {"hurt"})

\* "timeout" ends tcpdump after a time computed from --repeat, however far
\* the commands are.
TcpdumpEnds(c) ==
  /\ tdump[c] # 0
  /\ tdump' = [tdump EXCEPT ![c] = 0]
  /\ buf' = [buf EXCEPT ![c] = {}]
  /\ UNCHANGED <<pcap, theirs>>
  /\ content' = Sweep([content EXCEPT ![tdump[c]] = @ \cup buf[c]])
  /\ torn' = {f \in torn : ~Free(f)}
  /\ marks' = IF at[c] \in {"deleting", "adding", "sending"}
              THEN [marks EXCEPT ![c] = @ \cup {"hurt"}] ELSE marks
  /\ UNCHANGED <<tabVars, runVars, json, boardVars, faults>>

\* td.wait(), in the finally clause.
DrainWhen(c, ended) ==
  /\ ended
  /\ \/ at[c] = "draining" /\ Goto(c, "reading") /\ UNCHANGED marks
     \/ at[c] = "raised" /\ Goto(c, "exited") /\ MarkRun(c, {"failed"})
  /\ UNCHANGED <<tabVars, req, left, result, dumpVars, json, boardVars, faults>>

\* Mutant: the capture file is read while tcpdump writes it.
DrainAtOnce(c) == DrainWhen(c, TRUE)
Drain(c) == DrainWhen(c, tdump[c] = 0)

Captured ==
  IF theirs # 0 THEN {[run |-> 0, bag |-> theirs]}
  ELSE IF pcap = 0 THEN {} ELSE content[pcap]
\* An interval counts when it is near the BAG asked for; without any the
\* median raises.
Usable(b, frames) == \E f \in frames : 3 * b < 10 * f.bag /\ 10 * f.bag < 17 * b

\* analyze(): without a file, frames or usable intervals no JSON is written; a
\* torn file may be unreadable.  Otherwise the JSON file is opened, and with
\* that emptied.
Analyze(c) ==
  /\ at[c] = "reading"
  /\ \/ /\ Usable(BagOf[req[c]], Captured)
        /\ result' = [result EXCEPT ![c] = Captured]
        /\ json' = [by |-> req[c], whole |-> "no", frames |-> {}]
        /\ Goto(c, "writing") /\ UNCHANGED marks
     \/ /\ Usable(BagOf[req[c]], Captured) => pcap \in torn
        /\ Goto(c, "exited") /\ MarkRun(c, {"failed"})
        /\ UNCHANGED <<result, json>>
  /\ UNCHANGED <<tabVars, req, left, dumpVars, boardVars, faults>>

\* json.dump into the file; when another run has opened it in between, one
\* text or a mix of both is left.
WriteJson(c) ==
  /\ at[c] = "writing" /\ Goto(c, "exited")
  /\ \/ json' = [by |-> req[c], whole |-> "yes", frames |-> result[c]]
     \/ /\ json.by # req[c]
        /\ json' = [json EXCEPT !.whole = "no", !.frames = {}]
  /\ result' = [result EXCEPT ![c] = {}]
  /\ UNCHANGED <<tabVars, req, left, dumpVars, boardVars, history>>

-----------------------------------------------------------------------------
Process(c) ==
  \/ Spawn(c) \/ RemovePcap(c) \/ StartTcpdump(c) \/ DeleteVl(c) \/ AddVl(c)
  \/ SendFrames(c) \/ Drain(c) \/ Analyze(c) \/ WriteJson(c)
  \/ Answer(c) \/ EndOfStream(c)

Next ==
  \/ \E c \in Tabs :
       \/ Ask(c) \/ GiveUp(c) \/ CloseTab(c)
       \/ Process(c)
       \/ RpcRaises(c) \/ TcpdumpEnds(c) \/ OpenFails(c)
  \/ CatchUp

Spec == Init /\ [][Next]_vars

\* The event loop and the operating system let every process go on, every
\* command is answered within its time limit (SerialBridge), and tcpdump is
\* under "timeout".  A board that stays slow makes command after command run
\* into its limit; as MaxFaults bounds these, it has to catch up.
FairSpec ==
  /\ Spec /\ WF_vars(CatchUp)
  /\ \A c \in Tabs : WF_vars(Process(c)) /\ WF_vars(TcpdumpEnds(c))

-----------------------------------------------------------------------------
\* Type invariant.  A process that runs has a request, and a tcpdump that is
\* on belongs to one.
TypeOK ==
  /\ conn \in [Tabs -> {"up", "gone"}] /\ queue \in [Tabs -> Seq(Ids)]
  /\ waits \in [Tabs -> 0..MaxRuns] /\ asked \in 0..MaxRuns
  /\ at \in [Tabs -> Stage] /\ req \in [Tabs -> 0..MaxRuns]
  /\ \A c \in Tabs : c \in Running <=> req[c] # 0
  /\ left \in [Tabs -> 0..Repeat] /\ result \in [Tabs -> SUBSET Frame]
  /\ tdump \in [Tabs -> 0..MaxRuns] /\ \A c \in Tabs : tdump[c] # 0 => c \in Running
  /\ buf \in [Tabs -> SUBSET Frame] /\ pcap \in 0..MaxRuns
  /\ theirs \in Bags \cup {0} /\ (theirs # 0 => pcap = 0)
  /\ content \in [Ids -> SUBSET Frame] /\ torn \subseteq Ids
  /\ json \in Json /\ vl \in Bags \cup {0} /\ shell \in Seq(Command)
  /\ marks \in [Tabs -> SUBSET Mark] /\ faults \in 0..MaxFaults

\* Whatever stale files and links earlier or broken runs left behind, a run
\* that overlaps no other and writes its JSON file is answered with an analysis
\* of its own; of its own frames only, unless a late command ran meanwhile or
\* another user's file is where it captures to; and of its own pacing, when none
\* of its commands was lost either.
LoneResultIsItsOwn ==
  \A c \in Tabs : at[c] = "exited" /\ marks[c] \cap {"overlapped", "failed"} = {} =>
    /\ Loaded.by = req[c]
    /\ "late" \notin marks[c] /\ theirs = 0 =>
         \A f \in Loaded.frames :
           /\ f.run = req[c]
           /\ "lostcmd" \notin marks[c] => f.bag = BagOf[req[c]]

\* And a run that overlaps no other and meets no failure is answered with
\* frames.
CleanRunSucceeds ==
  \A c \in Tabs : at[c] = "exited" /\ marks[c] \cap {"overlapped", "hurt"} = {} =>
    Loaded.by = req[c] /\ Loaded.frames # {}

\* Every request is answered, unless the tab gives up or is closed, whatever
\* became of the run and of the other tab.
EveryCaptureAnswered ==
  \A c \in Tabs : waits[c] # 0 ~> waits[c] = 0

-----------------------------------------------------------------------------
(* What the repository says of the program and the code does not keep.     *)

\* web/kfdx.html: a capture makes the board send, captures and then computes
\* the measured jitter; what is shown is that run's.
AnswerIsThisRuns ==
  \A c \in Tabs : at[c] = "exited" => Loaded.by \in {0, req[c]}
=============================================================================
