------------------------------ MODULE BoardSend ------------------------------
(***************************************************************************)
(* board_send.py, which types shell lines at the board over a serial port  *)
(* of its own: "burst" (what POST /send of d10_proxy.py starts, and kills  *)
(* after 40 s), "start" and "stop".  Runs may overlap: the proxy is        *)
(* threaded, the port is not opened exclusively, and what one run reads    *)
(* another does not get.                                                   *)
(*                                                                         *)
(* A run types a line, waits a fixed time, and takes whatever has arrived: *)
(* the echo of lines, their output, prompts.  The board is external.  Its  *)
(* driver may be up, gone ("open error") or broken ("ioctl error"), and    *)
(* its virtual link 1 set or not; asking for a link that is not set prints *)
(* nothing or hangs the board (BUGS.md, B16), and loading the driver anew  *)
(* forgets the links (B04).                                                *)
(***************************************************************************)
EXTENDS Naturals, Sequences

CONSTANTS MaxRuns,    \* bound: runs of board_send.py
          Burst,      \* N of "burst N"
          MaxMishaps  \* bound: deaths of the driver, and answers that come
                      \* late from a board not hung

ASSUME BoardAssumption ==
  /\ MaxRuns \in Nat /\ Burst \in Nat \ {0}
  /\ MaxMishaps \in Nat

VARIABLES
  mode,      \* mode[r]: what run r was started for ("none": not yet)
  at,        \* at[r]: the line run r is at
  typed,     \* typed[r]: has it typed that line ("yes") or not
  left,      \* left[r]: --send lines it has yet to type
  outcome,   \* outcome[r]: what the run printed, or what became of it
  rx,        \* what has arrived from the board and nobody has read
  shell,     \* lines the board's shell was given and has not ended
  driver, vl, hung,   \* the board: driver up, gone or broken, link set, hung
  loops,     \* endless loops running on the board
  pidfile,   \* the loop /tmp/afdxsend.pid names (0: none)
  sends,     \* history: sends[r]: bursts of frames the lines of run r have put
             \* out (kept, like marks, until the run is done)
  marks,     \* history: marks[r]: what befell run r
  tangled,   \* history: "yes" once a "start" met another run
  mishaps    \* counter for the bound

runVars == <<mode, at, typed, left, outcome>>
boardVars == <<driver, vl, hung, loops, pidfile, sends>>
vars == <<runVars, rx, shell, boardVars, marks, tangled, mishaps>>

Runs == 1..MaxRuns
Mode == {"burst", "start", "stop"}
Stage == {"idle", "login", "login2", "cd", "check", "reload", "recheck", "vlcheck",
          "add", "send", "kill", "loop", "stop", "exiting", "done"}
Outcome == {"none", "login_fail", "driver_fail", "burst_ok", "started",
            "stopped", "killed"}
Token == {"vlid", "open error", "ioctl error", "prompt"}
Driver == {"up", "gone", "broken"}
Kind == {"true", "get", "reload", "add", "send", "kill", "loop"}
\* "beside": another run, or a line of one, was under way; "late": an answer
\* had not come when it was read; "unready": driver or link were not there at
\* the start; "died": the driver died meanwhile; "reloaded": it reloaded the
\* driver; "live": one that was up.
Mark == {"beside", "late", "unready", "died", "reloaded", "live"}

Running == {r \in Runs : at[r] \notin {"idle", "done"}}

Init ==
  /\ mode = [r \in Runs |-> "none"] /\ at = [r \in Runs |-> "idle"]
  /\ typed = [r \in Runs |-> "no"] /\ left = [r \in Runs |-> 0]
  /\ outcome = [r \in Runs |-> "none"]
  /\ rx = {} /\ shell = <<>>
  /\ driver \in Driver /\ vl \in {"set", "unset"}
  /\ driver # "up" => vl = "unset"
  /\ hung = "no" /\ loops = {} /\ pidfile = 0
  /\ sends = [r \in Runs |-> 0] /\ marks = [r \in Runs |-> {}]
  /\ tangled = "no" /\ mishaps = 0

-----------------------------------------------------------------------------
(* The runs.                                                               *)

\* What befalls a run that is no longer alone, or no longer in time, is not
\* noted any more.
Noted(q, more) ==
  LET all == marks[q] \cup more
  IN IF "beside" \in all THEN {"beside"} ELSE IF "late" \in all THEN {"late"} ELSE all

NoteTangle ==
  tangled' = IF \E q \in Runs : mode'[q] = "start" /\ "beside" \in marks'[q]
             THEN "yes" ELSE tangled

\* Opening the port throws away what has arrived.
Launch(r, m) ==
  /\ at[r] = "idle" /\ \A q \in 1..r-1 : at[q] # "idle"
  /\ mode' = [mode EXCEPT ![r] = m]
  /\ at' = [at EXCEPT ![r] = "login"]
  /\ left' = [left EXCEPT ![r] = Burst]
  /\ rx' = {}
  /\ marks' = [q \in Runs |->
       IF q = r
       THEN IF Running # {} \/ shell # <<>> THEN {"beside"}
            ELSE IF driver # "up" \/ vl = "unset" THEN {"unready"} ELSE {}
       ELSE IF q \in Running THEN Noted(q, {"beside"}) ELSE marks[q]]
  /\ NoteTangle
  /\ UNCHANGED <<typed, outcome, shell, boardVars, mishaps>>

\* Mutant of LineOf: a new loop is started beside the old one.
LineKeepingLoop(stage) ==
  CASE stage \in {"login", "login2", "cd", "kill"} -> "true"
    [] stage \in {"check", "recheck", "vlcheck"} -> "get"
    [] stage = "stop" -> "kill"
    [] OTHER -> stage

\* The line of a stage, as far as the board or an answer tells it apart.
LineOf(stage) ==
  CASE stage \in {"login", "login2", "cd"} -> "true"
    [] stage \in {"check", "recheck", "vlcheck"} -> "get"
    [] stage = "stop" -> "kill"
    [] OTHER -> stage

\* The console echoes a line as it is typed: "--vlid=1" is in most of them,
\* and in some a "$", which is what the login looks for as a prompt.
Echo(kind) ==
  (IF kind \in {"get", "add", "send", "loop"} THEN {"vlid"} ELSE {})
    \cup (IF kind \in {"kill", "loop"} THEN {"prompt"} ELSE {})

Type(r) ==
  /\ r \in Running /\ at[r] # "exiting" /\ typed[r] = "no"
  /\ typed' = [typed EXCEPT ![r] = "yes"]
  /\ shell' = Append(shell, <<LineOf(at[r]), r>>)
  /\ rx' = IF hung = "yes" THEN rx ELSE rx \cup Echo(LineOf(at[r]))
  /\ UNCHANGED <<mode, at, left, outcome, boardVars, marks, tangled, mishaps>>

\* Mutant of Dead: an answer of a driver that is there will do.
DeadWhenGone(o) == "open error" \in o

\* "driver dead": an error, or no VLID in the answer.
Dead(o) == o \cap {"open error", "ioctl error"} # {} \/ "vlid" \notin o

AfterLogin(m) == CASE m = "burst" -> "check" [] m = "start" -> "vlcheck" [] OTHER -> "stop"
WithVl(m) == IF m = "burst" THEN "send" ELSE "kill"

\* Where a run goes with the answer o, and what it prints if it ends there.
To(r, stage) ==
  /\ at' = [at EXCEPT ![r] = stage] /\ UNCHANGED outcome
Exit(r, how) ==
  /\ at' = [at EXCEPT ![r] = "exiting"]
  /\ outcome' = [outcome EXCEPT ![r] = how]

\* Mutants of LastSend: one round too few, one too many.
LastSendButOne(r) == left[r] <= 2
LastSendAndOne(r) == left[r] = 0

\* for i in range(n)
LastSend(r) == left[r] = 1

Go(r, o) ==
  CASE at[r] = "login" -> To(r, IF "prompt" \in o THEN "cd" ELSE "login2")
    [] at[r] = "login2" -> IF "prompt" \in o THEN To(r, "cd")
                           ELSE Exit(r, "login_fail")
    [] at[r] = "cd" -> To(r, AfterLogin(mode[r]))
    [] at[r] = "check" -> To(r, IF Dead(o) THEN "reload" ELSE "vlcheck")
    [] at[r] = "reload" -> To(r, "recheck")
    [] at[r] = "recheck" -> IF "open error" \in o THEN Exit(r, "driver_fail")
                            ELSE To(r, "vlcheck")
    [] at[r] = "vlcheck" -> To(r, IF "vlid" \in o THEN WithVl(mode[r]) ELSE "add")
    [] at[r] = "add" -> To(r, WithVl(mode[r]))
    [] at[r] = "send" -> IF LastSend(r) THEN Exit(r, "burst_ok") ELSE To(r, "send")
    [] at[r] = "kill" -> To(r, "loop")
    [] at[r] = "loop" -> Exit(r, "started")
    [] at[r] = "stop" -> Exit(r, "stopped")

\* The wait is over: whatever has arrived is the answer.
Read(r) ==
  /\ r \in Running /\ typed[r] = "yes"
  /\ typed' = [typed EXCEPT ![r] = "no"]
  /\ rx' = {}
  /\ left' = IF at[r] = "send" THEN [left EXCEPT ![r] = @ - 1] ELSE left
  /\ marks' = IF shell = <<>> THEN marks ELSE [marks EXCEPT ![r] = Noted(r, {"late"})]
  /\ mishaps' = IF shell = <<>> \/ hung = "yes" THEN mishaps ELSE mishaps + 1
  /\ mishaps' <= MaxMishaps
  /\ Go(r, rx)
  /\ UNCHANGED <<mode, shell, boardVars, tangled>>

\* subprocess.run(timeout=40): the process is killed, its lines are not.
KilledAfter40s(r) ==
  /\ r \in Running /\ mode[r] = "burst" /\ at[r] # "exiting"
  /\ Exit(r, "killed")
  /\ typed' = [typed EXCEPT ![r] = "no"]
  /\ UNCHANGED <<mode, left, rx, shell, boardVars, marks, tangled, mishaps>>

\* The process is gone; /send answers with what it printed.
Respond(r) ==
  /\ at[r] = "exiting"
  /\ at' = [at EXCEPT ![r] = "done"] /\ mode' = [mode EXCEPT ![r] = "none"]
  /\ left' = [left EXCEPT ![r] = 0] /\ outcome' = [outcome EXCEPT ![r] = "none"]
  /\ sends' = [sends EXCEPT ![r] = 0] /\ marks' = [marks EXCEPT ![r] = {}]
  /\ UNCHANGED <<typed, rx, shell, driver, vl, hung, loops, pidfile, tangled,
                 mishaps>>

-----------------------------------------------------------------------------
(* The board (external).                                                   *)

Answers(tokens) ==
  /\ shell' = Tail(shell) /\ rx' = rx \cup tokens \cup {"prompt"} /\ UNCHANGED hung

Get ==
  /\ \/ /\ driver = "up" => vl = "set"
        /\ Answers(CASE driver = "up" -> {"vlid"} [] driver = "gone" -> {"open error"}
                       [] driver = "broken" -> {"ioctl error"})
     \/ driver = "up" /\ vl = "unset" /\ Answers({})
     \/ driver = "up" /\ vl = "unset" /\ hung' = "yes" /\ UNCHANGED <<shell, rx>>
  /\ UNCHANGED <<driver, vl, loops, pidfile, sends, mishaps>>

Reload ==
  /\ \/ driver' = "up" /\ UNCHANGED mishaps
     \/ driver' \in Driver \ {"up"} /\ mishaps < MaxMishaps /\ mishaps' = mishaps + 1
  /\ vl' = "unset" /\ Answers({})
  /\ UNCHANGED <<loops, pidfile, sends>>

OtherLine(kind, r) ==
  /\ vl' = IF kind = "add" /\ driver = "up" THEN "set" ELSE vl
  /\ sends' = IF kind = "send" /\ driver = "up" /\ vl = "set" /\ r \in Running
              THEN [sends EXCEPT ![r] = @ + 1] ELSE sends
  /\ loops' = CASE kind = "kill" -> loops \ {pidfile}
                [] kind = "loop" -> loops \cup {r}
                [] OTHER -> loops
  /\ pidfile' = IF kind = "loop" THEN r ELSE pidfile
  /\ Answers({}) /\ UNCHANGED <<driver, mishaps>>

Execute ==
  /\ hung = "no" /\ shell # <<>>
  /\ LET kind == Head(shell)[1]
         r == Head(shell)[2]
     IN /\ CASE kind = "get" -> Get
             [] kind = "reload" -> Reload
             [] OTHER -> OtherLine(kind, r)
        /\ UNCHANGED runVars
        /\ marks' = [q \in Runs |->
             CASE q \in Running \ {r} -> Noted(q, {"beside"})
               [] q \in Running \cap {r} /\ kind = "reload" ->
                    Noted(q, IF driver = "up" THEN {"reloaded", "live"} ELSE {"reloaded"})
               [] OTHER -> marks[q]]
        /\ NoteTangle

DriverDies ==
  /\ driver = "up" /\ hung = "no" /\ mishaps < MaxMishaps
  /\ driver' \in Driver \ {"up"} /\ vl' = "unset" /\ mishaps' = mishaps + 1
  /\ marks' = [q \in Runs |-> IF q \in Running THEN Noted(q, {"died"}) ELSE marks[q]]
  /\ UNCHANGED <<runVars, rx, shell, hung, loops, pidfile, sends, tangled>>

-----------------------------------------------------------------------------
Process(r) == Type(r) \/ Read(r) \/ Respond(r)

Next ==
  \/ \E r \in Runs :
       \/ \E m \in Mode : Launch(r, m)
       \/ Process(r)
       \/ KilledAfter40s(r)
  \/ Execute
  \/ DriverDies

Spec == Init /\ [][Next]_vars

-----------------------------------------------------------------------------
\* Type invariant.
TypeOK ==
  /\ mode \in [Runs -> Mode \cup {"none"}] /\ at \in [Runs -> Stage]
  /\ typed \in [Runs -> {"yes", "no"}] /\ left \in [Runs -> 0..Burst]
  /\ \A r \in Runs : at[r] = "send" => left[r] > 0
  /\ outcome \in [Runs -> Outcome] /\ rx \subseteq Token
  /\ shell \in Seq(Kind \X Runs)
  /\ driver \in Driver /\ vl \in {"set", "unset"} /\ hung \in {"yes", "no"}
  /\ loops \subseteq Runs /\ pidfile \in 0..MaxRuns
  /\ sends \in [Runs -> 0..Burst] /\ marks \in [Runs -> SUBSET Mark]
  /\ tangled \in {"yes", "no"} /\ mishaps \in 0..MaxMishaps

\* A run alone on a port that answers in time judges the driver rightly: it
\* reloads none that is up, and says that the driver cannot be had only when it
\* is gone.  It says that the burst is done only over a driver that is there;
\* over one that is broken only after a reload, as the question after that one
\* does not look for the sign of it.
LoneVerdictIsTrue ==
  \A r \in Runs : marks[r] \cap {"beside", "late"} = {} =>
    /\ "live" \notin marks[r]
    /\ at[r] = "exiting" /\ outcome[r] = "driver_fail" => driver = "gone"
    /\ at[r] = "exiting" /\ outcome[r] = "burst_ok" /\ "died" \notin marks[r] =>
         /\ driver # "gone"
         /\ "reloaded" \notin marks[r] => driver = "up"

\* A burst that found driver and link in place, and neither another run nor a
\* death nor a late answer on its way, ends well with N sends on the wire.
GoodBurstIsWhole ==
  \A r \in Runs : mode[r] = "burst" /\ at[r] = "exiting" /\ marks[r] = {} =>
    outcome[r] = "killed" \/ (outcome[r] = "burst_ok" /\ sends[r] = Burst)

\* Runs of "start" and "stop" that never met another run leave at most one
\* loop, the one the PID file names, and none after the stop.
LoneStopEndsLoops ==
  tangled = "no" =>
    /\ loops \subseteq {pidfile}
    /\ \A r \in Runs : at[r] = "exiting" /\ outcome[r] = "stopped"
                         /\ marks[r] \cap {"beside", "late"} = {} => loops = {}

-----------------------------------------------------------------------------
(* What the repository says of the program and the code does not keep.     *)

\* A burst that is reported done has put frames out.  d10_proxy.py answers
\* "sending complete" to it and frer.html that A and B show it.  Here the run is
\* alone, answers come in time and nothing dies.
OkMeansSent ==
  \A r \in Runs : outcome[r] = "burst_ok" => sends[r] > 0
=============================================================================
