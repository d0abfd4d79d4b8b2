----------------------------- MODULE MeasureGui ------------------------------
(***************************************************************************)
(* The measurement of web/kfdx.html, in several tabs: "measure" sets the   *)
(* link, resets the board's statistics and lets the board send, each       *)
(* awaited; "reset" and "burst" do parts of that; and a timer polls the    *)
(* head of the schedule and the status.  The verdict is FAULT when the     *)
(* board's error counters exceed a base, which the first poll after a      *)
(* reset takes from them; but IDLE on a tab that has neither started a     *)
(* measurement nor been told a "Max Jitter" since its last reset.          *)
(*                                                                         *)
(* A tab's commands are served in their order (SerialBridge), those of     *)
(* tabs in any; what a tab waits for no longer is served all the same, or  *)
(* is lost with its WebSocket.  The board is external.  The four error     *)
(* counters the page adds up are one here.                                 *)
(***************************************************************************)
EXTENDS Integers, Sequences, SequencesExt

CONSTANTS Tabs,
          Pressed,   \* bound, for each tab: what is pressed in it ("head" is its
                     \* timer)
          MaxQueue,  \* bound, for each tab: commands it starts another beside
          MaxErrors, \* bound: errors at the board
          MaxLate    \* bound: commands given up, and answers without counters

ASSUME GuiAssumption ==
  /\ Pressed \in [Tabs -> SUBSET {"set", "clear", "send", "head"}]
  /\ MaxQueue \in [Tabs -> Nat] /\ MaxErrors \in Nat /\ MaxLate \in Nat

VARIABLES
  queue,   \* queue[t]: commands of t not answered: [cmd, awaited]
  base,    \* base[t]: errBase: <<>> or the counter, with history
  badge,   \* the verdict last shown, in whichever tab, with history
  live,    \* live[t]: "measuring" once it has started a measurement, else
           \* "jit" while its jit holds a Max Jitter, else "no"
  made,    \* errors at the board so far
  zero,    \* how many there were at the last reset: the counter is the rest
  late     \* counter for the bound

guiVars == <<queue, base, badge, live, made, zero, late>>

\* "set", "reset" and "send" are a measurement's, "send" is the burst button's
\* too, and "clear" the reset button's.  A poll is two commands sent together:
\* "head" stands for both; "status" for the second when the first has been
\* answered with a Max Jitter, "bare" when without.
Cmd == {"set", "reset", "send", "clear", "head", "status", "bare"}
\* History of a base: the errors made when it was read, and what befell it
\* since or then: the counter was reset without the tab's knowing ("reset"),
\* an answer came without counters ("cut").
Base == [n : 0..MaxErrors, made : 0..MaxErrors, hurt : SUBSET {"reset", "cut"}]
\* History of a verdict: whether errors were made since its base was read;
\* "idle": the tab was not live.  WARNING is taken as NORMAL.
Shown == [verdict : {"none", "IDLE", "NORMAL", "FAULT"}, since : {"yes", "no"},
          hurt : SUBSET {"reset", "cut", "idle"}]

GuiInit ==
  /\ queue = [t \in Tabs |-> <<>>] /\ base = [t \in Tabs |-> <<>>]
  /\ badge = [verdict |-> "none", since |-> "no", hurt |-> {}]
  /\ live = [t \in Tabs |-> "no"]
  /\ made = 0 /\ zero = 0 /\ late = 0

Given(cmd) == [cmd |-> cmd, awaited |-> "yes"]

\* A button, which is never disabled, or the timer.
Press(t, cmd) ==
  /\ Len(queue[t]) < MaxQueue[t]
  /\ queue' = [queue EXCEPT ![t] = Append(@, Given(cmd))]
  /\ live' = IF cmd = "set" THEN [live EXCEPT ![t] = "measuring"] ELSE live
  /\ UNCHANGED <<base, badge, made, zero, late>>

BoardErrs ==
  /\ made < MaxErrors /\ made' = made + 1
  /\ UNCHANGED <<queue, base, badge, live, zero, late>>

-----------------------------------------------------------------------------
\* Mutants of NextBase: the base of before is kept; it is 0 after a reset.
NextBaseKept(cmd, ok, old) == old
NextBaseZero(cmd, ok, old) ==
  IF cmd = "reset" \/ (cmd = "clear" /\ ok)
  THEN <<[n |-> 0, made |-> made, hurt |-> {}]>> ELSE old

\* The base and the jit are forgotten after a reset: by a measurement even when
\* the command has been given up, by the button only when it was answered.
NextBase(cmd, ok, old) ==
  IF cmd = "reset" \/ (cmd = "clear" /\ ok) THEN <<>> ELSE old
NextLive(cmd, ok, old) ==
  IF old = "jit" /\ (cmd = "reset" \/ (cmd = "clear" /\ ok)) THEN "no" ELSE old

\* Mutant of Goes: a measurement does not await its commands.
GoesAtOnce(cmd, ok) ==
  IF cmd = "set" THEN <<Given("reset"), Given("send"), Given("head")>> ELSE <<>>

\* What a handler does once it has its answer, or has given up.
Goes(cmd, ok) ==
  CASE cmd = "set" -> <<Given("reset")>>
    [] cmd = "reset" -> <<Given("send")>>
    [] cmd = "send" \/ (cmd = "clear" /\ ok) -> <<Given("head")>>
    [] OTHER -> <<>>

\* refreshStatus, with the counter n and with or without a Max Jitter: a first
\* poll takes its base.
Refresh(t, mj, n, cut) ==
  LET b == IF base[t] = <<>> THEN [n |-> n, made |-> made, hurt |-> cut] ELSE base[t][1]
      now == IF mj /\ live[t] = "no" THEN "jit" ELSE live[t]
  IN /\ base' = [base EXCEPT ![t] = <<b>>]
     /\ live' = [live EXCEPT ![t] = now]
     /\ badge' = [verdict |-> IF now = "no" THEN "IDLE"
                             ELSE IF n - b.n > 0 THEN "FAULT" ELSE "NORMAL",
                  since |-> IF made > b.made THEN "yes" ELSE "no",
                  hurt |-> IF now = "no" THEN {"idle"} ELSE b.hurt \cup cut]

\* The bridge serves a tab's next command; the answer finds its waiter or none.
\* One the board is too slow for is answered without its Max Jitter, or without
\* its counters, which are then taken as 0.
ServeHead(t) ==
  /\ queue[t] # <<>> /\ Head(queue[t]).cmd = "head"
  /\ \E cmd \in {"status", "bare"} : queue' = [queue EXCEPT ![t][1].cmd = cmd]
  /\ UNCHANGED <<base, badge, live, made, zero, late>>

Serve(t) ==
  /\ queue[t] # <<>> /\ Head(queue[t]).cmd # "head"
  /\ LET c == Head(queue[t])
         known == c.awaited = "yes"
     IN /\ queue' = [queue EXCEPT ![t] = Tail(@) \o (IF known THEN Goes(c.cmd, TRUE) ELSE <<>>)]
        /\ zero' = IF c.cmd \in {"reset", "clear"} THEN made ELSE zero
        /\ IF c.cmd \in {"status", "bare"} /\ known
           THEN \/ Refresh(t, c.cmd = "status", made - zero, {}) /\ UNCHANGED late
                \/ /\ late < MaxLate /\ late' = late + 1
                   /\ Refresh(t, c.cmd = "status", 0, {"cut"})
           ELSE /\ base' = [u \in Tabs |->
                     LET b == IF u = t /\ known THEN NextBase(c.cmd, TRUE, base[u]) ELSE base[u]
                         blind == c.cmd \in {"reset", "clear"} /\ ~(u = t /\ known)
                     IN IF b # <<>> /\ blind THEN <<[b[1] EXCEPT !.hurt = @ \cup {"reset"}]>> ELSE b]
                /\ live' = IF known THEN [live EXCEPT ![t] = NextLive(c.cmd, TRUE, @)] ELSE live
                /\ UNCHANGED <<badge, late>>
        /\ UNCHANGED made

\* run() rejects 4 s after the command's own limit, of 6 s for a poll's, 8 s, or
\* 10 s for a send; so never before an older one with a limit not longer.  The
\* command stays to be served, or is lost.  A poll is given up with either of its
\* two (Promise.all), whatever comes of the other.
Limit(cmd) ==
  CASE cmd \in {"head", "status", "bare"} -> 10 [] cmd = "send" -> 14 [] OTHER -> 12
GiveUp(t, i) ==
  /\ i \in DOMAIN queue[t] /\ queue[t][i].awaited = "yes" /\ late < MaxLate
  /\ \A j \in 1..i-1 : queue[t][j].awaited = "yes" =>
       Limit(queue[t][j].cmd) > Limit(queue[t][i].cmd)
  /\ late' = late + 1
  /\ LET cmd == queue[t][i].cmd
     IN /\ \E q \in {RemoveAt(queue[t], i), [queue[t] EXCEPT ![i].awaited = "no"]} :
             queue' = [queue EXCEPT ![t] = q \o Goes(cmd, FALSE)]
        /\ base' = [base EXCEPT ![t] = NextBase(cmd, FALSE, @)]
        /\ live' = [live EXCEPT ![t] = NextLive(cmd, FALSE, @)]
  /\ UNCHANGED <<badge, made, zero>>

GuiNext ==
  \/ BoardErrs
  \/ \E t \in Tabs :
       \/ \E cmd \in Pressed[t] : Press(t, cmd)
       \/ ServeHead(t) \/ Serve(t)
       \/ \E i \in 1..(MaxQueue[t] + MaxLate) : GiveUp(t, i)

GuiSpec == GuiInit /\ [][GuiNext]_guiVars

-----------------------------------------------------------------------------
\* Type invariant.
GuiTypeOK ==
  /\ queue \in [Tabs -> Seq([cmd : Cmd, awaited : {"yes", "no"}])]
  /\ \A t \in Tabs : Len(queue[t]) <= MaxQueue[t] + MaxLate
  /\ base \in [Tabs -> Seq(Base)] /\ \A t \in Tabs : Len(base[t]) <= 1
  /\ badge \in Shown /\ live \in [Tabs -> {"no", "jit", "measuring"}]
  /\ made \in 0..MaxErrors /\ zero \in 0..made /\ late \in 0..MaxLate

\* FAULT is shown only when an error was made after the tab's base was read,
\* whoever reset the board's statistics in between and whatever was given up;
\* unless the base or the status came without counters.
FaultIsTrue ==
  badge.verdict = "FAULT" /\ "cut" \notin badge.hurt => badge.since = "yes"

\* And when an error was made since, FAULT is shown, unless another tab's reset,
\* or one the tab had given up, came in between, an answer came without counters,
\* or the tab had neither started a measurement nor been told a Max Jitter since
\* its last reset, nor was in this poll.
FaultIsShown ==
  badge.since = "yes" /\ badge.hurt = {} => badge.verdict = "FAULT"
=============================================================================
