---------------------------- MODULE D10Dashboard -----------------------------
(***************************************************************************)
(* The dashboard of the redundant networks A and B: web/frer.html asks     *)
(* d10_proxy.py for a snapshot every second, whether or not it has the     *)
(* last one; the proxy is threaded, and gathers a snapshot by JSON-RPCs to *)
(* the D10 switch, one by one, each of which may fail.  The page computes  *)
(* rates against the snapshot it rendered before, by the time stamps of    *)
(* the two, and a verdict on the balance of A and B.                       *)
(*                                                                         *)
(* The switch is external: two counters of received frames, which somebody *)
(* may clear (POST /rpc of the proxy, or the switch's own pages), two      *)
(* links, an FRER instance.  The board sends bursts over both networks; on *)
(* each some frames may be lost.                                           *)
(***************************************************************************)
EXTENDS Naturals, Sequences, SequencesExt

CONSTANTS Burst,       \* frames of a burst
          Losses,      \* for each network, what it may lose of one
          Percent,     \* the difference of A and B that is taken as balanced
          MaxPolls,    \* bound: snapshots asked for and not rendered
          MaxBursts,   \* bound: bursts
          MaxMishaps   \* bound: failed RPCs and fetches, links and instances
                       \* that change, counters cleared

Net == {"A", "B"}

ASSUME DashboardAssumption ==
  /\ Burst \in Nat /\ Losses \in [Net -> SUBSET (0..Burst)] /\ Percent \in Nat \ {0}
  /\ MaxPolls \in Nat /\ MaxBursts \in Nat /\ MaxMishaps \in Nat

VARIABLES
  count,     \* count[n]: RxPkts of network n's port
  up, frer,  \* the links that are up; "yes" if the FRER instance is set
  polls,     \* snapshots in flight, by their time stamps
  prev,      \* the page: what it keeps of the snapshot it rendered last
  older,     \* how many of polls have a time stamp before that one's
  shown,     \* what the page shows
  bursts, cleared, mishaps,  \* how many so far
  lossy,     \* history: "yes" once networks lost unlike parts of a burst, since
             \* the counters were cleared
  basis      \* history: the networks on which a burst was sent between the two
             \* reads of the rate shown; those where that rate is in doubt, as a
             \* read failed, or the counters were cleared between two reads
             \* whose order is not that of their time stamps

switchVars == <<count, up, frer, bursts, cleared, lossy>>
pageVars == <<prev, older, shown, basis>>
dashVars == <<switchVars, polls, pageVars, mishaps>>

Stage == {"ports", "A", "B", "frer", "sent"}
\* A counter as read, or, when the RPC failed, as the page takes it: RxPkts||0.
\* "bursts" and "cleared" are history: when it was read.
Reading == [ok : {"yes", "no"}, rx : 0..(MaxBursts * Burst),
            bursts : 0..MaxBursts, cleared : 0..MaxMishaps]
NoReading == [ok |-> "no", rx |-> 0, bursts |-> 0, cleared |-> 0]
Snapshot == [at : Stage, up : SUBSET Net, rx : [Net -> Reading], frer : {"yes", "no"}]
NewPoll == [at |-> "ports", up |-> {}, rx |-> [n \in Net |-> NoReading], frer |-> "no"]
Verdict == {"none", "waiting", "balanced", "unbalanced"}

DashInit ==
  /\ count = [n \in Net |-> 0] /\ up = Net /\ frer = "no"
  /\ polls = <<>> /\ prev = <<>> /\ older = 0
  /\ shown = [flow |-> {}, rx |-> [n \in Net |-> 0], up |-> {}, frer |-> "no",
              verdict |-> "none"]
  /\ bursts = 0 /\ cleared = 0 /\ mishaps = 0 /\ lossy = "no" /\ basis = [burst |-> {}, doubt |-> {}]

-----------------------------------------------------------------------------
(* The networks and the switch.                                            *)

Mishap == mishaps < MaxMishaps /\ mishaps' = mishaps + 1

SendBurst ==
  /\ bursts < MaxBursts /\ bursts' = bursts + 1
  /\ \E a \in Losses["A"], b \in Losses["B"] :
       LET lost == [A |-> a, B |-> b]
           got == [n \in Net |-> IF n \in up THEN Burst - lost[n] ELSE 0]
       IN /\ count' = [n \in Net |-> count[n] + got[n]]
          /\ lossy' = IF got["A"] # got["B"] THEN "yes" ELSE lossy
  /\ UNCHANGED <<up, frer, cleared, polls, pageVars, mishaps>>

ClearCounters ==
  /\ Mishap /\ cleared' = cleared + 1
  /\ count' = [n \in Net |-> 0] /\ lossy' = "no"
  /\ UNCHANGED <<up, frer, bursts, polls, pageVars>>

ChangeLink(n) ==
  /\ Mishap /\ up' = IF n \in up THEN up \ {n} ELSE up \cup {n}
  /\ UNCHANGED <<count, frer, bursts, cleared, lossy, polls, pageVars>>

ChangeFrer ==
  /\ Mishap /\ frer' = IF frer = "yes" THEN "no" ELSE "yes"
  /\ UNCHANGED <<count, up, bursts, cleared, lossy, polls, pageVars>>

-----------------------------------------------------------------------------
(* d10_proxy.py.                                                           *)

\* setInterval(poll,1000); snapshot takes its time stamp first.
StartPoll ==
  /\ Len(polls) < MaxPolls
  /\ polls' = Append(polls, NewPoll)
  /\ UNCHANGED <<switchVars, pageVars, mishaps>>

After(stage) ==
  CASE stage = "ports" -> "A" [] stage = "A" -> "B" [] stage = "B" -> "frer" [] OTHER -> "sent"

\* rpc(): a failure, after 6 s or at once, is a null result like any other; the
\* ports are then none, and the instance is taken as one that is not set.
Read(i) ==
  /\ i \in DOMAIN polls /\ polls[i].at # "sent"
  /\ LET p == polls[i]
         to(q) == polls' = [polls EXCEPT ![i] = [q EXCEPT !.at = After(p.at)]]
     IN \/ /\ CASE p.at = "ports" -> to([p EXCEPT !.up = up])
                [] p.at = "frer" -> to([p EXCEPT !.frer = frer])
                [] OTHER -> to([p EXCEPT !.rx[p.at] =
                     [ok |-> "yes", rx |-> count[p.at], bursts |-> bursts, cleared |-> cleared]])
           /\ UNCHANGED mishaps
        \/ to(p) /\ Mishap
  /\ UNCHANGED <<switchVars, pageVars>>

-----------------------------------------------------------------------------
(* The page.                                                               *)

Took(i) == polls' = RemoveAt(polls, i)

\* fetch fails: the page says the proxy is away.
LosePoll(i) ==
  /\ i \in DOMAIN polls /\ Mishap /\ Took(i)
  /\ older' = IF i <= older THEN older - 1 ELSE older
  /\ UNCHANGED <<switchVars, prev, shown, basis>>

\* Mutant of Faster: time is taken to go on.
FasterForward(now, before, later) == now > before

\* max(0, (now - before) / dt) exceeds 1: dt is negative when the snapshot
\* rendered before is the newer one; a burst is more than a frame a second.
Faster(now, before, later) == IF later THEN now > before ELSE now < before

\* Mutant of VerdictOn: the test for 0 is dropped, and 0/0 is not below 2.
VerdictOnNaN(flow, a, b) ==
  LET most == IF a > b THEN a ELSE b
      diff == IF a > b THEN a - b ELSE b - a
  IN IF flow = {} /\ most = 0 THEN "waiting"
     ELSE IF 100 * diff >= Percent * most THEN "unbalanced" ELSE "balanced"

VerdictOn(flow, a, b) ==
  LET most == IF a > b THEN a ELSE b
      diff == IF a > b THEN a - b ELSE b - a
  IN IF flow = {} /\ most = 0 THEN "waiting"
     ELSE IF most > 0 /\ 100 * diff >= Percent * most THEN "unbalanced" ELSE "balanced"

\* Mutants of Keep: nothing is kept; the first snapshot stays the one to compare with.
KeepNothing(p) == prev
KeepFirst(p) == IF prev = <<>> THEN <<p.rx>> ELSE prev
Keep(p) == <<p.rx>>

Doubtful(now, before, later) ==
  \/ "no" \in {now.ok, before.ok}
  \/ IF later THEN now.cleared < before.cleared ELSE now.cleared > before.cleared

\* render(d), for any answer that is there; the first has no rate.
Render(i) ==
  /\ i \in DOMAIN polls /\ polls[i].at = "sent"
  /\ LET p == polls[i]
         later == i > older
         flow == {n \in Net : prev # <<>> /\ Faster(p.rx[n].rx, prev[1][n].rx, later)}
     IN /\ shown' = [flow |-> flow, rx |-> [n \in Net |-> p.rx[n].rx], up |-> p.up,
                     frer |-> p.frer, verdict |-> VerdictOn(flow, p.rx["A"].rx, p.rx["B"].rx)]
        /\ basis' = IF prev = <<>> THEN basis
                    ELSE [burst |-> {n \in Net : p.rx[n].bursts # prev[1][n].bursts},
                          doubt |-> {n \in Net : Doubtful(p.rx[n], prev[1][n], later)}]
        /\ prev' = Keep(p)
  /\ older' = i - 1 /\ Took(i)
  /\ UNCHANGED <<switchVars, mishaps>>

DashNext ==
  \/ SendBurst \/ ClearCounters \/ ChangeFrer \/ \E n \in Net : ChangeLink(n)
  \/ StartPoll
  \/ \E i \in 1..MaxPolls : Read(i) \/ LosePoll(i) \/ Render(i)

DashSpec == DashInit /\ [][DashNext]_dashVars

\* The timer goes on, the proxy's RPCs end (by their time limit), and the
\* browser renders every answer it gets; so the oldest poll is done with.
DashFairness ==
  WF_dashVars(StartPoll) /\ WF_dashVars(Read(1)) /\ WF_dashVars(Render(1))

-----------------------------------------------------------------------------
\* Type invariant.  A rate has a snapshot to be computed against.
DashTypeOK ==
  /\ count \in [Net -> 0..(MaxBursts * Burst)] /\ up \in SUBSET Net /\ frer \in {"yes", "no"}
  /\ polls \in Seq(Snapshot) /\ Len(polls) <= MaxPolls
  /\ prev \in Seq([Net -> Reading]) /\ Len(prev) <= 1 /\ older \in 0..Len(polls)
  /\ shown.flow \subseteq Net /\ shown.up \subseteq Net /\ shown.verdict \in Verdict
  /\ shown.frer \in {"yes", "no"} /\ shown.verdict = "none" <=> prev = <<>>
  /\ prev # <<>> => \A n \in Net : shown.rx[n] = prev[1][n].rx
  /\ basis.burst \subseteq Net /\ basis.doubt \subseteq Net
  /\ bursts \in 0..MaxBursts /\ cleared \in 0..MaxMishaps /\ mishaps \in 0..MaxMishaps
  /\ lossy \in {"yes", "no"}

\* On a network shown as carrying frames a burst was sent between the two reads
\* the rate is computed from, in whatever order polls overlap and answers are
\* rendered; unless a read failed (it counts as 0), or the counters were cleared
\* between two reads whose order is not that of their time stamps.
FlowIsReal == shown.flow \ basis.doubt \subseteq basis.burst

\* The networks are called unbalanced only when they lost unlike parts of a
\* burst, a read failed, or a burst or a clearing came between the reads of A
\* and of B.
UnbalanceIsLoss ==
  shown.verdict = "unbalanced" =>
    LET a == prev[1]["A"]
        b == prev[1]["B"]
        together == a.bursts = b.bursts /\ a.cleared = b.cleared
    IN a.ok = "yes" /\ b.ok = "yes" /\ together /\ a.cleared = cleared => lossy = "yes"

\* Once the switch is left alone, the page comes to show its counters, links
\* and instance, and no traffic, and keeps to it, whatever was rendered before.
PageConverges ==
  <>[](/\ shown.rx = count /\ shown.up = up /\ shown.frer = frer
       /\ shown.flow = {})
=============================================================================
