# A TLA+ model of the KFDX/AFDX jitter bench

This directory holds TLA+ modules, TLC configurations and TLAPS proofs for the programs of
this repository: a serial bridge shared by browsers and scripts, a capture pipeline that
makes a KFDX board send AFDX frames and measures them, and the detector that judges what was
captured; the benches with hardware time stamps and the report that measure series; and the
pages that show the redundant networks and the state of the board. Every definition is translated from the source; `PROJECT.json` ("map") names the
lines each one stands for.

## 1. Inventory

| component | source | state it keeps | operations | modelled in |
|---|---|---|---|---|
| Serial bridge | `serial_bridge.py` | the port, the set of stream queues, the list of captures, `cmd_lock` | open, close, read and broadcast (thread), write, `run_cmd`, the message kinds of `ws_handler` | `SerialBridge`, `CommandService` |
| Anomaly detector | `capture_jitter.py` `detect_anomalies` | last frame, last interval, six counters | one frame | `AnomalyDetector`, `AfdxLink` |
| Capture operation | `serial_bridge.py` 135-150, `capture_jitter.py`, `web/kfdx.html` | capture file, JSON file, the board's virtual link, pending requests of a tab | ask, give up, run, answer | `CapturePipeline` |
| Fault injection | `fault_injection_test.py` | one capture file, VLs on the board, S0's frames | set, capture, send, load, judge, cut | `FaultInjection` |
| Board sender | `board_send.py` | its own serial port, driver and VL on the board | login, check and reload, burst, endless loop, stop | `BoardSend` |
| D10 proxy, dashboard | `d10_proxy.py`, `web/frer.html` | the snapshot rendered last, polls in flight | snapshot, rpc, poll, render; capture; send | `D10Dashboard`; `/capture` in `D10Capture`; `/send` in `BoardSend` |
| KFDX GUI | `web/kfdx.html` | pending calls, base of the error counters | measure, burst, reset, poll | `MeasureGui` |
| Hardware stamps | `hw_report.py`, `hwts_jitter.py` | dump file of each BAG, one VL on the board | set, capture, send, load, compute | `HwBench` |
| Multi VL tests | `multi_vl_hw.py`, `multi_vl_test.py` | VLs on the board, one dump file | add, capture, send, load, restore | the first in `HwBench` |
| Report sweep | `report.py` | result and picture file of each BAG, the quietest run | capture, load, choose, draw, add a row | `ReportSweep` |
| PHC logger | `phc_logger.py` | the last samples, one JSON file | append, replace | not modelled |
| Statistics, setup scripts, diagnostics | `quantum_analysis.py`, `d10_*.py`, `board_*.py`, `*.sh`, `board/` | files | straight-line | not modelled |

How they interact. Browsers and scripts reach the board through the bridge: a WebSocket
message `cmd` types one shell line and returns its output, `data` types raw keystrokes,
`capture` starts `capture_jitter.py` as a process, which is itself a WebSocket client of the
same bridge. The capture process shares `/tmp/gui_cap.pcap` and `/tmp/gui_cap.json` with
every other one the bridge starts, and the board's virtual link 1 with everybody. The D10
side bypasses the bridge: `/send` starts `board_send.py`, which opens the serial port itself, and
the dashboard reads the switch's counters by JSON-RPCs through the proxy. `hw_report.py` and
`multi_vl_hw.py` give their commands through the bridge and start `hwts_jitter.py` as a process
of its own, which hands them its frames by a dump file; `report.py` starts `capture_jitter.py`
several times for each row and reads the result file after each.

What is hard, and what each component must keep:

* *Bridge.* A thread, several coroutines and the board interleave over one byte stream that
  carries nobody's name; commands outlive their time limit; the port fails and is reopened.
  It must collect exactly one command's output at a time, never mix two commands that end
  well, keep their order, run each at most once, answer every one, and release what a client
  that leaves had.
* *Detector.* Sequence numbers wrap and skip 0; frames are seen in the order of late and
  clustered timestamps. It must count exactly, miss no damage, raise no alarm on a faultless
  link and find a sender that is too fast.
* *Capture operation.* Several processes share files and a board and ignore each other's
  failures. An answer must be about the run that was asked for.
* *Board sender, proxy.* Two senders on one port, a driver that is reloaded under a burst,
  a kill after 40 s. A success must mean that the frames were sent.
* *Hardware benches.* The dump may be an earlier run's, an orphaned capture process sees the
  frames of the next run, a command may run late, an exception or a signal may come anywhere
  while extra links are on the board. A row must be of its own run and step, and the board
  must be left as it is meant to be.
* *Dashboard.* Polls overlap, each of their reads fails alone, counters are cleared under them.
  No traffic and no imbalance may be shown that was not there, and the page must come right.
* *GUI.* Tabs reset one board's counters under each other's base and give up commands that are
  served all the same. Neither may hide a fault or make one up.
* *Report sweep.* A capture that failed leaves an older result file to be loaded, and a picture
  that is not the row's.

## 2. Modules

`CommandService` is the abstract promise of the command RPC: at most one run per request,
"ok" only after the run, at most one answer.

`SerialBridge` is the whole of the bridge except the `baud` and `break` messages. One variable
per piece of the program's state: `h` is where a connection's coroutine is, `lockq` is
`cmd_lock` (holder first, since asyncio wakes waiters in order), `captures` is
`HUB.captures`, `port`, `rd` and `inhand` are `HUB.ser` and the reader thread, `clients` the
registered stream queues. The board is external: `tty` is the lines its shell was given,
`rx` what it has printed. A line prints an echo, `OutLen` chunks and the marker; chunks
carry, in the model only, the id of the line they come from, which the properties use and
the code's operators do not, save for the marker's token. `StartCmd` is the code between
two suspension points of `run_cmd`: registering the capture and typing the line happen
without a suspension. `Deliver` is one step because the coroutine looks at the capture only
every 20 ms and the thread extends all of them by one chunk. The time limit may pass at any
moment of polling. An exception of the port's `write` leaves through `finally` and the lock
(`WriteRaises`), an exception in the reader thread closes and reopens the port; reopening
discards what had arrived. Keystrokes typed into a command's line mangle it: it still prints
its marker, and what else it prints counts as its own (kind "junk"), so no property speaks of
what a mangled line does.

`AnomalyDetector` is the loop of `detect_anomalies`, one frame per step, in integer time.
`AfdxLink` composes it with a board that numbers and paces frames, a link that loses,
duplicates and swaps them, and a host that stamps them up to `MaxDelay` late; history
variables hold what really happened. The detector sorts by timestamp: the model hands it
frames in that order, so a swap is a swap of sequence numbers between two stamps.

`CapturePipeline` composes the tab, `ws_handler`, the capture process, tcpdump, the two files
and the board. A frame is reduced to the run that sent it and the BAG it was paced with. The
command RPC appears as its promise (module `CommandService`): a command is run and
answered, or its caller is told nothing useful and it may still run later (`CommandLost`,
`shell`, `CatchUp`), or the call raises (`RpcRaises`). A capture file is an inode: one that
loses its name keeps its writer (`Free`). What a torn capture file or JSON file holds is
left open, in both directions. A file of another user at the capture file's path (`theirs`, there
from the start or not at all) is neither removed, as the code ignores that error, nor written: all
runs analyse its frames, or fail to open it (`OpenFails`). All runs are the bridge's own user. A tab here is one WebSocket: a page that reconnects after a
loss is another one.

`BoardSend` is `board_send.py` in its modes burst, start and stop, and `/send` of the proxy,
which starts a burst and kills it after 40 s. A run types a line, waits, and takes whatever
has arrived for the answer (`Type`, `Read`, `Go`); the answer is the set of the signs the
code looks for: a prompt, VLID, "open error", "ioctl error". The driver is up, gone (the first
error) or broken (the second): the check before a burst looks for both, the one after a reload
(`board_send.py:59`) only for "open error", so that a driver that is still broken passes there, and
`LoneVerdictIsTrue` names it. The echo of a typed line is part of it, and most
lines hold `--vlid=1`. The shell, its loops, the driver and its link table are external;
`BUGS.md` B04 and B16 give what a reload forgets and when the board hangs. `marks` is history:
whether a run had company, was answered late, or found something missing.

`HwBench` is `hw_report.py` and `multi_vl_hw.py` as one program with two plans (`Bags` or `Counts`),
and the `hwts_jitter.py` process that each of their steps starts. A command of theirs is run in
time (`CommandRuns`), is answered at the bridge's time limit without having run (`CommandLost`:
`_rpc` looks at no `ok`; the command may wait in `shell` and run later, `CatchUp`), or raises
(`Raise`). Frames carry, in the model only, the run and the step that sent them; `buf` is what a
capture process has seen, `files` what its dump path holds, with the moment between opening and
writing it. A signal leaves the capture process behind (`Leave` with `cap` still on), and it goes
on to see the frames of whoever is next. `marks` is history: what befell a run; an overlap with
another run, an orphan or a late command is "company", and with company nothing else is noted.
What the board does with an `--add` of a link that exists, no file of the repository says: it
keeps it or re-paces it, and `LoneRowIsItsOwn` says what depends on it.

`D10Dashboard` is `snapshot` and `rpc` of the proxy, `poll` and `render` of `web/frer.html`, and a
switch with a counter for each network. `polls` is ordered by the time stamps, which `snapshot`
takes first; the reads of one poll come one after the other, between those of others, and each
may fail and then is a null result. `older` is how many polls in flight have an earlier time stamp
than the snapshot rendered last: rates are signed by it. `basis` and `lossy` are history.

`D10Capture` is `/capture`: what `_parse_pcap` and the search for duplicates make of a file that ends
anywhere, with any copies lost. A copy is its place on the wire: the j-th one, of frame (j + 1) / 2;
a file holds the places up to where it ends. The frames are of several links, each numbered on its
own, and are searched together: numbers of two links may meet and count as duplicates (what
`BUGS.md` says of the detector, B10). `besides` is history and bounds that: `dup` is what was
captured twice, plus at most the frames of all links but one.

`MeasureGui` is the measurement, the buttons and the polling of `web/kfdx.html`, in several tabs on
one board. `queue` holds a tab's commands until they are served, in order (that is
`RunsInServiceOrder` of the bridge); `awaited` is whether the promise of `run()` is still there.
`GiveUp` respects that `run()` gives up a command not before an older one whose limit is no
longer. A handler is a chain of awaits (`Goes`), so that handlers of one tab interleave. A poll is
two commands, `get_head` and `status`, of which the first is answered with or without a Max Jitter
(`ServeHead`); if either is given up the poll is lost. A tab that has neither started a measurement
nor been told a Max Jitter since its last reset (`live`) shows IDLE whatever the counters say. The
four error counters the page adds up are one; `badge` is the verdict shown last, in whichever
tab. `hurt` and `since` are history.

`ReportSweep` is the sweep of `report.py` over the files that earlier sweeps left, whole, cut or
without a picture. It starts captures one after the other; what one does before it writes is
`CapturePipeline`'s.

`FaultInjection` is `fault_injection_test.py`: the scenarios S0 to S5 one after the other, each a list of
commands (`Orders`) given to the board while tcpdump runs, then a verdict by what is in the file.
`rpc` looks at no `ok`: a command may be lost, and run late, in another scenario or another suite
(`CommandLost`, `LateCommand`); a bridge that hangs up ends the suite (`CommandRaises`) and leaves
the links to the next one. A file of `/tmp` that belongs to another user is neither removed nor
written (`mine`), so that all scenarios read the same old frames. Frames carry, in the model only,
the scenario that sent them; they differ by link, pace and size, and their number is "few" (under
8), "some", or "many" (over 28, enough to cut 8 out). `marks` and `earned` are history.

`MCPages` puts the last five modules under one run: a behaviour is one of one of them. They share no
state, so this is five model checks in one; what stands still begins in one state.

The modules `MC...` give the constants; `SerialBridgeProofs`, `AfdxLinkProofs`, `BoardSendProofs`,
`HwBenchProofs`, `CapturePipelineProofs`, `ReportSweepProofs`, `FaultInjectionProofs` and `PagesProofs`
(of `MeasureGui`, `D10Dashboard` and `D10Capture`) hold the proofs. An operator with the comment "Mutant" is a broken variant of the definition that
follows; it is used by no specification, and substituting it makes the property named in
`PROJECT.json` fail.

## 3. Runs

| run | what it shows | bounds |
|---|---|---|
| `bridge` | types, exclusive capture, attributable and complete output, order, refinement of `CommandService` | 2 clients, 3 messages, one of them keystrokes, 1 port fault, 1 time limit |
| `bridge_live` | every command is answered, every queue given back | 2 clients, 2 messages, 1 fault, 2 time limits |
| `bridge_output` | violation: a timed-out command's late output is answered to the next command | no faults, 1 time limit |
| `link` | exact counts, no missed damage, no false alarm, fast sender found | 4 frames, 5 sequence numbers, up to 6 losses in a row |
| `link_split` | violation: late stamps raise a rate violation on a faultless link | stamps up to 0.7 BAG late |
| `capture` | lone runs answer with their own data, clean runs succeed | 2 tabs, 3 runs, 1 failure |
| `capture_live` | every capture is answered | 2 tabs, 2 runs, 1 failure |
| `capture_stale` | violation: a failed run is answered with an earlier run's data | 1 tab, 2 runs, 1 failure |
| `board` | lone runs judge the driver rightly, undisturbed bursts are whole, loops end | 2 runs, 2 sends, 1 late answer, or driver gone or broken |
| `board_ok` | violation: "sending complete" for a burst of which no frame left | 1 run, no mishap |
| `bench` | a lone run's rows are its own, a clean step has figures, the board is left as it should be, no command for a link not set | 2 runs of either program, 1 failure; BAG 40, 1 and 2 links at BAG 10, set back to 20 |
| `pages` | the dashboard's rates and verdict, its convergence; the count of duplicates; the GUI's verdict; the rows and pictures of a report; what a pass of the fault injection suite is worth | see below |

Why the bounds are enough. In `bridge` the third message makes it possible that a command
times out, another takes the lock, and its output meets the first one's leftovers, with a
terminal user's keystrokes in between or a port that is reopened; two clients are the
smallest number that contends for the lock, and more clients, messages and faults are covered
by the proofs of all five safety properties of this run. Clients are interchangeable there (nothing orders them), so symmetry is used,
except for liveness. In `link` the circle of sequence numbers is scaled to 5 with a
reordering threshold of 3, so that wraps, losses of a whole circle and losses beyond the
threshold all fit into 4 captured frames; the window is 8 BAGs and the pause 8.5, the
delays 0 and 0.35 BAG (enough for a lone short interval, not for an alarm); the proofs cover every other value. `MaxFrames` does not bound
`ArriveLate`, so that no capture ends between the halves of a swap. In `capture` the BAGs 10
and 15 pass each other's interval filter and 40 does not, so that stale frames are
accepted and refused, and a file of another user holds those of either; three runs give a run with a predecessor and an overlapping one; the proofs cover any number. In
`board` two runs overlap or follow each other in every mode, so that one reads the other's
answers, a stop follows a start, and a start another start; an initial state with the driver
gone or broken or the link unset stands for earlier mishaps; two sends tell a first one from a last; the proofs cover any number of runs, sends and mishaps.

In `bench` two runs overlap, follow each other, or one follows the other's orphan, and one
failure is a lost or late command, an exception, a kill, a deaf or dead capture; a step with one
link, one with two and a restore make a link that is left over and one that is deleted. The
plan of `hw_report.py` has one BAG, so that its step differs from an earlier run's but not from
an earlier one of its own; steps of `multi_vl_hw.py`, which share one dump file, are the two; the proofs cover any plan. In
`pages` the dashboard has 2 bursts of 60 frames, of which B loses none or 2 (over the 2 % that
count as balanced), 2 polls in flight (enough to be rendered in the wrong order, and to read
between each other's reads) and one failed read, fetch, change of link or instance, or clearing;
a capture takes 4 copies of frames of 2 links with 3 sequence numbers, so that a file ends early,
in time, and at a wrap, and that numbers of the links meet; the GUI has two tabs, one with up to
2 commands at a time (handlers that interleave) and one that measures or resets, with 1
command at a time (the other's reset; `Pressed`), 2 errors (one before and one after a base) and one command given
up or answer cut; its proofs cover the rest; the report has 2 BAGs of 2 captures with 2 noises,
so that the quietest is the first or the last, and files left by a sweep before; the suite has one
`--send` of each link in a scenario (what the frames are does not depend on how often they are sent)
and two commands, captures or files of frames that go wrong, as it takes two to make a scenario
pass without its fault where only one of its two tests looks for it; links left by an earlier
suite, a suite broken off, and one after it are among the behaviours. What the proofs say of all five
has no bounds.

`CHECK_DEADLOCK FALSE` but in `pages`, where something can always happen: the other systems stop when the bound of messages, frames or
runs is used up and everybody is served, and `SerialBridge` also when a command polls for
lost output and the bound on time limits is used up.

Fairness. `SerialBridge` assumes weak fairness of every coroutine alone: the event loop
resumes what can go on. Nothing is assumed of the board, the port, the reader thread or the
clients: the time limit is what answers when they are silent, which is why the bound on
time limits in `bridge_live` is as large as the number of commands. `CapturePipeline` assumes
it of every run's process (operating system, and `EveryCommandAnswered` for its commands),
of tcpdump's end (it runs under `timeout`) and of a slow board's catching up; the last
stands for the time limits that the bound on failures does not leave room for. Closing a
tab and giving up are not fair. `D10Dashboard` assumes it of the timer (`setInterval` goes on
whatever a poll does), of the oldest poll's reads (each RPC ends by its time limit of 6 s at the
latest) and of rendering the oldest answer; not of the switch or of anything that fails. The
bound on mishaps is what "once the switch is left alone" means in `DashboardConverges`.

The four violations are divergences between a text and the code, listed under "findings":
`serial_bridge.py:75` (only its stdout), `BUGS.md:16` (immune to split timestamps),
`web/kfdx.html:174` (the jitter of this sending) and `d10_proxy.py:154` (sending complete). What does hold in their place is checked:
`OutputIsAttributable`, `NoFalseAlarm` with its bound of half a BAG, `LoneResultIsItsOwn`,
`GoodBurstIsWhole`.

## 4. Proofs

`SerialBridgeProofs`: `BridgeTypes` (`Spec => []TypeOK`) and `CaptureExclusive`
(`Spec => []OneCapture`), for any set of clients and any bounds, from `BoundsAssumption`
alone. `OneCapture` is not inductive: nothing in it says that a coroutine that is about to
start a command is the only one to hold the lock. `IInv` adds `LockInv` (the queue of the
lock names exactly the coroutines in `run_cmd`, each once, and only its head polls) and
`CaptureInv` (the one capture is the polling coroutine's). With a single capture
`list.remove`, which compares contents, removes the right one (`OnlyCapture`); the steps that
join the queue, leave it, and leave it alone are one lemma each (`Joins`, `Releases`,
`StaysSame`).

Its second part, the refinement: `BridgeImplementsService` (`Spec => ImplementsService`). `Send` maps to
`Ask`, `ShellDone` of a command's line to `Run`, `Finish` to `Answer`; every other step stutters.
That a line runs once and a command is answered once needs to know where each id is: `RInv` adds to
`IInv` that an id is in one place of one inbox (`InboxInv`), or with one coroutine and in no inbox
(`CurInv`), that a line the shell has or has ended is of a command no longer to be typed and is
there once (`LineInv`), that what has a result is not served again (`LogInv`), and that a marker
anywhere between the board and a capture is of a line that has ended (`MarkInv`), which is what
"ok" means. `NextOrdered` has one case per action; sending, reading and dropping an inbox are a
lemma each.

Its third part, the stream of output: `OutputAttributable` (`[]OutputIsAttributable`), `OkOutputComplete`
(`[]OkOutputIsComplete`) and `ServiceOrder` (`[]RunsInServiceOrder`). All three are about chunks
that are still on their way when a command ends, so `StreamInv` follows them from the shell to the
capture: each belongs to the polled command, to one answered as failed, or to a typed line
(`OwnerInv`); nothing of a line comes after its marker (`LastInv`); what the polled command has
printed is captured, in the reader's hands or on its way, unless the port was reopened
(`KeptInv`); and no line of a command comes after one served later, in the shell's input or
among the ended ones (`OrderInv`). A command that ends well has its marker captured, so
`LastInv` leaves nothing of it for the next one: `OwnerInv` survives `Finish`.

`AfdxLinkProofs`: `LinkTypes`, `LossIsCountedExactly` (`[]CountsAreExact`), `CleanIsNormal`
(`[]NoFalseAlarm`) and `BriskIsReported` (`[]BriskIsFound`), for every BAG, number of sequence
numbers, threshold, window, set of delays, gaps and lengths, from `DetectorAssumption` and
`LinkAssumption`. The first says of the circle that it is larger than the threshold and has more
than two numbers; that stamps are less than a window late is what the code's 1000 BAGs stand for. The strengthening `IInv` adds `Position` (the board's next number is
ahead of the last captured one by the frames lost in between, as long as that is less than
the circle), `CleanInv` and `BriskInv` (how far the last two stamps may be from the time of
the next frame, on a faultless run and on one at twice the rate). The arithmetic of the
circle is five lemmas (`SuccType`, `FwdOne`, `FwdNext`, `FwdSame`, `FwdRange`). `DamageIsReported`
(`[]DamageIsFault`) is of all runs that are not faultless, on which `Position` says nothing once a
whole circle is lost: `Turns` adds that as long as no damage is counted, the frames lost since
the last captured one and the distance on the circle differ by whole circles, so that a
distance of one means that nothing is missing but these.

`BoardSendProofs`: `BoardTypes`, `LoneVerdicts` (`[]LoneVerdictIsTrue`), `GoodBursts`
(`[]GoodBurstIsWhole`) and `LoopsEnd` (`[]LoneStopEndsLoops`), for any runs, any length of a burst
and any mishaps, from `BoardAssumption`. What a run says at its end rests on the lines it typed and the
answers it took for its own, so `LoneInv` says of a run that met no other and no late answer that only its line is in the shell,
and what is on the port is the answer to it, and that one past the checks found no driver that is gone,
nor a broken one without a reload (`Passed`); `GoodInv` says how many sends of a burst nothing
befell are out at each line, and `LoopInv` that, as long as no start met another run, there is no
loop but the one the PID file names, none behind a line that is to kill it, and none after a stop. That no
more sends go out than were typed needs the lines of a run that wait in the shell to be numbered
in their order (`SendInv`): `sends` is bounded by what was typed, not by what is still waiting.

`HwBenchProofs`: `BenchTypes`, `RowsAreTheirOwn` (`[]LoneRowIsItsOwn`), `CleanStepsHaveFigures`
(`[]CleanStepHasFigures`), `BoardsLeftAsFound` (`[]BoardLeftAsFound`) and `LinksAreSet`
(`[]OnlySetLinks`), for any plan of BAGs and link counts, any runs and failures, from
`BenchAssumption`, which says that a plan is not empty: `split(",")` returns one entry at least.
`RunOK` says where a run of either program can be in its plan. `LoneInv` follows a run that nobody
else came into: only its commands are in the shell (`Apart`), its own frames go from the capture
over the dump file into the row (`Dumped`), each link it has added is set (`Added`), paced as the
step asks (`Paced`), and deleted again by `restore` (`Restored`, `Left`); and what nothing befell
has frames (`Caught`). That `restore` comes to every link that was added needs the largest of the
counts to exist (`LargestEntry`).

`PagesProofs`, of `MeasureGui`: `GuiTypeCorrect` (`GuiSpec => []GuiTypeOK`), `FaultTrue` (`[]FaultIsTrue`) and
`FaultShown` (`[]FaultIsShown`), for any set of tabs, any bounds on commands in flight, given up
and errors, from `GuiAssumption`. A verdict compares two readings of a counter that other tabs
may have reset in between; neither property says anything of the base, so `GuiInv` adds `BaseInv`
(what a base's number says of the errors made when it was read: never less than those since the
last reset, and exactly these when no reset came in between that the tab did not see) and
`QueueInv` (each command given up leaves at most one more than the bound on presses, without
which the types are not inductive). Steps change the queue, the base or the history of a base
alone: one lemma each (`QueueChanged`, `BaseChanged`, `HurtChanged`), and one for each action.
What `live` becomes disturbs nothing but the types (`LiveChanged`): a verdict shown on a tab that is
not live is marked "idle" as it is shown.

`PagesProofs`, of `D10Dashboard`: `DashTypes`, `FlowReal` (`[]FlowIsReal`) and `UnbalanceReal`
(`[]UnbalanceIsLoss`), for any bounds on bursts, frames, polls and mishaps, from
`DashboardAssumption`. A rate compares two readings taken at different times and rendered in any
order, so the invariant speaks of every reading still on its way or kept for the next difference
(`Held`) and relates it to the counters as they are (`PastInv`: with no burst since, a counter
still stands at the reading, or has been cleared) and to every other reading of its network
(`SameInv`: with no burst between two of them they are equal, or the later one is 0) and of the
other one (`AlikeInv`: networks that lost like parts count alike). `CountInv` bounds the counters;
`ShownInv` says that what is shown is of the snapshot that is kept.

`PagesProofs`, of `D10Capture`: `DupsAreCopies` (`[]DupCountsCopies`), for any limit of tcpdump and any
circle of numbers and any links, from `CaptureAssumption`. The copies in the file are those of A and
those of B, and their numbers are no more than the frames of either (`NoMore`), so that `dup` is at
least the frames of both. With no more frames than numbers, the frames of one link differ in how many
came before them and so in their numbers (`StepsDiffer`, `NumbersDiffer`); the numbers are no fewer
than the frames of that link, so that `dup` is at most the frames of both and those of other
links (`TwiceIsDup`).

`ReportSweepProofs`: `SweepTypes`, `RowsAreOwn` (`[]RowIsThisSweeps`), `RowsAreQuietest`
(`[]RowIsQuietest`) and `PicturesAreNotOlder` (`[]PictureIsNotOlder`), for any sets of BAGs and
noises, any number of captures and any files left by earlier sweeps, from `SweepAssumption`.
A row is judged by captures that are long over when it is added, so the invariant says at every
step what the best so far (`BestInv`, `QuietInv`), the captures that wrote (`WroteInv`), the result
files (`FilesInv`, `OwnInv`) and the picture (`DrawnInv`) are to each other, given what has
failed of this BAG so far.

`FaultInjectionProofs`: `SuiteTypes`, `CleanScenesPass` (`[]CleanScenePasses`) and `AllPassesAreEarned`
(`[]AllPassIsEarned`), for any number of `--send`s and of things that go wrong, from
`SuiteAssumption`. A verdict is of frames that came of commands given long before it. `FileInv`
says whose commands are given and whose frames are in the file; `GivingInv` that the first g
commands of a scenario nothing befell have been run, with the links and the frames that come of
them (`DoneBy`; `GivesNext` is the step from g to g + 1, for which `OrdersOf` says which command that
is). The other half relates the verdicts to each other: there are as many as scenarios were
judged, less S3 when S0 had no frames (`CountInv`), what S3 takes from S0 had no loss of its own
when S0 passed (`KeptInv`), S1 does not pass in a file of another user, and what passes is earned
(`EarnedInv`). None of the two properties is inductive without these.

`CapturePipelineProofs`: `PipelineTypes` (`Spec => []TypeOK`), `LoneResults` (`[]LoneResultIsItsOwn`) and
`CleanRuns` (`[]CleanRunSucceeds`), for any tabs, BAGs and numbers of requests, commands and failures,
from `PipelineAssumption`. The properties speak of the end of a run, whose answer depends on what
all its stages found in files and on a board that others left as they were. `StageInv` says what
each stage has (commands to give, a tcpdump, marks), `TornInv` that a torn file still has a name or
a writer (so that none is left when a run starts its own), `AloneInv` that beside a run which is not
marked no other runs; `LoneInv` follows such a run: its capture file is of its own making or none, unless another user's is in the way
(`FileOf`), its link is its own (`LinkOf`), so are its frames in the buffer, the file, the analysis
and the answer (`FramesOf`, `JsonOf`), and without a failure there is one of them (`CleanOf`).

Every safety invariant that a run checks is the statement of a theorem. Only model-checked are
the liveness properties (`EveryCommandAnswered`, `QueueGivenBack`, `EveryCaptureAnswered`,
`DashboardConverges`): fairness is out of the prover's reach. Where a proof needs induction over
numbers it takes the least counterexample (`LeastNumber`, from the well-foundedness of < on
the naturals), as no theorem of the library that takes a formula as a parameter can be used.
The violations are counterexamples, not theorems.

## 5. Not modelled

Float statistics, plots, the layout of HTML and Markdown reports, setup scripts and one-shot
configuration scripts: no state that another part could find wrong. The queues' contents and the
HTTP file server of the bridge: no other part reads them. `baud` and `break`: they change what
the line carries for everybody alike, and what a board makes of a wrong rate is no program's
doing. `phc_logger.py`: one loop with one list of bounded length and one file it alone replaces,
atomically. `multi_vl_test.py`: the forerunner of `multi_vl_hw.py`, with tcpdump instead of stamps and
no restore. `quantum_analysis.py`: statistics of a dump. Of the dashboard, the static files, the
animation and the buttons that configure FRER, which go through `/rpc` one by one; of the GUI,
the table of links, register reads and charts, each of one answer. Two `report.py` sweeps at a
time: they meet in one result file as two captures do in `CapturePipeline`.

The picture beside a row of `report.py` is read when all captures of the BAG are done, the row is
the quietest of them: the two may be of different captures. No text of the repository says
otherwise, so this is no finding; `PictureIsNotOlder` states what does hold.

A connection that closes during its
greeting leaves its queue registered for ever (`serial_bridge.py:109-117`): the model has it
(`Greet`), and `QueueGivenBack` leaves it out. `analyze`'s minimum of five frames: a capture
here has frames or none.

## 6. Plan

Done: `CommandService`, `SerialBridge`, `AnomalyDetector`, `AfdxLink`, `CapturePipeline`, `BoardSend`,
`HwBench`, `D10Dashboard`, `D10Capture`, `MeasureGui`, `ReportSweep`, `FaultInjection`, and the proofs of
all their safety properties.

Left: what the commands of the suite, the sweep and the measuring programs say of the board could be
stated as one abstract board with links, of which `HwBench`, `FaultInjection` and `CapturePipeline`
are refinements; each has its own now.
