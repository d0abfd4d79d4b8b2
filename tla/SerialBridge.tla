---------------------------- MODULE SerialBridge ----------------------------
(***************************************************************************)
(* serial_bridge.py: one serial console shared by several WebSocket        *)
(* clients.  A reader thread owns the port; every WebSocket connection has *)
(* a coroutine (ws_handler) that serves its messages one at a time; a      *)
(* "cmd" message runs run_cmd, which types one shell line under the        *)
(* asyncio cmd_lock and collects console output until a marker that the    *)
(* line itself prints; "data" messages are typed without the lock.         *)
(*                                                                         *)
(* The board's shell is external: it runs the lines it receives one after  *)
(* the other and prints, per line, an echo, some output and the marker.    *)
(* It may stop at any point (no fairness), which is how a hung board looks *)
(* from here.  Time is abstracted: the time limit of run_cmd may pass at   *)
(* any moment while the command is being polled.                           *)
(***************************************************************************)
EXTENDS Naturals, Sequences, FiniteSets

CONSTANTS Clients,     \* the WebSocket connections
          MaxMsgs,     \* bound: messages sent by all clients together
          OutLen,      \* output chunks a shell line prints
          MaxFaults,   \* bound: exceptions raised by the serial port
          MaxTyped,    \* bound: "data" messages among the MaxMsgs
          MaxTimeouts  \* bound: commands that reach their time limit

ASSUME BoundsAssumption ==
  /\ MaxMsgs \in Nat /\ OutLen \in Nat /\ MaxFaults \in Nat
  /\ MaxTyped \in Nat /\ MaxTimeouts \in Nat

VARIABLES
  conn,      \* conn[c]: the WebSocket is "up" or "gone"
  inbox,     \* inbox[c]: messages the client sent and ws_handler has not read
  h,         \* h[c]: where the coroutine ws_handler of c is
  cur,       \* cur[c]: the id of the command run_cmd is serving (0: none)
  clients,   \* SerialHub.clients: whose asyncio.Queue gets the raw stream
             \* (the chunks in the queues are not kept: nothing reads them
             \* but each client's own pump)
  lockq,     \* cmd_lock: its holder, then its waiters in order of arrival
  captures,  \* SerialHub.captures: [owner, data] records, oldest first
  port,      \* is SerialHub.ser open?
  rd,        \* where reader_thread is
  inhand,    \* the chunk reader_thread has read and not yet delivered
  prompt,    \* the shell's input line: "empty", or "begun" by keystrokes
  tty,       \* the lines the shell has received; the first is being run
  step,      \* how far the first line is: 0 not started, then chunk by chunk
  rx,        \* board output on its way to the host
  log,       \* history: the results of run_cmd, in order
  ended,     \* history: the command lines the shell ended to their end
  lost,      \* history: ids of lines some output of which never was read
  answered,  \* history: ids whose cmdresult was sent on an open WebSocket
  sent, typed, faults, timeouts   \* counters for the bounds

clientVars == <<conn, inbox, sent, typed>>
handlerVars == <<h, cur, clients, lockq, captures>>
readerVars == <<port, rd, inhand>>
boardVars == <<prompt, tty, step, rx, ended>>
historyVars == <<log, lost, answered, faults, timeouts>>
vars == <<clientVars, handlerVars, readerVars, boardVars, historyVars>>

Ids == 1..MaxMsgs
Message == [op : {"cmd", "keys", "enter"}, id : Ids]
\* What a line turns into on the console.  "junk" is the output of a command
\* whose line began with somebody's unfinished keystrokes, "typed" that of a
\* line typed in a terminal window.
Chunk == [kind : {"echo", "out", "junk", "typed", "mark"}, id : Ids, n : Nat]
Line == [kind : {"out", "junk", "typed"}, id : Ids]
Capture == [owner : Clients, data : Seq(Chunk)]
Result == [id : Ids, out : SUBSET Chunk, ok : BOOLEAN]
HandlerState == {"new", "recv", "queued", "polling", "replying", "closed"}

Items(s) == {s[i] : i \in 1..Len(s)}
Mark(id) == [kind |-> "mark", id |-> id, n |-> 0]
NoChunk == [kind |-> "none", id |-> 0, n |-> 0]

Init ==
  /\ conn = [c \in Clients |-> "up"]
  /\ inbox = [c \in Clients |-> <<>>]
  /\ h = [c \in Clients |-> "new"] /\ clients = {}
  /\ cur = [c \in Clients |-> 0]
  /\ lockq = <<>> /\ captures = <<>>
  /\ port = "closed" /\ rd = "opening" /\ inhand = NoChunk
  /\ prompt = "empty" /\ tty = <<>> /\ step = 0 /\ rx = <<>>
  /\ log = <<>> /\ ended = <<>> /\ lost = {} /\ answered = {}
  /\ sent = 0 /\ typed = 0 /\ faults = 0 /\ timeouts = 0

-----------------------------------------------------------------------------
(* The browsers and scripts on the other end of the WebSockets.            *)

\* A client sends a message without waiting for earlier answers.
Send(c, op) ==
  /\ conn[c] = "up" /\ sent < MaxMsgs
  /\ op # "cmd" => typed < MaxTyped
  /\ sent' = sent + 1
  /\ typed' = IF op = "cmd" THEN typed ELSE typed + 1
  /\ inbox' = [inbox EXCEPT ![c] = Append(@, [op |-> op, id |-> sent + 1])]
  /\ UNCHANGED <<conn, handlerVars, readerVars, boardVars, historyVars>>

\* A closed tab, a killed script: what it had sent stays readable.
Disconnect(c) ==
  /\ conn[c] = "up"
  /\ conn' = [conn EXCEPT ![c] = "gone"]
  /\ UNCHANGED <<inbox, sent, typed, handlerVars, readerVars, boardVars,
                 historyVars>>

-----------------------------------------------------------------------------
(* ws_handler and run_cmd.                                                 *)

\* A connection's coroutine registers its queue and greets.  A WebSocket that
\* is gone already makes the greeting raise before the try block: nothing
\* then takes the queue back.
Greet(c) ==
  /\ h[c] = "new"
  /\ clients' = clients \cup {c}
  /\ h' = [h EXCEPT ![c] = IF conn[c] = "up" THEN "recv" ELSE "closed"]
  /\ UNCHANGED <<clientVars, cur, lockq, captures, readerVars, boardVars,
                 historyVars>>

\* Mutant of Leave: the queue stays registered.
LeaveKeepingQueue(c) ==
  /\ h' = [h EXCEPT ![c] = "closed"]
  /\ conn' = [conn EXCEPT ![c] = "gone"]
  /\ inbox' = [inbox EXCEPT ![c] = <<>>]
  /\ clients' = clients

\* Leaving ws_handler, by an exception or at the end of the stream: the
\* client's queue is discarded and the WebSocket closes.
Leave(c) ==
  /\ h' = [h EXCEPT ![c] = "closed"]
  /\ conn' = [conn EXCEPT ![c] = "gone"]
  /\ inbox' = [inbox EXCEPT ![c] = <<>>]
  /\ clients' = clients \ {c}

\* SerialHub.write of a whole line: silently nothing while the port is closed.
TypeLine(kind, id) ==
  IF port = "open"
  THEN /\ tty' = Append(tty, [kind |-> IF prompt = "begun" /\ kind = "out"
                                       THEN "junk" ELSE kind, id |-> id])
       /\ prompt' = "empty"
  ELSE UNCHANGED <<tty, prompt>>

\* "data" and raw messages go to the port without cmd_lock.
HandleData(c) ==
  /\ h[c] = "recv" /\ inbox[c] # <<>> /\ Head(inbox[c]).op # "cmd"
  /\ inbox' = [inbox EXCEPT ![c] = Tail(@)]
  /\ IF Head(inbox[c]).op = "enter"
     THEN TypeLine("typed", Head(inbox[c]).id)
     ELSE /\ prompt' = IF port = "open" THEN "begun" ELSE prompt
          /\ UNCHANGED tty
  /\ UNCHANGED <<conn, sent, typed, handlerVars, readerVars, step, rx, ended,
                 historyVars>>

\* Mutant of HandleCmd: the line is typed before the lock is held.
TypeThenQueue(c) ==
  /\ h[c] = "recv" /\ inbox[c] # <<>> /\ Head(inbox[c]).op = "cmd"
  /\ inbox' = [inbox EXCEPT ![c] = Tail(@)]
  /\ cur' = [cur EXCEPT ![c] = Head(inbox[c]).id]
  /\ h' = [h EXCEPT ![c] = "queued"]
  /\ lockq' = Append(lockq, c)
  /\ TypeLine("out", Head(inbox[c]).id)
  /\ UNCHANGED <<conn, sent, typed, clients, captures, readerVars,
                 step, rx, ended, historyVars>>

\* A "cmd" message: run_cmd joins the queue of the asyncio lock.
HandleCmd(c) ==
  /\ h[c] = "recv" /\ inbox[c] # <<>> /\ Head(inbox[c]).op = "cmd"
  /\ inbox' = [inbox EXCEPT ![c] = Tail(@)]
  /\ cur' = [cur EXCEPT ![c] = Head(inbox[c]).id]
  /\ h' = [h EXCEPT ![c] = "queued"]
  /\ lockq' = Append(lockq, c)
  /\ UNCHANGED <<conn, sent, typed, clients, captures, readerVars,
                 boardVars, historyVars>>

\* Mutant of Holds: no mutual exclusion.
HoldsWithoutLock(c) == lockq # <<>>

\* cmd_lock is granted in order of arrival.
Holds(c) == lockq # <<>> /\ Head(lockq) = c

\* With the lock: register an empty capture, then type the line.
StartCmd(c) ==
  /\ h[c] = "queued" /\ Holds(c)
  /\ captures' = Append(captures, [owner |-> c, data |-> <<>>])
  /\ TypeLine("out", cur[c])
  /\ h' = [h EXCEPT ![c] = "polling"]
  /\ UNCHANGED <<clientVars, cur, clients, lockq, readerVars, step, rx,
                 ended, historyVars>>

CaptureOf(c) ==
  captures[CHOOSE i \in 1..Len(captures) : captures[i].owner = c].data
\* list.remove: the first bytearray with the same contents goes.
FirstEqual(c) ==
  CHOOSE i \in 1..Len(captures) :
    /\ captures[i].data = CaptureOf(c)
    /\ \A j \in 1..i-1 : captures[j].data # CaptureOf(c)
RemoveCapture(c) ==
  SubSeq(captures, 1, FirstEqual(c) - 1)
    \o SubSeq(captures, FirstEqual(c) + 1, Len(captures))

\* Mutant of MarkSeen: the marker without the random token.
MarkWithoutToken(data, id) == \E x \in Items(data) : x.kind = "mark"

MarkSeen(data, id) == Mark(id) \in Items(data)

\* Mutant of OutputOf: cut at the first marker, whoever's it is.
OutputCutAtAnyMark(data, id) ==
  {data[i] : i \in {j \in 1..Len(data) :
       /\ data[j].kind \in {"out", "junk", "typed"}
       /\ \A k \in 1..j : data[k].kind # "mark"}}

\* The text before the marker, without the lines that hold a marker (the
\* echo of a command line holds the text of its printf).
OutputOf(data, id) ==
  {data[i] : i \in {j \in 1..Len(data) :
       /\ data[j].kind \in {"out", "junk", "typed"}
       /\ \A k \in 1..j : data[k] # Mark(id)}}

\* The end of run_cmd: what was captured decides the answer, the capture is
\* removed and the lock released.
Finish(c) ==
  /\ log' = Append(log, [id |-> cur[c], out |-> OutputOf(CaptureOf(c), cur[c]),
                         ok |-> MarkSeen(CaptureOf(c), cur[c])])
  /\ captures' = RemoveCapture(c)
  /\ lockq' = Tail(lockq)
  /\ h' = [h EXCEPT ![c] = "replying"]
  /\ UNCHANGED <<clientVars, cur, clients, readerVars, boardVars, lost,
                 answered, faults>>

MarkerFound(c) ==
  /\ h[c] = "polling" /\ MarkSeen(CaptureOf(c), cur[c])
  /\ Finish(c)
  /\ UNCHANGED timeouts

\* Mutant of TimeLimit: the limit is only looked at once something came back.
TimeLimitAfterOutput(c) ==
  /\ h[c] = "polling" /\ timeouts < MaxTimeouts /\ CaptureOf(c) # <<>>
  /\ timeouts' = timeouts + 1
  /\ Finish(c)

TimeLimit(c) ==
  /\ h[c] = "polling" /\ timeouts < MaxTimeouts
  /\ timeouts' = timeouts + 1
  /\ Finish(c)

\* ws.send of the cmdresult; on a closed WebSocket it raises.
Reply(c) ==
  /\ h[c] = "replying"
  /\ cur' = [cur EXCEPT ![c] = 0]
  /\ IF conn[c] = "up"
     THEN /\ h' = [h EXCEPT ![c] = "recv"]
          /\ answered' = answered \cup {cur[c]}
          /\ UNCHANGED <<conn, inbox, clients>>
     ELSE Leave(c) /\ UNCHANGED answered
  /\ UNCHANGED <<sent, typed, lockq, captures, port, rd, inhand, boardVars,
                 log, lost, faults, timeouts>>

EndOfStream(c) ==
  /\ h[c] = "recv" /\ inbox[c] = <<>> /\ conn[c] = "gone"
  /\ Leave(c)
  /\ UNCHANGED <<sent, typed, cur, lockq, captures, port, rd, inhand,
                 boardVars, historyVars>>

\* The port fails under a write: the exception leaves ws_handler; inside
\* run_cmd the finally clause and the lock's exit run first.  Some of the
\* bytes may have reached the board.
WriteRaises(c) ==
  /\ port = "open" /\ faults < MaxFaults
  /\ \/ h[c] = "recv" /\ inbox[c] # <<>> /\ Head(inbox[c]).op # "cmd"
        /\ UNCHANGED lockq
     \/ h[c] = "queued" /\ Holds(c) /\ lockq' = Tail(lockq)
  /\ faults' = faults + 1
  /\ prompt' \in {prompt, "begun"}
  /\ cur' = [cur EXCEPT ![c] = 0]
  /\ Leave(c)
  /\ UNCHANGED <<sent, typed, captures, port, rd, inhand, tty, step, rx, ended,
                 log, lost, answered, timeouts>>

-----------------------------------------------------------------------------
(* reader_thread.                                                          *)

\* Opening a closed port discards what had arrived before.
OpenPort ==
  /\ rd = "opening"
  /\ rd' = "reading" /\ port' = "open" /\ rx' = <<>>
  /\ lost' = lost \cup {x.id : x \in Items(rx)}
  /\ UNCHANGED <<clientVars, handlerVars, inhand, prompt, tty, step,
                 ended, log, answered, faults, timeouts>>

\* Mutant of ReadChunk: what was read is dropped.
ReadAndForget ==
  /\ rd = "reading" /\ rx # <<>>
  /\ rx' = Tail(rx) /\ rd' = "holding"
  /\ UNCHANGED <<clientVars, handlerVars, port, prompt, tty, step,
                 ended, inhand, historyVars>>

ReadChunk ==
  /\ rd = "reading" /\ rx # <<>>
  /\ inhand' = Head(rx) /\ rx' = Tail(rx) /\ rd' = "holding"
  /\ UNCHANGED <<clientVars, handlerVars, port, prompt, tty, step,
                 ended, historyVars>>

\* Extend every registered capture (and queue the chunk for every client).
Deliver ==
  /\ rd = "holding"
  /\ captures' = [i \in 1..Len(captures) |->
                    [captures[i] EXCEPT !.data = Append(@, inhand)]]
  /\ inhand' = NoChunk /\ rd' = "reading"
  /\ UNCHANGED <<clientVars, h, cur, clients, lockq, port, boardVars,
                 historyVars>>

\* serial.Serial(...) or read raises; the port stays as it is for a second.
ReaderRaises ==
  /\ rd \in {"opening", "reading"} /\ faults < MaxFaults
  /\ rd' = "failed" /\ faults' = faults + 1
  /\ UNCHANGED <<clientVars, handlerVars, port, inhand, boardVars,
                 log, lost, answered, timeouts>>

CloseAfterError ==
  /\ rd = "failed"
  /\ rd' = "opening" /\ port' = "closed"
  /\ UNCHANGED <<clientVars, handlerVars, inhand, boardVars,
                 historyVars>>

-----------------------------------------------------------------------------
(* The board's shell (external).                                           *)

Print1(kind, n) == rx' = Append(rx, [kind |-> kind, id |-> Head(tty).id, n |-> n])

ShellStart ==
  /\ tty # <<>> /\ step = 0
  /\ step' = 1 /\ Print1("echo", 0)
  /\ UNCHANGED <<clientVars, handlerVars, readerVars, prompt, tty, ended,
                 historyVars>>

ShellPrint ==
  /\ step \in 1..OutLen
  /\ step' = step + 1 /\ Print1(Head(tty).kind, step)
  /\ UNCHANGED <<clientVars, handlerVars, readerVars, prompt, tty, ended,
                 historyVars>>

ShellDone ==
  /\ step = OutLen + 1
  /\ step' = 0 /\ tty' = Tail(tty)
  /\ IF Head(tty).kind = "typed"
     THEN UNCHANGED <<rx, ended>>
     ELSE /\ Print1("mark", 0)
          /\ ended' = Append(ended, Head(tty))
  /\ UNCHANGED <<clientVars, handlerVars, readerVars, prompt, historyVars>>

-----------------------------------------------------------------------------
Handler(c) == \/ Greet(c) \/ HandleData(c) \/ HandleCmd(c) \/ StartCmd(c)
              \/ MarkerFound(c) \/ TimeLimit(c) \/ Reply(c) \/ EndOfStream(c)
Reader == OpenPort \/ ReadChunk \/ Deliver \/ CloseAfterError
Shell == ShellStart \/ ShellPrint \/ ShellDone

Next ==
  \/ \E c \in Clients :
       \/ \E op \in {"cmd", "keys", "enter"} : Send(c, op)
       \/ Disconnect(c)
       \/ Handler(c)
       \/ WriteRaises(c)
  \/ Reader
  \/ ReaderRaises
  \/ Shell

Spec == Init /\ [][Next]_vars

\* The event loop resumes every coroutine that can go on; nothing is assumed
\* of the board, the port or the clients.
FairSpec == Spec /\ \A c \in Clients : WF_vars(Handler(c))

-----------------------------------------------------------------------------
\* Type invariant, one part per group of variables.  A coroutine in run_cmd
\* has a command, a chunk in the reader's hands is a chunk of the console,
\* and a line that has begun is at the head of the shell's input.
ClientTypeOK ==
  /\ conn \in [Clients -> {"up", "gone"}]
  /\ inbox \in [Clients -> Seq(Message)]
  /\ sent \in 0..MaxMsgs /\ typed \in 0..MaxTyped
HandlerTypeOK ==
  /\ h \in [Clients -> HandlerState]
  /\ cur \in [Clients -> 0..MaxMsgs]
  /\ \A c \in Clients : h[c] \in {"queued", "polling", "replying"} => cur[c] \in Ids
  /\ clients \subseteq Clients
  /\ lockq \in Seq(Clients)
  /\ captures \in Seq(Capture)
ReaderTypeOK ==
  /\ port \in {"open", "closed"}
  /\ rd \in {"opening", "reading", "holding", "failed"}
  /\ inhand \in Chunk \cup {NoChunk}
  /\ rd = "holding" => inhand \in Chunk
BoardTypeOK ==
  /\ prompt \in {"empty", "begun"}
  /\ tty \in Seq(Line)
  /\ step \in 0..OutLen+1
  /\ step > 0 => tty # <<>>
  /\ rx \in Seq(Chunk)
  /\ ended \in Seq(Line)
HistoryTypeOK ==
  /\ log \in Seq(Result)
  /\ lost \subseteq Ids /\ answered \subseteq Ids
  /\ faults \in 0..MaxFaults /\ timeouts \in 0..MaxTimeouts
TypeOK == /\ ClientTypeOK /\ HandlerTypeOK /\ ReaderTypeOK
          /\ BoardTypeOK /\ HistoryTypeOK

\* At most one capture is registered, and it is that of the one coroutine
\* that is polling: output is never collected twice, list.remove (which
\* compares contents) takes the right bytearray, and no bytearray is left
\* behind for the reader thread to extend for ever.
OneCapture ==
  /\ Len(captures) <= 1
  /\ \A c \in Clients :
       h[c] = "polling" <=> \E i \in 1..Len(captures) : captures[i].owner = c

\* What an "ok" result shows besides the command's own output is a terminal
\* user's, or the late output of a command that had already been answered
\* as failed: two commands that both end well never mix.
OutputIsAttributable ==
  \A i \in 1..Len(log) : log[i].ok =>
    \A x \in log[i].out :
      \/ x.id = log[i].id \/ x.kind = "typed"
      \/ \E j \in 1..i-1 : log[j].id = x.id /\ ~log[j].ok

\* An "ok" result holds every chunk the line printed, unless the port was
\* reopened while some of it was on its way.
OkOutputIsComplete ==
  \A i \in 1..Len(log) : log[i].ok /\ log[i].id \notin lost =>
    \A n \in 1..OutLen : \E x \in log[i].out :
      x.id = log[i].id /\ x.n = n /\ x.kind \in {"out", "junk"}

\* Commands end on the board in the order in which run_cmd served them,
\* those that outlived their time limit included.
RunsInServiceOrder ==
  \A i, j \in 1..Len(log) : \A p, q \in 1..Len(ended) :
    i < j /\ ended[p].id = log[i].id /\ ended[q].id = log[j].id => p < q

\* The bridge implements the abstract command service.
AnswerOf(id) ==
  IF \E i \in 1..Len(log) : log[i].id = id
  THEN IF \E i \in 1..Len(log) : log[i].id = id /\ log[i].ok
       THEN "ok" ELSE "failed"
  ELSE "none"
Service == INSTANCE CommandService WITH
  asked <- 1..sent,
  done <- [i \in 1..Len(ended) |-> ended[i].id],
  answer <- [id \in Ids |-> AnswerOf(id)]
ImplementsService == Service!Spec

\* Every command is answered while its client stays, however the board, the
\* port and the other clients behave.
Waiting(c, id) == \E i \in 1..Len(inbox[c]) : inbox[c][i] = [op |-> "cmd", id |-> id]
EveryCommandAnswered ==
  \A c \in Clients, id \in Ids :
    Waiting(c, id) ~> (id \in answered \/ conn[c] = "gone")

\* A client that greeted and went away does not keep its queue for ever.
QueueGivenBack ==
  \A c \in Clients :
    (conn[c] = "gone" /\ h[c] \notin {"new", "closed"}) ~> c \notin clients

-----------------------------------------------------------------------------
(* What the repository says of the program and the code does not keep.     *)

\* run_cmd: "Send one shell command, capture only its stdout using a unique
\* marker."
OnlyItsOutput ==
  \A i \in 1..Len(log) : log[i].ok => \A x \in log[i].out : x.id = log[i].id
=============================================================================
