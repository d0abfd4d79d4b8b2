------------------------- MODULE SerialBridgeProofs -------------------------
(***************************************************************************)
(* Proofs about SerialBridge for any number of clients, messages, output   *)
(* chunks, faults and time limits, in three parts, each on the invariant   *)
(* of the one before: its type invariant and the exclusivity of the        *)
(* capture (IInv); that it implements CommandService (RInv); and what its  *)
(* answers hold: whose output, all of it, and in which order commands run  *)
(* (SInv).                                                                 *)
(***************************************************************************)
EXTENDS SerialBridge, SequenceTheorems, TLAPS

\* The lock's queue names exactly the coroutines inside run_cmd, each once,
\* and a coroutine polls only at the head of it.
LockInv ==
  /\ \A i, j \in 1..Len(lockq) : lockq[i] = lockq[j] => i = j
  /\ \A c \in Clients :
       h[c] \in {"queued", "polling"} <=> \E i \in 1..Len(lockq) : lockq[i] = c
  /\ \A c \in Clients : h[c] = "polling" => lockq # <<>> /\ lockq[1] = c

\* OneCapture in the form that each step preserves.
CaptureInv ==
  /\ captures # <<>> => /\ Len(captures) = 1
                        /\ h[captures[1].owner] = "polling"
  /\ \A c \in Clients :
       h[c] = "polling" => captures # <<>> /\ captures[1].owner = c

IInv == TypeOK /\ LockInv /\ CaptureInv

\* The capture of a polling coroutine is the only one, so list.remove, which
\* compares contents, leaves none.
LEMMA OnlyCapture ==
  ASSUME TypeOK, CaptureInv, NEW c \in Clients, h[c] = "polling"
  PROVE  /\ CaptureOf(c) = captures[1].data
         /\ CaptureOf(c) \in Seq(Chunk)
         /\ RemoveCapture(c) = << >>
<1>1. captures \in Seq(Capture) /\ Len(captures) = 1 /\ captures[1].owner = c
  BY DEF TypeOK, HandlerTypeOK, CaptureInv
<1>2. captures[1] \in Capture
  BY <1>1, ElementOfSeq
<1>3. (CHOOSE i \in 1..Len(captures) : captures[i].owner = c) = 1
  BY <1>1
<1>4. CaptureOf(c) = captures[1].data
  BY <1>3 DEF CaptureOf
<1>5. CaptureOf(c) \in Seq(Chunk)
  BY <1>2, <1>4 DEF Capture
<1>6. FirstEqual(c) = 1
  <2>1. \A i \in 1..Len(captures) : i = 1
    BY <1>1
  <2>2. captures[1].data = CaptureOf(c) /\ 1 \in 1..Len(captures)
    BY <1>1, <1>4
  <2>3. \A j \in 1..1-1 : captures[j].data # CaptureOf(c)
    OBVIOUS
  <2> QED
    BY <2>1, <2>2, <2>3 DEF FirstEqual
<1>7. SubSeq(captures, 1, 0) = << >> /\ SubSeq(captures, 2, 1) = << >>
  BY <1>1
<1> QED
  BY <1>1, <1>4, <1>5, <1>6, <1>7 DEF RemoveCapture

\* What run_cmd cuts out of a capture is a set of chunks.
LEMMA OutputType ==
  ASSUME NEW data \in Seq(Chunk), NEW id
  PROVE  OutputOf(data, id) \in SUBSET Chunk
<1>1. \A i \in 1..Len(data) : data[i] \in Chunk
  BY ElementOfSeq
<1> QED
  BY <1>1 DEF OutputOf

\* Typing a line keeps the types of the shell's input.
LEMMA TypeLineType ==
  ASSUME BoardTypeOK, NEW kind \in {"out", "typed"}, NEW id \in Ids,
         TypeLine(kind, id), UNCHANGED <<step, rx, ended>>
  PROVE  BoardTypeOK'
<1> DEFINE l == [kind |-> IF prompt = "begun" /\ kind = "out" THEN "junk" ELSE kind,
                 id |-> id]
<1>1. CASE port = "open"
  <2>1. l \in Line
    BY DEF Line
  <2>2. tty \in Seq(Line) /\ tty' = Append(tty, l) /\ prompt' = "empty"
    BY <1>1 DEF TypeLine, BoardTypeOK
  <2> HIDE DEF l
  <2>3. tty' \in Seq(Line) /\ tty' # << >>
    BY <2>1, <2>2, AppendProperties
  <2> QED
    BY <2>2, <2>3 DEF BoardTypeOK
<1>2. CASE port # "open"
  BY <1>2 DEF TypeLine, BoardTypeOK
<1> QED
  BY <1>1, <1>2

LEMMA InitIInv == Init => IInv
<1> SUFFICES ASSUME Init PROVE IInv
  OBVIOUS
<1>1. ClientTypeOK
  BY BoundsAssumption DEF Init, ClientTypeOK
<1>2. HandlerTypeOK
  BY BoundsAssumption DEF Init, HandlerTypeOK, HandlerState
<1>3. ReaderTypeOK
  BY DEF Init, ReaderTypeOK
<1>4. BoardTypeOK
  BY BoundsAssumption DEF Init, BoardTypeOK
<1>5. HistoryTypeOK
  BY BoundsAssumption DEF Init, HistoryTypeOK
<1>6. LockInv /\ CaptureInv
  BY DEF Init, LockInv, CaptureInv
<1> QED
  BY <1>1, <1>2, <1>3, <1>4, <1>5, <1>6 DEF IInv, TypeOK

-----------------------------------------------------------------------------
(* Each action preserves the type invariant.                               *)

LEMMA SendType == ASSUME TypeOK, NEW c \in Clients,
                         NEW op \in {"cmd", "keys", "enter"}, Send(c, op)
                  PROVE  TypeOK'
<1> DEFINE m == [op |-> op, id |-> sent + 1]
<1>1. ClientTypeOK'
  <2>1. m \in Message
    BY BoundsAssumption DEF TypeOK, ClientTypeOK, Send, Message, Ids
  <2>2. inbox' = [inbox EXCEPT ![c] = Append(@, m)]
    BY DEF Send
  <2> HIDE DEF m
  <2>3. Append(inbox[c], m) \in Seq(Message)
    BY <2>1, AppendProperties DEF TypeOK, ClientTypeOK
  <2>4. inbox' \in [Clients -> Seq(Message)]
    BY <2>2, <2>3 DEF TypeOK, ClientTypeOK
  <2> QED
    BY <2>4, BoundsAssumption DEF TypeOK, ClientTypeOK, Send
<1>2. HandlerTypeOK' /\ ReaderTypeOK' /\ BoardTypeOK' /\ HistoryTypeOK'
  BY DEF TypeOK, Send, HandlerTypeOK, ReaderTypeOK, BoardTypeOK, HistoryTypeOK,
         handlerVars, readerVars, boardVars, historyVars
<1> QED
  BY <1>1, <1>2 DEF TypeOK

LEMMA DisconnectType == ASSUME TypeOK, NEW c \in Clients, Disconnect(c)
                        PROVE  TypeOK'
<1>1. ClientTypeOK'
  BY DEF TypeOK, ClientTypeOK, Disconnect
<1>2. HandlerTypeOK' /\ ReaderTypeOK' /\ BoardTypeOK' /\ HistoryTypeOK'
  BY DEF TypeOK, Disconnect, HandlerTypeOK, ReaderTypeOK, BoardTypeOK,
         HistoryTypeOK, handlerVars, readerVars, boardVars, historyVars
<1> QED
  BY <1>1, <1>2 DEF TypeOK

LEMMA GreetType == ASSUME TypeOK, NEW c \in Clients, Greet(c)
                   PROVE  TypeOK'
<1>1. HandlerTypeOK'
  BY DEF TypeOK, HandlerTypeOK, Greet, HandlerState
<1>2. ClientTypeOK' /\ ReaderTypeOK' /\ BoardTypeOK' /\ HistoryTypeOK'
  BY DEF TypeOK, Greet, ClientTypeOK, ReaderTypeOK, BoardTypeOK,
         HistoryTypeOK, clientVars, readerVars, boardVars, historyVars
<1> QED
  BY <1>1, <1>2 DEF TypeOK

\* Reading a message leaves a well-typed inbox and yields a message.
LEMMA InboxTail ==
  ASSUME ClientTypeOK, NEW c \in Clients, inbox[c] # << >>
  PROVE  /\ Head(inbox[c]) \in Message
         /\ [inbox EXCEPT ![c] = Tail(@)] \in [Clients -> Seq(Message)]
<1>1. inbox[c] \in Seq(Message)
  BY DEF ClientTypeOK
<1>2. Head(inbox[c]) \in Message /\ Tail(inbox[c]) \in Seq(Message)
  BY <1>1, HeadTailProperties
<1> QED
  BY <1>2 DEF ClientTypeOK

LEMMA HandleDataType == ASSUME TypeOK, NEW c \in Clients, HandleData(c)
                        PROVE  TypeOK'
<1>1. ClientTypeOK' /\ Head(inbox[c]).id \in Ids
  BY InboxTail DEF TypeOK, ClientTypeOK, HandleData, Message
<1>2. BoardTypeOK'
  <2>1. UNCHANGED <<step, rx, ended>>
    BY DEF HandleData
  <2>2. CASE Head(inbox[c]).op = "enter"
    BY <1>1, <2>1, <2>2, TypeLineType DEF TypeOK, HandleData
  <2>3. CASE Head(inbox[c]).op # "enter"
    BY <2>1, <2>3 DEF TypeOK, BoardTypeOK, HandleData
  <2> QED
    BY <2>2, <2>3
<1>3. HandlerTypeOK' /\ ReaderTypeOK' /\ HistoryTypeOK'
  BY DEF TypeOK, HandleData, HandlerTypeOK, ReaderTypeOK, HistoryTypeOK,
         handlerVars, readerVars, historyVars
<1> QED
  BY <1>1, <1>2, <1>3 DEF TypeOK

LEMMA HandleCmdType == ASSUME TypeOK, NEW c \in Clients, HandleCmd(c)
                       PROVE  TypeOK'
<1>1. ClientTypeOK' /\ Head(inbox[c]).id \in Ids
  BY InboxTail DEF TypeOK, ClientTypeOK, HandleCmd, Message
<1>2. HandlerTypeOK'
  <2>1. lockq' \in Seq(Clients)
    BY AppendProperties DEF TypeOK, HandlerTypeOK, HandleCmd
  <2>2. Head(inbox[c]).id \in 0..MaxMsgs
    BY <1>1, BoundsAssumption DEF Ids
  <2> QED
    BY <1>1, <2>1, <2>2 DEF TypeOK, HandlerTypeOK, HandleCmd, HandlerState
<1>3. ReaderTypeOK' /\ BoardTypeOK' /\ HistoryTypeOK'
  BY DEF TypeOK, HandleCmd, ReaderTypeOK, BoardTypeOK, HistoryTypeOK,
         readerVars, boardVars, historyVars
<1> QED
  BY <1>1, <1>2, <1>3 DEF TypeOK

LEMMA StartCmdType == ASSUME TypeOK, NEW c \in Clients, StartCmd(c)
                      PROVE  TypeOK'
<1>1. HandlerTypeOK'
  <2>1. [owner |-> c, data |-> << >>] \in Capture
    BY EmptySeq DEF Capture
  <2>2. captures' \in Seq(Capture)
    BY <2>1, AppendProperties DEF TypeOK, HandlerTypeOK, StartCmd
  <2> QED
    BY <2>2 DEF TypeOK, HandlerTypeOK, StartCmd, HandlerState
<1>2. BoardTypeOK'
  BY TypeLineType DEF TypeOK, HandlerTypeOK, StartCmd
<1>3. ClientTypeOK' /\ ReaderTypeOK' /\ HistoryTypeOK'
  BY DEF TypeOK, StartCmd, ClientTypeOK, ReaderTypeOK, HistoryTypeOK,
         clientVars, readerVars, historyVars
<1> QED
  BY <1>1, <1>2, <1>3 DEF TypeOK

LEMMA FinishType ==
  ASSUME TypeOK, CaptureInv, NEW c \in Clients, h[c] = "polling", Finish(c),
         timeouts' \in 0..MaxTimeouts
  PROVE  TypeOK'
<1>1. CaptureOf(c) \in Seq(Chunk) /\ RemoveCapture(c) = << >>
  BY OnlyCapture
<1>2. HandlerTypeOK'
  <2>1. lockq # << >> => Tail(lockq) \in Seq(Clients)
    BY HeadTailProperties DEF TypeOK, HandlerTypeOK
  <2>2. captures' \in Seq(Capture)
    BY <1>1, EmptySeq DEF Finish
  <2>3. lockq = << >> => Tail(lockq) \in Seq(Clients)
    BY EmptySeq
  <2> QED
    BY <2>1, <2>2, <2>3 DEF TypeOK, HandlerTypeOK, Finish, HandlerState
<1>3. HistoryTypeOK'
  <2> DEFINE r == [id |-> cur[c], out |-> OutputOf(CaptureOf(c), cur[c]),
                   ok |-> MarkSeen(CaptureOf(c), cur[c])]
  <2>1. OutputOf(CaptureOf(c), cur[c]) \in SUBSET Chunk
    BY <1>1, OutputType
  <2>2. MarkSeen(CaptureOf(c), cur[c]) \in BOOLEAN
    BY DEF MarkSeen
  <2>3. cur[c] \in Ids
    BY DEF TypeOK, HandlerTypeOK
  <2>4. r \in Result
    BY <2>1, <2>2, <2>3 DEF Result
  <2>5. log' = Append(log, r)
    BY DEF Finish
  <2> HIDE DEF r
  <2>6. log' \in Seq(Result)
    BY <2>4, <2>5, AppendProperties DEF TypeOK, HistoryTypeOK
  <2> QED
    BY <2>6 DEF TypeOK, HistoryTypeOK, Finish
<1>4. ClientTypeOK' /\ ReaderTypeOK' /\ BoardTypeOK'
  BY DEF TypeOK, Finish, ClientTypeOK, ReaderTypeOK, BoardTypeOK,
         clientVars, readerVars, boardVars
<1> QED
  BY <1>2, <1>3, <1>4 DEF TypeOK

\* Leaving ws_handler keeps the types of what it touches.
LEMMA LeaveType ==
  ASSUME TypeOK, NEW c \in Clients, Leave(c)
  PROVE  /\ h' \in [Clients -> HandlerState]
         /\ conn' \in [Clients -> {"up", "gone"}]
         /\ inbox' \in [Clients -> Seq(Message)]
         /\ clients' \subseteq Clients
         /\ \A d \in Clients : h'[d] = h[d] \/ h'[d] = "closed"
  BY EmptySeq DEF TypeOK, ClientTypeOK, HandlerTypeOK, Leave, HandlerState

LEMMA ReplyType == ASSUME TypeOK, NEW c \in Clients, Reply(c)
                   PROVE  TypeOK'
<1>1. cur' \in [Clients -> 0..MaxMsgs] /\ cur[c] \in Ids
  BY BoundsAssumption DEF TypeOK, HandlerTypeOK, Reply
<1>2. CASE conn[c] = "up"
  <2>1. HandlerTypeOK'
    BY <1>1, <1>2 DEF TypeOK, HandlerTypeOK, Reply, HandlerState
  <2>2. ClientTypeOK' /\ HistoryTypeOK'
    BY <1>1, <1>2 DEF TypeOK, ClientTypeOK, HistoryTypeOK, Reply
  <2>3. ReaderTypeOK' /\ BoardTypeOK'
    BY DEF TypeOK, ReaderTypeOK, BoardTypeOK, Reply, boardVars
  <2> QED
    BY <2>1, <2>2, <2>3 DEF TypeOK
<1>3. CASE conn[c] # "up"
  <2>1. Leave(c)
    BY <1>3 DEF Reply
  <2>2. HandlerTypeOK'
    BY <1>1, <2>1, LeaveType DEF TypeOK, HandlerTypeOK, Reply, Leave
  <2>3. ClientTypeOK' /\ HistoryTypeOK'
    BY <1>3, <2>1, LeaveType DEF TypeOK, ClientTypeOK, HistoryTypeOK, Reply
  <2>4. ReaderTypeOK' /\ BoardTypeOK'
    BY DEF TypeOK, ReaderTypeOK, BoardTypeOK, Reply, boardVars
  <2> QED
    BY <2>2, <2>3, <2>4 DEF TypeOK
<1> QED
  BY <1>2, <1>3

LEMMA EndOfStreamType == ASSUME TypeOK, NEW c \in Clients, EndOfStream(c)
                         PROVE  TypeOK'
<1>1. Leave(c)
  BY DEF EndOfStream
<1>2. HandlerTypeOK'
  BY <1>1, LeaveType DEF TypeOK, HandlerTypeOK, EndOfStream
<1>3. ClientTypeOK'
  BY <1>1, LeaveType DEF TypeOK, ClientTypeOK, EndOfStream
<1>4. ReaderTypeOK' /\ BoardTypeOK' /\ HistoryTypeOK'
  BY DEF TypeOK, ReaderTypeOK, BoardTypeOK, HistoryTypeOK, EndOfStream,
         boardVars, historyVars
<1> QED
  BY <1>2, <1>3, <1>4 DEF TypeOK

LEMMA WriteRaisesType == ASSUME TypeOK, NEW c \in Clients, WriteRaises(c)
                         PROVE  TypeOK'
<1>1. Leave(c)
  BY DEF WriteRaises
<1>2. HandlerTypeOK'
  <2>1. lockq' \in Seq(Clients)
    BY HeadTailProperties DEF TypeOK, HandlerTypeOK, WriteRaises, Holds
  <2>2. cur' \in [Clients -> 0..MaxMsgs]
    BY BoundsAssumption DEF TypeOK, HandlerTypeOK, WriteRaises
  <2> QED
    BY <1>1, <2>1, <2>2, LeaveType
    DEF TypeOK, HandlerTypeOK, WriteRaises, Leave
<1>3. ClientTypeOK'
  BY <1>1, LeaveType DEF TypeOK, ClientTypeOK, WriteRaises
<1>4. ReaderTypeOK' /\ BoardTypeOK' /\ HistoryTypeOK'
  BY BoundsAssumption
  DEF TypeOK, ReaderTypeOK, BoardTypeOK, HistoryTypeOK, WriteRaises
<1> QED
  BY <1>2, <1>3, <1>4 DEF TypeOK

\* The chunk at the head of the console stream, and what is left of it.
LEMMA StreamHead ==
  ASSUME BoardTypeOK, rx # << >>
  PROVE  Head(rx) \in Chunk /\ Tail(rx) \in Seq(Chunk)
  BY HeadTailProperties DEF BoardTypeOK

LEMMA ReaderType == ASSUME TypeOK, Reader \/ ReaderRaises
                    PROVE  TypeOK'
<1>1. CASE OpenPort
  <2>1. \A x \in Items(rx) : x.id \in Ids
    <3>1. \A i \in 1..Len(rx) : rx[i] \in Chunk
      BY ElementOfSeq DEF TypeOK, BoardTypeOK
    <3> QED
      BY <3>1 DEF Items, Chunk
  <2>2. HistoryTypeOK'
    BY <1>1, <2>1 DEF TypeOK, HistoryTypeOK, OpenPort
  <2>3. BoardTypeOK'
    BY <1>1, EmptySeq DEF TypeOK, BoardTypeOK, OpenPort
  <2>4. ClientTypeOK' /\ HandlerTypeOK' /\ ReaderTypeOK'
    BY <1>1 DEF TypeOK, ClientTypeOK, HandlerTypeOK, ReaderTypeOK, OpenPort,
                clientVars, handlerVars
  <2> QED
    BY <2>2, <2>3, <2>4 DEF TypeOK
<1>2. CASE ReadChunk
  <2>1. BoardTypeOK' /\ ReaderTypeOK'
    BY <1>2, StreamHead DEF TypeOK, BoardTypeOK, ReaderTypeOK, ReadChunk
  <2>2. ClientTypeOK' /\ HandlerTypeOK' /\ HistoryTypeOK'
    BY <1>2 DEF TypeOK, ClientTypeOK, HandlerTypeOK, HistoryTypeOK, ReadChunk,
                clientVars, handlerVars, historyVars
  <2> QED
    BY <2>1, <2>2 DEF TypeOK
<1>3. CASE Deliver
  <2>1. inhand \in Chunk
    BY <1>3 DEF TypeOK, ReaderTypeOK, Deliver
  <2>2. \A i \in 1..Len(captures) :
          [captures[i] EXCEPT !.data = Append(@, inhand)] \in Capture
    <3>1. \A i \in 1..Len(captures) : captures[i] \in Capture
      BY ElementOfSeq DEF TypeOK, HandlerTypeOK
    <3>2. \A i \in 1..Len(captures) : Append(captures[i].data, inhand) \in Seq(Chunk)
      BY <2>1, <3>1, AppendProperties DEF Capture
    <3> QED
      BY <3>1, <3>2 DEF Capture
  <2>3. Len(captures) \in Nat
    BY LenProperties DEF TypeOK, HandlerTypeOK
  <2>4. captures' \in Seq(Capture)
    BY <1>3, <2>2, <2>3 DEF Deliver
  <2>5. HandlerTypeOK' /\ ReaderTypeOK'
    BY <1>3, <2>4 DEF TypeOK, HandlerTypeOK, ReaderTypeOK, Deliver
  <2>6. ClientTypeOK' /\ BoardTypeOK' /\ HistoryTypeOK'
    BY <1>3 DEF TypeOK, ClientTypeOK, BoardTypeOK, HistoryTypeOK, Deliver,
                clientVars, boardVars, historyVars
  <2> QED
    BY <2>5, <2>6 DEF TypeOK
<1>4. CASE CloseAfterError
  BY <1>4 DEF TypeOK, ClientTypeOK, HandlerTypeOK, ReaderTypeOK, BoardTypeOK,
              HistoryTypeOK, CloseAfterError, clientVars, handlerVars,
              boardVars, historyVars
<1>5. CASE ReaderRaises
  BY <1>5, BoundsAssumption
  DEF TypeOK, ClientTypeOK, HandlerTypeOK, ReaderTypeOK, BoardTypeOK,
      HistoryTypeOK, ReaderRaises, clientVars, handlerVars, boardVars
<1> QED
  BY <1>1, <1>2, <1>3, <1>4, <1>5 DEF Reader

\* What the running line prints is a chunk.
LEMMA PrintType ==
  ASSUME BoardTypeOK, tty # << >>, NEW kind \in {"echo", "out", "junk", "typed", "mark"},
         NEW n \in Nat, Print1(kind, n)
  PROVE  rx' \in Seq(Chunk)
<1> DEFINE x == [kind |-> kind, id |-> Head(tty).id, n |-> n]
<1>1. Head(tty) \in Line
  BY HeadTailProperties DEF BoardTypeOK
<1>2. x \in Chunk
  BY <1>1 DEF Line, Chunk
<1>3. rx' = Append(rx, x)
  BY DEF Print1
<1> HIDE DEF x
<1> QED
  BY <1>2, <1>3, AppendProperties DEF BoardTypeOK

LEMMA ShellType == ASSUME TypeOK, Shell
                   PROVE  TypeOK'
<1>1. BoardTypeOK'
  <2>1. CASE ShellStart
    <3>1. rx' \in Seq(Chunk)
      BY <2>1, PrintType DEF TypeOK, ShellStart
    <3> QED
      BY <2>1, <3>1, BoundsAssumption DEF TypeOK, BoardTypeOK, ShellStart
  <2>2. CASE ShellPrint
    <3>1. step > 0 /\ step \in Nat /\ tty # << >>
      BY <2>2, BoundsAssumption DEF TypeOK, BoardTypeOK, ShellPrint
    <3>2. Head(tty).kind \in {"echo", "out", "junk", "typed", "mark"}
      <4>1. Head(tty) \in Line
        BY <3>1, HeadTailProperties DEF TypeOK, BoardTypeOK
      <4> QED
        BY <4>1 DEF Line
    <3>3. rx' \in Seq(Chunk)
      BY <2>2, <3>1, <3>2, PrintType DEF TypeOK, ShellPrint
    <3> QED
      BY <2>2, <3>1, <3>3, BoundsAssumption DEF TypeOK, BoardTypeOK, ShellPrint
  <2>3. CASE ShellDone
    <3>1. tty # << >>
      BY <2>3, BoundsAssumption DEF TypeOK, BoardTypeOK, ShellDone
    <3>2. Head(tty) \in Line /\ Tail(tty) \in Seq(Line)
      BY <3>1, HeadTailProperties DEF TypeOK, BoardTypeOK
    <3>3. rx' \in Seq(Chunk)
      BY <2>3, <3>1, PrintType DEF TypeOK, BoardTypeOK, ShellDone
    <3>4. ended' \in Seq(Line)
      <4>1. ended' = ended \/ ended' = Append(ended, Head(tty))
        BY <2>3 DEF ShellDone
      <4>2. Append(ended, Head(tty)) \in Seq(Line)
        BY <3>2, AppendProperties DEF TypeOK, BoardTypeOK
      <4> QED
        BY <4>1, <4>2 DEF TypeOK, BoardTypeOK
    <3> QED
      BY <2>3, <3>2, <3>3, <3>4, BoundsAssumption DEF TypeOK, BoardTypeOK, ShellDone
  <2> QED
    BY <2>1, <2>2, <2>3 DEF Shell
<1>2. ClientTypeOK' /\ HandlerTypeOK' /\ ReaderTypeOK' /\ HistoryTypeOK'
  BY DEF TypeOK, ClientTypeOK, HandlerTypeOK, ReaderTypeOK, HistoryTypeOK,
         Shell, ShellStart, ShellPrint, ShellDone, clientVars, handlerVars,
         readerVars, historyVars
<1> QED
  BY <1>1, <1>2 DEF TypeOK

LEMMA NextType == IInv /\ [Next]_vars => TypeOK'
<1> SUFFICES ASSUME IInv, [Next]_vars PROVE TypeOK'
  OBVIOUS
<1> USE DEF IInv
<1>1. ASSUME NEW c \in Clients, NEW op \in {"cmd", "keys", "enter"}, Send(c, op)
      PROVE  TypeOK'
  BY <1>1, SendType
<1>2. ASSUME NEW c \in Clients, Disconnect(c) PROVE TypeOK'
  BY <1>2, DisconnectType
<1>3. ASSUME NEW c \in Clients, Handler(c) PROVE TypeOK'
  <2>1. CASE Greet(c)
    BY <2>1, GreetType
  <2>2. CASE HandleData(c)
    BY <2>2, HandleDataType
  <2>3. CASE HandleCmd(c)
    BY <2>3, HandleCmdType
  <2>4. CASE StartCmd(c)
    BY <2>4, StartCmdType
  <2>5. CASE MarkerFound(c)
    BY <2>5, FinishType DEF MarkerFound, TypeOK, HistoryTypeOK
  <2>6. CASE TimeLimit(c)
    <3>1. timeouts' \in 0..MaxTimeouts
      BY <2>6, BoundsAssumption DEF TimeLimit, TypeOK, HistoryTypeOK
    <3> QED
      BY <2>6, <3>1, FinishType DEF TimeLimit
  <2>7. CASE Reply(c)
    BY <2>7, ReplyType
  <2>8. CASE EndOfStream(c)
    BY <2>8, EndOfStreamType
  <2> QED
    BY <1>3, <2>1, <2>2, <2>3, <2>4, <2>5, <2>6, <2>7, <2>8 DEF Handler
<1>4. ASSUME NEW c \in Clients, WriteRaises(c) PROVE TypeOK'
  BY <1>4, WriteRaisesType
<1>5. CASE Reader \/ ReaderRaises
  BY <1>5, ReaderType
<1>6. CASE Shell
  BY <1>6, ShellType
<1>7. CASE UNCHANGED vars
  BY <1>7 DEF TypeOK, ClientTypeOK, HandlerTypeOK, ReaderTypeOK, BoardTypeOK,
              HistoryTypeOK, vars, clientVars, handlerVars, readerVars,
              boardVars, historyVars
<1> QED
  BY <1>1, <1>2, <1>3, <1>4, <1>5, <1>6, <1>7 DEF Next

-----------------------------------------------------------------------------
(* The lock and the capture.                                               *)

\* Steps of clients, reader and shell leave the lock, and everybody's place
\* in run_cmd, alone; they leave the owners of the captures alone too.
LockSame ==
  /\ lockq' = lockq
  /\ \A c \in Clients : \A s \in {"queued", "polling"} : h'[c] = s <=> h[c] = s

\* A newcomer at the end of the lock's queue.
LEMMA Joins ==
  ASSUME TypeOK, LockInv, NEW c \in Clients, h[c] \notin {"queued", "polling"},
         lockq' = Append(lockq, c), h' = [h EXCEPT ![c] = "queued"]
  PROVE  LockInv'
<1>1. /\ lockq \in Seq(Clients) /\ Len(lockq) \in Nat
      /\ Len(lockq') = Len(lockq) + 1 /\ lockq'[Len(lockq) + 1] = c
      /\ \A i \in 1..Len(lockq) : lockq'[i] = lockq[i]
  BY AppendProperties, LenProperties DEF TypeOK, HandlerTypeOK
<1>2. \A i \in 1..Len(lockq) : lockq[i] # c
  BY DEF LockInv
<1>3. \A i, j \in 1..Len(lockq') : lockq'[i] = lockq'[j] => i = j
  BY <1>1, <1>2 DEF LockInv
<1>4. ASSUME NEW d \in Clients
      PROVE  h'[d] \in {"queued", "polling"} <=> \E i \in 1..Len(lockq') : lockq'[i] = d
  <2>1. CASE d = c
    <3>1. h'[d] = "queued" /\ Len(lockq) + 1 \in 1..Len(lockq')
      BY <1>1, <2>1 DEF TypeOK, HandlerTypeOK
    <3> QED
      BY <1>1, <2>1, <3>1
  <2>2. CASE d # c
    <3>1. h'[d] = h[d]
      BY <2>2 DEF TypeOK, HandlerTypeOK
    <3>2. (\E i \in 1..Len(lockq') : lockq'[i] = d) <=> \E i \in 1..Len(lockq) : lockq[i] = d
      BY <1>1, <2>2
    <3> QED
      BY <3>1, <3>2 DEF LockInv
  <2> QED
    BY <2>1, <2>2
<1>5. ASSUME NEW d \in Clients, h'[d] = "polling"
      PROVE  lockq' # << >> /\ lockq'[1] = d
  <2>1. h[d] = "polling" /\ lockq # << >> /\ lockq[1] = d
    BY <1>5 DEF TypeOK, HandlerTypeOK, LockInv
  <2>2. 1 \in 1..Len(lockq)
    BY <2>1, <1>1, EmptySeq
  <2> QED
    BY <1>1, <2>1, <2>2, EmptySeq
<1> QED
  BY <1>3, <1>4, <1>5 DEF LockInv

\* The holder leaves: the head of the queue goes and nobody else moves.
LEMMA Releases ==
  ASSUME TypeOK, LockInv, NEW c \in Clients, lockq # << >>, lockq[1] = c,
         lockq' = Tail(lockq), h'[c] \notin {"queued", "polling"},
         \A d \in Clients \ {c} : h'[d] = h[d]
  PROVE  LockInv'
<1>1. /\ lockq \in Seq(Clients) /\ Len(lockq) \in Nat \ {0}
      /\ Len(lockq') = Len(lockq) - 1
      /\ \A i \in 1..Len(lockq') : lockq'[i] = lockq[i+1]
  BY HeadTailProperties, LenProperties, EmptySeq DEF TypeOK, HandlerTypeOK
<1>2. \A i \in 1..Len(lockq') : i + 1 \in 1..Len(lockq) /\ i + 1 # 1
  BY <1>1
<1>3. \A i, j \in 1..Len(lockq') : lockq'[i] = lockq'[j] => i = j
  <2> SUFFICES ASSUME NEW i \in 1..Len(lockq'), NEW j \in 1..Len(lockq'),
                      lockq'[i] = lockq'[j]
               PROVE  i = j
    OBVIOUS
  <2>1. lockq[i+1] = lockq[j+1]
    BY <1>1
  <2>2. i + 1 = j + 1
    BY <1>2, <2>1 DEF LockInv
  <2> QED
    BY <2>2
<1>4. ASSUME NEW d \in Clients
      PROVE  h'[d] \in {"queued", "polling"} <=> \E i \in 1..Len(lockq') : lockq'[i] = d
  <2>1. CASE d = c
    <3>1. \A i \in 1..Len(lockq') : lockq[i+1] # c
      BY <1>1, <1>2 DEF LockInv
    <3> QED
      BY <1>1, <2>1, <3>1
  <2>2. CASE d # c
    <3>1. (\E i \in 1..Len(lockq') : lockq'[i] = d) => \E i \in 1..Len(lockq) : lockq[i] = d
      BY <1>1, <1>2
    <3>2. ASSUME NEW i \in 1..Len(lockq), lockq[i] = d
          PROVE  \E k \in 1..Len(lockq') : lockq'[k] = d
      <4>1. i # 1
        BY <2>2, <3>2
      <4>2. i - 1 \in 1..Len(lockq') /\ (i - 1) + 1 = i
        BY <1>1, <4>1
      <4> QED
        BY <1>1, <3>2, <4>2
    <3> QED
      BY <2>2, <3>1, <3>2 DEF LockInv
  <2> QED
    BY <2>1, <2>2
<1>5. ASSUME NEW d \in Clients, h'[d] = "polling"
      PROVE  lockq' # << >> /\ lockq'[1] = d
  <2>1. d # c /\ h[d] = "polling"
    BY <1>5
  <2>2. lockq[1] = d
    BY <2>1 DEF LockInv
  <2> QED
    BY <2>1, <2>2
<1> QED
  BY <1>3, <1>4, <1>5 DEF LockInv

LEMMA StaysSame == LockInv /\ LockSame => LockInv'
  BY DEF LockInv, LockSame

\* A handler outside run_cmd that moves somewhere else outside it.
LEMMA MovesOutside ==
  ASSUME NEW c \in Clients, lockq' = lockq,
         h[c] \notin {"queued", "polling"}, h'[c] \notin {"queued", "polling"},
         \A d \in Clients \ {c} : h'[d] = h[d]
  PROVE  LockSame
  BY DEF LockSame

\* ws_handler moves only the coroutine it runs for.
LEMMA OthersStay ==
  ASSUME TypeOK, NEW c \in Clients, Handler(c) \/ WriteRaises(c)
  PROVE  \A d \in Clients \ {c} : h'[d] = h[d]
  BY DEF TypeOK, HandlerTypeOK, Handler, Greet, HandleData, HandleCmd, StartCmd,
         MarkerFound, TimeLimit, Finish, Reply, EndOfStream, WriteRaises, Leave,
         handlerVars

LEMMA NextLock == IInv /\ [Next]_vars => LockInv'
<1> SUFFICES ASSUME IInv, [Next]_vars PROVE LockInv'
  OBVIOUS
<1> USE DEF IInv
<1>1. ASSUME NEW c \in Clients, NEW op \in {"cmd", "keys", "enter"}, Send(c, op)
      PROVE  LockInv'
  BY <1>1, StaysSame DEF Send, LockSame, handlerVars
<1>2. ASSUME NEW c \in Clients, Disconnect(c) PROVE LockInv'
  BY <1>2, StaysSame DEF Disconnect, LockSame, handlerVars
<1>3. ASSUME NEW c \in Clients, Handler(c) PROVE LockInv'
  <2>0. \A d \in Clients \ {c} : h'[d] = h[d]
    BY <1>3, OthersStay
  <2>1. CASE Greet(c)
    <3>1. h'[c] \in {"recv", "closed"} /\ h[c] = "new" /\ lockq' = lockq
      BY <2>1 DEF Greet, TypeOK, HandlerTypeOK
    <3> QED
      BY <2>0, <3>1, MovesOutside, StaysSame
  <2>2. CASE HandleData(c)
    BY <2>2, StaysSame DEF HandleData, LockSame, handlerVars
  <2>3. CASE HandleCmd(c)
    BY <2>3, Joins DEF HandleCmd
  <2>4. CASE StartCmd(c)
    <3>1. lockq' = lockq /\ lockq # << >> /\ lockq[1] = c
      BY <2>4 DEF StartCmd, Holds
    <3>2. h[c] = "queued" /\ h'[c] = "polling"
      BY <2>4 DEF StartCmd, TypeOK, HandlerTypeOK
    <3> QED
      BY <2>0, <3>1, <3>2 DEF LockInv
  <2>5. CASE MarkerFound(c) \/ TimeLimit(c)
    <3>1. h[c] = "polling" /\ Finish(c)
      BY <2>5 DEF MarkerFound, TimeLimit
    <3>2. h'[c] = "replying"
      BY <3>1 DEF Finish, TypeOK, HandlerTypeOK
    <3>3. lockq # << >> /\ lockq[1] = c
      BY <3>1 DEF LockInv
    <3> QED
      BY <2>0, <3>1, <3>2, <3>3, Releases DEF Finish
  <2>6. CASE Reply(c)
    <3>1. h'[c] \in {"recv", "closed"} /\ h[c] = "replying" /\ lockq' = lockq
      BY <2>6 DEF Reply, Leave, TypeOK, HandlerTypeOK
    <3> QED
      BY <2>0, <3>1, MovesOutside, StaysSame
  <2>7. CASE EndOfStream(c)
    <3>1. h'[c] = "closed" /\ h[c] = "recv" /\ lockq' = lockq
      BY <2>7 DEF EndOfStream, Leave, TypeOK, HandlerTypeOK
    <3> QED
      BY <2>0, <3>1, MovesOutside, StaysSame
  <2> QED
    BY <1>3, <2>1, <2>2, <2>3, <2>4, <2>5, <2>6, <2>7 DEF Handler
<1>4. ASSUME NEW c \in Clients, WriteRaises(c) PROVE LockInv'
  <2>1. h'[c] = "closed" /\ \A d \in Clients \ {c} : h'[d] = h[d]
    BY <1>4, OthersStay DEF WriteRaises, Leave, TypeOK, HandlerTypeOK
  <2>2. CASE h[c] = "recv" /\ lockq' = lockq
    BY <2>1, <2>2, MovesOutside, StaysSame
  <2>3. CASE Holds(c) /\ lockq' = Tail(lockq)
    BY <2>1, <2>3, Releases DEF Holds
  <2> QED
    BY <1>4, <2>2, <2>3 DEF WriteRaises
<1>5. CASE Reader \/ ReaderRaises
  BY <1>5, StaysSame DEF Reader, OpenPort, ReadChunk, Deliver, CloseAfterError,
                         ReaderRaises, LockSame, handlerVars
<1>6. CASE Shell
  BY <1>6, StaysSame DEF Shell, ShellStart, ShellPrint, ShellDone, LockSame,
                         handlerVars
<1>7. CASE UNCHANGED vars
  BY <1>7, StaysSame DEF vars, LockSame, handlerVars
<1> QED
  BY <1>1, <1>2, <1>3, <1>4, <1>5, <1>6, <1>7 DEF Next

\* Steps that leave the captures and the polling coroutines alone.
PollSame ==
  captures' = captures /\ \A c \in Clients : h'[c] = "polling" <=> h[c] = "polling"

LEMMA PollStays == TypeOK /\ CaptureInv /\ PollSame => CaptureInv'
<1> SUFFICES ASSUME TypeOK, CaptureInv, PollSame PROVE CaptureInv'
  OBVIOUS
<1>1. captures # << >> => captures[1].owner \in Clients
  <2>1. captures # << >> => captures[1] \in Capture
    BY ElementOfSeq, EmptySeq DEF TypeOK, HandlerTypeOK, CaptureInv
  <2> QED
    BY <2>1 DEF Capture
<1> QED
  BY <1>1 DEF CaptureInv, PollSame

LEMMA NextCapture == IInv /\ [Next]_vars => CaptureInv'
<1> SUFFICES ASSUME IInv, [Next]_vars PROVE CaptureInv'
  OBVIOUS
<1> USE DEF IInv
<1>0. captures # << >> => captures[1] \in Capture /\ captures[1].owner \in Clients
  <2>1. captures # << >> => captures[1] \in Capture
    BY ElementOfSeq, EmptySeq DEF TypeOK, HandlerTypeOK, CaptureInv
  <2> QED
    BY <2>1 DEF Capture
<1>1. ASSUME NEW c \in Clients, NEW op \in {"cmd", "keys", "enter"}, Send(c, op)
      PROVE  CaptureInv'
  BY <1>1, PollStays DEF Send, PollSame, handlerVars
<1>2. ASSUME NEW c \in Clients, Disconnect(c) PROVE CaptureInv'
  BY <1>2, PollStays DEF Disconnect, PollSame, handlerVars
<1>3. ASSUME NEW c \in Clients, Handler(c) PROVE CaptureInv'
  <2>0. \A d \in Clients \ {c} : h'[d] = h[d]
    BY <1>3, OthersStay
  <2>1. CASE Greet(c)
    BY <2>0, <2>1, PollStays DEF Greet, PollSame, TypeOK, HandlerTypeOK
  <2>2. CASE HandleData(c)
    BY <2>2, PollStays DEF HandleData, PollSame, handlerVars
  <2>3. CASE HandleCmd(c)
    BY <2>0, <2>3, PollStays DEF HandleCmd, PollSame, TypeOK, HandlerTypeOK
  <2>4. CASE StartCmd(c)
    <3> DEFINE r == [owner |-> c, data |-> << >>]
    <3>1. h[c] = "queued" /\ lockq # << >> /\ lockq[1] = c /\ h'[c] = "polling"
      BY <2>4 DEF StartCmd, Holds, TypeOK, HandlerTypeOK
    <3>2. \A d \in Clients : h[d] # "polling"
      BY <3>1 DEF LockInv
    <3>3. captures = << >>
      BY <1>0, <3>2 DEF CaptureInv
    <3>4. captures' = << r >>
      BY <2>4, <3>3 DEF StartCmd
    <3>5. captures' # << >> /\ Len(captures') = 1 /\ captures'[1].owner = c
      BY <3>4
    <3>6. \A d \in Clients : h'[d] = "polling" => d = c
      BY <2>0, <3>2
    <3> QED
      BY <3>1, <3>5, <3>6 DEF CaptureInv
  <2>5. CASE MarkerFound(c) \/ TimeLimit(c)
    <3>1. h[c] = "polling" /\ Finish(c)
      BY <2>5 DEF MarkerFound, TimeLimit
    <3>2. captures' = << >>
      BY <3>1, OnlyCapture DEF Finish
    <3>3. h'[c] = "replying"
      BY <3>1 DEF Finish, TypeOK, HandlerTypeOK
    <3>4. \A d \in Clients : h'[d] # "polling"
      BY <2>0, <3>1, <3>3 DEF LockInv
    <3> QED
      BY <3>2, <3>4 DEF CaptureInv
  <2>6. CASE Reply(c)
    BY <2>0, <2>6, PollStays DEF Reply, Leave, PollSame, TypeOK, HandlerTypeOK
  <2>7. CASE EndOfStream(c)
    BY <2>0, <2>7, PollStays DEF EndOfStream, Leave, PollSame, TypeOK, HandlerTypeOK
  <2> QED
    BY <1>3, <2>1, <2>2, <2>3, <2>4, <2>5, <2>6, <2>7 DEF Handler
<1>4. ASSUME NEW c \in Clients, WriteRaises(c) PROVE CaptureInv'
  <2>1. h'[c] = "closed" /\ \A d \in Clients \ {c} : h'[d] = h[d]
    BY <1>4, OthersStay DEF WriteRaises, Leave, TypeOK, HandlerTypeOK
  <2>2. h[c] # "polling" /\ captures' = captures
    BY <1>4 DEF WriteRaises
  <2> QED
    BY <2>1, <2>2, PollStays DEF PollSame
<1>5. CASE Deliver
  <2>1. Len(captures) \in Nat
    BY LenProperties DEF TypeOK, HandlerTypeOK
  <2>2. captures = << >> => captures' = << >>
    BY <1>5 DEF Deliver
  <2>3. captures # << >> => /\ captures' # << >> /\ Len(captures') = 1
                            /\ captures'[1].owner = captures[1].owner
    BY <1>0, <1>5 DEF Deliver, CaptureInv, Capture
  <2>4. h' = h
    BY <1>5 DEF Deliver
  <2> QED
    BY <2>2, <2>3, <2>4 DEF CaptureInv
<1>6. CASE OpenPort \/ ReadChunk \/ CloseAfterError \/ ReaderRaises
  BY <1>6, PollStays DEF OpenPort, ReadChunk, CloseAfterError, ReaderRaises,
                         PollSame, handlerVars
<1>7. CASE Shell
  BY <1>7, PollStays DEF Shell, ShellStart, ShellPrint, ShellDone, PollSame,
                         handlerVars
<1>8. CASE UNCHANGED vars
  BY <1>8, PollStays DEF vars, PollSame, handlerVars
<1> QED
  BY <1>1, <1>2, <1>3, <1>4, <1>5, <1>6, <1>7, <1>8 DEF Next, Reader

LEMMA IInvImplies == IInv => OneCapture
<1> SUFFICES ASSUME IInv PROVE OneCapture
  OBVIOUS
<1>1. CASE captures = << >>
  BY <1>1 DEF IInv, CaptureInv, OneCapture
<1>2. CASE captures # << >>
  <2>1. Len(captures) = 1 /\ 1 \in 1..Len(captures)
    BY <1>2 DEF IInv, CaptureInv
  <2>2. \A i \in 1..Len(captures) : i = 1
    BY <2>1
  <2>3. \A c \in Clients :
          h[c] = "polling" <=> captures[1].owner = c
    BY <1>2 DEF IInv, CaptureInv
  <2> QED
    BY <2>1, <2>2, <2>3 DEF OneCapture
<1> QED
  BY <1>1, <1>2

LEMMA Inductive == Spec => []IInv
<1>1. Init => IInv
  BY InitIInv
<1>2. IInv /\ [Next]_vars => IInv'
  BY NextType, NextLock, NextCapture DEF IInv
<1> QED
  BY <1>1, <1>2, PTL DEF Spec

\* The state of the bridge is well formed whatever the numbers of clients,
\* messages and failures: reader, handlers and lock never get out of step.
THEOREM BridgeTypes == Spec => []TypeOK
<1>1. IInv => TypeOK
  BY DEF IInv
<1> QED
  BY <1>1, Inductive, PTL

\* The asyncio lock makes captures exclusive: at most one bytearray is fed by
\* the reader thread, it belongs to the polling coroutine, and none outlives
\* its command, through time limits, port failures and closed tabs.
THEOREM CaptureExclusive == Spec => []OneCapture
  BY Inductive, IInvImplies, PTL

-----------------------------------------------------------------------------
(***************************************************************************)
(* SerialBridge implements CommandService: the bridge runs each command at *)
(* most once, answers it at most once, and answers "ok" only what has run. *)
(***************************************************************************)

InboxIds(c) == {inbox[c][i].id : i \in 1..Len(inbox[c])}
LineIds == {tty[i].id : i \in 1..Len(tty)}
EndIds == {ended[i].id : i \in 1..Len(ended)}
LogIds == {log[i].id : i \in 1..Len(log)}

\* A command whose line has not been typed, and one that run_cmd has not ended.
Unserved(id) ==
  \/ \E c \in Clients : id \in InboxIds(c)
  \/ \E c \in Clients : h[c] = "queued" /\ cur[c] = id
Unanswered(id) == Unserved(id) \/ \E c \in Clients : h[c] = "polling" /\ cur[c] = id

\* A message is in one place of one inbox.
InboxInv ==
  /\ \A c \in Clients : InboxIds(c) \subseteq 1..sent
  /\ \A c \in Clients : \A i, j \in 1..Len(inbox[c]) :
       inbox[c][i].id = inbox[c][j].id => i = j
  /\ \A c, d \in Clients : c # d => InboxIds(c) \cap InboxIds(d) = {}

\* A command is in the hands of one coroutine and in no inbox.
CurInv ==
  /\ \A c \in Clients : cur[c] # 0 =>
       cur[c] \in 1..sent /\ h[c] \in {"queued", "polling", "replying"}
  /\ \A c, d \in Clients : c # d /\ cur[c] # 0 => cur[c] # cur[d]
  /\ \A c, d \in Clients : cur[c] \notin InboxIds(d)

\* A line is given to the shell once.
LineInv ==
  /\ \A id \in LineIds \cup EndIds : id \in 1..sent /\ ~Unserved(id)
  /\ LineIds \cap EndIds = {}
  /\ \A i, j \in 1..Len(tty) : tty[i].id = tty[j].id => i = j

\* What run_cmd has ended it does not end again.
LogInv == \A id \in LogIds : id \in 1..sent /\ ~Unanswered(id)

\* A marker says that its line has run to its end.
MarkInv ==
  /\ \A i \in 1..Len(rx) : rx[i].kind = "mark" => rx[i].id \in EndIds
  /\ inhand.kind = "mark" => inhand.id \in EndIds
  /\ \A k \in 1..Len(captures) : \A i \in 1..Len(captures[k].data) :
       captures[k].data[i].kind = "mark" => captures[k].data[i].id \in EndIds

RInv == IInv /\ InboxInv /\ CurInv /\ LineInv /\ LogInv /\ MarkInv

-----------------------------------------------------------------------------
(* Inboxes.                                                                *)

\* A client's message is a new one, in its own inbox only.
LEMMA InboxSent ==
  ASSUME TypeOK, InboxInv, NEW c \in Clients, NEW op \in {"cmd", "keys", "enter"}, Send(c, op)
  PROVE  /\ InboxInv'
         /\ InboxIds(c)' = InboxIds(c) \cup {sent + 1}
         /\ \A d \in Clients \ {c} : InboxIds(d)' = InboxIds(d)
<1> DEFINE m == [op |-> op, id |-> sent + 1]
<1>1. inbox \in [Clients -> Seq(Message)] /\ sent \in Nat /\ sent' = sent + 1
  BY BoundsAssumption DEF TypeOK, ClientTypeOK, Send
<1>2. m \in Message  BY BoundsAssumption DEF Send, Message, Ids, TypeOK, ClientTypeOK
<1>3. inbox' = [inbox EXCEPT ![c] = Append(inbox[c], m)] /\ m.id = sent + 1  BY DEF Send
<1> HIDE DEF m
<1>4. /\ Len(inbox[c]) \in Nat /\ Len(inbox'[c]) = Len(inbox[c]) + 1
      /\ \A i \in 1..Len(inbox[c]) : inbox'[c][i] = inbox[c][i]
      /\ inbox'[c][Len(inbox[c]) + 1] = m
  BY <1>1, <1>2, <1>3, AppendProperties, LenProperties
<1>5. \A d \in Clients \ {c} : inbox'[d] = inbox[d]  BY <1>1, <1>3
<1>6. \A d \in Clients \ {c} : InboxIds(d)' = InboxIds(d)  BY <1>5 DEF InboxIds
<1>7. InboxIds(c)' = InboxIds(c) \cup {sent + 1}
  <2>1. 1..Len(inbox'[c]) = 1..Len(inbox[c]) \cup {Len(inbox[c]) + 1}  BY <1>4
  <2> QED  BY <1>3, <1>4, <2>1 DEF InboxIds
<1>8. \A d \in Clients : InboxIds(d) \subseteq 1..sent  BY DEF InboxInv
<1>9. \A i \in 1..Len(inbox[c]) : inbox[c][i].id # sent + 1
  <2>1. \A i \in 1..Len(inbox[c]) : inbox[c][i].id \in InboxIds(c)  BY DEF InboxIds
  <2> QED  BY <1>1, <1>8, <2>1
<1>10. InboxInv'
  <2>1. \A d \in Clients : InboxIds(d)' \subseteq 1..sent'  BY <1>1, <1>6, <1>7, <1>8
  <2>2. \A d \in Clients : \A i, j \in 1..Len(inbox'[d]) :
          inbox'[d][i].id = inbox'[d][j].id => i = j
    <3>1. ASSUME NEW i \in 1..Len(inbox'[c]), NEW j \in 1..Len(inbox'[c]),
                 inbox'[c][i].id = inbox'[c][j].id
          PROVE  i = j
      BY <1>3, <1>4, <1>9, <3>1 DEF InboxInv
    <3>2. \A d \in Clients \ {c} : \A i, j \in 1..Len(inbox'[d]) :
            inbox'[d][i].id = inbox'[d][j].id => i = j
      BY <1>5 DEF InboxInv
    <3> QED  BY <3>1, <3>2
  <2>3. \A d, e \in Clients : d # e => InboxIds(d)' \cap InboxIds(e)' = {}
    <3>1. \A d \in Clients : sent + 1 \notin InboxIds(d)  BY <1>1, <1>8
    <3> QED  BY <1>6, <1>7, <3>1 DEF InboxInv
  <2> QED  BY <2>1, <2>2, <2>3 DEF InboxInv
<1> QED  BY <1>6, <1>7, <1>10

\* A message that has been read is in no inbox.
LEMMA InboxRead ==
  ASSUME TypeOK, InboxInv, NEW c \in Clients, inbox[c] # <<>>,
         inbox' = [inbox EXCEPT ![c] = Tail(@)], sent' = sent
  PROVE  /\ InboxInv'
         /\ Head(inbox[c]).id \in InboxIds(c)
         /\ InboxIds(c)' = InboxIds(c) \ {Head(inbox[c]).id}
         /\ \A d \in Clients \ {c} : InboxIds(d)' = InboxIds(d)
<1> DEFINE q == inbox[c]
           r == inbox'[c]
<1>1. q \in Seq(Message) /\ q # <<>> /\ r = Tail(q)  BY DEF TypeOK, ClientTypeOK
<1>2. \A d \in Clients \ {c} : inbox'[d] = inbox[d]  BY DEF TypeOK, ClientTypeOK
<1>3. \A i, j \in 1..Len(q) : q[i].id = q[j].id => i = j  BY DEF InboxInv
<1>4. InboxIds(c) = {q[i].id : i \in 1..Len(q)} /\ InboxIds(c)' = {r[i].id : i \in 1..Len(r)}
  BY DEF InboxIds
<1> HIDE DEF q, r
<1>5. /\ Len(q) \in Nat \ {0} /\ Len(r) = Len(q) - 1 /\ Head(q) = q[1]
      /\ \A i \in 1..Len(r) : r[i] = q[i+1]
  BY <1>1, HeadTailProperties, LenProperties, EmptySeq
<1>6. 1 \in 1..Len(q) /\ \A i \in 1..Len(r) : i + 1 \in 1..Len(q) /\ i + 1 # 1  BY <1>5
<1>7. Head(q).id \in InboxIds(c)  BY <1>4, <1>5, <1>6
<1>8. InboxIds(c)' = InboxIds(c) \ {Head(q).id}
  <2>1. ASSUME NEW i \in 1..Len(r) PROVE r[i].id \in InboxIds(c) \ {Head(q).id}
    <3>1. r[i].id = q[i+1].id /\ i + 1 \in 1..Len(q) /\ i + 1 # 1  BY <1>5, <1>6
    <3> QED  BY <1>3, <1>4, <1>5, <1>6, <3>1
  <2>2. ASSUME NEW i \in 1..Len(q), q[i].id # Head(q).id PROVE q[i].id \in InboxIds(c)'
    <3>1. i # 1  BY <1>5, <2>2
    <3>2. i - 1 \in 1..Len(r) /\ (i - 1) + 1 = i  BY <1>5, <3>1
    <3>3. r[i-1] = q[i]  BY <1>5, <3>2
    <3> QED  BY <1>4, <3>2, <3>3
  <2> QED  BY <1>4, <2>1, <2>2
<1>9. \A d \in Clients \ {c} : InboxIds(d)' = InboxIds(d)  BY <1>2 DEF InboxIds
<1>10. InboxInv'
  <2>1. \A d \in Clients : InboxIds(d)' \subseteq InboxIds(d)  BY <1>8, <1>9
  <2>2. \A i, j \in 1..Len(r) : r[i].id = r[j].id => i = j
    <3> SUFFICES ASSUME NEW i \in 1..Len(r), NEW j \in 1..Len(r), r[i].id = r[j].id PROVE i = j
      OBVIOUS
    <3>1. q[i+1].id = q[j+1].id  BY <1>5
    <3>2. i + 1 = j + 1  BY <1>3, <1>6, <3>1
    <3> QED  BY <3>2
  <2>3. \A d \in Clients : \A i, j \in 1..Len(inbox'[d]) :
          inbox'[d][i].id = inbox'[d][j].id => i = j
    BY <1>2, <2>2 DEF InboxInv, r
  <2> QED  BY <2>1, <2>3 DEF InboxInv
<1> QED  BY <1>7, <1>8, <1>9, <1>10 DEF q

\* What a client that leaves had sent is in no inbox.
LEMMA InboxDropped ==
  ASSUME TypeOK, InboxInv, NEW c \in Clients, inbox' = [inbox EXCEPT ![c] = <<>>], sent' = sent
  PROVE  /\ InboxInv'
         /\ InboxIds(c)' = {}
         /\ \A d \in Clients \ {c} : InboxIds(d)' = InboxIds(d)
<1>1. \A d \in Clients \ {c} : inbox'[d] = inbox[d]  BY DEF TypeOK, ClientTypeOK
<1>2. inbox'[c] = <<>>  BY DEF TypeOK, ClientTypeOK
<1>3. 1..Len(inbox'[c]) = {}  BY <1>2
<1>4. InboxIds(c)' = {}  BY <1>3 DEF InboxIds
<1>5. \A d \in Clients \ {c} : InboxIds(d)' = InboxIds(d)  BY <1>1 DEF InboxIds
<1>6. \A d \in Clients : \A i, j \in 1..Len(inbox'[d]) :
        inbox'[d][i].id = inbox'[d][j].id => i = j
  BY <1>1, <1>3 DEF InboxInv
<1> QED  BY <1>4, <1>5, <1>6 DEF InboxInv

-----------------------------------------------------------------------------
(* Lines and results.                                                      *)

\* Lines stay as they are while no command that was served is to be served again.
LEMMA LineStays ==
  ASSUME LineInv, tty' = tty, ended' = ended, 1..sent \subseteq 1..sent',
         \A id \in 1..sent : Unserved(id)' => Unserved(id)
  PROVE  LineInv'
<1>1. LineIds' = LineIds /\ EndIds' = EndIds  BY DEF LineIds, EndIds
<1> QED  BY <1>1 DEF LineInv

\* So do results.
LEMMA LogStays ==
  ASSUME LogInv, log' = log, 1..sent \subseteq 1..sent',
         \A id \in 1..sent : Unanswered(id)' => Unanswered(id)
  PROVE  LogInv'
<1>1. LogIds' = LogIds  BY DEF LogIds
<1> QED  BY <1>1 DEF LogInv

\* A sequence of lines and one more.
LEMMA OneMore ==
  ASSUME NEW S, NEW s \in Seq(S), NEW e \in S, NEW t, t = Append(s, e)
  PROVE  /\ {t[i].id : i \in 1..Len(t)} = {s[i].id : i \in 1..Len(s)} \cup {e.id}
         /\ Len(t) = Len(s) + 1 /\ Len(s) \in Nat /\ t[Len(s) + 1] = e
         /\ \A i \in 1..Len(s) : t[i] = s[i]
<1>1. /\ Len(s) \in Nat /\ Len(t) = Len(s) + 1 /\ t[Len(s) + 1] = e
      /\ \A i \in 1..Len(s) : t[i] = s[i]
  BY AppendProperties, LenProperties
<1>2. 1..Len(t) = 1..Len(s) \cup {Len(s) + 1}  BY <1>1
<1> QED  BY <1>1, <1>2

\* A line that is typed is that of a command that has just been served.
LEMMA LineTyped ==
  ASSUME TypeOK, LineInv, NEW kind \in {"out", "typed"}, NEW id \in Ids, TypeLine(kind, id),
         ended' = ended, sent' = sent, id \in 1..sent, Unserved(id), ~Unserved(id)',
         \A x \in 1..sent : Unserved(x)' => Unserved(x)
  PROVE  LineInv'
<1>1. CASE tty' = tty  BY <1>1, LineStays
<1>2. CASE port = "open"
  <2> DEFINE l == [kind |-> IF prompt = "begun" /\ kind = "out" THEN "junk" ELSE kind, id |-> id]
  <2>1. l \in Line /\ l.id = id  BY DEF Line
  <2>2. tty \in Seq(Line) /\ tty' = Append(tty, l)  BY <1>2 DEF TypeLine, TypeOK, BoardTypeOK
  <2> HIDE DEF l
  <2>3. /\ LineIds' = LineIds \cup {id} /\ Len(tty) \in Nat /\ Len(tty') = Len(tty) + 1
        /\ tty'[Len(tty) + 1].id = id /\ \A i \in 1..Len(tty) : tty'[i] = tty[i]
    BY <2>1, <2>2, OneMore DEF LineIds
  <2>4. EndIds' = EndIds /\ id \notin LineIds /\ id \notin EndIds  BY DEF EndIds, LineInv
  <2>5. \A i \in 1..Len(tty) : tty[i].id # id  BY <2>4 DEF LineIds
  <2>6. ASSUME NEW i \in 1..Len(tty'), NEW j \in 1..Len(tty'), tty'[i].id = tty'[j].id
        PROVE  i = j
    BY <2>3, <2>5, <2>6 DEF LineInv
  <2>7. \A x \in LineIds' \cup EndIds' : x \in 1..sent' /\ ~Unserved(x)'
    BY <2>3, <2>4 DEF LineInv
  <2>8. LineIds' \cap EndIds' = {}  BY <2>3, <2>4 DEF LineInv
  <2> QED  BY <2>6, <2>7, <2>8 DEF LineInv
<1> QED  BY <1>1, <1>2 DEF TypeLine

-----------------------------------------------------------------------------
(* Each step keeps commands where they are, or moves one on.               *)

Ordered == InboxInv /\ CurInv /\ LineInv /\ LogInv

\* Steps that move no command.
LEMMA IdsStay ==
  ASSUME Ordered, UNCHANGED <<inbox, sent, cur, tty, ended, log>>,
         \A c \in Clients : \A s \in {"queued", "polling", "replying"} : h'[c] = s <=> h[c] = s
  PROVE  Ordered'
<1>1. /\ \A c \in Clients : InboxIds(c)' = InboxIds(c)
      /\ LineIds' = LineIds /\ EndIds' = EndIds /\ LogIds' = LogIds
  BY DEF InboxIds, LineIds, EndIds, LogIds
<1>2. \A id : Unserved(id)' <=> Unserved(id)  BY <1>1 DEF Unserved
<1>3. \A id : Unanswered(id)' <=> Unanswered(id)  BY <1>2 DEF Unanswered
<1> QED  BY <1>1, <1>2, <1>3 DEF Ordered, InboxInv, CurInv, LineInv, LogInv

LEMMA SendIds ==
  ASSUME TypeOK, Ordered, NEW c \in Clients, NEW op \in {"cmd", "keys", "enter"}, Send(c, op)
  PROVE  Ordered'
<1> USE DEF Ordered
<1>1. /\ InboxInv' /\ InboxIds(c)' = InboxIds(c) \cup {sent + 1}
      /\ \A d \in Clients \ {c} : InboxIds(d)' = InboxIds(d)
  BY InboxSent
<1>2. UNCHANGED <<h, cur, tty, ended, log>> /\ sent' = sent + 1 /\ sent \in Nat
  BY BoundsAssumption DEF Send, handlerVars, boardVars, historyVars, TypeOK, ClientTypeOK
<1>3. 1..sent \subseteq 1..sent' /\ sent + 1 \notin 1..sent /\ sent + 1 # 0  BY <1>2
<1>4. \A id \in 1..sent : Unserved(id)' => Unserved(id)  BY <1>1, <1>2, <1>3 DEF Unserved
<1>5. \A id \in 1..sent : Unanswered(id)' => Unanswered(id)  BY <1>2, <1>4 DEF Unanswered
<1>6. CurInv'
  <2>1. \A d \in Clients : cur[d] # sent + 1  BY <1>3 DEF CurInv
  <2> QED  BY <1>1, <1>2, <1>3, <2>1 DEF CurInv
<1> QED  BY <1>1, <1>2, <1>3, <1>4, <1>5, <1>6, LineStays, LogStays

LEMMA HandleDataIds ==
  ASSUME TypeOK, Ordered, NEW c \in Clients, HandleData(c)
  PROVE  Ordered'
<1> USE DEF Ordered
<1>0. PICK id : id = Head(inbox[c]).id  OBVIOUS
<1>1. UNCHANGED <<h, cur, ended, log, sent>>
  BY DEF HandleData, handlerVars, historyVars
<1>2. /\ InboxInv' /\ id \in InboxIds(c) /\ InboxIds(c)' = InboxIds(c) \ {id}
      /\ \A d \in Clients \ {c} : InboxIds(d)' = InboxIds(d)
  BY <1>0, <1>1, InboxRead DEF HandleData
<1>3. id \in Ids /\ id \in 1..sent /\ Unserved(id)
  <2>1. Head(inbox[c]) \in Message  BY InboxTail DEF HandleData, TypeOK
  <2> QED  BY <1>0, <1>2, <2>1 DEF Message, InboxInv, Unserved
<1>4. CurInv'  BY <1>1, <1>2 DEF CurInv
<1>5. \A x : Unserved(x)' => Unserved(x)  BY <1>1, <1>2 DEF Unserved
<1>6. \A x : Unanswered(x)' => Unanswered(x)  BY <1>1, <1>5 DEF Unanswered
<1>7. ~Unserved(id)'
  <2>1. \A d \in Clients : id \notin InboxIds(d)'  BY <1>2 DEF InboxInv
  <2>2. \A d \in Clients : cur'[d] # id  BY <1>1, <1>2 DEF CurInv
  <2> QED  BY <2>1, <2>2 DEF Unserved
<1>8. LineInv'
  <2>1. CASE TypeLine("typed", id)  BY <1>1, <1>3, <1>5, <1>7, <2>1, LineTyped
  <2>2. CASE tty' = tty  BY <1>1, <1>5, <2>2, LineStays
  <2> QED  BY <1>0, <2>1, <2>2 DEF HandleData
<1> QED  BY <1>1, <1>2, <1>4, <1>6, <1>8, LogStays

LEMMA HandleCmdIds ==
  ASSUME TypeOK, Ordered, NEW c \in Clients, HandleCmd(c)
  PROVE  Ordered'
<1> USE DEF Ordered
<1> DEFINE id == Head(inbox[c]).id
<1>1. UNCHANGED <<tty, ended, log, sent>> /\ h[c] = "recv"
  BY DEF HandleCmd, boardVars, historyVars
<1>2. /\ InboxInv' /\ id \in InboxIds(c) /\ InboxIds(c)' = InboxIds(c) \ {id}
      /\ \A d \in Clients \ {c} : InboxIds(d)' = InboxIds(d)
  BY <1>1, InboxRead DEF HandleCmd
<1>3. id \in 1..sent /\ cur[c] = 0  BY <1>1, <1>2 DEF InboxInv, CurInv
<1>4. /\ cur'[c] = id /\ h'[c] = "queued"
      /\ \A d \in Clients \ {c} : cur'[d] = cur[d] /\ h'[d] = h[d]
  BY DEF HandleCmd, TypeOK, HandlerTypeOK
<1> HIDE DEF id
<1>5. CurInv'
  <2>1. \A d \in Clients \ {c} : cur[d] # id /\ id \notin InboxIds(d)
    BY <1>2 DEF CurInv, InboxInv
  <2> QED  BY <1>1, <1>2, <1>3, <1>4, <2>1 DEF CurInv
<1>6. \A x : Unserved(x)' => Unserved(x)  BY <1>2, <1>4 DEF Unserved
<1>7. \A x : Unanswered(x)' => Unanswered(x)  BY <1>4, <1>6 DEF Unanswered
<1> QED  BY <1>1, <1>2, <1>5, <1>6, <1>7, LineStays, LogStays

LEMMA StartCmdIds ==
  ASSUME TypeOK, Ordered, NEW c \in Clients, StartCmd(c)
  PROVE  Ordered'
<1> USE DEF Ordered
<1>1. UNCHANGED <<inbox, sent, cur, ended, log>> /\ h[c] = "queued"
  BY DEF StartCmd, clientVars, historyVars
<1>2. h'[c] = "polling" /\ \A d \in Clients \ {c} : h'[d] = h[d]
  BY DEF StartCmd, TypeOK, HandlerTypeOK
<1>3. \A d \in Clients : InboxIds(d)' = InboxIds(d)  BY <1>1 DEF InboxIds
<1>4. cur[c] \in Ids /\ cur[c] # 0 /\ cur[c] \in 1..sent
  BY <1>1 DEF TypeOK, HandlerTypeOK, Ids, CurInv
<1>5. InboxInv' /\ CurInv'  BY <1>1, <1>2, <1>3 DEF InboxInv, CurInv
<1>6. Unserved(cur[c]) /\ \A x : Unserved(x)' => Unserved(x)
  BY <1>1, <1>2, <1>3 DEF Unserved
<1>7. ~Unserved(cur[c])'  BY <1>1, <1>2, <1>3, <1>4 DEF Unserved, CurInv
<1>8. \A x : Unanswered(x)' => Unanswered(x)  BY <1>1, <1>2, <1>6 DEF Unanswered, Unserved
<1>9. LineInv'
  BY <1>1, <1>4, <1>6, <1>7, LineTyped DEF StartCmd
<1> QED  BY <1>1, <1>5, <1>8, <1>9, LogStays

\* The end of run_cmd: the command, which had no result, has one.
LEMMA FinishIds ==
  ASSUME TypeOK, Ordered, CaptureInv, NEW c \in Clients, h[c] = "polling", Finish(c)
  PROVE  Ordered' /\ cur[c] \in 1..sent /\ cur[c] \notin LogIds /\ LogIds' = LogIds \cup {cur[c]}
<1> USE DEF Ordered
<1>1. UNCHANGED <<inbox, sent, cur, tty, ended>>
  BY DEF Finish, clientVars, boardVars
<1>2. h'[c] = "replying" /\ \A d \in Clients \ {c} : h'[d] = h[d]
  BY DEF Finish, TypeOK, HandlerTypeOK
<1>3. \A d \in Clients : InboxIds(d)' = InboxIds(d)  BY <1>1 DEF InboxIds
<1>4. cur[c] # 0 /\ cur[c] \in 1..sent /\ cur[c] \in Ids
  BY DEF TypeOK, HandlerTypeOK, Ids, CurInv
<1>5. InboxInv' /\ CurInv'  BY <1>1, <1>2, <1>3 DEF InboxInv, CurInv
<1>6. \A x : Unserved(x)' => Unserved(x)  BY <1>1, <1>2, <1>3 DEF Unserved
<1>7. \A x : Unanswered(x)' => Unanswered(x)  BY <1>1, <1>2, <1>6 DEF Unanswered
<1>8. Unanswered(cur[c]) /\ ~Unanswered(cur[c])'
  BY <1>1, <1>2, <1>3, <1>4 DEF Unanswered, Unserved, CurInv
<1>9. LogIds' = LogIds \cup {cur[c]}
  <2> DEFINE r == [id |-> cur[c], out |-> OutputOf(CaptureOf(c), cur[c]),
                   ok |-> MarkSeen(CaptureOf(c), cur[c])]
  <2>1. OutputOf(CaptureOf(c), cur[c]) \in SUBSET Chunk  BY OnlyCapture, OutputType
  <2>2. r \in Result /\ r.id = cur[c]  BY <1>4, <2>1 DEF Result, MarkSeen
  <2>3. log \in Seq(Result) /\ log' = Append(log, r)  BY DEF Finish, TypeOK, HistoryTypeOK
  <2> HIDE DEF r
  <2> QED  BY <2>2, <2>3, OneMore DEF LogIds
<1>10. LogInv'  BY <1>1, <1>4, <1>7, <1>8, <1>9 DEF LogInv
<1>11. LineInv'  BY <1>1, <1>6, LineStays
<1> QED  BY <1>4, <1>5, <1>8, <1>9, <1>10, <1>11 DEF LogInv

\* A connection that answers or leaves has no command any more.
LEMMA LeaveIds ==
  ASSUME TypeOK, Ordered, NEW c \in Clients, UNCHANGED <<sent, tty, ended, log>>,
         inbox' = inbox \/ inbox' = [inbox EXCEPT ![c] = <<>>],
         h'[c] \in {"recv", "closed"}, cur'[c] = 0,
         \A d \in Clients \ {c} : h'[d] = h[d] /\ cur'[d] = cur[d]
  PROVE  Ordered'
<1> USE DEF Ordered
<1>1. InboxInv' /\ \A d \in Clients : InboxIds(d)' \subseteq InboxIds(d)
  <2>1. CASE inbox' = inbox
    <3>1. sent' = sent /\ \A d \in Clients : InboxIds(d)' = InboxIds(d)  BY <2>1 DEF InboxIds
    <3> QED  BY <2>1, <3>1 DEF InboxInv
  <2>2. CASE inbox' = [inbox EXCEPT ![c] = <<>>]  BY <2>2, InboxDropped
  <2> QED  BY <2>1, <2>2
<1>2. 0 \notin 1..sent  OBVIOUS
<1>3. CurInv'  BY <1>1, <1>2 DEF CurInv, InboxInv
<1>4. \A x : Unserved(x)' => Unserved(x)  BY <1>1 DEF Unserved
<1>5. \A x : Unanswered(x)' => Unanswered(x)  BY <1>4 DEF Unanswered
<1> QED  BY <1>1, <1>3, <1>4, <1>5, LineStays, LogStays

\* A line that has run is not the shell's to run any more.
LEMMA ShellDoneIds ==
  ASSUME TypeOK, Ordered, ShellDone
  PROVE  /\ Ordered' /\ Head(tty).id \in 1..sent /\ Head(tty).id \notin EndIds
         /\ EndIds \subseteq EndIds'
         /\ Head(tty).kind # "typed" => EndIds' = EndIds \cup {Head(tty).id}
<1> USE DEF Ordered
<1>1. UNCHANGED <<inbox, sent, cur, h, log>> /\ tty' = Tail(tty)
  BY DEF ShellDone, clientVars, handlerVars, historyVars
<1>2. tty # <<>> /\ tty \in Seq(Line) /\ ended \in Seq(Line)
  BY BoundsAssumption DEF ShellDone, TypeOK, BoardTypeOK
<1>3. /\ Len(tty) \in Nat \ {0} /\ Len(tty') = Len(tty) - 1 /\ Head(tty) = tty[1]
      /\ \A i \in 1..Len(tty') : tty'[i] = tty[i+1]
      /\ Head(tty) \in Line
  BY <1>1, <1>2, HeadTailProperties, LenProperties, EmptySeq
<1>4. 1 \in 1..Len(tty) /\ \A i \in 1..Len(tty') : i + 1 \in 1..Len(tty) /\ i + 1 # 1
  BY <1>3
<1>5. Head(tty).id \in LineIds  BY <1>3, <1>4 DEF LineIds
<1>6. LineIds' \subseteq LineIds \ {Head(tty).id}
  <2> SUFFICES ASSUME NEW i \in 1..Len(tty') PROVE tty'[i].id \in LineIds \ {Head(tty).id}
    BY DEF LineIds
  <2>1. tty'[i].id = tty[i+1].id /\ i + 1 \in 1..Len(tty) /\ i + 1 # 1  BY <1>3, <1>4
  <2> QED  BY <1>3, <1>4, <2>1 DEF LineIds, LineInv
<1>7. /\ EndIds \subseteq EndIds' /\ EndIds' \subseteq EndIds \cup {Head(tty).id}
      /\ Head(tty).kind # "typed" => EndIds' = EndIds \cup {Head(tty).id}
  <2>1. CASE ended' = Append(ended, Head(tty))
    BY <1>2, <1>3, <2>1, OneMore DEF EndIds
  <2>2. CASE Head(tty).kind = "typed" /\ ended' = ended
    BY <2>2 DEF EndIds
  <2> QED  BY <2>1, <2>2 DEF ShellDone
<1>8. \A d \in Clients : InboxIds(d)' = InboxIds(d)  BY <1>1 DEF InboxIds
<1>9. InboxInv' /\ CurInv'  BY <1>1, <1>8 DEF InboxInv, CurInv
<1>10. \A x : Unserved(x)' <=> Unserved(x)  BY <1>1, <1>8 DEF Unserved
<1>11. LogInv'
  <2>1. \A x : Unanswered(x)' => Unanswered(x)  BY <1>1, <1>10 DEF Unanswered
  <2> QED  BY <1>1, <2>1, LogStays
<1>12. LineInv'
  <2>1. \A i, j \in 1..Len(tty') : tty'[i].id = tty'[j].id => i = j
    <3> SUFFICES ASSUME NEW i \in 1..Len(tty'), NEW j \in 1..Len(tty'), tty'[i].id = tty'[j].id
                 PROVE  i = j
      OBVIOUS
    <3>1. tty[i+1].id = tty[j+1].id  BY <1>3
    <3>2. i + 1 = j + 1  BY <1>4, <3>1 DEF LineInv
    <3> QED  BY <3>2
  <2>2. \A x \in LineIds' \cup EndIds' : x \in 1..sent' /\ ~Unserved(x)'
    BY <1>1, <1>5, <1>6, <1>7, <1>10 DEF LineInv
  <2>3. LineIds' \cap EndIds' = {}  BY <1>6, <1>7 DEF LineInv
  <2> QED  BY <2>1, <2>2, <2>3 DEF LineInv
<1> QED  BY <1>5, <1>7, <1>9, <1>11, <1>12 DEF LineInv

LEMMA NextOrdered == RInv /\ [Next]_vars => Ordered'
<1> SUFFICES ASSUME RInv, [Next]_vars PROVE Ordered'
  OBVIOUS
<1> USE DEF RInv, IInv
<1>1. Ordered  BY DEF Ordered
<1>2. ASSUME NEW c \in Clients,
             \/ \E op \in {"cmd", "keys", "enter"} : Send(c, op)
             \/ Disconnect(c) \/ Handler(c) \/ WriteRaises(c)
      PROVE  Ordered'
  <2>1. CASE \E op \in {"cmd", "keys", "enter"} : Send(c, op)  BY <1>1, <2>1, SendIds
  <2>2. CASE Disconnect(c)
    BY <1>1, <2>2, IdsStay DEF Disconnect, handlerVars, boardVars, historyVars
  <2>3. CASE Greet(c)
    <3>1. \A d \in Clients : \A s \in {"queued", "polling", "replying"} : h'[d] = s <=> h[d] = s
      BY <2>3 DEF Greet, TypeOK, HandlerTypeOK
    <3> QED
      BY <1>1, <2>3, <3>1, IdsStay DEF Greet, clientVars, boardVars, historyVars
  <2>4. CASE HandleData(c)  BY <1>1, <2>4, HandleDataIds
  <2>5. CASE HandleCmd(c)  BY <1>1, <2>5, HandleCmdIds
  <2>6. CASE StartCmd(c)  BY <1>1, <2>6, StartCmdIds
  <2>7. CASE MarkerFound(c) \/ TimeLimit(c)
    BY <1>1, <2>7, FinishIds DEF MarkerFound, TimeLimit
  <2>8. CASE Reply(c)
    <3>1. /\ cur'[c] = 0 /\ h'[c] \in {"recv", "closed"}
          /\ \A d \in Clients \ {c} : h'[d] = h[d] /\ cur'[d] = cur[d]
      BY <2>8 DEF Reply, Leave, TypeOK, HandlerTypeOK
    <3>2. inbox' = inbox \/ inbox' = [inbox EXCEPT ![c] = <<>>]
      BY <2>8 DEF Reply, Leave
    <3>3. UNCHANGED <<sent, tty, ended, log>>  BY <2>8 DEF Reply, boardVars
    <3> QED  BY <1>1, <3>1, <3>2, <3>3, LeaveIds
  <2>9. CASE EndOfStream(c)
    <3>1. /\ h'[c] = "closed" /\ cur' = cur /\ cur[c] = 0
          /\ \A d \in Clients \ {c} : h'[d] = h[d]
      BY <2>9 DEF EndOfStream, Leave, TypeOK, HandlerTypeOK, CurInv
    <3>2. inbox' = [inbox EXCEPT ![c] = <<>>] /\ UNCHANGED <<sent, tty, ended, log>>
      BY <2>9 DEF EndOfStream, Leave, boardVars, historyVars
    <3> QED  BY <1>1, <3>1, <3>2, LeaveIds
  <2>10. CASE WriteRaises(c)
    <3>1. /\ h'[c] = "closed" /\ cur'[c] = 0
          /\ \A d \in Clients \ {c} : h'[d] = h[d] /\ cur'[d] = cur[d]
      BY <2>10 DEF WriteRaises, Leave, TypeOK, HandlerTypeOK
    <3>2. inbox' = [inbox EXCEPT ![c] = <<>>] /\ UNCHANGED <<sent, tty, ended, log>>
      BY <2>10 DEF WriteRaises, Leave
    <3> QED  BY <1>1, <3>1, <3>2, LeaveIds
  <2> QED
    BY <1>2, <2>1, <2>2, <2>3, <2>4, <2>5, <2>6, <2>7, <2>8, <2>9, <2>10 DEF Handler
<1>3. CASE Reader \/ ReaderRaises
  BY <1>1, <1>3, IdsStay DEF Reader, OpenPort, ReadChunk, Deliver, CloseAfterError, ReaderRaises,
                             clientVars, handlerVars, boardVars, historyVars
<1>4. CASE ShellStart \/ ShellPrint
  BY <1>1, <1>4, IdsStay DEF ShellStart, ShellPrint, clientVars, handlerVars, historyVars
<1>5. CASE ShellDone  BY <1>1, <1>5, ShellDoneIds
<1>6. CASE UNCHANGED vars
  BY <1>1, <1>6, IdsStay DEF vars, clientVars, handlerVars, boardVars, historyVars
<1> QED  BY <1>2, <1>3, <1>4, <1>5, <1>6 DEF Next, Shell

-----------------------------------------------------------------------------
(* Markers.                                                                *)

\* A marker stays true while the stream from shell to captures gains nothing.
LEMMA MarkStays ==
  ASSUME MarkInv, EndIds \subseteq EndIds', rx' = rx, inhand' = inhand,
         captures' = captures \/ captures' = <<>>
  PROVE  MarkInv'
<1>1. CASE captures' = captures  BY <1>1 DEF MarkInv
<1>2. CASE captures' = <<>>
  <2>1. 1..Len(captures') = {}  BY <1>2
  <2> QED  BY <2>1 DEF MarkInv
<1> QED  BY <1>1, <1>2

\* The shell prints a chunk, a marker only for a line it has ended.
LEMMA MarkPrinted ==
  ASSUME TypeOK, MarkInv, EndIds \subseteq EndIds', NEW x \in Chunk, rx' = Append(rx, x),
         x.kind = "mark" => x.id \in EndIds', inhand' = inhand, captures' = captures
  PROVE  MarkInv'
<1>1. rx \in Seq(Chunk)  BY DEF TypeOK, BoardTypeOK
<1>2. /\ Len(rx) \in Nat /\ Len(rx') = Len(rx) + 1 /\ rx'[Len(rx) + 1] = x
      /\ \A i \in 1..Len(rx) : rx'[i] = rx[i]
  BY <1>1, AppendProperties, LenProperties
<1>3. \A i \in 1..Len(rx') : rx'[i].kind = "mark" => rx'[i].id \in EndIds'
  BY <1>2 DEF MarkInv
<1> QED  BY <1>3 DEF MarkInv

LEMMA NextMarks == RInv /\ [Next]_vars => MarkInv'
<1> SUFFICES ASSUME RInv, [Next]_vars PROVE MarkInv'
  OBVIOUS
<1> USE DEF RInv, IInv
<1>1. ended' = ended => EndIds' = EndIds  BY DEF EndIds
<1>2. ASSUME NEW c \in Clients,
             \/ \E op \in {"cmd", "keys", "enter"} : Send(c, op)
             \/ Disconnect(c) \/ Handler(c) \/ WriteRaises(c)
      PROVE  MarkInv'
  <2>1. UNCHANGED <<rx, inhand, ended>>
    BY <1>2 DEF Send, Disconnect, Handler, Greet, HandleData, HandleCmd, StartCmd, MarkerFound,
                TimeLimit, Finish, Reply, EndOfStream, WriteRaises, readerVars, boardVars
  <2>2. CASE StartCmd(c)
    <3>1. captures \in Seq(Capture) /\ [owner |-> c, data |-> <<>>] \in Capture
      BY EmptySeq DEF TypeOK, HandlerTypeOK, Capture
    <3>2. captures' = Append(captures, [owner |-> c, data |-> <<>>])  BY <2>2 DEF StartCmd
    <3>3. /\ Len(captures) \in Nat /\ Len(captures') = Len(captures) + 1
          /\ captures'[Len(captures) + 1] = [owner |-> c, data |-> <<>>]
          /\ \A i \in 1..Len(captures) : captures'[i] = captures[i]
      BY <3>1, <3>2, AppendProperties, LenProperties
    <3>4. captures'[Len(captures) + 1].data = <<>>  BY <3>3
    <3>5. 1..Len(captures'[Len(captures) + 1].data) = {}  BY <3>4
    <3>6. \A k \in 1..Len(captures') : k \in 1..Len(captures) \/ k = Len(captures) + 1
      BY <3>3
    <3> QED  BY <1>1, <2>1, <3>3, <3>5, <3>6 DEF MarkInv
  <2>3. CASE MarkerFound(c) \/ TimeLimit(c)
    <3>1. captures' = <<>>  BY <2>3, OnlyCapture DEF MarkerFound, TimeLimit, Finish
    <3> QED  BY <1>1, <2>1, <3>1, MarkStays
  <2>4. CASE ~(StartCmd(c) \/ MarkerFound(c) \/ TimeLimit(c))
    <3>1. captures' = captures
      BY <1>2, <2>4 DEF Send, Disconnect, Handler, Greet, HandleData, HandleCmd, Reply,
                        EndOfStream, WriteRaises, handlerVars
    <3> QED  BY <1>1, <2>1, <3>1, MarkStays
  <2> QED  BY <2>2, <2>3, <2>4
<1>3. CASE OpenPort
  <2>1. rx' = <<>> /\ UNCHANGED <<inhand, ended, captures>>
    BY <1>3 DEF OpenPort, handlerVars
  <2>2. 1..Len(rx') = {}  BY <2>1
  <2> QED  BY <1>1, <2>1, <2>2 DEF MarkInv
<1>4. CASE ReadChunk
  <2>1. /\ rx # <<>> /\ inhand' = Head(rx) /\ rx' = Tail(rx) /\ UNCHANGED <<ended, captures>>
        /\ rx \in Seq(Chunk)
    BY <1>4 DEF ReadChunk, handlerVars, boardVars, TypeOK, BoardTypeOK
  <2>2. /\ Len(rx) \in Nat \ {0} /\ Len(rx') = Len(rx) - 1 /\ Head(rx) = rx[1]
        /\ \A i \in 1..Len(rx') : rx'[i] = rx[i+1]
    BY <2>1, HeadTailProperties, LenProperties, EmptySeq
  <2>3. 1 \in 1..Len(rx) /\ \A i \in 1..Len(rx') : i + 1 \in 1..Len(rx)  BY <2>2
  <2> QED  BY <1>1, <2>1, <2>2, <2>3 DEF MarkInv
<1>5. CASE Deliver
  <2>1. /\ inhand' = NoChunk /\ UNCHANGED <<rx, ended>> /\ inhand \in Chunk
        /\ captures \in Seq(Capture)
        /\ captures' = [i \in 1..Len(captures) |->
                          [captures[i] EXCEPT !.data = Append(@, inhand)]]
    BY <1>5 DEF Deliver, boardVars, TypeOK, ReaderTypeOK, HandlerTypeOK
  <2>2. Len(captures) \in Nat /\ Len(captures') = Len(captures)  BY <2>1, LenProperties
  <2>3. ASSUME NEW k \in 1..Len(captures'), NEW i \in 1..Len(captures'[k].data),
               captures'[k].data[i].kind = "mark"
        PROVE  captures'[k].data[i].id \in EndIds'
    <3>1. k \in 1..Len(captures)  BY <2>2
    <3>2. captures[k] \in Capture /\ captures[k].data \in Seq(Chunk)
      <4>1. captures[k] \in Capture  BY <2>1, <3>1, ElementOfSeq
      <4> QED  BY <4>1 DEF Capture
    <3>3. captures'[k].data = Append(captures[k].data, inhand)
      BY <2>1, <3>1, <3>2 DEF Capture
    <3>4. /\ Len(captures[k].data) \in Nat
          /\ Len(captures'[k].data) = Len(captures[k].data) + 1
          /\ captures'[k].data[Len(captures[k].data) + 1] = inhand
          /\ \A j \in 1..Len(captures[k].data) : captures'[k].data[j] = captures[k].data[j]
      BY <2>1, <3>2, <3>3, AppendProperties, LenProperties
    <3>5. i \in 1..Len(captures[k].data) \/ i = Len(captures[k].data) + 1  BY <3>4
    <3> QED  BY <1>1, <2>1, <2>3, <3>1, <3>4, <3>5 DEF MarkInv
  <2>4. inhand'.kind # "mark"  BY <2>1 DEF NoChunk
  <2> QED  BY <1>1, <2>1, <2>3, <2>4 DEF MarkInv
<1>6. CASE CloseAfterError \/ ReaderRaises
  BY <1>1, <1>6, MarkStays DEF CloseAfterError, ReaderRaises, handlerVars, boardVars
<1>7. CASE ShellStart \/ ShellPrint
  <2>1. tty # <<>> /\ tty \in Seq(Line) /\ step \in Nat
    BY <1>7, BoundsAssumption DEF ShellStart, ShellPrint, TypeOK, BoardTypeOK
  <2>2. Head(tty) \in Line  BY <2>1, HeadTailProperties
  <2>3. PICK k \in {"echo", "out", "junk", "typed"}, n \in Nat :
          rx' = Append(rx, [kind |-> k, id |-> Head(tty).id, n |-> n])
    BY <1>7, <2>1, <2>2 DEF ShellStart, ShellPrint, Print1, Line
  <2>4. [kind |-> k, id |-> Head(tty).id, n |-> n] \in Chunk  BY <2>2 DEF Chunk, Line
  <2>5. UNCHANGED <<ended, inhand, captures>>
    BY <1>7 DEF ShellStart, ShellPrint, handlerVars, readerVars
  <2> QED  BY <1>1, <2>3, <2>4, <2>5, MarkPrinted
<1>8. CASE ShellDone
  <2>1. tty # <<>> /\ tty \in Seq(Line)
    BY <1>8, BoundsAssumption DEF ShellDone, TypeOK, BoardTypeOK
  <2>2. Head(tty) \in Line  BY <2>1, HeadTailProperties
  <2>3. UNCHANGED <<inhand, captures>>  BY <1>8 DEF ShellDone, handlerVars, readerVars
  <2>4. /\ EndIds \subseteq EndIds'
        /\ Head(tty).kind # "typed" => EndIds' = EndIds \cup {Head(tty).id}
    BY <1>8, ShellDoneIds DEF Ordered
  <2>5. CASE rx' = rx  BY <2>3, <2>4, <2>5, MarkStays
  <2>6. CASE Head(tty).kind # "typed" /\ rx' = Append(rx, Mark(Head(tty).id))
    <3>1. Mark(Head(tty).id) \in Chunk /\ Mark(Head(tty).id).id = Head(tty).id
      BY <2>2 DEF Chunk, Line, Mark
    <3> QED  BY <2>3, <2>4, <2>6, <3>1, MarkPrinted
  <2> QED  BY <1>8, <2>5, <2>6 DEF ShellDone, Print1, Mark
<1>9. CASE UNCHANGED vars
  BY <1>1, <1>9, MarkStays DEF vars, handlerVars, readerVars, boardVars
<1> QED  BY <1>2, <1>3, <1>4, <1>5, <1>6, <1>7, <1>8, <1>9 DEF Next, Reader, Shell

LEMMA InitRInv == Init => RInv
<1> SUFFICES ASSUME Init PROVE RInv
  OBVIOUS
<1>1. IInv  BY InitIInv
<1>2. \A c \in Clients : inbox[c] = <<>> /\ h[c] = "new" /\ cur[c] = 0  BY DEF Init
<1>3. tty = <<>> /\ ended = <<>> /\ log = <<>> /\ rx = <<>> /\ captures = <<>> /\ inhand = NoChunk
  BY DEF Init
<1>4. Len(<<>>) = 0 /\ 1..0 = {}  OBVIOUS
<1>5. \A c \in Clients : 1..Len(inbox[c]) = {} /\ InboxIds(c) = {}
  BY <1>2, <1>4 DEF InboxIds
<1>6. LineIds = {} /\ EndIds = {} /\ LogIds = {}  BY <1>3, <1>4 DEF LineIds, EndIds, LogIds
<1>7. InboxInv  BY <1>5 DEF InboxInv
<1>8. CurInv  BY <1>2, <1>5 DEF CurInv
<1>9. LineInv  BY <1>3, <1>4, <1>6 DEF LineInv
<1>10. LogInv  BY <1>6 DEF LogInv
<1>11. MarkInv  BY <1>3, <1>4 DEF MarkInv, NoChunk
<1> QED  BY <1>1, <1>7, <1>8, <1>9, <1>10, <1>11 DEF RInv

LEMMA RInductive == Spec => []RInv
<1>1. RInv /\ [Next]_vars => RInv'
  BY NextType, NextLock, NextCapture, NextOrdered, NextMarks DEF RInv, IInv, Ordered
<1> QED  BY <1>1, InitRInv, PTL DEF Spec

-----------------------------------------------------------------------------
(* The refinement.                                                         *)

Done == [i \in 1..Len(ended) |-> ended[i].id]
Answers == [id \in Ids |-> AnswerOf(id)]

\* The ids of a sequence of lines.
LEMMA IdsOf ==
  ASSUME NEW e \in Seq(Line), NEW s, s = [i \in 1..Len(e) |-> e[i].id]
  PROVE  s \in Seq(Ids) /\ Len(s) = Len(e) /\ Len(e) \in Nat /\ \A i \in 1..Len(e) : s[i] = e[i].id
<1>1. Len(e) \in Nat  BY LenProperties
<1>2. \A i \in 1..Len(e) : e[i] \in Line  BY ElementOfSeq
<1>3. \A i \in 1..Len(e) : e[i].id \in Ids  BY <1>2 DEF Line
<1>4. s \in Seq(Ids)  BY <1>1, <1>3, SeqDef
<1>5. Len(s) = Len(e)  BY <1>1, <1>4, LenProperties
<1> QED  BY <1>1, <1>4, <1>5

LEMMA DoneIsSeq ==
  ASSUME TypeOK
  PROVE  Done \in Seq(Ids) /\ Len(Done) = Len(ended) /\ Len(ended) \in Nat
         /\ \A i \in 1..Len(ended) : Done[i] = ended[i].id
<1>1. ended \in Seq(Line)  BY DEF TypeOK, BoardTypeOK
<1> QED  BY <1>1, IdsOf DEF Done

\* A marker in the capture of a command says that its line has run.
LEMMA OkRan ==
  ASSUME RInv, NEW c \in Clients, h[c] = "polling", MarkSeen(CaptureOf(c), cur[c])
  PROVE  cur[c] \in EndIds
<1> USE DEF RInv, IInv
<1>1. CaptureOf(c) = captures[1].data  BY OnlyCapture
<1>2. 1 \in 1..Len(captures)  BY DEF CaptureInv
<1>3. PICK i \in 1..Len(captures[1].data) : captures[1].data[i] = Mark(cur[c])
  BY <1>1 DEF MarkSeen, Items
<1>4. Mark(cur[c]).kind = "mark" /\ Mark(cur[c]).id = cur[c]  BY DEF Mark
<1> QED  BY <1>2, <1>3, <1>4 DEF MarkInv

\* A result answers its command and no other.
LEMMA AnswersGrow ==
  ASSUME TypeOK, NEW r \in Result, log' = Append(log, r), r.id \notin LogIds
  PROVE  Answers[r.id] = "none"
         /\ Answers' = [Answers EXCEPT ![r.id] = IF r.ok THEN "ok" ELSE "failed"]
<1>1. log \in Seq(Result)  BY DEF TypeOK, HistoryTypeOK
<1>2. /\ Len(log) \in Nat /\ Len(log') = Len(log) + 1 /\ log'[Len(log) + 1] = r
      /\ \A i \in 1..Len(log) : log'[i] = log[i]
  BY <1>1, AppendProperties, LenProperties
<1>3. 1..Len(log') = 1..Len(log) \cup {Len(log) + 1}  BY <1>2
<1>4. \A i \in 1..Len(log) : log[i].id # r.id  BY DEF LogIds
<1>5. r.id \in Ids  BY DEF Result
<1>6. Answers[r.id] = "none"  BY <1>4, <1>5 DEF Answers, AnswerOf
<1>7. AnswerOf(r.id)' = IF r.ok THEN "ok" ELSE "failed"
  BY <1>2, <1>3, <1>4 DEF AnswerOf
<1>8. ASSUME NEW id \in Ids, id # r.id PROVE AnswerOf(id)' = AnswerOf(id)
  <2>1. (\E i \in 1..Len(log') : log'[i].id = id) <=> \E i \in 1..Len(log) : log[i].id = id
    BY <1>2, <1>3, <1>8
  <2>2. (\E i \in 1..Len(log') : log'[i].id = id /\ log'[i].ok)
          <=> \E i \in 1..Len(log) : log[i].id = id /\ log[i].ok
    BY <1>2, <1>3, <1>8
  <2> QED  BY <2>1, <2>2 DEF AnswerOf
<1> QED  BY <1>5, <1>6, <1>7, <1>8 DEF Answers

LEMMA RefineInit == Init => Service!Init
<1> SUFFICES ASSUME Init PROVE Service!Init
  OBVIOUS
<1>1. sent = 0 /\ ended = <<>> /\ log = <<>>  BY DEF Init
<1>2. 1..sent = {}  BY <1>1
<1>3. Done = <<>>
  <2>1. TypeOK  BY InitIInv DEF IInv
  <2> QED  BY <1>1, <2>1, DoneIsSeq, EmptySeq
<1>4. \A id \in Ids : AnswerOf(id) = "none"
  <2>1. 1..Len(log) = {}  BY <1>1
  <2> QED  BY <2>1 DEF AnswerOf
<1>5. Answers = [r \in Ids |-> "none"]  BY <1>4 DEF Answers
<1> QED  BY <1>2, <1>3, <1>5 DEF Service!Init, Done, Answers

ServiceStep == [Service!Next]_<<1..sent, Done, Answers>>

LEMMA Stutters == ASSUME UNCHANGED <<sent, ended, log>> PROVE ServiceStep
  BY DEF ServiceStep, Done, Answers, AnswerOf

LEMMA SendAsks ==
  ASSUME TypeOK, NEW c \in Clients, NEW op \in {"cmd", "keys", "enter"}, Send(c, op)
  PROVE  ServiceStep
<1>1. /\ sent \in Nat /\ sent' = sent + 1 /\ sent + 1 \in Ids /\ UNCHANGED <<ended, log>>
  BY BoundsAssumption DEF Send, TypeOK, ClientTypeOK, Ids, boardVars, historyVars
<1>2. sent + 1 \notin 1..sent /\ 1..sent' = 1..sent \cup {sent + 1}  BY <1>1
<1>3. Done' = Done /\ Answers' = Answers  BY <1>1 DEF Done, Answers, AnswerOf
<1>4. Service!Ask(sent + 1)  BY <1>2, <1>3 DEF Service!Ask, Done, Answers
<1> QED  BY <1>1, <1>4 DEF Service!Next, ServiceStep

LEMMA FinishAnswers ==
  ASSUME RInv, NEW c \in Clients, h[c] = "polling", Finish(c)
  PROVE  ServiceStep
<1> USE DEF RInv, IInv
<1> DEFINE r == [id |-> cur[c], out |-> OutputOf(CaptureOf(c), cur[c]),
                 ok |-> MarkSeen(CaptureOf(c), cur[c])]
           a == IF r.ok THEN "ok" ELSE "failed"
<1>1. cur[c] \in 1..sent /\ cur[c] \notin LogIds /\ cur[c] \in Ids
  BY FinishIds DEF Ordered, TypeOK, HandlerTypeOK
<1>2. r \in Result /\ r.id = cur[c] /\ log' = Append(log, r)
  <2>1. OutputOf(CaptureOf(c), cur[c]) \in SUBSET Chunk  BY OnlyCapture, OutputType
  <2> QED  BY <1>1, <2>1 DEF Result, MarkSeen, Finish
<1>3. r.ok => cur[c] \in EndIds  BY OkRan
<1> HIDE DEF r
<1>4. Answers[cur[c]] = "none" /\ Answers' = [Answers EXCEPT ![cur[c]] = a]
  BY <1>1, <1>2, AnswersGrow
<1>5. 1..sent' = 1..sent /\ Done' = Done
  BY DEF Finish, clientVars, boardVars, Done
<1>6. a = "ok" => \E i \in 1..Len(Done) : Done[i] = cur[c]
  <2>1. ASSUME cur[c] \in EndIds PROVE \E i \in 1..Len(ended) : ended[i].id = cur[c]
    BY <2>1 DEF EndIds
  <2> QED  BY <1>3, <2>1, DoneIsSeq
<1>7. a \in {"ok", "failed"}  OBVIOUS
<1> HIDE DEF a
<1>8. Service!Answer(cur[c], a)
  BY <1>1, <1>4, <1>5, <1>6 DEF Service!Answer, Done, Answers
<1> QED  BY <1>1, <1>7, <1>8 DEF Service!Next, ServiceStep

LEMMA ShellRuns ==
  ASSUME RInv, ShellDone
  PROVE  ServiceStep
<1> USE DEF RInv, IInv
<1>1. UNCHANGED <<sent, log>>  BY DEF ShellDone, clientVars, historyVars
<1>2. CASE ended' = ended  BY <1>1, <1>2, Stutters
<1>3. CASE ended' = Append(ended, Head(tty))
  <2>1. PICK l : l = Head(tty)  OBVIOUS
  <2>2. l \in Line /\ ended \in Seq(Line) /\ l.id \in Ids
    <3>1. tty # <<>> /\ tty \in Seq(Line) /\ ended \in Seq(Line)
      BY BoundsAssumption DEF ShellDone, TypeOK, BoardTypeOK
    <3>2. l \in Line  BY <2>1, <3>1, HeadTailProperties
    <3> QED  BY <3>1, <3>2 DEF Line
  <2>3. l.id \in 1..sent /\ l.id \notin EndIds  BY <2>1, ShellDoneIds DEF Ordered
  <2>4. /\ Len(ended') = Len(ended) + 1 /\ ended'[Len(ended) + 1] = l
        /\ \A i \in 1..Len(ended) : ended'[i] = ended[i]
    BY <1>3, <2>1, <2>2, AppendProperties
  <2>5. /\ Done \in Seq(Ids) /\ Len(Done) = Len(ended) /\ Len(ended) \in Nat
        /\ \A i \in 1..Len(ended) : Done[i] = ended[i].id
    BY DoneIsSeq
  <2>6. /\ Done' \in Seq(Ids) /\ Len(Done') = Len(ended')
        /\ \A i \in 1..Len(ended') : Done'[i] = ended'[i].id
    <3>1. ended' \in Seq(Line)  BY <1>3, <2>1, <2>2, AppendProperties
    <3> QED  BY <3>1, IdsOf DEF Done
  <2>7. Done' = Append(Done, l.id)
    <3>1. /\ Append(Done, l.id) \in Seq(Ids) /\ Len(Append(Done, l.id)) = Len(Done) + 1
          /\ Append(Done, l.id)[Len(Done) + 1] = l.id
          /\ \A i \in 1..Len(Done) : Append(Done, l.id)[i] = Done[i]
      BY <2>2, <2>5, AppendProperties
    <3>2. Len(Done') = Len(Append(Done, l.id))  BY <2>4, <2>5, <2>6, <3>1
    <3>3. \A i \in 1..Len(Done') : Done'[i] = Append(Done, l.id)[i]
      BY <2>4, <2>5, <2>6, <3>1
    <3> QED  BY <2>6, <3>1, <3>2, <3>3, SeqEqual
  <2>8. \A i \in 1..Len(Done) : Done[i] # l.id  BY <2>3, <2>5 DEF EndIds
  <2>9. 1..sent' = 1..sent /\ Answers' = Answers  BY <1>1 DEF Answers, AnswerOf
  <2>10. Service!Run(l.id)
    BY <2>3, <2>7, <2>8, <2>9 DEF Service!Run, Done, Answers
  <2> QED  BY <2>2, <2>10 DEF Service!Next, ServiceStep
<1> QED  BY <1>2, <1>3 DEF ShellDone

LEMMA RefineNext == RInv /\ [Next]_vars => ServiceStep
<1> SUFFICES ASSUME RInv, [Next]_vars PROVE ServiceStep
  OBVIOUS
<1> USE DEF RInv, IInv
<1>1. ASSUME NEW c \in Clients, NEW op \in {"cmd", "keys", "enter"}, Send(c, op)
      PROVE  ServiceStep
  BY <1>1, SendAsks
<1>2. ASSUME NEW c \in Clients, MarkerFound(c) \/ TimeLimit(c) PROVE ServiceStep
  BY <1>2, FinishAnswers DEF MarkerFound, TimeLimit
<1>3. CASE ShellDone  BY <1>3, ShellRuns
<1>4. ASSUME NEW c \in Clients,
             Disconnect(c) \/ WriteRaises(c) \/ Greet(c) \/ HandleData(c) \/ HandleCmd(c)
             \/ StartCmd(c) \/ Reply(c) \/ EndOfStream(c)
      PROVE  ServiceStep
  BY <1>4, Stutters
     DEF Disconnect, WriteRaises, Leave, Greet, HandleData, HandleCmd, StartCmd, Reply,
         EndOfStream, clientVars, boardVars, historyVars
<1>5. CASE Reader \/ ReaderRaises \/ ShellStart \/ ShellPrint \/ UNCHANGED vars
  BY <1>5, Stutters
     DEF Reader, OpenPort, ReadChunk, Deliver, CloseAfterError, ReaderRaises, ShellStart,
         ShellPrint, vars, clientVars, boardVars, historyVars
<1> QED  BY <1>1, <1>2, <1>3, <1>4, <1>5 DEF Next, Handler, Shell

\* The bridge implements the command service whatever the numbers of clients,
\* messages and failures: a command runs to its end at most once, has one
\* result, and is answered "ok" only when it has run.
THEOREM BridgeImplementsService == Spec => ImplementsService
<1>1. Init => Service!Init  BY RefineInit
<1>2. RInv /\ [Next]_vars => ServiceStep  BY RefineNext
<1> QED
  BY <1>1, <1>2, RInductive, PTL
     DEF Spec, ImplementsService, Service!Spec, ServiceStep, Done, Answers

-----------------------------------------------------------------------------
(***************************************************************************)
(* What the answers hold: whose output an answer shows, that it shows all  *)
(* of it, and the order in which commands run.                             *)
(***************************************************************************)

\* The captured chunks, those of the one capture there may be.
Told == IF captures = <<>> THEN <<>> ELSE captures[1].data
FromCommand == {"out", "junk", "mark"}

\* A command whose output may still come: it is polled, or was answered as failed.
FailedIds == {log[i].id : i \in {k \in 1..Len(log) : ~log[k].ok}}
Accounted(id) == id \in FailedIds \/ \E c \in Clients : h[c] = "polling" /\ cur[c] = id

\* Nothing on its way belongs to a command that ended well.
OwnerInv ==
  /\ \A i \in 1..Len(tty) : tty[i].kind # "typed" => Accounted(tty[i].id)
  /\ \A i \in 1..Len(rx) : rx[i].kind \in FromCommand => Accounted(rx[i].id)
  /\ inhand.kind \in FromCommand => Accounted(inhand.id)
  /\ \A i \in 1..Len(Told) : Told[i].kind \in FromCommand => Accounted(Told[i].id)

\* Nothing of a line comes after its marker.
LastInv ==
  /\ \A i \in 1..Len(Told) : Told[i].kind = "mark" =>
       /\ \A j \in i+1..Len(Told) : Told[j].id # Told[i].id
       /\ inhand.id # Told[i].id
       /\ \A j \in 1..Len(rx) : rx[j].id # Told[i].id
  /\ inhand.kind = "mark" => \A j \in 1..Len(rx) : rx[j].id # inhand.id
  /\ \A i \in 1..Len(rx) : rx[i].kind = "mark" => \A j \in i+1..Len(rx) : rx[j].id # rx[i].id

\* The line of a command is not one that a terminal user typed.
TypedInv ==
  \A i \in 1..Len(tty) : tty[i].kind = "typed" => \A c \in Clients : cur[c] # tty[i].id

\* What a polled command has printed is captured or on its way, unless some
\* of it was discarded.
Printed(id, n) == id \in EndIds \/ (tty # <<>> /\ Head(tty).id = id /\ n < step)
Output(x, id, n) == x.id = id /\ x.n = n /\ x.kind \in {"out", "junk"}
KeptInv ==
  /\ rd # "holding" => inhand = NoChunk
  /\ \A c \in Clients : h[c] = "polling" /\ cur[c] \notin lost =>
       \A n \in 1..OutLen : Printed(cur[c], n) =>
         \/ \E i \in 1..Len(Told) : Output(Told[i], cur[c], n)
         \/ Output(inhand, cur[c], n)
         \/ \E i \in 1..Len(rx) : Output(rx[i], cur[c], n)

\* No line of a comes after one of b.
NotAfter(a, b) ==
  /\ \A p, q \in 1..Len(ended) : ended[p].id = a /\ ended[q].id = b => p < q
  /\ \A p \in 1..Len(tty), q \in 1..Len(ended) : ~(tty[p].id = a /\ ended[q].id = b)
  /\ \A p, q \in 1..Len(tty) : tty[p].id = a /\ tty[q].id = b => p < q
OrderInv ==
  /\ \A j \in 1..Len(log) : \A i \in 1..j-1 :
       log[i].id # log[j].id /\ NotAfter(log[i].id, log[j].id)
  /\ \A c \in Clients : h[c] = "polling" => \A i \in 1..Len(log) : NotAfter(log[i].id, cur[c])

StreamInv == /\ OwnerInv /\ LastInv /\ TypedInv /\ KeptInv /\ OrderInv
             /\ OutputIsAttributable /\ OkOutputIsComplete
SInv == RInv /\ StreamInv

-----------------------------------------------------------------------------
(* The lines, the chunks and the capture.                                  *)

LEMMA ToldType ==
  ASSUME TypeOK
  PROVE  Told \in Seq(Chunk) /\ Len(Told) \in Nat
<1>1. CASE captures = <<>>  BY <1>1, EmptySeq DEF Told
<1>2. CASE captures # <<>>
  <2>1. captures \in Seq(Capture) /\ 1 \in 1..Len(captures)
    BY <1>2, EmptySeq DEF TypeOK, HandlerTypeOK
  <2>2. captures[1] \in Capture  BY <2>1, ElementOfSeq
  <2>3. captures[1].data \in Seq(Chunk)  BY <2>2 DEF Capture
  <2> QED  BY <1>2, <2>3, LenProperties DEF Told
<1> QED  BY <1>1, <1>2

\* Who polls is alone, and has the capture.
LEMMA OnePolls ==
  ASSUME IInv, NEW c \in Clients, h[c] = "polling"
  PROVE  /\ captures # <<>> /\ Told = CaptureOf(c)
         /\ \A d \in Clients : h[d] = "polling" => d = c
<1>1. captures # <<>> /\ captures[1].owner = c  BY DEF IInv, CaptureInv
<1>2. \A d \in Clients : h[d] = "polling" => captures[1].owner = d  BY DEF IInv, CaptureInv
<1>3. CaptureOf(c) = captures[1].data  BY OnlyCapture DEF IInv
<1> QED  BY <1>1, <1>2, <1>3 DEF Told

\* The markers on their way are those of lines that have run to their end.
LEMMA MarksEnded ==
  ASSUME RInv
  PROVE  /\ \A i \in 1..Len(rx) : rx[i].kind = "mark" => rx[i].id \in EndIds
         /\ inhand.kind = "mark" => inhand.id \in EndIds
         /\ \A i \in 1..Len(Told) : Told[i].kind = "mark" => Told[i].id \in EndIds
<1>1. ASSUME NEW i \in 1..Len(Told), Told[i].kind = "mark" PROVE Told[i].id \in EndIds
  <2>1. CASE captures = <<>>
    <3>1. 1..Len(Told) = {}  BY <2>1 DEF Told
    <3> QED  BY <3>1
  <2>2. CASE captures # <<>>
    <3>1. 1 \in 1..Len(captures)  BY <2>2, EmptySeq DEF RInv, IInv, TypeOK, HandlerTypeOK
    <3> QED  BY <1>1, <2>2, <3>1 DEF Told, RInv, MarkInv
  <2> QED  BY <2>1, <2>2
<1> QED  BY <1>1 DEF RInv, MarkInv

\* The line being run.
LEMMA FirstLine ==
  ASSUME RInv, step > 0
  PROVE  /\ tty # <<>> /\ tty \in Seq(Line) /\ Len(tty) \in Nat \ {0} /\ 1 \in 1..Len(tty)
         /\ Head(tty) = tty[1] /\ Head(tty) \in Line
         /\ Head(tty).id \in LineIds /\ Head(tty).id \notin EndIds /\ Head(tty).id \in Ids
<1>1. tty # <<>> /\ tty \in Seq(Line)  BY DEF RInv, IInv, TypeOK, BoardTypeOK
<1>2. Len(tty) \in Nat \ {0} /\ Head(tty) = tty[1] /\ Head(tty) \in Line
  BY <1>1, HeadTailProperties, EmptySeq
<1>3. 1 \in 1..Len(tty)  BY <1>2
<1>4. Head(tty).id \in LineIds  BY <1>2, <1>3 DEF LineIds
<1>5. Head(tty).id \in Ids  BY <1>2 DEF Line
<1> QED  BY <1>1, <1>2, <1>3, <1>4, <1>5 DEF RInv, LineInv

-----------------------------------------------------------------------------
(* Steps that leave the stream of output alone.                            *)

SamePolls == /\ \A d \in Clients : h'[d] = "polling" <=> h[d] = "polling"
             /\ \A d \in Clients : h[d] = "polling" => cur'[d] = cur[d]
SameStream == /\ UNCHANGED <<step, rx, inhand, captures, log, ended, lost>>
              /\ rd' = "holding" <=> rd = "holding"

LEMMA QuietStays ==
  ASSUME StreamInv, SamePolls, SameStream, tty' = tty, TypedInv'
  PROVE  StreamInv'
<1> USE DEF StreamInv, SamePolls, SameStream
<1>1. Told' = Told /\ FailedIds' = FailedIds /\ EndIds' = EndIds
  BY DEF Told, FailedIds, EndIds
<1>2. \A id : Accounted(id)' <=> Accounted(id)  BY <1>1 DEF Accounted
<1>3. OwnerInv'  BY <1>1, <1>2 DEF OwnerInv
<1>4. LastInv'  BY <1>1 DEF LastInv
<1>5. \A id, n : Printed(id, n)' <=> Printed(id, n)  BY <1>1 DEF Printed
<1>6. KeptInv'  BY <1>1, <1>5 DEF KeptInv
<1>7. \A a, b : NotAfter(a, b)' <=> NotAfter(a, b)  BY DEF NotAfter
<1>8. OrderInv'  BY <1>7 DEF OrderInv
<1>9. OutputIsAttributable' /\ OkOutputIsComplete'
  BY DEF OutputIsAttributable, OkOutputIsComplete
<1> QED  BY <1>3, <1>4, <1>6, <1>8, <1>9

\* A line is typed after those that have been served before.
LEMMA LineAfter ==
  ASSUME TypeOK, NEW l \in Line, tty' = Append(tty, l), ended' = ended, NEW a, NEW b,
         a # l.id, NotAfter(a, b)
  PROVE  NotAfter(a, b)'
<1>1. tty \in Seq(Line)  BY DEF TypeOK, BoardTypeOK
<1>2. /\ Len(tty) \in Nat /\ Len(tty') = Len(tty) + 1 /\ tty'[Len(tty) + 1] = l
      /\ \A i \in 1..Len(tty) : tty'[i] = tty[i]
  BY <1>1, AppendProperties, LenProperties
<1>3. \A p \in 1..Len(tty') : tty'[p].id = a => p \in 1..Len(tty)  BY <1>2
<1>4. \A p, q \in 1..Len(tty') : tty'[p].id = a /\ tty'[q].id = b => p < q
  BY <1>2, <1>3 DEF NotAfter
<1>5. \A p \in 1..Len(tty'), q \in 1..Len(ended') : ~(tty'[p].id = a /\ ended'[q].id = b)
  BY <1>2, <1>3 DEF NotAfter
<1> QED  BY <1>4, <1>5 DEF NotAfter

\* A line that joins those before it has printed nothing.
LEMMA LinePrintsNothing ==
  ASSUME TypeOK, NEW l \in Line, tty' = Append(tty, l), ended' = ended, step' = step,
         NEW id, NEW n \in 1..OutLen, Printed(id, n)'
  PROVE  Printed(id, n)
<1>1. EndIds' = EndIds  BY DEF EndIds
<1>2. tty \in Seq(Line) /\ step \in Nat /\ n \in Nat
  BY BoundsAssumption DEF TypeOK, BoardTypeOK
<1>3. CASE tty = <<>>
  <2>1. step = 0  BY <1>2, <1>3 DEF TypeOK, BoardTypeOK
  <2> QED  BY <1>1, <1>2, <2>1 DEF Printed
<1>4. CASE tty # <<>>
  <2>1. Head(tty') = Head(tty)
    <3>1. Len(tty) \in Nat \ {0}  BY <1>2, <1>4, EmptySeq
    <3>2. tty' \in Seq(Line) /\ tty' # <<>> /\ tty'[1] = tty[1]
      BY <1>2, <3>1, AppendProperties
    <3> QED  BY <1>2, <1>4, <3>2
  <2> QED  BY <1>1, <1>4, <2>1 DEF Printed
<1> QED  BY <1>3, <1>4

LEMMA TypedLine ==
  ASSUME SInv, NEW c \in Clients, HandleData(c)
  PROVE  StreamInv'
<1> USE DEF SInv, StreamInv, RInv, IInv
<1>1. UNCHANGED <<h, cur>> /\ SameStream /\ SamePolls
  BY DEF HandleData, handlerVars, readerVars, historyVars, SameStream, SamePolls
<1>2. CASE tty' = tty
  <2>1. TypedInv'  BY <1>1, <1>2 DEF TypedInv
  <2> QED  BY <1>1, <1>2, <2>1, QuietStays
<1>3. CASE TypeLine("typed", Head(inbox[c]).id) /\ port = "open"
  <2>1. PICK id : id = Head(inbox[c]).id  OBVIOUS
  <2>2. id \in InboxIds(c) /\ id \in Ids
    <3>1. Head(inbox[c]) \in Message  BY InboxTail DEF HandleData, TypeOK
    <3>2. Head(inbox[c]).id \in InboxIds(c)
      BY InboxRead DEF HandleData
    <3> QED  BY <2>1, <3>1, <3>2 DEF Message
  <2>3. PICK l : l = [kind |-> "typed", id |-> id]  OBVIOUS
  <2>4. l \in Line /\ l.id = id /\ l.kind = "typed"  BY <2>2, <2>3 DEF Line
  <2>5. tty' = Append(tty, l)  BY <1>3, <2>1, <2>3 DEF TypeLine
  <2>6. tty \in Seq(Line)  BY DEF TypeOK, BoardTypeOK
  <2>7. /\ Len(tty) \in Nat /\ Len(tty') = Len(tty) + 1 /\ tty'[Len(tty) + 1] = l
        /\ \A i \in 1..Len(tty) : tty'[i] = tty[i]
    BY <2>4, <2>5, <2>6, AppendProperties, LenProperties
  <2>8. Told' = Told /\ FailedIds' = FailedIds /\ EndIds' = EndIds
    BY <1>1 DEF Told, FailedIds, EndIds, SameStream
  <2>9. \A x : Accounted(x)' <=> Accounted(x)  BY <1>1, <2>8 DEF Accounted
  <2>10. \A i \in 1..Len(tty') : i \in 1..Len(tty) \/ i = Len(tty) + 1  BY <2>7
  <2>11. OwnerInv'  BY <1>1, <2>4, <2>7, <2>8, <2>9, <2>10 DEF OwnerInv, SameStream
  <2>12. LastInv'  BY <1>1, <2>8 DEF LastInv, SameStream
  <2>13. TypedInv'
    <3>1. \A d \in Clients : cur[d] # id  BY <2>2 DEF CurInv
    <3> QED  BY <1>1, <2>4, <2>7, <2>10, <3>1 DEF TypedInv
  <2>14. KeptInv'
    <3>1. \A x : \A n \in 1..OutLen : Printed(x, n)' => Printed(x, n)
      BY <1>1, <2>4, <2>5, LinePrintsNothing DEF SameStream
    <3> QED  BY <1>1, <2>8, <3>1 DEF KeptInv, SameStream
  <2>15. OrderInv'
    <3>1. \A i \in 1..Len(log) : log[i].id # id
      <4>1. Unanswered(id)  BY <2>2 DEF Unanswered, Unserved
      <4> QED  BY <4>1 DEF LogInv, LogIds
    <3>2. \A a, b : a # id /\ NotAfter(a, b) => NotAfter(a, b)'
      BY <1>1, <2>4, <2>5, LineAfter DEF SameStream
    <3>3. log' = log /\ \A j \in 1..Len(log) : \A i \in 1..j-1 : i \in 1..Len(log)
      <4>1. Len(log) \in Nat  BY LenProperties DEF TypeOK, HistoryTypeOK
      <4> QED  BY <1>1, <4>1 DEF SameStream
    <3> QED  BY <1>1, <3>1, <3>2, <3>3 DEF OrderInv
  <2>16. OutputIsAttributable' /\ OkOutputIsComplete'
    BY <1>1 DEF OutputIsAttributable, OkOutputIsComplete, SameStream
  <2> QED  BY <2>11, <2>12, <2>13, <2>14, <2>15, <2>16
<1> QED  BY <1>2, <1>3 DEF HandleData, TypeLine

\* With the lock a command's line is typed, into an empty capture.
LEMMA CommandLine ==
  ASSUME SInv, NEW c \in Clients, StartCmd(c)
  PROVE  StreamInv'
<1> USE DEF SInv, StreamInv, RInv, IInv
<1>1. /\ UNCHANGED <<step, rx, inhand, log, ended, lost, cur, rd>> /\ h[c] = "queued"
      /\ lockq # <<>> /\ Head(lockq) = c
      /\ captures' = Append(captures, [owner |-> c, data |-> <<>>])
  BY DEF StartCmd, Holds, clientVars, readerVars, historyVars
<1>2. h'[c] = "polling" /\ \A d \in Clients \ {c} : h'[d] = h[d]
  BY DEF StartCmd, TypeOK, HandlerTypeOK
<1>3. \A d \in Clients : h[d] # "polling"
  <2>1. Head(lockq) = lockq[1]
    BY <1>1, HeadTailProperties DEF TypeOK, HandlerTypeOK
  <2> QED  BY <1>1, <2>1 DEF LockInv
<1>4. captures = <<>>
  <2>1. captures # <<>> => captures[1].owner \in Clients
    <3>1. captures \in Seq(Capture)  BY DEF TypeOK, HandlerTypeOK
    <3>2. captures # <<>> => captures[1] \in Capture  BY <3>1, EmptySeq, ElementOfSeq
    <3> QED  BY <3>2 DEF Capture
  <2> QED  BY <1>3, <2>1 DEF CaptureInv
<1>5. Told = <<>> /\ Told' = <<>>
  <2>1. captures' # <<>> /\ captures'[1] = [owner |-> c, data |-> <<>>]  BY <1>1, <1>4
  <2> QED  BY <1>4, <2>1 DEF Told
<1>6. FailedIds' = FailedIds /\ EndIds' = EndIds  BY <1>1 DEF FailedIds, EndIds
<1>7. \A x : Accounted(x) => Accounted(x)'  BY <1>3, <1>6 DEF Accounted
<1>8. Accounted(cur[c])'  BY <1>1, <1>2 DEF Accounted
<1>9. cur[c] \in Ids /\ Unserved(cur[c]) /\ Unanswered(cur[c])
  BY <1>1 DEF TypeOK, HandlerTypeOK, Unserved, Unanswered
<1>10. cur[c] \notin LineIds /\ cur[c] \notin EndIds /\ cur[c] \notin LogIds
  BY <1>9 DEF LineInv, LogInv
<1>11. PICK l : l = [kind |-> IF prompt = "begun" THEN "junk" ELSE "out", id |-> cur[c]]
  OBVIOUS
<1>12. l \in Line /\ l.id = cur[c] /\ l.kind # "typed"  BY <1>9, <1>11 DEF Line
<1>13. tty' = tty \/ tty' = Append(tty, l)  BY <1>11 DEF StartCmd, TypeLine
<1>14. tty \in Seq(Line)  BY DEF TypeOK, BoardTypeOK
<1>15. /\ Len(tty) \in Nat
       /\ \A i \in 1..Len(tty') :
            (i \in 1..Len(tty) /\ tty'[i] = tty[i]) \/ tty'[i] = l
  BY <1>12, <1>13, <1>14, AppendProperties, LenProperties
<1>16. OwnerInv'
  <2>1. 1..Len(Told') = {}  BY <1>5
  <2> QED  BY <1>1, <1>7, <1>8, <1>12, <1>15, <2>1 DEF OwnerInv
<1>17. LastInv'  BY <1>1, <1>5 DEF LastInv
<1>18. TypedInv'  BY <1>1, <1>12, <1>15 DEF TypedInv
<1>19. KeptInv'
  <2>1. \A d \in Clients : h'[d] = "polling" => d = c  BY <1>2, <1>3
  <2>2. \A n \in 1..OutLen : ~Printed(cur[c], n)
    <3>1. tty # <<>> => Head(tty).id \in LineIds
      <4>1. tty # <<>> => 1 \in 1..Len(tty) /\ Head(tty) = tty[1]
        BY <1>14, EmptySeq, HeadTailProperties
      <4> QED  BY <4>1 DEF LineIds
    <3> QED  BY <1>10, <3>1 DEF Printed
  <2>3. \A n \in 1..OutLen : Printed(cur[c], n)' => Printed(cur[c], n)
    <3>1. CASE tty' = tty  BY <1>1, <1>6, <3>1 DEF Printed
    <3>2. CASE tty' = Append(tty, l)  BY <1>1, <1>12, <3>2, LinePrintsNothing
    <3> QED  BY <1>13, <3>1, <3>2
  <2> QED  BY <1>1, <2>1, <2>2, <2>3 DEF KeptInv
<1>20. OrderInv'
  <2>1. log' = log /\ \A j \in 1..Len(log) : \A i \in 1..j-1 : i \in 1..Len(log)
    <3>1. Len(log) \in Nat  BY LenProperties DEF TypeOK, HistoryTypeOK
    <3> QED  BY <1>1, <3>1
  <2>2. \A i \in 1..Len(log) : log[i].id # cur[c]  BY <1>10 DEF LogIds
  <2>3. \A a, b : a # cur[c] /\ NotAfter(a, b) => NotAfter(a, b)'
    <3>1. CASE tty' = tty  BY <1>1, <3>1 DEF NotAfter
    <3>2. CASE tty' = Append(tty, l)  BY <1>1, <1>12, <3>2, LineAfter
    <3> QED  BY <1>13, <3>1, <3>2
  <2>4. \A a : NotAfter(a, cur[c])  BY <1>10 DEF NotAfter, LineIds, EndIds
  <2>5. \A d \in Clients : h'[d] = "polling" => cur'[d] = cur[c]  BY <1>1, <1>2, <1>3
  <2> QED  BY <2>1, <2>2, <2>3, <2>4, <2>5 DEF OrderInv
<1>21. OutputIsAttributable' /\ OkOutputIsComplete'
  BY <1>1 DEF OutputIsAttributable, OkOutputIsComplete
<1> QED  BY <1>16, <1>17, <1>18, <1>19, <1>20, <1>21

\* What run_cmd cuts out of a capture with the marker is the command's, a
\* typed line's, or a failed command's, and all that the command has printed.
LEMMA AnswerRight ==
  ASSUME SInv, NEW c \in Clients, h[c] = "polling", NEW out, out = OutputOf(CaptureOf(c), cur[c])
  PROVE  /\ \A x \in out : x.id = cur[c] \/ x.kind = "typed" \/ x.id \in FailedIds
         /\ MarkSeen(CaptureOf(c), cur[c]) /\ cur[c] \notin lost =>
              \A n \in 1..OutLen : \E x \in out :
                x.id = cur[c] /\ x.n = n /\ x.kind \in {"out", "junk"}
<1> USE DEF SInv, StreamInv, RInv, IInv
<1>1. CaptureOf(c) = Told  BY OnePolls
<1>2. out = {Told[i] : i \in {j \in 1..Len(Told) :
               /\ Told[j].kind \in {"out", "junk", "typed"}
               /\ \A k \in 1..j : Told[k] # Mark(cur[c])}}
  BY <1>1 DEF OutputOf
<1>3. ASSUME NEW x \in out PROVE x.id = cur[c] \/ x.kind = "typed" \/ x.id \in FailedIds
  <2>1. PICK i \in 1..Len(Told) : x = Told[i] /\ x.kind \in {"out", "junk", "typed"}
    BY <1>2, <1>3
  <2>2. CASE x.kind = "typed"  BY <2>2
  <2>3. CASE x.kind \in {"out", "junk"}
    <3>1. Accounted(x.id)  BY <2>1, <2>3 DEF OwnerInv, FromCommand
    <3>2. \A d \in Clients : h[d] = "polling" => d = c  BY OnePolls
    <3> QED  BY <3>1, <3>2 DEF Accounted
  <2> QED  BY <2>1, <2>2, <2>3
<1>4. ASSUME MarkSeen(CaptureOf(c), cur[c]), cur[c] \notin lost, NEW n \in 1..OutLen
      PROVE  \E x \in out : x.id = cur[c] /\ x.n = n /\ x.kind \in {"out", "junk"}
  <2>1. PICK m \in 1..Len(Told) : Told[m] = Mark(cur[c])
    BY <1>1, <1>4 DEF MarkSeen, Items
  <2>2. Told[m].kind = "mark" /\ Told[m].id = cur[c]  BY <2>1 DEF Mark
  <2>3. cur[c] \in EndIds  BY <1>4, OkRan
  <2>4. Printed(cur[c], n)  BY <2>3 DEF Printed
  <2>5. inhand.id # cur[c] /\ \A j \in 1..Len(rx) : rx[j].id # cur[c]
    BY <2>2 DEF LastInv
  <2>6. PICK i \in 1..Len(Told) : Output(Told[i], cur[c], n)
    <3>1. \/ \E i \in 1..Len(Told) : Output(Told[i], cur[c], n)
          \/ Output(inhand, cur[c], n)
          \/ \E i \in 1..Len(rx) : Output(rx[i], cur[c], n)
      BY <1>4, <2>4 DEF KeptInv
    <3> QED  BY <2>5, <3>1 DEF Output
  <2>7. Told[i].id = cur[c] /\ Told[i].n = n /\ Told[i].kind \in {"out", "junk"}
    BY <2>6 DEF Output
  <2>8. Len(Told) \in Nat  BY ToldType
  <2>9. ASSUME NEW k \in 1..i PROVE Told[k] # Mark(cur[c])
    <3> SUFFICES ASSUME Told[k] = Mark(cur[c]) PROVE FALSE
      OBVIOUS
    <3>1. Told[k].kind = "mark" /\ Told[k].id = cur[c]  BY DEF Mark
    <3>2. k # i  BY <2>7, <3>1
    <3>3. k \in 1..Len(Told) /\ i \in k+1..Len(Told)  BY <2>8, <3>2
    <3> QED  BY <2>7, <3>1, <3>3 DEF LastInv
  <2>10. Told[i] \in out  BY <1>2, <2>7, <2>9
  <2> QED  BY <2>7, <2>10
<1> QED  BY <1>3, <1>4

LEMMA CommandEnds ==
  ASSUME SInv, NEW c \in Clients, h[c] = "polling", Finish(c)
  PROVE  StreamInv'
<1> USE DEF SInv, StreamInv, RInv, IInv
<1>1. /\ UNCHANGED <<tty, step, rx, inhand, ended, lost, cur, rd>>
      /\ captures' = <<>> /\ Told' = <<>>
  <2>1. captures' = <<>>  BY OnlyCapture DEF Finish
  <2> QED  BY <2>1 DEF Finish, Told, clientVars, readerVars, boardVars
<1>2. \A d \in Clients : h'[d] # "polling"
  <2>1. h'[c] = "replying" /\ \A d \in Clients \ {c} : h'[d] = h[d]
    BY DEF Finish, TypeOK, HandlerTypeOK
  <2> QED  BY <2>1, OnePolls
<1>3. PICK r : r = [id |-> cur[c], out |-> OutputOf(CaptureOf(c), cur[c]),
                    ok |-> MarkSeen(CaptureOf(c), cur[c])]
  OBVIOUS
<1>4. /\ log' = Append(log, r) /\ r.id = cur[c] /\ r.ok = MarkSeen(CaptureOf(c), cur[c])
      /\ r.out = OutputOf(CaptureOf(c), cur[c])
  BY <1>3 DEF Finish
<1>5. r \in Result /\ log \in Seq(Result) /\ cur[c] \notin LogIds
  <2>1. OutputOf(CaptureOf(c), cur[c]) \in SUBSET Chunk  BY OnlyCapture, OutputType
  <2>2. cur[c] \in Ids  BY DEF TypeOK, HandlerTypeOK
  <2> QED
    BY <1>3, <2>1, <2>2, FinishIds DEF Result, MarkSeen, TypeOK, HistoryTypeOK, Ordered
<1>6. /\ Len(log) \in Nat /\ Len(log') = Len(log) + 1 /\ log'[Len(log) + 1] = r
      /\ \A i \in 1..Len(log) : log'[i] = log[i]
  BY <1>4, <1>5, AppendProperties, LenProperties
<1>7. \A i \in 1..Len(log') : i \in 1..Len(log) \/ i = Len(log) + 1  BY <1>6
<1>8. FailedIds \subseteq FailedIds'
  <2> SUFFICES ASSUME NEW i \in 1..Len(log), ~log[i].ok PROVE log[i].id \in FailedIds'
    BY DEF FailedIds
  <2>1. i \in 1..Len(log') /\ log'[i] = log[i]  BY <1>6
  <2> QED  BY <2>1 DEF FailedIds
<1>9. ~r.ok => r.id \in FailedIds'
  <2>1. Len(log) + 1 \in 1..Len(log')  BY <1>6
  <2> QED  BY <1>6, <2>1 DEF FailedIds
<1>10. \A x : Accounted(x) => x \in FailedIds' \/ (r.ok /\ x = cur[c])
  <2>1. \A d \in Clients : h[d] = "polling" => d = c  BY OnePolls
  <2> QED  BY <1>4, <1>8, <1>9, <2>1 DEF Accounted
<1>11. ASSUME r.ok
       PROVE  /\ inhand.id # cur[c] /\ \A j \in 1..Len(rx) : rx[j].id # cur[c]
              /\ \A i \in 1..Len(tty) : tty[i].id # cur[c]
  <2>1. MarkSeen(Told, cur[c])  BY <1>4, <1>11, OnePolls
  <2>2. PICK m \in 1..Len(Told) : Told[m] = Mark(cur[c])  BY <2>1 DEF MarkSeen, Items
  <2>3. Told[m].kind = "mark" /\ Told[m].id = cur[c]  BY <2>2 DEF Mark
  <2>4. cur[c] \in EndIds  BY <1>4, <1>11, OkRan
  <2>5. cur[c] \notin LineIds  BY <2>4 DEF LineInv
  <2> QED  BY <2>3, <2>5 DEF LastInv, LineIds
<1>12. OwnerInv'
  <2>1. 1..Len(Told') = {}  BY <1>1
  <2> QED  BY <1>1, <1>10, <1>11, <2>1 DEF OwnerInv, Accounted
<1>13. LastInv'
  <2>1. 1..Len(Told') = {}  BY <1>1
  <2> QED  BY <1>1, <2>1 DEF LastInv
<1>14. TypedInv' /\ KeptInv'  BY <1>1, <1>2 DEF TypedInv, KeptInv
<1>15. OrderInv'
  <2>1. \A a, b : NotAfter(a, b)' <=> NotAfter(a, b)  BY <1>1 DEF NotAfter
  <2>2. ASSUME NEW j \in 1..Len(log'), NEW i \in 1..j-1
        PROVE  log'[i].id # log'[j].id /\ NotAfter(log'[i].id, log'[j].id)
    <3>1. i \in 1..Len(log) /\ log'[i] = log[i]  BY <1>6
    <3>2. CASE j \in 1..Len(log)  BY <1>6, <3>1, <3>2 DEF OrderInv
    <3>3. CASE j = Len(log) + 1
      <4>1. log'[j].id = cur[c]  BY <1>4, <1>6, <3>3
      <4>2. log[i].id # cur[c]  BY <1>5, <3>1 DEF LogIds
      <4>3. NotAfter(log[i].id, cur[c])  BY <3>1 DEF OrderInv
      <4> QED  BY <3>1, <4>1, <4>2, <4>3
    <3> QED  BY <1>7, <3>2, <3>3
  <2> QED  BY <1>2, <2>1, <2>2 DEF OrderInv
<1>16. OutputIsAttributable'
  <2> SUFFICES ASSUME NEW i \in 1..Len(log'), log'[i].ok, NEW x \in log'[i].out
               PROVE  \/ x.id = log'[i].id \/ x.kind = "typed"
                      \/ \E j \in 1..i-1 : log'[j].id = x.id /\ ~log'[j].ok
    BY DEF OutputIsAttributable
  <2>1. CASE i \in 1..Len(log)
    <3>1. log'[i] = log[i] /\ \A j \in 1..i-1 : log'[j] = log[j]  BY <1>6, <2>1
    <3> QED  BY <2>1, <3>1 DEF OutputIsAttributable
  <2>2. CASE i = Len(log) + 1
    <3>1. x \in OutputOf(CaptureOf(c), cur[c]) /\ log'[i].id = cur[c]  BY <1>4, <1>6, <2>2
    <3>2. x.id = cur[c] \/ x.kind = "typed" \/ x.id \in FailedIds  BY <3>1, AnswerRight
    <3>3. ASSUME x.id \in FailedIds PROVE \E j \in 1..i-1 : log'[j].id = x.id /\ ~log'[j].ok
      <4>1. PICK j \in 1..Len(log) : log[j].id = x.id /\ ~log[j].ok  BY <3>3 DEF FailedIds
      <4>2. j \in 1..i-1 /\ log'[j] = log[j]  BY <1>6, <2>2
      <4> QED  BY <4>1, <4>2
    <3> QED  BY <3>1, <3>2, <3>3
  <2> QED  BY <1>7, <2>1, <2>2
<1>17. OkOutputIsComplete'
  <2> SUFFICES ASSUME NEW i \in 1..Len(log'), log'[i].ok, log'[i].id \notin lost,
                      NEW n \in 1..OutLen
               PROVE  \E x \in log'[i].out :
                        x.id = log'[i].id /\ x.n = n /\ x.kind \in {"out", "junk"}
    BY <1>1 DEF OkOutputIsComplete
  <2>1. CASE i \in 1..Len(log)  BY <1>6, <2>1 DEF OkOutputIsComplete
  <2>2. CASE i = Len(log) + 1
    <3>1. log'[i].out = OutputOf(CaptureOf(c), cur[c]) /\ log'[i].id = cur[c]
          /\ MarkSeen(CaptureOf(c), cur[c])
      BY <1>4, <1>6, <2>2
    <3> QED  BY <3>1, AnswerRight
  <2> QED  BY <1>7, <2>1, <2>2
<1> QED  BY <1>12, <1>13, <1>14, <1>15, <1>16, <1>17

-----------------------------------------------------------------------------
(* Reader and shell.                                                       *)

\* Reader and shell change neither who is accounted for nor the results.
SameResults == UNCHANGED <<log, h, cur>>
LEMMA ResultsStay ==
  ASSUME StreamInv, SameResults, lost \subseteq lost'
  PROVE  /\ FailedIds' = FailedIds /\ \A x : Accounted(x)' <=> Accounted(x)
         /\ OutputIsAttributable' /\ OkOutputIsComplete'
<1>1. FailedIds' = FailedIds  BY DEF FailedIds, SameResults
<1>2. OutputIsAttributable'  BY DEF OutputIsAttributable, SameResults, StreamInv
<1>3. OkOutputIsComplete'  BY DEF OkOutputIsComplete, SameResults, StreamInv
<1> QED  BY <1>1, <1>2, <1>3 DEF Accounted, SameResults

LEMMA LinesStay ==
  ASSUME StreamInv, SameResults, UNCHANGED <<tty, ended>>
  PROVE  OrderInv' /\ TypedInv' /\ EndIds' = EndIds
<1>1. \A a, b : NotAfter(a, b)' <=> NotAfter(a, b)  BY DEF NotAfter
<1>2. OrderInv'  BY <1>1 DEF OrderInv, SameResults, StreamInv
<1> QED  BY <1>2 DEF TypedInv, SameResults, StreamInv, EndIds

LEMMA PortOpens ==
  ASSUME SInv, OpenPort
  PROVE  StreamInv'
<1> USE DEF SInv, StreamInv
<1>1. /\ UNCHANGED <<tty, step, ended, log, h, cur, inhand, captures>> /\ rx' = <<>>
      /\ lost' = lost \cup {x.id : x \in Items(rx)}
      /\ rd = "opening" /\ rd' = "reading"
  BY DEF OpenPort, clientVars, handlerVars
<1>2. OrderInv' /\ TypedInv' /\ EndIds' = EndIds  BY <1>1, LinesStay DEF SameResults
<1>3. /\ \A x : Accounted(x)' <=> Accounted(x)
      /\ OutputIsAttributable' /\ OkOutputIsComplete'
  BY <1>1, ResultsStay DEF SameResults
<1>4. 1..Len(rx') = {} /\ Told' = Told  BY <1>1 DEF Told
<1>5. OwnerInv'  BY <1>1, <1>3, <1>4 DEF OwnerInv
<1>6. LastInv'  BY <1>1, <1>4 DEF LastInv
<1>7. KeptInv'
  <2>1. inhand' = NoChunk  BY <1>1 DEF KeptInv
  <2>2. ASSUME NEW c \in Clients, h[c] = "polling", cur[c] \notin lost',
               NEW n \in 1..OutLen, Printed(cur[c], n)
        PROVE  (\E i \in 1..Len(Told) : Output(Told[i], cur[c], n)) \/ Output(inhand, cur[c], n)
    <3>1. \A i \in 1..Len(rx) : rx[i].id # cur[c]  BY <1>1, <2>2 DEF Items
    <3>2. cur[c] \notin lost  BY <1>1, <2>2
    <3> QED  BY <2>2, <3>1, <3>2 DEF KeptInv, Output
  <2>3. \A x, n : Printed(x, n)' <=> Printed(x, n)  BY <1>1, <1>2 DEF Printed
  <2> QED  BY <1>1, <1>4, <2>1, <2>2, <2>3 DEF KeptInv
<1> QED  BY <1>2, <1>3, <1>5, <1>6, <1>7

LEMMA ChunkRead ==
  ASSUME SInv, ReadChunk
  PROVE  StreamInv'
<1> USE DEF SInv, StreamInv
<1>1. /\ UNCHANGED <<tty, step, ended, log, h, cur, captures, lost>> /\ rx # <<>>
      /\ inhand' = Head(rx) /\ rx' = Tail(rx) /\ rd = "reading" /\ rd' = "holding"
  BY DEF ReadChunk, clientVars, handlerVars, boardVars, historyVars
<1>2. OrderInv' /\ TypedInv' /\ EndIds' = EndIds  BY <1>1, LinesStay DEF SameResults
<1>3. /\ \A x : Accounted(x)' <=> Accounted(x)
      /\ OutputIsAttributable' /\ OkOutputIsComplete'
  BY <1>1, ResultsStay DEF SameResults
<1>4. Told' = Told  BY <1>1 DEF Told
<1>5. rx \in Seq(Chunk)  BY DEF RInv, IInv, TypeOK, BoardTypeOK
<1>6. /\ Len(rx) \in Nat \ {0} /\ Len(rx') = Len(rx) - 1 /\ inhand' = rx[1]
      /\ \A i \in 1..Len(rx') : rx'[i] = rx[i+1]
  BY <1>1, <1>5, HeadTailProperties, EmptySeq
<1>7. 1 \in 1..Len(rx) /\ \A i \in 1..Len(rx') : i + 1 \in 1..Len(rx) /\ i + 1 \in 2..Len(rx)
  BY <1>6
<1>8. OwnerInv'  BY <1>1, <1>3, <1>4, <1>6, <1>7 DEF OwnerInv
<1>9. LastInv'
  <2>1. \A i \in 1..Len(rx') : rx'[i].kind = "mark" => \A j \in i+1..Len(rx') : rx'[j].id # rx'[i].id
    <3> SUFFICES ASSUME NEW i \in 1..Len(rx'), rx'[i].kind = "mark", NEW j \in i+1..Len(rx')
                 PROVE  rx'[j].id # rx'[i].id
      OBVIOUS
    <3>1. j \in 1..Len(rx') /\ j + 1 \in (i+1)+1..Len(rx)  BY <1>6
    <3>2. rx'[i] = rx[i+1] /\ rx'[j] = rx[j+1] /\ i + 1 \in 1..Len(rx)  BY <1>6, <1>7, <3>1
    <3> QED  BY <3>1, <3>2 DEF LastInv
  <2>2. inhand'.kind = "mark" => \A j \in 1..Len(rx') : rx'[j].id # inhand'.id
    <3> SUFFICES ASSUME rx[1].kind = "mark", NEW j \in 1..Len(rx') PROVE rx[j+1].id # rx[1].id
      BY <1>6
    <3>1. 1 \in 1..Len(rx) /\ j + 1 \in 1+1..Len(rx)  BY <1>7
    <3> QED  BY <3>1 DEF LastInv
  <2>3. ASSUME NEW i \in 1..Len(Told'), Told'[i].kind = "mark"
        PROVE  /\ \A j \in i+1..Len(Told') : Told'[j].id # Told'[i].id
               /\ inhand'.id # Told'[i].id
               /\ \A j \in 1..Len(rx') : rx'[j].id # Told'[i].id
    BY <1>4, <1>6, <1>7, <2>3 DEF LastInv
  <2> QED  BY <2>1, <2>2, <2>3 DEF LastInv
<1>10. KeptInv'
  <2>1. ASSUME NEW id, NEW n, \/ Output(inhand, id, n)
                              \/ \E i \in 1..Len(rx) : Output(rx[i], id, n)
        PROVE  Output(inhand', id, n) \/ \E i \in 1..Len(rx') : Output(rx'[i], id, n)
    <3>1. inhand = NoChunk  BY <1>1 DEF KeptInv
    <3>2. ~Output(inhand, id, n)  BY <3>1 DEF Output, NoChunk
    <3>3. PICK i \in 1..Len(rx) : Output(rx[i], id, n)  BY <2>1, <3>2
    <3>4. CASE i = 1  BY <1>6, <3>3, <3>4
    <3>5. CASE i # 1
      <4>1. i - 1 \in 1..Len(rx') /\ (i - 1) + 1 = i  BY <1>6, <3>5
      <4>2. rx'[i-1] = rx[i]  BY <1>6, <4>1
      <4> QED  BY <3>3, <4>1, <4>2
    <3> QED  BY <3>4, <3>5
  <2>2. \A x, n : Printed(x, n)' <=> Printed(x, n)  BY <1>1, <1>2 DEF Printed
  <2>3. ASSUME NEW c \in Clients, h[c] = "polling", cur[c] \notin lost,
               NEW n \in 1..OutLen, Printed(cur[c], n)
        PROVE  \/ \E i \in 1..Len(Told) : Output(Told[i], cur[c], n)
               \/ Output(inhand', cur[c], n)
               \/ \E i \in 1..Len(rx') : Output(rx'[i], cur[c], n)
    BY <2>1, <2>3 DEF KeptInv
  <2> QED  BY <1>1, <1>4, <2>2, <2>3 DEF KeptInv
<1> QED  BY <1>2, <1>3, <1>8, <1>9, <1>10

LEMMA ChunkDelivered ==
  ASSUME SInv, Deliver
  PROVE  StreamInv'
<1> USE DEF SInv, StreamInv
<1>1. /\ UNCHANGED <<tty, step, ended, log, h, cur, rx, lost>> /\ inhand' = NoChunk
      /\ rd = "holding" /\ rd' = "reading" /\ inhand \in Chunk
      /\ captures' = [i \in 1..Len(captures) |->
                        [captures[i] EXCEPT !.data = Append(@, inhand)]]
  BY DEF Deliver, clientVars, boardVars, historyVars, RInv, IInv, TypeOK, ReaderTypeOK
<1>2. OrderInv' /\ TypedInv' /\ EndIds' = EndIds  BY <1>1, LinesStay DEF SameResults
<1>3. /\ \A x : Accounted(x)' <=> Accounted(x)
      /\ OutputIsAttributable' /\ OkOutputIsComplete'
  BY <1>1, ResultsStay DEF SameResults
<1>4. \A x, n : Printed(x, n)' <=> Printed(x, n)  BY <1>1, <1>2 DEF Printed
<1>5. NoChunk.kind = "none" /\ NoChunk.id = 0  BY DEF NoChunk
<1>6. Told \in Seq(Chunk) /\ Len(Told) \in Nat  BY ToldType DEF RInv, IInv
<1>7. \A i \in 1..Len(Told) : Told[i].id # 0
  <2>1. \A i \in 1..Len(Told) : Told[i] \in Chunk  BY <1>6, ElementOfSeq
  <2> QED  BY <2>1 DEF Chunk, Ids
<1>8. CASE captures = <<>>
  <2>1. Told = <<>> /\ Told' = <<>>
    <3>1. captures' = <<>>  BY <1>1, <1>8
    <3> QED  BY <1>8, <3>1 DEF Told
  <2>2. \A c \in Clients : h[c] # "polling"  BY <1>8 DEF RInv, IInv, CaptureInv
  <2>3. 1..Len(Told') = {}  BY <2>1
  <2>4. OwnerInv'  BY <1>1, <1>3, <1>5, <2>3 DEF OwnerInv, FromCommand
  <2>5. LastInv'  BY <1>1, <1>5, <2>3 DEF LastInv
  <2>6. KeptInv'  BY <1>1, <2>2 DEF KeptInv
  <2> QED  BY <1>2, <1>3, <2>4, <2>5, <2>6
<1>9. CASE captures # <<>>
  <2>1. captures \in Seq(Capture) /\ Len(captures) = 1
    BY <1>9 DEF RInv, IInv, TypeOK, HandlerTypeOK, CaptureInv
  <2>2. captures[1] \in Capture  BY <2>1, ElementOfSeq
  <2>3. captures' # <<>> /\ captures'[1].data = Append(captures[1].data, inhand)
    BY <1>1, <2>1, <2>2 DEF Capture
  <2>4. Told' = Append(Told, inhand)  BY <1>9, <2>3 DEF Told
  <2>5. /\ Len(Told') = Len(Told) + 1 /\ Told'[Len(Told) + 1] = inhand
        /\ \A i \in 1..Len(Told) : Told'[i] = Told[i]
    BY <1>1, <1>6, <2>4, AppendProperties
  <2>6. \A i \in 1..Len(Told') : i \in 1..Len(Told) \/ i = Len(Told) + 1  BY <1>6, <2>5
  <2>7. OwnerInv'  BY <1>1, <1>3, <1>5, <2>5, <2>6 DEF OwnerInv, FromCommand
  <2>8. LastInv'
    <3>1. ASSUME NEW i \in 1..Len(Told'), Told'[i].kind = "mark"
          PROVE  /\ \A j \in i+1..Len(Told') : Told'[j].id # Told'[i].id
                 /\ 0 # Told'[i].id
                 /\ \A j \in 1..Len(rx) : rx[j].id # Told'[i].id
      <4>1. CASE i \in 1..Len(Told)
        <5>1. \A j \in i+1..Len(Told') : j \in i+1..Len(Told) \/ j = Len(Told) + 1
          BY <1>6, <2>5, <4>1
        <5>2. \A j \in i+1..Len(Told) : j \in 1..Len(Told)  BY <1>6, <4>1
        <5> QED  BY <1>7, <2>5, <3>1, <4>1, <5>1, <5>2 DEF LastInv
      <4>2. CASE i = Len(Told) + 1
        <5>1. i+1..Len(Told') = {}  BY <1>6, <2>5, <4>2
        <5>2. inhand.id # 0  BY <1>1 DEF Chunk, Ids
        <5> QED  BY <2>5, <3>1, <4>2, <5>1, <5>2 DEF LastInv
      <4> QED  BY <2>6, <4>1, <4>2
    <3> QED  BY <1>1, <1>5, <3>1 DEF LastInv
  <2>9. KeptInv'
    <3>1. ASSUME NEW id, NEW n, \/ \E i \in 1..Len(Told) : Output(Told[i], id, n)
                                \/ Output(inhand, id, n)
          PROVE  \E i \in 1..Len(Told') : Output(Told'[i], id, n)
      <4>1. ASSUME NEW i \in 1..Len(Told), Output(Told[i], id, n)
            PROVE  \E k \in 1..Len(Told') : Output(Told'[k], id, n)
        <5>1. i \in 1..Len(Told') /\ Told'[i] = Told[i]  BY <1>6, <2>5
        <5> QED  BY <4>1, <5>1
      <4>2. Len(Told) + 1 \in 1..Len(Told')  BY <1>6, <2>5
      <4> QED  BY <2>5, <3>1, <4>1, <4>2
    <3>2. ASSUME NEW c \in Clients, h[c] = "polling", cur[c] \notin lost,
                 NEW n \in 1..OutLen, Printed(cur[c], n)
          PROVE  \/ \E i \in 1..Len(Told') : Output(Told'[i], cur[c], n)
                 \/ \E i \in 1..Len(rx) : Output(rx[i], cur[c], n)
      BY <3>1, <3>2 DEF KeptInv
    <3> QED  BY <1>1, <1>4, <3>2 DEF KeptInv
  <2> QED  BY <1>2, <1>3, <2>7, <2>8, <2>9
<1> QED  BY <1>8, <1>9

\* The shell prints a chunk of the line it runs.
LEMMA Printing ==
  ASSUME SInv, step' > 0 \/ step > 0, NEW x \in Chunk, rx' = Append(rx, x),
         tty # <<>>, x.id = Head(tty).id, x.kind \in FromCommand => Head(tty).kind # "typed",
         UNCHANGED <<inhand, captures, log, h, cur>>
  PROVE  /\ Len(rx') = Len(rx) + 1 /\ rx'[Len(rx) + 1] = x /\ Len(rx) \in Nat
         /\ \A i \in 1..Len(rx) : rx'[i] = rx[i]
         /\ LastInv'
         /\ \A i \in 1..Len(rx') : rx'[i].kind \in FromCommand => Accounted(rx'[i].id)
<1> USE DEF SInv, StreamInv
<1>1. rx \in Seq(Chunk) /\ tty \in Seq(Line)  BY DEF RInv, IInv, TypeOK, BoardTypeOK
<1>2. /\ Len(rx') = Len(rx) + 1 /\ rx'[Len(rx) + 1] = x /\ Len(rx) \in Nat
      /\ \A i \in 1..Len(rx) : rx'[i] = rx[i]
  BY <1>1, AppendProperties, LenProperties
<1>3. Head(tty) = tty[1] /\ 1 \in 1..Len(tty)
  BY <1>1, EmptySeq, HeadTailProperties
<1>4. x.id \notin EndIds  BY <1>3 DEF LineIds, RInv, LineInv
<1>5. \A i \in 1..Len(rx') : i \in 1..Len(rx) \/ i = Len(rx) + 1  BY <1>2
<1>6. Told' = Told  BY DEF Told
<1>7. LastInv'
  <2>1. ASSUME NEW i \in 1..Len(rx'), rx'[i].kind = "mark", NEW j \in i+1..Len(rx')
        PROVE  rx'[j].id # rx'[i].id
    <3>1. i \in 1..Len(rx) /\ ((j \in i+1..Len(rx) /\ j \in 1..Len(rx)) \/ j = Len(rx) + 1)
      BY <1>2
    <3>2. rx[i].id \in EndIds  BY <1>2, <2>1, <3>1, MarksEnded
    <3> QED  BY <1>2, <1>4, <2>1, <3>1, <3>2 DEF LastInv
  <2>2. inhand.kind = "mark" => \A j \in 1..Len(rx') : rx'[j].id # inhand.id
    BY <1>2, <1>4, <1>5, MarksEnded DEF LastInv
  <2>3. \A i \in 1..Len(Told) : Told[i].kind = "mark" =>
          \A j \in 1..Len(rx') : rx'[j].id # Told[i].id
    BY <1>2, <1>4, <1>5, MarksEnded DEF LastInv
  <2> QED  BY <1>6, <2>1, <2>2, <2>3 DEF LastInv
<1>8. \A i \in 1..Len(rx') : rx'[i].kind \in FromCommand => Accounted(rx'[i].id)
  BY <1>2, <1>3, <1>5 DEF OwnerInv
<1> QED  BY <1>2, <1>7, <1>8

LEMMA LinePrints ==
  ASSUME SInv, ShellStart \/ ShellPrint
  PROVE  StreamInv'
<1> USE DEF SInv, StreamInv
<1>1. /\ UNCHANGED <<tty, ended, log, h, cur, inhand, captures, lost, rd>>
      /\ tty # <<>> /\ tty \in Seq(Line) /\ step \in Nat /\ step' = step + 1 /\ OutLen \in Nat
  BY BoundsAssumption DEF ShellStart, ShellPrint, handlerVars, readerVars, historyVars,
                          RInv, IInv, TypeOK, BoardTypeOK
<1>2. OrderInv' /\ TypedInv' /\ EndIds' = EndIds  BY <1>1, LinesStay DEF SameResults
<1>3. /\ \A x : Accounted(x)' <=> Accounted(x)
      /\ OutputIsAttributable' /\ OkOutputIsComplete'
  BY <1>1, ResultsStay DEF SameResults
<1>4. Told' = Told  BY <1>1 DEF Told
<1>5. Head(tty) \in Line /\ Head(tty) = tty[1] /\ 1 \in 1..Len(tty)
  BY <1>1, HeadTailProperties, EmptySeq
<1>6. PICK k \in {"echo", Head(tty).kind}, n \in Nat :
        /\ rx' = Append(rx, [kind |-> k, id |-> Head(tty).id, n |-> n])
        /\ \/ step = 0 /\ k = "echo"
           \/ step > 0 /\ n = step /\ k = Head(tty).kind
  <2>1. CASE ShellStart
    <3>1. rx' = Append(rx, [kind |-> "echo", id |-> Head(tty).id, n |-> 0]) /\ step = 0
      BY <2>1 DEF ShellStart, Print1
    <3> QED  BY <3>1
  <2>2. CASE ShellPrint
    <3>1. rx' = Append(rx, [kind |-> Head(tty).kind, id |-> Head(tty).id, n |-> step])
          /\ step > 0
      BY <1>1, <2>2 DEF ShellPrint, Print1
    <3> QED  BY <1>1, <3>1
  <2> QED  BY <2>1, <2>2
<1>7. PICK x : x = [kind |-> k, id |-> Head(tty).id, n |-> n]  OBVIOUS
<1>8. /\ x \in Chunk /\ x.id = Head(tty).id /\ x.kind = k /\ x.n = n
      /\ x.kind \in FromCommand => Head(tty).kind # "typed"
  <2>1. Head(tty).id \in Ids /\ Head(tty).kind \in {"out", "junk", "typed"}
    BY <1>5 DEF Line
  <2>2. k \in {"echo", "out", "junk", "typed"}  BY <1>6, <2>1
  <2>3. x \in Chunk  BY <1>7, <2>1, <2>2 DEF Chunk
  <2> QED  BY <1>6, <1>7, <2>3 DEF FromCommand
<1>9. /\ Len(rx') = Len(rx) + 1 /\ rx'[Len(rx) + 1] = x /\ Len(rx) \in Nat
      /\ \A i \in 1..Len(rx) : rx'[i] = rx[i]
      /\ LastInv' /\ \A i \in 1..Len(rx') : rx'[i].kind \in FromCommand => Accounted(rx'[i].id)
  BY <1>1, <1>6, <1>7, <1>8, Printing
<1>10. OwnerInv'  BY <1>1, <1>3, <1>4, <1>9 DEF OwnerInv
<1>11. KeptInv'
  <2> SUFFICES ASSUME NEW c \in Clients, h[c] = "polling", cur[c] \notin lost,
                      NEW m \in 1..OutLen, Printed(cur[c], m)'
               PROVE  \/ \E i \in 1..Len(Told) : Output(Told[i], cur[c], m)
                      \/ Output(inhand, cur[c], m)
                      \/ \E i \in 1..Len(rx') : Output(rx'[i], cur[c], m)
    BY <1>1, <1>4 DEF KeptInv
  <2>1. CASE Printed(cur[c], m)
    <3>1. \A i \in 1..Len(rx) : i \in 1..Len(rx') /\ rx'[i] = rx[i]  BY <1>9
    <3> QED  BY <2>1, <3>1 DEF KeptInv
  <2>2. CASE ~Printed(cur[c], m)
    <3>1. Head(tty).id = cur[c] /\ m < step + 1 /\ ~(m < step)
      BY <1>1, <1>2, <2>2 DEF Printed
    <3>2. m = step /\ step > 0  BY <1>1, <3>1
    <3>3. Head(tty).kind # "typed"  BY <1>5, <3>1 DEF TypedInv
    <3>4. x.kind \in {"out", "junk"} /\ x.n = m /\ x.id = cur[c]
      BY <1>5, <1>6, <1>8, <3>1, <3>2, <3>3 DEF Line
    <3>5. Len(rx) + 1 \in 1..Len(rx')  BY <1>9
    <3> QED  BY <1>9, <3>4, <3>5 DEF Output
  <2> QED  BY <2>1, <2>2
<1> QED  BY <1>2, <1>3, <1>9, <1>10, <1>11

\* A line that has run to its end comes after those that have before.
LEMMA EndAfter ==
  ASSUME RInv, ShellDone, NEW a, NEW b, a # b, NotAfter(a, b)
  PROVE  NotAfter(a, b)'
<1>1. step > 0 /\ tty' = Tail(tty)  BY BoundsAssumption DEF ShellDone
<1>2. /\ tty # <<>> /\ tty \in Seq(Line) /\ Len(tty) \in Nat \ {0} /\ 1 \in 1..Len(tty)
      /\ Head(tty) = tty[1] /\ Head(tty) \in Line
  BY <1>1, FirstLine
<1>3. /\ Len(tty') = Len(tty) - 1 /\ \A i \in 1..Len(tty') : tty'[i] = tty[i+1]
  BY <1>1, <1>2, HeadTailProperties
<1>4. \A i \in 1..Len(tty') : i + 1 \in 1..Len(tty)  BY <1>2, <1>3
<1>5. \A p, q \in 1..Len(tty') : tty'[p].id = a /\ tty'[q].id = b => p < q
  <2> SUFFICES ASSUME NEW p \in 1..Len(tty'), NEW q \in 1..Len(tty'), tty'[p].id = a, tty'[q].id = b
               PROVE  p < q
    OBVIOUS
  <2>1. p + 1 < q + 1  BY <1>3, <1>4 DEF NotAfter
  <2> QED  BY <2>1
<1>6. CASE ended' = ended  BY <1>3, <1>4, <1>5, <1>6 DEF NotAfter
<1>7. CASE ended' = Append(ended, Head(tty))
  <2>1. ended \in Seq(Line)  BY DEF RInv, IInv, TypeOK, BoardTypeOK
  <2>2. /\ Len(ended) \in Nat /\ Len(ended') = Len(ended) + 1 /\ ended'[Len(ended) + 1] = Head(tty)
        /\ \A i \in 1..Len(ended) : ended'[i] = ended[i]
    BY <1>2, <1>7, <2>1, AppendProperties, LenProperties
  <2>3. \A i \in 1..Len(ended') : i \in 1..Len(ended) \/ i = Len(ended) + 1  BY <2>2
  <2>4. ASSUME NEW p \in 1..Len(ended'), NEW q \in 1..Len(ended'), ended'[p].id = a, ended'[q].id = b
        PROVE  p < q
    <3>1. CASE p \in 1..Len(ended) /\ q \in 1..Len(ended)  BY <2>2, <2>4, <3>1 DEF NotAfter
    <3>2. CASE p \in 1..Len(ended) /\ q = Len(ended) + 1  BY <2>2, <3>2
    <3>3. CASE p = Len(ended) + 1 /\ q \in 1..Len(ended)
      <4>1. tty[1].id = a /\ ended[q].id = b  BY <1>2, <2>2, <2>4, <3>3
      <4> QED  BY <1>2, <3>3, <4>1 DEF NotAfter
    <3>4. CASE p = Len(ended) + 1 /\ q = Len(ended) + 1  BY <2>4, <3>4
    <3> QED  BY <2>3, <3>1, <3>2, <3>3, <3>4
  <2>5. ASSUME NEW p \in 1..Len(tty'), NEW q \in 1..Len(ended'), tty'[p].id = a, ended'[q].id = b
        PROVE  FALSE
    <3>1. p + 1 \in 1..Len(tty) /\ tty[p+1].id = a  BY <1>3, <1>4, <2>5
    <3>2. CASE q \in 1..Len(ended)  BY <2>2, <2>5, <3>1, <3>2 DEF NotAfter
    <3>3. CASE q = Len(ended) + 1
      <4>1. tty[1].id = b  BY <1>2, <2>2, <2>5, <3>3
      <4>2. p + 1 < 1  BY <1>2, <3>1, <4>1 DEF NotAfter
      <4> QED  BY <1>3, <4>2
    <3> QED  BY <2>3, <3>2, <3>3
  <2> QED  BY <1>5, <2>4, <2>5 DEF NotAfter
<1> QED  BY <1>6, <1>7 DEF ShellDone

LEMMA LineEnds ==
  ASSUME SInv, ShellDone
  PROVE  StreamInv'
<1> USE DEF SInv, StreamInv
<1>1. /\ UNCHANGED <<log, h, cur, inhand, captures, lost, rd>>
      /\ step > 0 /\ step = OutLen + 1 /\ step' = 0 /\ tty' = Tail(tty) /\ OutLen \in Nat
  BY BoundsAssumption DEF ShellDone, handlerVars, readerVars, historyVars
<1>2. /\ tty # <<>> /\ tty \in Seq(Line) /\ Len(tty) \in Nat \ {0} /\ 1 \in 1..Len(tty)
      /\ Head(tty) = tty[1] /\ Head(tty) \in Line /\ Head(tty).id \in Ids
  BY <1>1, FirstLine
<1>3. /\ Len(tty') = Len(tty) - 1
      /\ \A i \in 1..Len(tty') : tty'[i] = tty[i+1] /\ i + 1 \in 1..Len(tty)
  <2>1. Len(tty') = Len(tty) - 1 /\ \A i \in 1..Len(tty') : tty'[i] = tty[i+1]
    BY <1>1, <1>2, HeadTailProperties
  <2>2. \A i \in 1..Len(tty') : i + 1 \in 1..Len(tty)  BY <1>2, <2>1
  <2> QED  BY <2>1, <2>2
<1>4. /\ \A x : Accounted(x)' <=> Accounted(x)
      /\ OutputIsAttributable' /\ OkOutputIsComplete'
  BY <1>1, ResultsStay DEF SameResults
<1>5. Told' = Told  BY <1>1 DEF Told
<1>6. TypedInv'  BY <1>1, <1>3 DEF TypedInv
<1>7. \A i \in 1..Len(tty') : tty'[i].kind # "typed" => Accounted(tty'[i].id)
  BY <1>3 DEF OwnerInv
<1>8. OrderInv'
  <2>1. \A a, b : a # b /\ NotAfter(a, b) => NotAfter(a, b)'  BY EndAfter
  <2>2. Len(log) \in Nat /\ \A j \in 1..Len(log) : \A i \in 1..j-1 : i \in 1..Len(log)
    <3>1. Len(log) \in Nat  BY LenProperties DEF RInv, IInv, TypeOK, HistoryTypeOK
    <3> QED  BY <3>1
  <2>3. \A c \in Clients : h[c] = "polling" => \A i \in 1..Len(log) : log[i].id # cur[c]
    <3>1. \A c \in Clients : h[c] = "polling" => Unanswered(cur[c])  BY DEF Unanswered
    <3>2. \A i \in 1..Len(log) : ~Unanswered(log[i].id)  BY DEF RInv, LogInv, LogIds
    <3> QED  BY <3>1, <3>2
  <2> QED  BY <1>1, <2>1, <2>2, <2>3 DEF OrderInv
<1>9. /\ EndIds \subseteq EndIds'
      /\ Head(tty).kind # "typed" => EndIds' = EndIds \cup {Head(tty).id}
  BY ShellDoneIds DEF Ordered, RInv, IInv
<1>10. CASE Head(tty).kind = "typed"
  <2>1. UNCHANGED <<rx, ended>>  BY <1>10 DEF ShellDone
  <2>2. OwnerInv'  BY <1>1, <1>4, <1>5, <1>7, <2>1 DEF OwnerInv
  <2>3. LastInv'  BY <1>1, <1>5, <2>1 DEF LastInv
  <2>4. KeptInv'
    <3>1. EndIds' = EndIds  BY <2>1 DEF EndIds
    <3>2. \A x : \A n \in 1..OutLen : Printed(x, n)' => Printed(x, n)
      BY <1>1, <3>1 DEF Printed
    <3> QED  BY <1>1, <1>5, <2>1, <3>2 DEF KeptInv
  <2> QED  BY <1>4, <1>6, <1>8, <2>2, <2>3, <2>4
<1>11. CASE Head(tty).kind # "typed"
  <2>1. rx' = Append(rx, Mark(Head(tty).id))  BY <1>11 DEF ShellDone, Print1, Mark
  <2>2. PICK x : x = Mark(Head(tty).id)  OBVIOUS
  <2>3. x \in Chunk /\ x.id = Head(tty).id  BY <1>2, <2>2 DEF Chunk, Mark
  <2>4. /\ Len(rx') = Len(rx) + 1 /\ rx'[Len(rx) + 1] = x /\ Len(rx) \in Nat
        /\ \A i \in 1..Len(rx) : rx'[i] = rx[i]
        /\ LastInv' /\ \A i \in 1..Len(rx') : rx'[i].kind \in FromCommand => Accounted(rx'[i].id)
    BY <1>1, <1>2, <1>11, <2>1, <2>2, <2>3, Printing
  <2>5. OwnerInv'  BY <1>1, <1>4, <1>5, <1>7, <2>4 DEF OwnerInv
  <2>6. KeptInv'
    <3>1. EndIds' = EndIds \cup {Head(tty).id}  BY <1>9, <1>11
    <3>2. \A y : \A n \in 1..OutLen : Printed(y, n)' => Printed(y, n)
      <4> SUFFICES ASSUME NEW y, NEW n \in 1..OutLen, Printed(y, n)' PROVE Printed(y, n)
        OBVIOUS
      <4>1. y \in EndIds'  BY <1>1 DEF Printed
      <4>2. n < step  BY <1>1
      <4> QED  BY <1>2, <3>1, <4>1, <4>2 DEF Printed
    <3>3. \A i \in 1..Len(rx) : i \in 1..Len(rx') /\ rx'[i] = rx[i]  BY <2>4
    <3>4. ASSUME NEW c \in Clients, h[c] = "polling", cur[c] \notin lost,
                 NEW n \in 1..OutLen, Printed(cur[c], n)
          PROVE  \/ \E i \in 1..Len(Told) : Output(Told[i], cur[c], n)
                 \/ Output(inhand, cur[c], n)
                 \/ \E i \in 1..Len(rx') : Output(rx'[i], cur[c], n)
      BY <3>3, <3>4 DEF KeptInv
    <3> QED  BY <1>1, <1>5, <3>2, <3>4 DEF KeptInv
  <2> QED  BY <1>4, <1>6, <1>8, <2>4, <2>5, <2>6
<1> QED  BY <1>10, <1>11

-----------------------------------------------------------------------------
(* The inductive invariant and the theorems.                               *)

LEMMA NextStream == SInv /\ [Next]_vars => StreamInv'
<1> SUFFICES ASSUME SInv, [Next]_vars PROVE StreamInv'
  OBVIOUS
<1> USE DEF SInv
<1>1. TypeOK /\ StreamInv  BY DEF RInv, IInv
<1>2. TypedInv  BY DEF StreamInv
<1>3. ASSUME NEW c \in Clients, NEW op \in {"cmd", "keys", "enter"},
             Send(c, op) \/ Disconnect(c)
      PROVE  StreamInv'
  <2>1. UNCHANGED <<h, cur, tty>> /\ SameStream
    BY <1>3 DEF Send, Disconnect, handlerVars, readerVars, boardVars, historyVars, SameStream
  <2>2. SamePolls /\ TypedInv'  BY <1>2, <2>1 DEF SamePolls, TypedInv
  <2> QED  BY <1>1, <2>1, <2>2, QuietStays
<1>4. ASSUME NEW c \in Clients, Greet(c) \/ EndOfStream(c) PROVE StreamInv'
  <2>1. UNCHANGED <<cur, tty>> /\ SameStream
    BY <1>4 DEF Greet, EndOfStream, readerVars, boardVars, historyVars, SameStream
  <2>2. SamePolls
    BY <1>1, <1>4 DEF Greet, EndOfStream, Leave, SamePolls, TypeOK, HandlerTypeOK
  <2>3. TypedInv'  BY <1>2, <2>1 DEF TypedInv
  <2> QED  BY <1>1, <2>1, <2>2, <2>3, QuietStays
<1>5. ASSUME NEW c \in Clients, HandleCmd(c) PROVE StreamInv'
  <2>1. tty' = tty /\ SameStream
    BY <1>5 DEF HandleCmd, readerVars, boardVars, historyVars, SameStream
  <2>2. SamePolls  BY <1>1, <1>5 DEF HandleCmd, SamePolls, TypeOK, HandlerTypeOK
  <2>3. PICK id : id = Head(inbox[c]).id  OBVIOUS
  <2>4. cur' = [cur EXCEPT ![c] = id]  BY <1>5, <2>3 DEF HandleCmd
  <2>5. id \in InboxIds(c)
    BY <1>1, <1>5, <2>3, InboxRead DEF HandleCmd, RInv
  <2>6. id \notin LineIds  BY <2>5 DEF RInv, LineInv, Unserved
  <2>7. \A i \in 1..Len(tty) : tty[i].id # id  BY <2>6 DEF LineIds
  <2>8. TypedInv'
    BY <1>1, <1>2, <2>1, <2>4, <2>7 DEF TypedInv, TypeOK, HandlerTypeOK
  <2> QED  BY <1>1, <2>1, <2>2, <2>8, QuietStays
<1>6. ASSUME NEW c \in Clients, Reply(c) \/ WriteRaises(c) PROVE StreamInv'
  <2>1. /\ tty' = tty /\ SameStream /\ cur' = [cur EXCEPT ![c] = 0]
        /\ h[c] # "polling" /\ h' \in {[h EXCEPT ![c] = "recv"], [h EXCEPT ![c] = "closed"]}
    BY <1>6 DEF Reply, WriteRaises, Leave, boardVars, SameStream
  <2>2. SamePolls  BY <1>1, <2>1 DEF SamePolls, TypeOK, HandlerTypeOK
  <2>3. \A i \in 1..Len(tty) : tty[i].id # 0
    <3>1. \A i \in 1..Len(tty) : tty[i] \in Line
      BY <1>1, ElementOfSeq DEF TypeOK, BoardTypeOK
    <3> QED  BY <3>1 DEF Line, Ids
  <2>4. TypedInv'
    BY <1>1, <1>2, <2>1, <2>3 DEF TypedInv, TypeOK, HandlerTypeOK
  <2> QED  BY <1>1, <2>1, <2>2, <2>4, QuietStays
<1>7. CASE ReaderRaises \/ CloseAfterError \/ UNCHANGED vars
  <2>1. UNCHANGED <<h, cur, tty>> /\ SameStream
    BY <1>7 DEF ReaderRaises, CloseAfterError, vars, handlerVars, readerVars, boardVars,
                historyVars, SameStream
  <2>2. SamePolls /\ TypedInv'  BY <1>2, <2>1 DEF SamePolls, TypedInv
  <2> QED  BY <1>1, <2>1, <2>2, QuietStays
<1>8. ASSUME NEW c \in Clients, MarkerFound(c) \/ TimeLimit(c) PROVE StreamInv'
  BY <1>8, CommandEnds DEF MarkerFound, TimeLimit
<1>9. ASSUME NEW c \in Clients, HandleData(c) \/ StartCmd(c) PROVE StreamInv'
  BY <1>9, TypedLine, CommandLine
<1>10. CASE OpenPort \/ ReadChunk \/ Deliver  BY <1>10, PortOpens, ChunkRead, ChunkDelivered
<1>11. CASE Shell  BY <1>11, LinePrints, LineEnds DEF Shell
<1> QED
  BY <1>3, <1>4, <1>5, <1>6, <1>7, <1>8, <1>9, <1>10, <1>11 DEF Next, Handler, Reader

LEMMA InitStream == Init => StreamInv
<1> SUFFICES ASSUME Init PROVE StreamInv
  OBVIOUS
<1>1. /\ tty = <<>> /\ ended = <<>> /\ log = <<>> /\ rx = <<>> /\ captures = <<>>
      /\ inhand = NoChunk /\ \A c \in Clients : h[c] = "new"
  BY DEF Init
<1>2. Told = <<>>  BY <1>1 DEF Told
<1>3. /\ 1..Len(tty) = {} /\ 1..Len(ended) = {} /\ 1..Len(log) = {} /\ 1..Len(rx) = {}
      /\ 1..Len(Told) = {}
  BY <1>1, <1>2
<1>4. OwnerInv  BY <1>1, <1>3 DEF OwnerInv, FromCommand, NoChunk
<1>5. LastInv  BY <1>1, <1>3 DEF LastInv, NoChunk
<1>6. TypedInv /\ KeptInv /\ OrderInv  BY <1>1, <1>3 DEF TypedInv, KeptInv, OrderInv
<1>7. OutputIsAttributable /\ OkOutputIsComplete
  BY <1>3 DEF OutputIsAttributable, OkOutputIsComplete
<1> QED  BY <1>4, <1>5, <1>6, <1>7 DEF StreamInv

LEMMA StreamInductive == Spec => []SInv
<1>1. Init => SInv  BY InitRInv, InitStream DEF SInv
<1>2. SInv /\ [Next]_vars => SInv'
  <2>1. SInv /\ [Next]_vars => RInv'
    BY NextType, NextLock, NextCapture, NextOrdered, NextMarks DEF SInv, RInv, IInv, Ordered
  <2> QED  BY <2>1, NextStream DEF SInv
<1> QED  BY <1>1, <1>2, PTL DEF Spec

\* An answer shows its own command's output, a terminal user's, or that of a
\* command that had been answered as failed before it.
THEOREM OutputAttributable == Spec => []OutputIsAttributable
<1>1. SInv => OutputIsAttributable  BY DEF SInv, StreamInv
<1> QED  BY <1>1, StreamInductive, PTL

\* An "ok" answer holds all that its line printed, unless the reader thread
\* reopened the port on some of it.
THEOREM OkOutputComplete == Spec => []OkOutputIsComplete
<1>1. SInv => OkOutputIsComplete  BY DEF SInv, StreamInv
<1> QED  BY <1>1, StreamInductive, PTL

\* The shell ends lines in the order in which run_cmd served their commands,
\* also those that run_cmd had given up.
THEOREM ServiceOrder == Spec => []RunsInServiceOrder
<1>1. SInv => RunsInServiceOrder
  <2> SUFFICES ASSUME SInv, NEW i \in 1..Len(log), NEW j \in 1..Len(log),
                      NEW p \in 1..Len(ended), NEW q \in 1..Len(ended),
                      i < j, ended[p].id = log[i].id, ended[q].id = log[j].id
               PROVE  p < q
    BY DEF RunsInServiceOrder
  <2>1. Len(log) \in Nat
    BY LenProperties DEF SInv, RInv, IInv, TypeOK, HistoryTypeOK
  <2>2. i \in 1..j-1  BY <2>1
  <2>3. NotAfter(log[i].id, log[j].id)  BY <2>2 DEF SInv, StreamInv, OrderInv
  <2> QED  BY <2>3 DEF NotAfter
<1> QED  BY <1>1, StreamInductive, PTL
=============================================================================
