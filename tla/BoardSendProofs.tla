-------------------------- MODULE BoardSendProofs ---------------------------
(***************************************************************************)
(* Proofs about board_send.py, for any number of runs, any length of a     *)
(* burst and any number of mishaps.                                        *)
(*                                                                         *)
(* What the properties say of the end of a run depends on every line it    *)
(* typed and every answer it read.  The invariant follows a run that is    *)
(* alone and answered in time (LoneInv), a burst that nothing befell       *)
(* (GoodInv), and the loops as long as no "start" met another run          *)
(* (LoopInv).                                                              *)
(***************************************************************************)
EXTENDS BoardSend, SequenceTheorems, TLAPS

Resting(r) == at[r] \in {"idle", "done"}

\* What a run was started for and where it is.
ModeInv ==
  /\ \A r \in Runs :
       /\ Resting(r) => mode[r] = "none" /\ sends[r] = 0 /\ marks[r] = {}
       /\ ~Resting(r) => mode[r] \in Mode
       /\ at[r] \in {"idle", "done", "exiting"} => typed[r] = "no"
       /\ at[r] \in {"check", "reload", "recheck", "send"} => mode[r] = "burst"
       /\ at[r] \in {"kill", "loop"} => mode[r] = "start"
       /\ at[r] = "stop" => mode[r] = "stop"
       /\ at[r] \in {"vlcheck", "add"} => mode[r] \in {"burst", "start"}
       /\ at[r] \notin {"idle", "done", "send", "exiting"} => left[r] = Burst
  /\ \A i \in 1..Len(shell) : at[shell[i][2]] # "idle"
  /\ hung = "yes" => shell # <<>>

\* How many --send lines run r may have typed so far.
Told(r) ==
  IF at[r] = "exiting" THEN Burst
  ELSE IF at[r] = "send" /\ typed[r] = "yes" THEN Burst - left[r] + 1
  ELSE Burst - left[r]

\* The --send lines of run r that wait in the shell are numbered in their
\* order: each comes after the bursts that are out, none beyond what r typed.
SendLine(r, i) == i \in 1..Len(shell) /\ shell[i] = <<"send", r>>
NumberedBy(r, f) ==
  /\ \A i \in Nat : SendLine(r, i) => sends[r] < f[i] /\ f[i] <= Told(r)
  /\ \A i, j \in Nat : SendLine(r, i) /\ SendLine(r, j) /\ i < j => f[i] < f[j]
SendInv ==
  \A r \in Running : sends[r] <= Told(r) /\ \E f \in [Nat -> Nat] : NumberedBy(r, f)

BaseInv == TypeOK /\ ModeInv /\ SendInv

-----------------------------------------------------------------------------
(* Helpers.                                                                *)

\* A run keeps to marks that exist.
LEMMA NotedType ==
  ASSUME TypeOK, NEW q \in Runs, NEW more \in SUBSET Mark
  PROVE  Noted(q, more) \in SUBSET Mark
  BY DEF TypeOK, Noted, Mark

\* Taking an element from a sequence and adding one.
LEMMA TailFacts ==
  ASSUME NEW S, NEW s \in Seq(S), s # <<>>
  PROVE  /\ Head(s) \in S /\ Head(s) = s[1] /\ Tail(s) \in Seq(S)
         /\ Len(s) \in Nat \ {0} /\ Len(Tail(s)) = Len(s) - 1
         /\ \A i \in 1..Len(Tail(s)) : Tail(s)[i] = s[i + 1]
  OBVIOUS

\* A sequence without its first element is another.
LEMMA TailShorter ==
  ASSUME NEW S, NEW s \in Seq(S), s # <<>> PROVE Tail(s) # s
<1>1. Len(s) \in Nat /\ Len(Tail(s)) = Len(s) - 1
  BY TailFacts
<1>2. ASSUME NEW n \in Nat, NEW m, m = n - 1 PROVE m # n
  BY <1>2
<1>3. Len(Tail(s)) # Len(s)
  BY <1>1, <1>2
<1> QED
  BY <1>3

\* Of more than one element some are left.
LEMMA TailOfMore ==
  ASSUME NEW S, NEW s \in Seq(S), s # <<>>, Len(s) # 1 PROVE Tail(s) # <<>>
<1>1. Len(s) \in Nat /\ Len(Tail(s)) = Len(s) - 1
  BY TailFacts
<1>2. ASSUME NEW n \in Nat, n # 1, NEW m, m = n - 1 PROVE m # 0
  BY <1>2
<1>3. Len(Tail(s)) # 0
  BY <1>1, <1>2
<1>4. Len(<<>>) = 0
  OBVIOUS
<1> QED
  BY <1>3, <1>4

LEMMA TailOfOne ==
  ASSUME NEW S, NEW s \in Seq(S), Len(s) = 1 PROVE Tail(s) = <<>>
<1>1. Tail(s) \in Seq(S) /\ Len(Tail(s)) = 0
  BY TailFacts
<1> QED
  BY <1>1, EmptySeq

LEMMA AppendFacts ==
  ASSUME NEW S, NEW s \in Seq(S), NEW e \in S
  PROVE  /\ Append(s, e) \in Seq(S) /\ Len(s) \in Nat
         /\ Len(Append(s, e)) = Len(s) + 1
         /\ \A i \in 1..Len(s) : Append(s, e)[i] = s[i]
         /\ Append(s, e)[Len(s) + 1] = e
         /\ Append(s, e) # <<>>
  OBVIOUS

LEMMA AppendIndex ==
  ASSUME NEW S, NEW s \in Seq(S), NEW e \in S, NEW i \in 1..Len(Append(s, e))
  PROVE  \/ i \in 1..Len(s) /\ i <= Len(s) /\ Append(s, e)[i] = s[i]
         \/ i = Len(s) + 1 /\ Append(s, e)[i] = e
<1>1. Len(s) \in Nat /\ Len(Append(s, e)) = Len(s) + 1
  OBVIOUS
<1>2. CASE i = Len(s) + 1
  BY <1>2
<1>3. CASE i # Len(s) + 1
  <2>1. i \in 1..Len(s) /\ i <= Len(s)
    BY <1>1, <1>3
  <2> QED
    BY <2>1
<1> QED
  BY <1>2, <1>3

\* Where an answer takes a run.
LEMMA GoFacts ==
  ASSUME TypeOK, ModeInv, NEW r \in Running, NEW o, Go(r, o), at[r] # "exiting"
  PROVE  /\ at'[r] \in Stage \ {"idle", "done", "login"}
         /\ at' = [at EXCEPT ![r] = at'[r]]
         /\ outcome' \in [Runs -> Outcome]
         /\ \A q \in Runs \ {r} : outcome'[q] = outcome[q]
         /\ at'[r] \in {"check", "reload", "recheck", "send"} => mode[r] = "burst"
         /\ at'[r] \in {"kill", "loop"} => mode[r] = "start"
         /\ at'[r] = "stop" => mode[r] = "stop"
         /\ at'[r] \in {"vlcheck", "add"} => mode[r] \in {"burst", "start"}
         /\ at[r] = "send" => \/ at'[r] = "exiting" /\ left[r] = 1
                              \/ at'[r] = "send" /\ left[r] # 1
<1> USE DEF Running, Stage, Outcome, To, Exit, AfterLogin, WithVl, Mode, LastSend
<1>0. r \in Runs /\ mode[r] \in Mode /\ at[r] \in Stage /\ at \in [Runs -> Stage]
      /\ outcome \in [Runs -> Outcome]
  BY DEF TypeOK, ModeInv, Resting
<1>m. /\ at[r] \in {"check", "reload", "recheck", "send"} => mode[r] = "burst"
      /\ at[r] \in {"kill", "loop"} => mode[r] = "start"
      /\ at[r] = "stop" => mode[r] = "stop"
      /\ at[r] \in {"vlcheck", "add"} => mode[r] \in {"burst", "start"}
  BY <1>0 DEF ModeInv
<1>1. CASE at[r] \in {"login", "login2"}
  BY <1>0, <1>1 DEF Go
<1>2. CASE at[r] = "cd"
  BY <1>0, <1>2 DEF Go
<1>3. CASE at[r] \in {"check", "reload", "recheck"}
  BY <1>0, <1>m, <1>3 DEF Go
<1>4. CASE at[r] \in {"vlcheck", "add"}
  BY <1>0, <1>m, <1>4 DEF Go
<1>5. CASE at[r] = "send"
  BY <1>0, <1>m, <1>5 DEF Go
<1>6. CASE at[r] \in {"kill", "loop", "stop"}
  BY <1>0, <1>m, <1>6 DEF Go
<1> QED
  BY <1>0, <1>1, <1>2, <1>3, <1>4, <1>5, <1>6

-----------------------------------------------------------------------------
(* Types, stages and the number of sends.                                  *)

LEMMA InitBase == Init => BaseInv
<1> SUFFICES ASSUME Init PROVE BaseInv
  OBVIOUS
<1>1. TypeOK
  BY BoardAssumption DEF Init, TypeOK, Mode, Stage, Outcome, Token, Kind, Mark, Runs
<1>2. ModeInv
  BY DEF Init, ModeInv, Resting
<1>3. SendInv
  BY DEF Init, SendInv, Running
<1> QED
  BY <1>1, <1>2, <1>3 DEF BaseInv

\* The numbers of one run's lines stay when its lines, its bursts and what it
\* may have typed do.
LEMMA SendSame ==
  ASSUME SendInv, NEW r \in Running, sends'[r] = sends[r], Told(r)' = Told(r),
         \A i \in Nat : SendLine(r, i)' => SendLine(r, i)
  PROVE  sends'[r] <= Told(r)' /\ \E f \in [Nat -> Nat] : NumberedBy(r, f)'
<1>1. PICK f \in [Nat -> Nat] : NumberedBy(r, f)
  BY DEF SendInv
<1>2. NumberedBy(r, f)'
  BY <1>1 DEF NumberedBy
<1> QED
  BY <1>2 DEF SendInv

LEMMA LaunchBase ==
  ASSUME BaseInv, NEW r \in Runs, NEW m \in Mode, Launch(r, m) PROVE BaseInv'
<1>0. TypeOK /\ ModeInv /\ SendInv
  BY DEF BaseInv
<1>1. TypeOK'
  <2>1. marks' \in [Runs -> SUBSET Mark]
    <3>1. \A q \in Runs : Noted(q, {"beside"}) \in SUBSET Mark
      BY <1>0, NotedType DEF Mark
    <3>2. \A q \in Runs : marks[q] \in SUBSET Mark
      BY <1>0 DEF TypeOK
    <3> QED
      BY <3>1, <3>2 DEF Launch, Mark
  <2>2. /\ mode' \in [Runs -> Mode \cup {"none"}] /\ at' \in [Runs -> Stage]
        /\ left' \in [Runs -> 0..Burst]
    BY <1>0, BoardAssumption DEF TypeOK, Launch, Stage
  <2>3. tangled' \in {"yes", "no"}
    BY <1>0 DEF TypeOK, Launch, NoteTangle
  <2>4. \A q \in Runs : at'[q] = "send" => left'[q] > 0
    BY <1>0 DEF TypeOK, Launch
  <2> QED
    BY <1>0, <2>1, <2>2, <2>3, <2>4 DEF TypeOK, Launch, boardVars
<1>2. ModeInv'
  <2>1. \A q \in Runs \ {r} : /\ at'[q] = at[q] /\ mode'[q] = mode[q] /\ left'[q] = left[q]
                              /\ Resting(q) => marks'[q] = marks[q]
    BY <1>0 DEF TypeOK, Launch, Running, Resting
  <2>2. at'[r] = "login" /\ mode'[r] = m /\ left'[r] = Burst /\ typed[r] = "no"
    BY <1>0 DEF TypeOK, Launch, ModeInv
  <2>3. UNCHANGED <<typed, sends, shell, hung>>
    BY DEF Launch, boardVars
  <2>4. \A i \in 1..Len(shell) : shell[i][2] \in Runs
    BY <1>0 DEF TypeOK, Kind
  <2> QED
    BY <1>0, <2>1, <2>2, <2>3, <2>4 DEF ModeInv, Resting
<1>3. SendInv'
  <2> SUFFICES ASSUME NEW q \in Running'
               PROVE  sends'[q] <= Told(q)' /\ \E f \in [Nat -> Nat] : NumberedBy(q, f)'
    BY DEF SendInv
  <2>0. q \in Runs /\ UNCHANGED <<typed, sends, shell>>
    BY DEF Running, Launch, boardVars
  <2>1. CASE q = r
    <3>1. sends'[r] = 0 /\ Told(r)' = 0
      BY <1>0, <2>0, BoardAssumption DEF ModeInv, Resting, Launch, Told, TypeOK
    <3>2. \A i \in Nat : ~SendLine(r, i)'
      BY <1>0, <2>0 DEF SendLine, ModeInv, Launch
    <3>3. [i \in Nat |-> 0] \in [Nat -> Nat] /\ NumberedBy(r, [i \in Nat |-> 0])'
      BY <3>2 DEF NumberedBy
    <3> QED
      BY <2>1, <3>1, <3>3
  <2>2. CASE q # r
    <3>1. at'[q] = at[q] /\ left'[q] = left[q] /\ q \in Running
      BY <1>0, <2>0, <2>2 DEF Launch, TypeOK, Running
    <3>2. Told(q)' = Told(q) /\ sends'[q] = sends[q]
      BY <2>0, <3>1 DEF Told
    <3>3. \A i \in Nat : SendLine(q, i)' => SendLine(q, i)
      BY <2>0 DEF SendLine
    <3> QED
      BY <1>0, <3>1, <3>2, <3>3, SendSame
  <2> QED
    BY <2>1, <2>2
<1> QED
  BY <1>1, <1>2, <1>3 DEF BaseInv

LEMMA TypeBase == ASSUME BaseInv, NEW r \in Runs, Type(r) PROVE BaseInv'
<1>0. TypeOK /\ ModeInv /\ SendInv /\ r \in Running /\ shell \in Seq(Kind \X Runs)
  BY DEF BaseInv, Type, TypeOK
<1>1. /\ typed[r] = "no" /\ at[r] # "exiting" /\ at[r] \in Stage
      /\ typed' = [typed EXCEPT ![r] = "yes"] /\ typed'[r] = "yes"
      /\ \A q \in Runs \ {r} : typed'[q] = typed[q]
      /\ UNCHANGED <<mode, at, left, outcome, boardVars, marks, tangled, mishaps>>
  BY <1>0 DEF Type, TypeOK
<1> DEFINE line == <<LineOf(at[r]), r>>
<1>2. LineOf(at[r]) \in Kind /\ (LineOf(at[r]) = "send" => at[r] = "send")
  BY <1>0, <1>1 DEF LineOf, Kind, Stage, Running
<1>3. line \in Kind \X Runs
  BY <1>2
<1>4. shell' = Append(shell, line)
  BY DEF Type
<1> HIDE DEF line
<1>5. /\ shell' \in Seq(Kind \X Runs) /\ Len(shell) \in Nat /\ Len(shell') = Len(shell) + 1
      /\ \A i \in 1..Len(shell) : shell'[i] = shell[i]
      /\ shell'[Len(shell) + 1] = line /\ shell' # <<>>
  BY <1>0, <1>3, <1>4, AppendFacts
<1>l. Len(shell) \in Nat /\ Len(shell') = Len(shell) + 1
  BY <1>5
<1>i. \A i \in 1..Len(shell') :
        \/ i \in 1..Len(shell) /\ i <= Len(shell) /\ shell'[i] = shell[i]
        \/ i = Len(shell) + 1 /\ shell'[i] = line
  BY <1>0, <1>3, <1>4, AppendIndex
<1>6. TypeOK'
  <2>1. rx' \subseteq Token
    BY <1>0 DEF Type, TypeOK, Echo, Token
  <2>2. typed' \in [Runs -> {"yes", "no"}]
    BY <1>0, <1>1 DEF TypeOK
  <2> QED
    BY <1>0, <1>1, <1>5, <2>1, <2>2 DEF TypeOK, boardVars
<1>7. ModeInv'
  <2>1. \A i \in 1..Len(shell') : at'[shell'[i][2]] # "idle"
    <3>1. at[line[2]] # "idle"
      BY <1>0 DEF line, Running
    <3> SUFFICES ASSUME NEW i \in 1..Len(shell') PROVE at[shell'[i][2]] # "idle"
      BY <1>1
    <3>2. CASE shell'[i] = line
      BY <3>1, <3>2
    <3>3. CASE i \in 1..Len(shell) /\ shell'[i] = shell[i]
      BY <1>0, <3>3 DEF ModeInv
    <3> QED
      BY <1>i, <3>2, <3>3
  <2>2. at[r] \notin {"idle", "done", "exiting"}
    BY <1>0, <1>1 DEF Running
  <2> QED
    BY <1>0, <1>1, <1>5, <2>1, <2>2 DEF ModeInv, Resting, boardVars
<1>8. SendInv'
  <2> SUFFICES ASSUME NEW q \in Running'
               PROVE  sends'[q] <= Told(q)' /\ \E f \in [Nat -> Nat] : NumberedBy(q, f)'
    BY DEF SendInv
  <2>0. q \in Running /\ q \in Runs /\ sends' = sends
    BY <1>1 DEF Running, boardVars
  <2>1. CASE q # r \/ LineOf(at[r]) # "send"
    <3>1. Told(q)' = Told(q)
      <4>1. CASE q # r
        BY <1>1, <2>0, <4>1 DEF Told
      <4>2. CASE at[r] # "send"
        BY <1>1, <2>0, <4>2 DEF Told
      <4> QED
        BY <2>1, <4>1, <4>2 DEF LineOf
    <3>2. line # <<"send", q>>
      BY <2>1 DEF line
    <3>3. \A i \in Nat : SendLine(q, i)' => SendLine(q, i)
      BY <1>5, <3>2 DEF SendLine
    <3> QED
      BY <1>0, <2>0, <3>1, <3>3, SendSame
  <2>2. CASE q = r /\ LineOf(at[r]) = "send"
    <3>0. /\ at[r] = "send" /\ left[r] \in 1..Burst /\ Burst \in Nat /\ sends[r] \in Nat
          /\ Told(r) = Burst - left[r] /\ Told(r)' = Burst - left[r] + 1
      BY <1>0, <1>1, <1>2, <2>0, <2>2, BoardAssumption DEF Told, TypeOK
    <3>1. PICK f \in [Nat -> Nat] : NumberedBy(r, f)
      BY <1>0 DEF SendInv
    <3> DEFINE n == Burst - left[r] + 1
    <3>a. n \in Nat
      BY <3>0
    <3> HIDE DEF n
    <3>b. PICK g \in [Nat -> Nat] :
            \A i \in Nat : g[i] = IF i = Len(shell) + 1 THEN n ELSE f[i]
      <4>1. [i \in Nat |-> IF i = Len(shell) + 1 THEN n ELSE f[i]] \in [Nat -> Nat]
        BY <3>1, <3>a
      <4> QED
        BY <4>1
    <3>3. \A i \in Nat : SendLine(r, i)' =>
             \/ SendLine(r, i) /\ i <= Len(shell) /\ g[i] = f[i]
             \/ i = Len(shell) + 1 /\ g[i] = n
      <4> SUFFICES ASSUME NEW i \in Nat, SendLine(r, i)'
                   PROVE  \/ SendLine(r, i) /\ i <= Len(shell) /\ g[i] = f[i]
                          \/ i = Len(shell) + 1 /\ g[i] = n
        OBVIOUS
      <4>1. i \in 1..Len(shell') /\ shell'[i] = <<"send", r>>
        BY DEF SendLine
      <4>2. CASE i = Len(shell) + 1
        BY <3>b, <4>2
      <4>3. CASE i \in 1..Len(shell) /\ i <= Len(shell) /\ shell'[i] = shell[i]
        <5>1. SendLine(r, i)
          BY <4>1, <4>3 DEF SendLine
        <5>2. i # Len(shell) + 1
          BY <1>5, <4>3
        <5> QED
          BY <3>b, <4>3, <5>1, <5>2
      <4> QED
        BY <1>i, <4>1, <4>2, <4>3
    <3>4. \A i \in Nat : SendLine(r, i) =>
             sends[r] < f[i] /\ f[i] \in Nat /\ f[i] <= Burst - left[r]
      BY <3>0, <3>1 DEF NumberedBy
    <3>5. sends[r] <= Burst - left[r]
      BY <1>0, <3>0 DEF SendInv
    <3>6. \A i \in Nat : SendLine(r, i)' => sends'[r] < g[i] /\ g[i] <= Told(r)'
      <4> SUFFICES ASSUME NEW i \in Nat, SendLine(r, i)'
                   PROVE  sends[r] < g[i] /\ g[i] <= Told(r)'
        BY <2>0
      <4>1. CASE SendLine(r, i) /\ g[i] = f[i]
        <5>1. sends[r] < f[i] /\ f[i] \in Nat /\ f[i] <= Burst - left[r]
          BY <3>4, <4>1
        <5> QED
          BY <3>0, <4>1, <5>1
      <4>2. CASE g[i] = n
        BY <3>0, <3>5, <4>2 DEF n
      <4> QED
        BY <3>3, <4>1, <4>2
    <3>7. \A i, j \in Nat : SendLine(r, i)' /\ SendLine(r, j)' /\ i < j => g[i] < g[j]
      <4> SUFFICES ASSUME NEW i \in Nat, NEW j \in Nat, SendLine(r, i)', SendLine(r, j)', i < j
                   PROVE  g[i] < g[j]
        OBVIOUS
      <4>0. j \in 1..Len(shell') /\ i \in 1..Len(shell')
        BY DEF SendLine
      <4>a. j \in 1..(Len(shell) + 1)
        BY <1>l, <4>0
      <4> DEFINE l == Len(shell)
      <4>b. l \in Nat /\ j \in 1..(l + 1)
        BY <1>l, <4>a
      <4> HIDE DEF l
      <4>c. j <= l + 1 /\ i < l + 1 /\ i # l + 1
        BY <4>b
      <4>1. j <= Len(shell) + 1 /\ i < Len(shell) + 1 /\ i # Len(shell) + 1
        BY <4>c DEF l
      <4>2. SendLine(r, i) /\ g[i] = f[i] /\ f[i] <= Burst - left[r] /\ f[i] \in Nat
        <5>1. SendLine(r, i) /\ g[i] = f[i]
          BY <3>3, <4>1
        <5>2. f[i] <= Burst - left[r] /\ f[i] \in Nat
          BY <3>4, <5>1
        <5> QED
          BY <5>1, <5>2
      <4>3. CASE j = Len(shell) + 1
        <5>1. g[j] = Burst - left[r] + 1
          BY <3>b, <4>3 DEF n
        <5> QED
          BY <3>0, <4>2, <5>1
      <4>4. CASE j # Len(shell) + 1
        <5>1. SendLine(r, j) /\ g[j] = f[j]
          BY <3>3, <4>4
        <5> QED
          BY <3>1, <4>2, <5>1 DEF NumberedBy
      <4> QED
        BY <4>3, <4>4
    <3>8. NumberedBy(r, g)'
      BY <3>6, <3>7 DEF NumberedBy
    <3> QED
      BY <2>0, <2>2, <3>0, <3>5, <3>8
  <2> QED
    BY <2>1, <2>2
<1> QED
  BY <1>6, <1>7, <1>8 DEF BaseInv

LEMMA ReadBase == ASSUME BaseInv, NEW r \in Runs, Read(r) PROVE BaseInv'
<1>0. /\ TypeOK /\ ModeInv /\ SendInv /\ r \in Running /\ typed[r] = "yes"
      /\ at[r] \notin {"idle", "done", "exiting"} /\ at[r] \in Stage
  BY DEF BaseInv, Read, TypeOK, ModeInv
<1>1. Go(r, rx)
  BY DEF Read
<1>2. /\ at'[r] \in Stage \ {"idle", "done", "login"}
      /\ at' = [at EXCEPT ![r] = at'[r]]
      /\ outcome' \in [Runs -> Outcome]
      /\ at'[r] \in {"check", "reload", "recheck", "send"} => mode[r] = "burst"
      /\ at'[r] \in {"kill", "loop"} => mode[r] = "start"
      /\ at'[r] = "stop" => mode[r] = "stop"
      /\ at'[r] \in {"vlcheck", "add"} => mode[r] \in {"burst", "start"}
      /\ at[r] = "send" => \/ at'[r] = "exiting" /\ left[r] = 1
                           \/ at'[r] = "send" /\ left[r] # 1
  BY <1>0, <1>1, GoFacts
<1>3. /\ typed' = [typed EXCEPT ![r] = "no"] /\ typed'[r] = "no"
      /\ \A q \in Runs \ {r} : typed'[q] = typed[q] /\ at'[q] = at[q]
      /\ UNCHANGED <<mode, shell, boardVars, tangled>>
  BY <1>0, <1>2 DEF Read, TypeOK
<1>4. /\ left[r] \in 0..Burst /\ Burst \in Nat \ {0}
      /\ left' \in [Runs -> 0..Burst]
      /\ \A q \in Runs \ {r} : left'[q] = left[q]
      /\ left'[r] = IF at[r] = "send" THEN left[r] - 1 ELSE left[r]
      /\ at[r] # "send" => left[r] = Burst
      /\ at[r] = "send" => left[r] > 0
  <2>1. left[r] \in 0..Burst /\ Burst \in Nat \ {0} /\ (at[r] = "send" => left[r] > 0)
    BY <1>0, BoardAssumption DEF TypeOK
  <2>2. at[r] # "send" => left[r] = Burst
    BY <1>0 DEF ModeInv
  <2>3. left' = IF at[r] = "send" THEN [left EXCEPT ![r] = @ - 1] ELSE left
    BY DEF Read
  <2>4. left \in [Runs -> 0..Burst]
    BY <1>0 DEF TypeOK
  <2> QED
    BY <2>1, <2>2, <2>3, <2>4
<1>5. TypeOK'
  <2>1. marks' \in [Runs -> SUBSET Mark]
    BY <1>0, NotedType DEF Read, TypeOK, Mark
  <2>2. mishaps' \in 0..MaxMishaps
    <3>1. mishaps' = mishaps \/ mishaps' = mishaps + 1
      BY DEF Read
    <3>2. mishaps' <= MaxMishaps /\ mishaps \in Nat /\ MaxMishaps \in Nat
      BY <1>0, BoardAssumption DEF Read, TypeOK
    <3> QED
      BY <3>1, <3>2
  <2>3. \A q \in Runs : at'[q] = "send" => left'[q] > 0
    <3>1. \A q \in Runs \ {r} : at'[q] = "send" => left'[q] > 0
      BY <1>0, <1>3, <1>4 DEF TypeOK
    <3>2. at'[r] = "send" => left'[r] > 0
      BY <1>2, <1>4
    <3> QED
      BY <3>1, <3>2
  <2>4. typed' \in [Runs -> {"yes", "no"}] /\ at' \in [Runs -> Stage] /\ rx' = {}
    BY <1>0, <1>2, <1>3 DEF TypeOK, Read
  <2> QED
    BY <1>0, <1>2, <1>3, <1>4, <2>1, <2>2, <2>3, <2>4 DEF TypeOK, boardVars
<1>6. ModeInv'
  <2>1. \A q \in Runs \ {r} : marks'[q] = marks[q]
    BY <1>0 DEF Read, TypeOK
  <2>2. mode[r] \in Mode /\ at'[r] \notin {"idle", "done"}
    BY <1>0, <1>2 DEF ModeInv, Resting
  <2>3. at'[r] \notin {"send", "exiting"} => left'[r] = Burst
    BY <1>2, <1>4
  <2>4. \A i \in 1..Len(shell) : at'[shell[i][2]] # "idle"
    BY <1>0, <1>3, <2>2 DEF ModeInv, TypeOK
  <2>5. sends' = sends /\ hung' = hung /\ mode' = mode /\ shell' = shell
    BY <1>3 DEF boardVars
  <2> QED
    BY <1>0, <1>2, <1>3, <1>4, <2>1, <2>2, <2>3, <2>4, <2>5 DEF ModeInv, Resting
<1>7. SendInv'
  <2> SUFFICES ASSUME NEW q \in Running'
               PROVE  sends'[q] <= Told(q)' /\ \E f \in [Nat -> Nat] : NumberedBy(q, f)'
    BY DEF SendInv
  <2>0. q \in Running /\ q \in Runs /\ sends' = sends /\ shell' = shell
    BY <1>0, <1>3 DEF Running, boardVars
  <2>1. Told(q) <= Told(q)' /\ Told(q) \in Nat /\ Told(q)' \in Nat
    <3>1. CASE q # r
      <4>1. Told(q)' = Told(q)
        BY <1>3, <1>4, <2>0, <3>1 DEF Told
      <4>2. Told(q) \in Nat
        BY <1>0, <1>4, <2>0 DEF Told, TypeOK
      <4> QED
        BY <4>1, <4>2
    <3>2. CASE q = r
      BY <1>0, <1>2, <1>3, <1>4, <3>2 DEF Told
    <3> QED
      BY <3>1, <3>2
  <2>2. PICK f \in [Nat -> Nat] : NumberedBy(q, f)
    BY <1>0, <2>0 DEF SendInv
  <2>3. \A i \in Nat : SendLine(q, i)' => sends'[q] < f[i] /\ f[i] <= Told(q)'
    <3>1. \A i \in Nat : SendLine(q, i) => sends[q] < f[i] /\ f[i] <= Told(q)
      BY <2>2 DEF NumberedBy
    <3> SUFFICES ASSUME NEW i \in Nat, SendLine(q, i)'
                 PROVE  sends'[q] < f[i] /\ f[i] <= Told(q)'
      OBVIOUS
    <3>2. SendLine(q, i)
      BY <2>0 DEF SendLine
    <3>3. sends[q] < f[i] /\ f[i] <= Told(q) /\ f[i] \in Nat
      BY <2>2, <3>1, <3>2
    <3> QED
      BY <2>0, <2>1, <3>3
  <2>4. NumberedBy(q, f)'
    BY <2>0, <2>2, <2>3 DEF NumberedBy, SendLine
  <2>5. sends'[q] <= Told(q)'
    BY <1>0, <2>0, <2>1 DEF SendInv, TypeOK
  <2> QED
    BY <2>4, <2>5
<1> QED
  BY <1>5, <1>6, <1>7 DEF BaseInv

LEMMA KilledBase == ASSUME BaseInv, NEW r \in Runs, KilledAfter40s(r) PROVE BaseInv'
<1>0. TypeOK /\ ModeInv /\ SendInv /\ r \in Running /\ at[r] \notin {"idle", "done"}
  BY DEF BaseInv, KilledAfter40s, Running
<1>1. /\ at' = [at EXCEPT ![r] = "exiting"] /\ typed' = [typed EXCEPT ![r] = "no"]
      /\ outcome' = [outcome EXCEPT ![r] = "killed"]
      /\ UNCHANGED <<mode, left, rx, shell, boardVars, marks, tangled, mishaps>>
  BY DEF KilledAfter40s, Exit
<1>2. /\ at'[r] = "exiting" /\ typed'[r] = "no"
      /\ \A q \in Runs \ {r} : at'[q] = at[q] /\ typed'[q] = typed[q]
  BY <1>0, <1>1 DEF TypeOK
<1>3. TypeOK'
  <2>1. at' \in [Runs -> Stage] /\ typed' \in [Runs -> {"yes", "no"}]
        /\ outcome' \in [Runs -> Outcome]
    BY <1>0, <1>1 DEF TypeOK, Stage, Outcome
  <2>2. \A q \in Runs : at'[q] = "send" => left'[q] > 0
    BY <1>0, <1>1, <1>2 DEF TypeOK
  <2> QED
    BY <1>0, <1>1, <2>1, <2>2 DEF TypeOK, boardVars
<1>4. ModeInv'
  <2>1. \A i \in 1..Len(shell) : shell[i][2] \in Runs
    BY <1>0 DEF TypeOK
  <2> QED
    BY <1>0, <1>1, <1>2, <2>1 DEF ModeInv, Resting, boardVars
<1>5. SendInv'
  <2> SUFFICES ASSUME NEW q \in Running'
               PROVE  sends'[q] <= Told(q)' /\ \E f \in [Nat -> Nat] : NumberedBy(q, f)'
    BY DEF SendInv
  <2>0. q \in Running /\ q \in Runs /\ sends' = sends /\ shell' = shell
    BY <1>0, <1>1, <1>2 DEF Running, boardVars
  <2>1. CASE q # r
    <3>1. Told(q)' = Told(q) /\ sends'[q] = sends[q]
      BY <1>1, <1>2, <2>0, <2>1 DEF Told
    <3>2. \A i \in Nat : SendLine(q, i)' => SendLine(q, i)
      BY <2>0 DEF SendLine
    <3> QED
      BY <1>0, <2>0, <3>1, <3>2, SendSame
  <2>2. CASE q = r
    <3>1. /\ Told(r)' = Burst /\ Told(r) <= Burst /\ Told(r) \in Nat /\ Burst \in Nat
          /\ sends[r] \in Nat
      <4>1. left[r] \in 0..Burst /\ Burst \in Nat /\ (at[r] = "send" => left[r] > 0)
        BY <1>0, BoardAssumption DEF TypeOK
      <4>2. sends[r] \in Nat
        BY <1>0 DEF TypeOK
      <4> QED
        BY <1>2, <4>1, <4>2 DEF Told
    <3>2. PICK f \in [Nat -> Nat] : NumberedBy(r, f)
      BY <1>0 DEF SendInv
    <3>3. \A i \in Nat : SendLine(r, i)' => sends'[r] < f[i] /\ f[i] <= Told(r)'
      <4> SUFFICES ASSUME NEW i \in Nat, SendLine(r, i)'
                   PROVE  sends[r] < f[i] /\ f[i] <= Burst
        BY <2>0, <3>1
      <4>1. SendLine(r, i)
        BY <2>0 DEF SendLine
      <4>2. sends[r] < f[i] /\ f[i] <= Told(r) /\ f[i] \in Nat
        BY <3>2, <4>1 DEF NumberedBy
      <4> QED
        BY <3>1, <4>2
    <3>4. NumberedBy(r, f)'
      BY <2>0, <3>2, <3>3 DEF NumberedBy, SendLine
    <3>5. sends'[r] <= Told(r)'
      <4>1. sends[r] <= Told(r)
        BY <1>0 DEF SendInv
      <4> QED
        BY <2>0, <3>1, <4>1
    <3> QED
      BY <2>2, <3>4, <3>5
  <2> QED
    BY <2>1, <2>2
<1> QED
  BY <1>3, <1>4, <1>5 DEF BaseInv

LEMMA RespondBase == ASSUME BaseInv, NEW r \in Runs, Respond(r) PROVE BaseInv'
<1>0. TypeOK /\ ModeInv /\ SendInv /\ at[r] = "exiting"
  BY DEF BaseInv, Respond
<1>1. /\ at'[r] = "done" /\ mode'[r] = "none" /\ sends'[r] = 0 /\ marks'[r] = {}
      /\ \A q \in Runs \ {r} : /\ at'[q] = at[q] /\ mode'[q] = mode[q] /\ sends'[q] = sends[q]
                              /\ marks'[q] = marks[q] /\ left'[q] = left[q]
      /\ UNCHANGED <<typed, rx, shell, driver, vl, hung, loops, pidfile, tangled, mishaps>>
  BY <1>0 DEF Respond, TypeOK
<1>2. TypeOK'
  <2>1. /\ mode' \in [Runs -> Mode \cup {"none"}] /\ at' \in [Runs -> Stage]
        /\ left' \in [Runs -> 0..Burst] /\ outcome' \in [Runs -> Outcome]
        /\ sends' \in [Runs -> 0..Burst] /\ marks' \in [Runs -> SUBSET Mark]
    BY <1>0, BoardAssumption DEF Respond, TypeOK, Stage, Outcome
  <2>2. \A q \in Runs : at'[q] = "send" => left'[q] > 0
    BY <1>0, <1>1 DEF TypeOK
  <2> QED
    BY <1>0, <1>1, <2>1, <2>2 DEF TypeOK
<1>3. ModeInv'
  <2>1. \A i \in 1..Len(shell) : shell[i][2] \in Runs
    BY <1>0 DEF TypeOK
  <2> QED
    BY <1>0, <1>1, <2>1 DEF ModeInv, Resting
<1>4. SendInv'
  <2> SUFFICES ASSUME NEW q \in Running'
               PROVE  sends'[q] <= Told(q)' /\ \E f \in [Nat -> Nat] : NumberedBy(q, f)'
    BY DEF SendInv
  <2>0. q \in Running /\ q \in Runs \ {r} /\ shell' = shell
    BY <1>0, <1>1 DEF Running
  <2>1. Told(q)' = Told(q) /\ sends'[q] = sends[q]
    BY <1>1, <2>0 DEF Told
  <2>2. \A i \in Nat : SendLine(q, i)' => SendLine(q, i)
    BY <2>0 DEF SendLine
  <2> QED
    BY <1>0, <2>0, <2>1, <2>2, SendSame
<1> QED
  BY <1>2, <1>3, <1>4 DEF BaseInv

\* What the board does with a line: it answers and ends it, or it hangs.
LEMMA ExecuteFacts ==
  ASSUME TypeOK, Execute
  PROVE  /\ hung = "no" /\ shell # <<>> /\ UNCHANGED runVars
         /\ Head(shell) \in Kind \X Runs /\ Head(shell) = shell[1]
         /\ \/ shell' = Tail(shell) /\ hung' = "no" /\ "prompt" \in rx'
            \/ /\ shell' = shell /\ hung' = "yes" /\ rx' = rx
               /\ Head(shell)[1] = "get" /\ UNCHANGED <<driver, vl, loops, pidfile, sends>>
         /\ Head(shell)[1] # "send" => sends' = sends
         /\ \/ sends' = sends
            \/ /\ Head(shell)[2] \in Running
               /\ sends' = [sends EXCEPT ![Head(shell)[2]] = @ + 1]
<1>1. shell # <<>> /\ shell \in Seq(Kind \X Runs)
  BY DEF Execute, TypeOK
<1>2. Head(shell) \in Kind \X Runs /\ Head(shell) = shell[1]
  BY <1>1, TailFacts
<1>3. CASE Head(shell)[1] = "get"
  <2>1. Get
    BY <1>3 DEF Execute
  <2> QED
    BY <1>1, <1>2, <1>3, <2>1 DEF Execute, Get, Answers
<1>4. CASE Head(shell)[1] = "reload"
  <2>1. Reload
    BY <1>4 DEF Execute
  <2> QED
    BY <1>1, <1>2, <1>4, <2>1 DEF Execute, Reload, Answers
<1>5. CASE Head(shell)[1] \notin {"get", "reload"}
  <2>1. OtherLine(Head(shell)[1], Head(shell)[2])
    BY <1>5 DEF Execute
  <2> QED
    BY <1>1, <1>2, <1>5, <2>1 DEF Execute, OtherLine, Answers
<1> QED
  BY <1>3, <1>4, <1>5

LEMMA ExecuteType == ASSUME TypeOK, Execute
                     PROVE  /\ rx' \subseteq Token /\ driver' \in Driver
                            /\ vl' \in {"set", "unset"} /\ loops' \subseteq Runs
                            /\ pidfile' \in 0..MaxRuns /\ mishaps' \in 0..MaxMishaps
                            /\ marks' \in [Runs -> SUBSET Mark]
                            /\ tangled' \in {"yes", "no"} /\ sends' \in [Runs -> Nat]
<1>0. Head(shell)[1] \in Kind /\ Head(shell)[2] \in Runs
  BY ExecuteFacts
<1>1. rx' \subseteq Token
  <2>1. Get => rx' = rx \/ \E tokens \in SUBSET Token : Answers(tokens)
    <3> SUFFICES ASSUME Get, rx' # rx PROVE \E tokens \in SUBSET Token : Answers(tokens)
      OBVIOUS
    <3>1. driver \in Driver
      BY DEF TypeOK
    <3>2. \/ driver = "up" /\ (Answers({"vlid"}) \/ Answers({}))
          \/ driver = "gone" /\ Answers({"open error"})
          \/ driver = "broken" /\ Answers({"ioctl error"})
      BY <3>1 DEF Get, Driver
    <3> QED
      BY <3>2 DEF Token
  <2>2. Reload \/ OtherLine(Head(shell)[1], Head(shell)[2]) => Answers({})
    BY DEF Reload, OtherLine
  <2>3. rx' = rx \/ \E tokens \in SUBSET Token : Answers(tokens)
    <3>1. Get \/ Reload \/ OtherLine(Head(shell)[1], Head(shell)[2])
      BY DEF Execute
    <3> QED
      BY <2>1, <2>2, <3>1
  <2> QED
    BY <2>3 DEF Answers, TypeOK, Token
<1>2. driver' \in Driver /\ vl' \in {"set", "unset"}
  BY DEF Execute, Get, Reload, OtherLine, TypeOK, Driver
<1>3. loops' \subseteq Runs /\ pidfile' \in 0..MaxRuns
  <2>1. \A q \in Runs : q \in 0..MaxRuns
    BY BoardAssumption DEF Runs
  <2>2. loops \subseteq Runs /\ pidfile \in 0..MaxRuns
    BY DEF TypeOK
  <2> QED
    BY <1>0, <2>1, <2>2 DEF Execute, Get, Reload, OtherLine
<1>4. mishaps' \in 0..MaxMishaps
  <2>1. mishaps' = mishaps \/ (mishaps < MaxMishaps /\ mishaps' = mishaps + 1)
    BY DEF Execute, Get, Reload, OtherLine
  <2> QED
    BY <2>1, BoardAssumption DEF TypeOK
<1>5. marks' \in [Runs -> SUBSET Mark]
  <2>1. \A q \in Runs : Noted(q, {"beside"}) \in SUBSET Mark
    BY NotedType DEF Mark
  <2>2. \A q \in Runs : /\ Noted(q, {"reloaded", "live"}) \in SUBSET Mark
                         /\ Noted(q, {"reloaded"}) \in SUBSET Mark
    BY NotedType DEF Mark
  <2>3. \A q \in Runs : marks[q] \in SUBSET Mark
    BY DEF TypeOK
  <2> DEFINE r == Head(shell)[2]
             kind == Head(shell)[1]
             M(q) == CASE q \in Running \ {r} -> Noted(q, {"beside"})
                       [] q \in Running \cap {r} /\ kind = "reload" ->
                            Noted(q, IF driver = "up" THEN {"reloaded", "live"} ELSE {"reloaded"})
                       [] OTHER -> marks[q]
  <2>4. marks' = [q \in Runs |-> M(q)]
    BY DEF Execute
  <2>5. \A q \in Runs : M(q) \in SUBSET Mark
    BY <2>1, <2>2, <2>3
  <2> HIDE DEF M
  <2> QED
    BY <2>4, <2>5
<1>6. tangled' \in {"yes", "no"}
  BY DEF Execute, NoteTangle, TypeOK
<1>7. sends' \in [Runs -> Nat]
  <2>1. sends \in [Runs -> Nat]
    BY DEF TypeOK
  <2>2. sends' = sends \/ sends' = [sends EXCEPT ![Head(shell)[2]] = @ + 1]
    BY ExecuteFacts
  <2> QED
    BY <1>0, <2>1, <2>2
<1> QED
  BY <1>1, <1>2, <1>3, <1>4, <1>5, <1>6, <1>7

LEMMA ExecuteBase == ASSUME BaseInv, Execute PROVE BaseInv'
<1> DEFINE who == Head(shell)[2]
<1>0. /\ TypeOK /\ ModeInv /\ SendInv /\ shell \in Seq(Kind \X Runs) /\ shell # <<>>
      /\ Burst \in Nat \ {0}
  BY ExecuteFacts, BoardAssumption DEF BaseInv, TypeOK
<1>1. /\ UNCHANGED <<mode, at, typed, left, outcome>> /\ who \in Runs /\ hung = "no"
      /\ \/ shell' = Tail(shell) /\ hung' = "no"
         \/ shell' = shell /\ hung' = "yes" /\ UNCHANGED sends
      /\ \/ UNCHANGED sends
         \/ /\ Head(shell)[1] = "send" /\ who \in Running
            /\ sends' = [sends EXCEPT ![who] = @ + 1]
  BY <1>0, ExecuteFacts DEF runVars
<1>2. /\ Tail(shell) \in Seq(Kind \X Runs) /\ Len(shell) \in Nat \ {0}
      /\ Len(Tail(shell)) = Len(shell) - 1 /\ Head(shell) = shell[1]
      /\ \A i \in 1..Len(Tail(shell)) : Tail(shell)[i] = shell[i + 1]
  BY <1>0, TailFacts
<1>3. Running' = Running
  BY <1>1 DEF Running
<1>4. SendInv'
  <2> SUFFICES ASSUME NEW q \in Running
               PROVE  sends'[q] <= Told(q)' /\ \E f \in [Nat -> Nat] : NumberedBy(q, f)'
    BY <1>3 DEF SendInv
  <2>0. /\ q \in Runs /\ Told(q)' = Told(q) /\ sends[q] \in Nat /\ sends[q] <= Told(q)
        /\ Told(q) \in Nat
    <3>1. q \in Runs /\ Told(q)' = Told(q) /\ sends[q] \in Nat /\ sends[q] <= Told(q)
      BY <1>0, <1>1 DEF Running, Told, TypeOK, SendInv
    <3>2. left[q] \in 0..Burst
      BY <1>0, <3>1 DEF TypeOK
    <3> QED
      BY <1>0, <3>1, <3>2 DEF Told
  <2>1. CASE shell' = shell
    <3>2. \A i \in Nat : SendLine(q, i)' => SendLine(q, i)
      BY <2>1 DEF SendLine
    <3>3. shell # Tail(shell)
      BY <1>0, TailShorter
    <3>4. sends'[q] = sends[q]
      BY <1>1, <2>1, <3>3
    <3> QED
      BY <1>0, <2>0, <3>2, <3>4, SendSame
  <2>2. CASE shell' = Tail(shell)
    <3>1. PICK f \in [Nat -> Nat] : NumberedBy(q, f)
      BY <1>0 DEF SendInv
    <3>2. PICK g \in [Nat -> Nat] : \A i \in Nat : g[i] = f[i + 1]
      <4>1. [i \in Nat |-> f[i + 1]] \in [Nat -> Nat]
        BY <3>1
      <4> QED
        BY <4>1
    <3>3. \A i \in Nat : SendLine(q, i)' => SendLine(q, i + 1) /\ i >= 1
      <4> SUFFICES ASSUME NEW i \in Nat, SendLine(q, i)' PROVE SendLine(q, i + 1) /\ i >= 1
        OBVIOUS
      <4>1. i \in 1..Len(Tail(shell)) /\ Tail(shell)[i] = <<"send", q>>
        BY <2>2 DEF SendLine
      <4>2. shell[i + 1] = <<"send", q>>
        BY <1>2, <4>1
      <4>3. i + 1 \in 1..Len(shell)
        BY <1>2, <4>1
      <4> QED
        BY <4>1, <4>2, <4>3 DEF SendLine
    <3>4. \A i, j \in Nat : SendLine(q, i)' /\ SendLine(q, j)' /\ i < j => g[i] < g[j]
      <4> SUFFICES ASSUME NEW i \in Nat, NEW j \in Nat, SendLine(q, i)', SendLine(q, j)', i < j
                   PROVE  g[i] < g[j]
        OBVIOUS
      <4>1. SendLine(q, i + 1) /\ SendLine(q, j + 1)
        BY <3>3
      <4>2. i + 1 \in Nat /\ j + 1 \in Nat /\ i + 1 < j + 1
        OBVIOUS
      <4>3. f[i + 1] < f[j + 1]
        BY <3>1, <4>1, <4>2 DEF NumberedBy
      <4> QED
        BY <3>2, <4>3
    <3>5. sends'[q] <= Told(q)
          /\ \A i \in Nat : SendLine(q, i)' => sends'[q] < g[i] /\ g[i] <= Told(q)
      <4>1. CASE sends'[q] = sends[q]
        <5> SUFFICES ASSUME NEW i \in Nat, SendLine(q, i)'
                     PROVE  sends[q] < g[i] /\ g[i] <= Told(q)
          BY <2>0, <4>1
        <5>1. SendLine(q, i + 1) /\ i + 1 \in Nat
          BY <3>3
        <5>2. sends[q] < f[i + 1] /\ f[i + 1] <= Told(q)
          BY <3>1, <5>1 DEF NumberedBy
        <5> QED
          BY <3>2, <5>2
      <4>2. CASE sends'[q] # sends[q]
        <5>1. q = who /\ Head(shell)[1] = "send" /\ sends'[q] = sends[q] + 1
          BY <1>0, <1>1, <2>0, <4>2 DEF TypeOK
        <5>2. SendLine(q, 1)
          <6>1. Head(shell) = <<"send", q>>
            <7>1. Head(shell) \in Kind \X Runs
              BY <1>0, ExecuteFacts
            <7> QED
              BY <5>1, <7>1
          <6>2. 1 \in 1..Len(shell)
            BY <1>2
          <6> QED
            BY <1>2, <6>1, <6>2 DEF SendLine
        <5>3. sends[q] < f[1] /\ f[1] <= Told(q) /\ f[1] \in Nat
          BY <3>1, <5>2 DEF NumberedBy
        <5>4. sends'[q] <= f[1] /\ sends'[q] <= Told(q)
          BY <2>0, <5>1, <5>3
        <5> SUFFICES ASSUME NEW i \in Nat, SendLine(q, i)'
                     PROVE  sends'[q] < g[i] /\ g[i] <= Told(q)
          BY <5>4
        <5>5. SendLine(q, i + 1) /\ i + 1 \in Nat /\ 1 < i + 1
          BY <3>3
        <5>6. f[1] < f[i + 1] /\ f[i + 1] <= Told(q) /\ f[i + 1] \in Nat
          BY <3>1, <5>2, <5>5 DEF NumberedBy
        <5> QED
          BY <2>0, <3>2, <5>1, <5>3, <5>6
      <4> QED
        BY <4>1, <4>2
    <3>6. NumberedBy(q, g)'
      BY <2>0, <3>4, <3>5 DEF NumberedBy
    <3> QED
      BY <2>0, <3>5, <3>6
  <2> QED
    BY <1>1, <2>1, <2>2
<1>5. TypeOK'
  <2>1. sends' \in [Runs -> 0..Burst]
    <3>1. sends' \in [Runs -> Nat] /\ sends \in [Runs -> 0..Burst]
      BY <1>0, ExecuteType DEF TypeOK
    <3>2. ASSUME NEW q \in Runs PROVE sends'[q] <= Burst
      <4>1. CASE q \in Running
        <5>1. sends'[q] <= Told(q)' /\ Told(q)' = Told(q)
          BY <1>1, <1>3, <1>4, <4>1 DEF SendInv, Told
        <5>2. left[q] \in 0..Burst /\ (at[q] = "send" => left[q] > 0)
          BY <1>0 DEF TypeOK
        <5>3. Told(q) <= Burst /\ Told(q) \in Nat
          BY <1>0, <5>2 DEF Told
        <5> QED
          BY <1>0, <3>1, <5>1, <5>3
      <4>2. CASE q \notin Running
        <5>1. sends'[q] = sends[q]
          BY <1>0, <1>1, <4>2 DEF TypeOK
        <5> QED
          BY <3>1, <5>1
      <4> QED
        BY <4>1, <4>2
    <3> QED
      BY <1>0, <3>1, <3>2
  <2>2. shell' \in Seq(Kind \X Runs) /\ hung' \in {"yes", "no"}
    BY <1>0, <1>1, <1>2
  <2> QED
    BY <1>0, <1>1, <2>1, <2>2, ExecuteType DEF TypeOK
<1>6. ModeInv'
  <2>1. \A q \in Runs : Resting(q) => sends'[q] = sends[q] /\ marks'[q] = marks[q]
    BY <1>0, <1>1 DEF Resting, Running, Execute, TypeOK
  <2>2. \A i \in 1..Len(shell') : at'[shell'[i][2]] # "idle"
    <3>1. CASE shell' = shell
      BY <1>0, <1>1, <3>1 DEF ModeInv
    <3>2. CASE shell' = Tail(shell)
      <4> SUFFICES ASSUME NEW i \in 1..Len(Tail(shell)) PROVE at[Tail(shell)[i][2]] # "idle"
        BY <1>1, <3>2
      <4>1. i + 1 \in 1..Len(shell) /\ Tail(shell)[i] = shell[i + 1]
        BY <1>2
      <4> QED
        BY <1>0, <4>1 DEF ModeInv
    <3> QED
      BY <1>1, <3>1, <3>2
  <2>3. hung' = "yes" => shell' # <<>>
    BY <1>0, <1>1
  <2> QED
    BY <1>0, <1>1, <2>1, <2>2, <2>3 DEF ModeInv, Resting
<1> QED
  BY <1>4, <1>5, <1>6 DEF BaseInv

LEMMA DiesBase == ASSUME BaseInv, DriverDies PROVE BaseInv'
<1>0. TypeOK /\ ModeInv /\ SendInv
  BY DEF BaseInv
<1>1. TypeOK'
  <2>1. marks' \in [Runs -> SUBSET Mark]
    <3>1. \A q \in Runs : Noted(q, {"died"}) \in SUBSET Mark
      BY <1>0, NotedType DEF Mark
    <3>2. \A q \in Runs : marks[q] \in SUBSET Mark
      BY <1>0 DEF TypeOK
    <3> QED
      BY <3>1, <3>2 DEF DriverDies
  <2>2. mishaps' \in 0..MaxMishaps
    BY <1>0, BoardAssumption DEF DriverDies, TypeOK
  <2> QED
    BY <1>0, <2>1, <2>2 DEF DriverDies, TypeOK, runVars
<1>2. ModeInv'
  <2>1. \A q \in Runs : Resting(q) => marks'[q] = marks[q]
    BY <1>0 DEF Resting, Running, DriverDies, TypeOK
  <2> QED
    BY <1>0, <2>1 DEF DriverDies, ModeInv, Resting, runVars
<1>3. SendInv'
  <2> SUFFICES ASSUME NEW q \in Running'
               PROVE  sends'[q] <= Told(q)' /\ \E f \in [Nat -> Nat] : NumberedBy(q, f)'
    BY DEF SendInv
  <2>1. /\ q \in Running /\ Told(q)' = Told(q) /\ sends'[q] = sends[q]
        /\ \A i \in Nat : SendLine(q, i)' => SendLine(q, i)
    BY DEF DriverDies, runVars, Running, Told, SendLine
  <2> QED
    BY <1>0, <2>1, SendSame
<1> QED
  BY <1>1, <1>2, <1>3 DEF BaseInv

LEMMA StutterBase == ASSUME BaseInv, UNCHANGED vars PROVE BaseInv'
<1>0. TypeOK /\ ModeInv /\ SendInv
  BY DEF BaseInv
<1>1. TypeOK'
  BY <1>0 DEF TypeOK, vars, runVars, boardVars
<1>2. ModeInv'
  BY <1>0 DEF ModeInv, Resting, vars, runVars, boardVars
<1>3. SendInv'
  <2> SUFFICES ASSUME NEW q \in Running'
               PROVE  sends'[q] <= Told(q)' /\ \E f \in [Nat -> Nat] : NumberedBy(q, f)'
    BY DEF SendInv
  <2>1. /\ q \in Running /\ Told(q)' = Told(q) /\ sends'[q] = sends[q]
        /\ \A i \in Nat : SendLine(q, i)' => SendLine(q, i)
    BY DEF vars, runVars, boardVars, Running, Told, SendLine
  <2> QED
    BY <1>0, <2>1, SendSame
<1> QED
  BY <1>1, <1>2, <1>3 DEF BaseInv

LEMMA NextBase == BaseInv /\ [Next]_vars => BaseInv'
  BY LaunchBase, TypeBase, ReadBase, RespondBase, KilledBase, ExecuteBase,
     DiesBase, StutterBase DEF Next, Process

-----------------------------------------------------------------------------
(* A run that is alone and answered in time.                               *)

Lone(r) == r \in Running /\ "beside" \notin marks[r] /\ "late" \notin marks[r]

\* The shell has at most the line that such a run waits for, or the last one
\* of a run that was killed.
ShellOf(r) ==
  \/ shell = <<>>
  \/ typed[r] = "yes" /\ shell = << <<LineOf(at[r]), r>> >>
  \/ /\ at[r] = "exiting" /\ outcome[r] = "killed"
     /\ \E kind \in Kind : /\ shell = << <<kind, r>> >>
                           /\ kind = "reload" => driver # "up"

NoError(o) == "open error" \notin o /\ "ioctl error" \notin o

\* What has arrived is the echo and the answer of that line.
AnswerOf(r) ==
  /\ typed[r] = "no" /\ at[r] # "exiting" => rx = {} /\ shell = <<>>
  /\ typed[r] = "yes" =>
       /\ "open error" \in rx => driver = "gone" /\ shell = <<>>
       /\ "ioctl error" \in rx => driver = "broken" /\ shell = <<>>
       /\ LineOf(at[r]) = "get" => "vlid" \in rx
  /\ typed[r] = "yes" /\ shell = <<>> =>
       /\ "prompt" \in rx
       /\ LineOf(at[r]) = "get" /\ NoError(rx) /\ "died" \notin marks[r] =>
            driver = "up"

\* What a burst that goes on past its questions may rely on.
Passed(r) ==
  "died" \notin marks[r] => driver # "gone" /\ ("reloaded" \notin marks[r] => driver = "up")

\* What such a run has concluded of the driver is so.
DriverOf(r) ==
  /\ "live" \notin marks[r]
  /\ at[r] = "reload" /\ (typed[r] = "no" \/ shell # <<>>) => driver # "up"
  /\ at[r] = "reload" /\ typed[r] = "yes" /\ shell = <<>> => "reloaded" \in marks[r]
  /\ at[r] = "recheck" => "reloaded" \in marks[r]
  /\ mode[r] = "burst" /\ at[r] \in {"vlcheck", "add", "send"} => Passed(r)
  /\ at[r] = "exiting" /\ outcome[r] = "driver_fail" => driver = "gone"
  /\ at[r] = "exiting" /\ outcome[r] = "burst_ok" => Passed(r)

LoneOf(r) == Running = {r} /\ ShellOf(r) /\ AnswerOf(r) /\ DriverOf(r)
LoneInv == \A r \in Runs : Lone(r) => LoneOf(r)

\* What is noted of a run.
LEMMA NotedMarks ==
  ASSUME NEW q, NEW more
  PROVE  /\ "beside" \in more => "beside" \in Noted(q, more)
         /\ "late" \in more => "beside" \in Noted(q, more) \/ "late" \in Noted(q, more)
         /\ "beside" \in Noted(q, more) => "beside" \in marks[q] \cup more
         /\ "beside" \notin Noted(q, more) /\ "late" \notin Noted(q, more) =>
              /\ "beside" \notin marks[q] /\ "late" \notin marks[q]
              /\ Noted(q, more) = marks[q] \cup more
  BY DEF Noted

\* Whom a step leaves alone: a run that just began on a quiet port, or one
\* that was alone and whose step it is.
LEMMA LaunchLone ==
  ASSUME TypeOK, NEW r \in Runs, NEW m \in Mode, Launch(r, m), NEW q \in Runs, Lone(q)'
  PROVE  q = r /\ Running = {} /\ shell = <<>> /\ marks'[r] \subseteq {"unready"}
         /\ (marks'[r] = {} => driver = "up" /\ vl = "set")
<1>1. q \in Running'
  BY DEF Lone
<1>2. CASE q # r
  <2>1. q \in Running
    BY <1>1, <1>2 DEF Running, Launch, TypeOK
  <2>2. marks'[q] = Noted(q, {"beside"})
    BY <1>2, <2>1 DEF Launch
  <2> QED
    BY <2>2, NotedMarks DEF Lone
<1>3. CASE q = r
  <2>1. marks'[r] = IF Running # {} \/ shell # <<>> THEN {"beside"}
                    ELSE IF driver # "up" \/ vl = "unset" THEN {"unready"} ELSE {}
    BY DEF Launch
  <2>2. Running = {} /\ shell = <<>>
    <3>1. Running # {} \/ shell # <<>> => marks'[r] = {"beside"}
      BY <2>1
    <3>2. "beside" \notin marks'[r]
      BY <1>3 DEF Lone
    <3> QED
      BY <3>1, <3>2
  <2>3. driver \in Driver /\ vl \in {"set", "unset"}
    BY DEF TypeOK
  <2> QED
    BY <1>3, <2>1, <2>2, <2>3
<1> QED
  BY <1>2, <1>3

LEMMA ExecuteLone ==
  ASSUME TypeOK, ModeInv, LoneInv, Execute, NEW q \in Runs, Lone(q)'
  PROVE  /\ Lone(q) /\ LoneOf(q) /\ Head(shell)[2] = q
         /\ marks'[q] = IF Head(shell)[1] = "reload" THEN marks[q] \cup {"reloaded"} ELSE marks[q]
         /\ Len(shell) = 1 /\ (Head(shell)[1] = "reload" => driver # "up")
         /\ \/ typed[q] = "yes" /\ Head(shell)[1] = LineOf(at[q])
            \/ at[q] = "exiting" /\ typed[q] = "no" /\ outcome[q] = "killed"
<1>0. shell # <<>> /\ UNCHANGED <<mode, at, typed, left, outcome>> /\ Head(shell) \in Kind \X Runs
  BY ExecuteFacts DEF runVars
<1>1. q \in Running
  BY <1>0 DEF Lone, Running
<1> DEFINE kind == Head(shell)[1]
           who == Head(shell)[2]
<1>2. marks'[q] = CASE q \in Running \ {who} -> Noted(q, {"beside"})
                    [] q \in Running \cap {who} /\ kind = "reload" ->
                         Noted(q, IF driver = "up" THEN {"reloaded", "live"} ELSE {"reloaded"})
                    [] OTHER -> marks[q]
  BY DEF Execute
<1>3. q = who
  BY <1>1, <1>2, NotedMarks DEF Lone
<1>4. /\ kind # "reload" => marks'[q] = marks[q]
      /\ kind = "reload" /\ driver = "up" => marks'[q] = Noted(q, {"reloaded", "live"})
      /\ kind = "reload" /\ driver # "up" => marks'[q] = Noted(q, {"reloaded"})
  BY <1>1, <1>2, <1>3
<1>5. /\ Lone(q)
      /\ kind = "reload" /\ driver # "up" => marks'[q] = marks[q] \cup {"reloaded"}
  BY <1>1, <1>4, NotedMarks DEF Lone
<1>6. LoneOf(q)
  BY <1>5 DEF LoneInv
<1>7. CASE typed[q] = "yes" /\ shell = << <<LineOf(at[q]), q>> >>
  <2>1. kind = LineOf(at[q]) /\ Len(shell) = 1
    BY <1>7
  <2>2. kind = "reload" => at[q] = "reload"
    BY <2>1 DEF LineOf
  <2>3. kind = "reload" => driver # "up"
    BY <1>0, <1>6, <2>2 DEF LoneOf, DriverOf
  <2> QED
    BY <1>3, <1>4, <1>5, <1>6, <1>7, <2>1, <2>3
<1>8. CASE at[q] = "exiting" /\ outcome[q] = "killed"
           /\ \E k \in Kind : shell = << <<k, q>> >> /\ (k = "reload" => driver # "up")
  <2>1. typed[q] = "no"
    BY <1>8 DEF ModeInv
  <2>2. (kind = "reload" => driver # "up") /\ Len(shell) = 1
    BY <1>8
  <2> QED
    BY <1>3, <1>4, <1>5, <1>6, <1>8, <2>1, <2>2
<1> QED
  BY <1>0, <1>6, <1>7, <1>8 DEF LoneOf, ShellOf

LEMMA ReadLone ==
  ASSUME TypeOK, ModeInv, LoneInv, NEW r \in Runs, Read(r), NEW q \in Runs, Lone(q)'
  PROVE  q = r /\ Lone(r) /\ LoneOf(r) /\ shell = <<>> /\ marks' = marks
<1>0. r \in Running /\ at[r] # "exiting" /\ marks \in [Runs -> SUBSET Mark]
  BY DEF Read, ModeInv, TypeOK
<1>1. \A p \in Runs \ {r} : at'[p] = at[p]
  BY <1>0, GoFacts DEF Read, TypeOK
<1>2. CASE q # r
  <2>1. q \in Running /\ marks'[q] = marks[q]
    BY <1>0, <1>1, <1>2 DEF Lone, Running, Read
  <2> QED
    BY <1>0, <1>2, <2>1 DEF Lone, LoneInv, LoneOf
<1>3. CASE q = r
  <2>1. shell = <<>>
    <3>1. shell # <<>> => marks'[r] = Noted(r, {"late"})
      BY <1>0 DEF Read
    <3> QED
      BY <1>3, <3>1, NotedMarks DEF Lone
  <2>2. marks' = marks
    BY <2>1 DEF Read
  <2> QED
    BY <1>0, <1>3, <2>1, <2>2 DEF Lone, LoneInv
<1> QED
  BY <1>2, <1>3

LEMMA NextLone == BaseInv /\ LoneInv /\ [Next]_vars => LoneInv'
<1> SUFFICES ASSUME BaseInv, LoneInv, [Next]_vars, NEW q \in Runs, Lone(q)'
             PROVE  LoneOf(q)'
  BY DEF LoneInv, Runs
<1>0. TypeOK /\ ModeInv
  BY DEF BaseInv
<1>1. ASSUME NEW r \in Runs, NEW m \in Mode, Launch(r, m) PROVE LoneOf(q)'
  <2>1. q = r /\ Running = {} /\ shell = <<>> /\ marks'[r] \subseteq {"unready"}
    BY <1>0, <1>1, LaunchLone
  <2>2. at'[r] = "login" /\ typed'[r] = "no" /\ rx' = {} /\ shell' = <<>>
    BY <1>0, <1>1, <2>1 DEF Launch, TypeOK, ModeInv
  <2>3. Running' = {r}
    BY <1>0, <1>1, <2>1 DEF Launch, TypeOK, Running
  <2> QED
    BY <2>1, <2>2, <2>3 DEF LoneOf, ShellOf, AnswerOf, DriverOf
<1>2. ASSUME NEW r \in Runs, Type(r) PROVE LoneOf(q)'
  <2>1. /\ UNCHANGED <<mode, at, left, outcome, boardVars, marks>> /\ r \in Running
        /\ at[r] # "exiting" /\ typed[r] = "no"
    BY <1>2 DEF Type
  <2>2. Lone(q) /\ LoneOf(q) /\ Running' = Running
    BY <2>1 DEF Lone, LoneInv, Running
  <2>3. q = r /\ Running = {r} /\ rx = {} /\ shell = <<>>
    BY <2>1, <2>2 DEF LoneOf, AnswerOf
  <2>4. hung = "no"
    BY <1>0, <2>3 DEF ModeInv, TypeOK
  <2>5. rx' = Echo(LineOf(at[r])) /\ typed'[r] = "yes" /\ shell' = << <<LineOf(at[r]), r>> >>
    BY <1>0, <1>2, <2>3, <2>4 DEF Type, TypeOK
  <2>6. shell' # <<>>
    BY <2>5
  <2>7. NoError(rx)' /\ (LineOf(at[r]) = "get" => "vlid" \in rx')
    BY <2>5 DEF Echo, NoError
  <2>8. ShellOf(r)'
    BY <2>1, <2>5 DEF ShellOf, LineOf
  <2>9. AnswerOf(r)'
    BY <2>1, <2>5, <2>6, <2>7 DEF AnswerOf, LineOf, NoError
  <2>10. DriverOf(r)'
    BY <2>1, <2>2, <2>3, <2>6 DEF LoneOf, DriverOf, Passed, boardVars
  <2> QED
    BY <2>2, <2>3, <2>8, <2>9, <2>10 DEF LoneOf
<1>3. ASSUME NEW r \in Runs, Read(r) PROVE LoneOf(q)'
  <2>1. q = r /\ Lone(r) /\ LoneOf(r) /\ shell = <<>> /\ marks' = marks
    BY <1>0, <1>3, ReadLone
  <2>2. /\ typed[r] = "yes" /\ typed'[r] = "no" /\ rx' = {} /\ shell' = <<>>
        /\ r \in Running /\ at[r] # "exiting" /\ Go(r, rx)
        /\ UNCHANGED <<mode, boardVars>>
    BY <1>0, <1>3, <2>1 DEF Read, TypeOK, ModeInv
  <2>3. /\ at' = [at EXCEPT ![r] = at'[r]] /\ at'[r] \notin {"idle", "done"}
        /\ at'[r] \in Stage
    BY <1>0, <2>2, GoFacts
  <2>4. Running' = {r}
    <3>1. Running = {r}
      BY <2>1 DEF LoneOf
    <3> QED
      BY <1>0, <2>2, <2>3, <3>1 DEF Running, TypeOK
  <2>5. driver' = driver
    BY <2>2 DEF boardVars
  <2>6. /\ "prompt" \in rx
        /\ "open error" \in rx => driver = "gone"
        /\ "ioctl error" \in rx => driver = "broken"
        /\ at[r] \in {"check", "recheck", "vlcheck"} =>
             /\ "vlid" \in rx
             /\ NoError(rx) /\ "died" \notin marks[r] => driver = "up"
    BY <2>1, <2>2 DEF LoneOf, AnswerOf, LineOf
  <2>7. DriverOf(r)'
    <3> USE DEF To, Exit, Passed
    <3>0. "live" \notin marks'[r] /\ at \in [Runs -> Stage] /\ outcome \in [Runs -> Outcome]
      BY <1>0, <2>1 DEF LoneOf, DriverOf, TypeOK
    <3>1. CASE at[r] \in {"login", "login2", "cd"}
      <4>1. at'[r] \in {"cd", "login2", "check", "vlcheck", "stop", "exiting"}
            /\ (at'[r] = "vlcheck" => mode[r] # "burst")
            /\ (at'[r] = "exiting" => outcome'[r] = "login_fail")
        BY <2>2, <3>0, <3>1 DEF Go, AfterLogin
      <4> QED
        BY <2>2, <3>0, <4>1 DEF DriverOf
    <3>2. CASE at[r] = "check"
      <4>1. at'[r] = IF NoError(rx) THEN "vlcheck" ELSE "reload"
        BY <2>2, <2>6, <3>0, <3>2 DEF Go, Dead, NoError
      <4> QED
        BY <2>1, <2>2, <2>5, <2>6, <3>0, <3>2, <4>1 DEF DriverOf, NoError
    <3>3. CASE at[r] = "reload"
      <4>1. at'[r] = "recheck"
        BY <2>2, <3>0, <3>3 DEF Go
      <4>2. "reloaded" \in marks'[r]
        BY <2>1, <2>2, <3>3 DEF LoneOf, DriverOf, Passed
      <4> QED
        BY <3>0, <4>1, <4>2 DEF DriverOf
    <3>4. CASE at[r] = "recheck"
      <4>1. \/ at'[r] = "exiting" /\ outcome'[r] = "driver_fail" /\ "open error" \in rx
            \/ at'[r] = "vlcheck" /\ "open error" \notin rx
        BY <2>2, <3>0, <3>4 DEF Go
      <4>2. "reloaded" \in marks'[r]
        BY <2>1, <3>4 DEF LoneOf, DriverOf, Passed
      <4>3. "open error" \notin rx /\ "died" \notin marks[r] => driver # "gone"
        BY <2>6, <3>4 DEF NoError
      <4> QED
        BY <2>1, <2>2, <2>5, <2>6, <3>0, <3>4, <4>1, <4>2, <4>3 DEF DriverOf
    <3>5. CASE at[r] \in {"vlcheck", "add"}
      <4>1. at'[r] \in {"add", "send", "kill"}
        BY <2>2, <3>0, <3>5 DEF Go, WithVl
      <4>2. mode[r] = "burst" => Passed(r)
        BY <2>1, <3>5 DEF LoneOf, DriverOf, Passed
      <4> QED
        BY <2>1, <2>2, <2>5, <3>0, <4>1, <4>2 DEF DriverOf
    <3>6. CASE at[r] = "send"
      <4>1. at'[r] = "send" \/ (at'[r] = "exiting" /\ outcome'[r] = "burst_ok")
        BY <2>2, <3>0, <3>6 DEF Go
      <4>2. Passed(r)
        BY <1>0, <2>1, <3>6 DEF LoneOf, DriverOf, ModeInv
      <4> QED
        BY <2>1, <2>2, <2>5, <3>0, <4>1, <4>2 DEF DriverOf
    <3>7. CASE at[r] \in {"kill", "loop", "stop"}
      <4>1. at'[r] = "loop" \/ (at'[r] = "exiting" /\ outcome'[r] \in {"started", "stopped"})
        BY <2>2, <3>0, <3>7 DEF Go
      <4> QED
        BY <3>0, <4>1 DEF DriverOf
    <3> QED
      BY <2>2, <3>0, <3>1, <3>2, <3>3, <3>4, <3>5, <3>6, <3>7 DEF Stage, Running
  <2> QED
    BY <2>1, <2>2, <2>4, <2>7 DEF LoneOf, ShellOf, AnswerOf
<1>4. ASSUME NEW r \in Runs, KilledAfter40s(r) PROVE LoneOf(q)'
  <2>1. /\ r \in Running /\ at[r] # "exiting" /\ at' = [at EXCEPT ![r] = "exiting"]
        /\ at'[r] = "exiting" /\ outcome'[r] = "killed" /\ typed'[r] = "no"
        /\ UNCHANGED <<rx, shell, boardVars, marks>>
    BY <1>0, <1>4 DEF KilledAfter40s, Exit, TypeOK
  <2>2. Running' = Running
    BY <1>0, <2>1 DEF Running, TypeOK
  <2>3. Lone(q) /\ LoneOf(q) /\ q = r
    BY <2>1, <2>2 DEF Lone, LoneInv, LoneOf
  <2>4. ShellOf(r)'
    <3>1. CASE shell = <<>>
      BY <2>1, <3>1 DEF ShellOf
    <3>2. CASE shell = << <<LineOf(at[r]), r>> >>
      <4>1. at[r] \in Stage \ {"idle", "done", "exiting"}
        BY <1>0, <2>1 DEF TypeOK, Running
      <4>2. LineOf(at[r]) \in Kind /\ (LineOf(at[r]) = "reload" => at[r] = "reload")
        BY <4>1 DEF LineOf, Kind, Stage
      <4>3. shell # <<>>
        BY <3>2
      <4>4. LineOf(at[r]) = "reload" => driver' # "up"
        BY <2>1, <2>3, <4>2, <4>3 DEF LoneOf, DriverOf, boardVars
      <4> DEFINE kind == LineOf(at[r])
      <4>5. kind \in Kind /\ shell' = << <<kind, r>> >> /\ (kind = "reload" => driver' # "up")
        BY <2>1, <3>2, <4>2, <4>4
      <4> QED
        BY <2>1, <4>5 DEF ShellOf
    <3> QED
      BY <2>1, <2>3, <3>1, <3>2 DEF LoneOf, ShellOf
  <2> QED
    BY <2>1, <2>2, <2>3, <2>4 DEF LoneOf, AnswerOf, DriverOf, Passed
<1>5. ASSUME NEW r \in Runs, Respond(r) PROVE LoneOf(q)'
  <2>1. r \in Running /\ at'[r] = "done" /\ \A p \in Runs \ {r} : at'[p] = at[p] /\ marks'[p] = marks[p]
    BY <1>0, <1>5 DEF Respond, TypeOK, Running
  <2>2. q # r
    BY <2>1 DEF Lone, Running
  <2>3. Lone(q)
    BY <2>1, <2>2 DEF Lone, Running
  <2> QED
    BY <2>1, <2>2, <2>3 DEF LoneInv, LoneOf
<1>6. CASE Execute
  <2>1. /\ Lone(q) /\ LoneOf(q) /\ Head(shell)[2] = q
        /\ marks'[q] = IF Head(shell)[1] = "reload" THEN marks[q] \cup {"reloaded"} ELSE marks[q]
        /\ Len(shell) = 1 /\ (Head(shell)[1] = "reload" => driver # "up")
        /\ \/ typed[q] = "yes" /\ Head(shell)[1] = LineOf(at[q])
           \/ at[q] = "exiting" /\ typed[q] = "no" /\ outcome[q] = "killed"
    BY <1>0, <1>6, ExecuteLone
  <2>2. /\ shell # <<>> /\ UNCHANGED <<mode, at, typed, left, outcome>>
        /\ \/ shell' = Tail(shell) /\ "prompt" \in rx'
           \/ /\ shell' = shell /\ rx' = rx
              /\ Head(shell)[1] = "get" /\ driver' = driver
    BY <1>0, <1>6, ExecuteFacts DEF runVars
  <2>3. shell' = Tail(shell) => shell' = <<>>
    <3>1. shell \in Seq(Kind \X Runs)
      BY <1>0 DEF TypeOK
    <3> QED
      BY <2>1, <3>1, TailOfOne
  <2>4. Running' = Running
    BY <2>2 DEF Running
  <2>5. CASE shell' = shell /\ rx' = rx /\ driver' = driver
    <3>1. ShellOf(q)'
      BY <2>1, <2>2, <2>5 DEF LoneOf, ShellOf, LineOf
    <3>2. Head(shell)[1] = "get" /\ marks'[q] = marks[q]
      BY <2>1, <2>2, <2>3, <2>5
    <3>3. AnswerOf(q)'
      BY <2>1, <2>2, <2>5, <3>2 DEF LoneOf, AnswerOf, NoError
    <3>4. DriverOf(q)'
      BY <2>1, <2>2, <2>5, <3>2 DEF LoneOf, DriverOf, Passed
    <3> QED
      BY <2>1, <2>4, <3>1, <3>3, <3>4 DEF LoneOf
  <2>6. CASE shell' = Tail(shell) /\ "prompt" \in rx'
    <3>1. ShellOf(q)'
      BY <2>3, <2>6 DEF ShellOf
    <3>2. CASE typed[q] = "yes" /\ Head(shell)[1] = LineOf(at[q])
      <4>0. /\ NoError(rx) /\ (LineOf(at[q]) = "get" => "vlid" \in rx)
            /\ driver \in Driver
        BY <1>0, <2>1, <2>2, <3>2 DEF LoneOf, AnswerOf, TypeOK, NoError
      <4>5. at[q] = "reload" <=> LineOf(at[q]) = "reload"
        BY <1>0 DEF TypeOK, LineOf, Stage
      <4>6. LineOf(at[q]) # "reload" => marks'[q] = marks[q]
        BY <2>1, <3>2
      <4>1. CASE LineOf(at[q]) = "get"
        <5>1. Get
          BY <1>6, <3>2, <4>1 DEF Execute
        <5>2. shell' # shell
          BY <2>2, <2>3, <2>6
        <5>3. /\ driver' = driver /\ "vlid" \in rx'
              /\ "open error" \in rx' <=> driver = "gone"
              /\ "ioctl error" \in rx' <=> driver = "broken"
          BY <4>0, <4>1, <5>1, <5>2 DEF Get, Answers, NoError, Driver
        <5>4. AnswerOf(q)'
          BY <2>1, <2>2, <2>3, <2>6, <3>2, <4>0, <5>3 DEF AnswerOf, NoError, Driver
        <5>5. DriverOf(q)'
          BY <2>1, <2>2, <3>2, <4>1, <4>5, <4>6, <5>3 DEF LoneOf, DriverOf, Passed
        <5> QED
          BY <2>1, <2>4, <3>1, <5>4, <5>5 DEF LoneOf
      <4>2. CASE LineOf(at[q]) = "reload"
        <5>1. Reload /\ at[q] = "reload"
          BY <1>6, <3>2, <4>2 DEF Execute, LineOf
        <5>2. NoError(rx)'
          BY <4>0, <5>1 DEF Reload, Answers, NoError
        <5>3. AnswerOf(q)'
          BY <2>1, <2>2, <2>3, <2>6, <3>2, <4>2, <5>2 DEF AnswerOf, NoError, LineOf
        <5>4. DriverOf(q)'
          BY <2>1, <2>2, <2>3, <2>6, <3>2, <4>2, <5>1 DEF LoneOf, DriverOf, Passed
        <5> QED
          BY <2>1, <2>4, <3>1, <5>3, <5>4 DEF LoneOf
      <4>3. CASE LineOf(at[q]) \notin {"get", "reload"}
        <5>1. OtherLine(LineOf(at[q]), q)
          BY <1>6, <2>1, <3>2, <4>3 DEF Execute
        <5>2. NoError(rx)' /\ driver' = driver
          BY <4>0, <5>1 DEF OtherLine, Answers, NoError
        <5>3. AnswerOf(q)'
          BY <2>1, <2>2, <2>3, <2>6, <3>2, <4>3, <5>2 DEF AnswerOf, NoError, LineOf
        <5>4. DriverOf(q)'
          BY <2>1, <2>2, <3>2, <4>3, <4>5, <4>6, <5>2 DEF LoneOf, DriverOf, Passed
        <5> QED
          BY <2>1, <2>4, <3>1, <5>3, <5>4 DEF LoneOf
      <4> QED
        BY <4>1, <4>2, <4>3
    <3>3. CASE at[q] = "exiting" /\ typed[q] = "no" /\ outcome[q] = "killed"
      BY <2>1, <2>2, <2>4, <3>1, <3>3 DEF LoneOf, AnswerOf, NoError, DriverOf, Passed
    <3> QED
      BY <2>1, <3>2, <3>3
  <2> QED
    BY <2>2, <2>5, <2>6
<1>7. CASE DriverDies
  <2>1. /\ UNCHANGED <<mode, at, typed, left, outcome, rx, shell>> /\ driver = "up" /\ driver' # "up"
        /\ Running' = Running
    BY <1>7 DEF DriverDies, runVars, Running, Driver
  <2>2. marks'[q] = Noted(q, {"died"}) /\ q \in Running
    BY <1>7, <2>1 DEF Lone, DriverDies
  <2>3. Lone(q) /\ LoneOf(q) /\ marks'[q] = marks[q] \cup {"died"}
    BY <2>2, NotedMarks DEF Lone, LoneInv
  <2>4. ShellOf(q)'
    BY <2>1, <2>3 DEF LoneOf, ShellOf, LineOf
  <2>5. AnswerOf(q)' /\ DriverOf(q)'
    BY <2>1, <2>3 DEF LoneOf, AnswerOf, NoError, DriverOf, Passed, LineOf
  <2> QED
    BY <2>1, <2>3, <2>4, <2>5 DEF LoneOf
<1>8. CASE UNCHANGED vars
  <2>1. UNCHANGED <<mode, at, typed, left, outcome, rx, shell, driver, marks>>
    BY <1>8 DEF vars, runVars, boardVars
  <2>2. Lone(q) /\ LoneOf(q)
    BY <2>1 DEF Lone, Running, LoneInv
  <2>3. ShellOf(q)'
    BY <2>1, <2>2 DEF LoneOf, ShellOf, LineOf
  <2>4. AnswerOf(q)' /\ DriverOf(q)' /\ Running' = Running
    BY <2>1, <2>2 DEF LoneOf, AnswerOf, NoError, DriverOf, Passed, LineOf, Running
  <2> QED
    BY <2>2, <2>3, <2>4 DEF LoneOf
<1> QED
  BY <1>1, <1>2, <1>3, <1>4, <1>5, <1>6, <1>7, <1>8 DEF Next, Process

-----------------------------------------------------------------------------
(* A burst that nothing befell.                                            *)

\* Driver and link stay in place, and every --send line that has been answered
\* has put its burst out.
GoodOf(r) ==
  /\ driver = "up" /\ vl = "set"
  /\ at[r] \in {"login", "cd", "check", "vlcheck", "send", "exiting"}
  /\ at[r] \notin {"send", "exiting"} => sends[r] = 0
  /\ at[r] = "send" => sends[r] = IF typed[r] = "yes" /\ shell = <<>>
                                  THEN Burst - left[r] + 1 ELSE Burst - left[r]
  /\ at[r] = "exiting" =>
       outcome[r] = "killed" \/ (outcome[r] = "burst_ok" /\ sends[r] = Burst)
Good(r) == r \in Running /\ mode[r] = "burst" /\ marks[r] = {}
GoodInv == \A r \in Runs : Good(r) => GoodOf(r)

LEMMA GoodIsLone == ASSUME NEW r, Good(r) PROVE Lone(r)
  BY DEF Good, Lone

LEMMA ReadGood ==
  ASSUME BaseInv, LoneInv, GoodInv, NEW r \in Runs, Read(r), NEW q \in Runs, Good(q)'
  PROVE  GoodOf(q)'
<1>0. TypeOK /\ ModeInv
  BY DEF BaseInv
<1>1. Lone(q)'
  BY DEF Good, Lone
<1>2. q = r /\ LoneOf(r) /\ shell = <<>> /\ marks' = marks
  BY <1>0, <1>1, ReadLone
<1>3. /\ typed[r] = "yes" /\ typed'[r] = "no" /\ r \in Running /\ Go(r, rx)
      /\ at[r] # "exiting" /\ UNCHANGED <<mode, shell, boardVars>>
  BY <1>0 DEF Read, ModeInv, TypeOK
<1>4. Good(r) /\ GoodOf(r)
  BY <1>2, <1>3 DEF Good, GoodInv
<1>5. /\ "prompt" \in rx
      /\ at[r] \in {"check", "vlcheck"} => "vlid" \in rx /\ NoError(rx)
  BY <1>2, <1>3, <1>4 DEF LoneOf, AnswerOf, LineOf, GoodOf, NoError
<1>6. /\ Burst \in Nat \ {0} /\ left[r] \in 0..Burst
      /\ left'[r] = IF at[r] = "send" THEN left[r] - 1 ELSE left[r]
      /\ at[r] # "send" => left[r] = Burst
  <2>1. left[r] \in 0..Burst /\ left \in [Runs -> 0..Burst]
    BY <1>0 DEF TypeOK
  <2>2. left' = IF at[r] = "send" THEN [left EXCEPT ![r] = @ - 1] ELSE left
    BY DEF Read
  <2>3. at[r] # "send" => left[r] = Burst
    BY <1>0, <1>3 DEF ModeInv, Running
  <2> QED
    BY <2>1, <2>2, <2>3, BoardAssumption
<1>7. sends' = sends /\ driver' = driver /\ vl' = vl /\ mode[r] = "burst"
  BY <1>3, <1>4 DEF boardVars, Good
<1>8. at \in [Runs -> Stage] /\ outcome \in [Runs -> Outcome]
  BY <1>0 DEF TypeOK
<1> USE DEF To, Exit
<1>9. CASE at[r] \in {"login", "cd", "check"}
  <2>1. at'[r] \in {"cd", "check", "vlcheck"}
    BY <1>3, <1>5, <1>7, <1>8, <1>9 DEF Go, AfterLogin, Dead, NoError
  <2> QED
    BY <1>2, <1>4, <1>7, <1>9, <2>1 DEF GoodOf
<1>10. CASE at[r] = "vlcheck"
  <2>1. at'[r] = "send"
    BY <1>3, <1>5, <1>7, <1>8, <1>10 DEF Go, WithVl
  <2>2. sends[r] = 0 /\ left'[r] = Burst
    BY <1>4, <1>6, <1>10 DEF GoodOf
  <2> QED
    BY <1>2, <1>3, <1>4, <1>6, <1>7, <2>1, <2>2 DEF GoodOf
<1>11. CASE at[r] = "send"
  <2>1. sends[r] = Burst - left[r] + 1 /\ left'[r] = left[r] - 1
    BY <1>2, <1>3, <1>4, <1>6, <1>11 DEF GoodOf
  <2>2. \/ at'[r] = "exiting" /\ outcome'[r] = "burst_ok" /\ left[r] = 1
        \/ at'[r] = "send" /\ left[r] # 1
    BY <1>3, <1>8, <1>11 DEF Go, LastSend
  <2>3. left[r] > 0
    BY <1>0, <1>11 DEF TypeOK
  <2>4. CASE at'[r] = "exiting" /\ outcome'[r] = "burst_ok" /\ left[r] = 1
    <3>1. sends'[r] = Burst
      BY <1>6, <1>7, <2>1, <2>4
    <3> QED
      BY <1>2, <1>4, <1>7, <2>4, <3>1 DEF GoodOf
  <2>5. CASE at'[r] = "send"
    <3>1. sends'[r] = Burst - left'[r]
      BY <1>6, <1>7, <2>1, <2>3
    <3> QED
      BY <1>2, <1>3, <1>4, <1>7, <2>5, <3>1 DEF GoodOf
  <2> QED
    BY <2>2, <2>4, <2>5
<1> QED
  BY <1>3, <1>4, <1>9, <1>10, <1>11 DEF GoodOf

LEMMA ExecuteGood ==
  ASSUME BaseInv, LoneInv, GoodInv, Execute, NEW q \in Runs, Good(q)'
  PROVE  GoodOf(q)'
<1>0. TypeOK /\ ModeInv
  BY DEF BaseInv
<1>1. /\ LoneOf(q) /\ marks'[q] = marks[q] /\ Head(shell)[2] = q
      /\ Len(shell) = 1 /\ (Head(shell)[1] = "reload" => driver # "up")
      /\ \/ typed[q] = "yes" /\ Head(shell)[1] = LineOf(at[q])
         \/ at[q] = "exiting" /\ typed[q] = "no" /\ outcome[q] = "killed"
  BY <1>0, ExecuteLone DEF Good, Lone
<1>2. /\ shell # <<>> /\ UNCHANGED <<mode, at, typed, left, outcome>>
      /\ \/ shell' = Tail(shell)
         \/ shell' = shell /\ UNCHANGED <<driver, vl, sends>>
      /\ Head(shell)[1] # "send" => sends' = sends
      /\ Head(shell) \in Kind \X Runs
  BY <1>0, ExecuteFacts DEF runVars
<1>3. Good(q) /\ GoodOf(q)
  BY <1>1, <1>2 DEF Good, Running, GoodInv
<1>4. Head(shell)[1] # "reload"
  BY <1>1, <1>3 DEF GoodOf
<1>5. driver' = "up" /\ vl' = "set"
  <2>1. CASE Head(shell)[1] = "get"
    BY <1>3, <2>1 DEF Execute, Get, GoodOf
  <2>2. CASE Head(shell)[1] # "get"
    <3>1. OtherLine(Head(shell)[1], q)
      BY <1>1, <1>4, <2>2 DEF Execute
    <3> QED
      BY <1>3, <3>1 DEF OtherLine, GoodOf
  <2> QED
    BY <2>1, <2>2
<1>6. CASE at[q] = "exiting"
  BY <1>1, <1>2, <1>3, <1>5, <1>6, <1>0 DEF GoodOf, ModeInv
<1>7. CASE at[q] \notin {"exiting", "send"}
  <2>1. Head(shell)[1] # "send"
    BY <1>1, <1>7 DEF LineOf
  <2> QED
    BY <1>2, <1>3, <1>5, <1>7, <2>1 DEF GoodOf
<1>8. CASE at[q] = "send"
  <2>1. Head(shell)[1] = "send" /\ typed[q] = "yes"
    BY <1>1, <1>8 DEF LineOf
  <2>2. OtherLine("send", q)
    BY <1>1, <2>1 DEF Execute
  <2>3. sends' = [sends EXCEPT ![q] = @ + 1] /\ shell' = Tail(shell)
    BY <1>3, <2>2 DEF OtherLine, Answers, GoodOf, Good
  <2>4. shell' = <<>>
    <3>1. shell \in Seq(Kind \X Runs)
      BY <1>0 DEF TypeOK
    <3> QED
      BY <1>1, <2>3, <3>1, TailOfOne
  <2>5. sends[q] = Burst - left[q] /\ sends'[q] = sends[q] + 1
    BY <1>0, <1>2, <1>3, <1>8, <2>3 DEF GoodOf, TypeOK
  <2> QED
    BY <1>2, <1>3, <1>5, <1>8, <2>1, <2>4, <2>5 DEF GoodOf
<1> QED
  BY <1>6, <1>7, <1>8

LEMMA NextGood == BaseInv /\ LoneInv /\ GoodInv /\ [Next]_vars => GoodInv'
<1> SUFFICES ASSUME BaseInv, LoneInv, GoodInv, [Next]_vars, NEW q \in Runs, Good(q)'
             PROVE  GoodOf(q)'
  BY DEF GoodInv, Runs
<1>0. TypeOK /\ ModeInv
  BY DEF BaseInv
<1>1. ASSUME NEW r \in Runs, NEW m \in Mode, Launch(r, m) PROVE GoodOf(q)'
  <2>1. q = r /\ driver = "up" /\ vl = "set"
    <3>1. Lone(q)' /\ marks'[q] = {}
      BY DEF Good, Lone
    <3> QED
      BY <1>0, <1>1, <3>1, LaunchLone
  <2>2. at'[r] = "login" /\ sends'[r] = 0 /\ driver' = driver /\ vl' = vl
    BY <1>0, <1>1 DEF Launch, TypeOK, ModeInv, Resting, boardVars
  <2> QED
    BY <2>1, <2>2 DEF GoodOf
<1>2. ASSUME NEW r \in Runs, Type(r) PROVE GoodOf(q)'
  <2>1. /\ UNCHANGED <<mode, at, left, outcome, boardVars, marks>> /\ r \in Running
        /\ at[r] # "exiting" /\ typed[r] = "no"
    BY <1>2 DEF Type
  <2>2. Good(q) /\ GoodOf(q)
    BY <2>1 DEF Good, GoodInv, Running
  <2>3. LoneOf(q)
    BY <2>2, GoodIsLone DEF LoneInv
  <2>4. q = r
    BY <2>1, <2>3 DEF LoneOf
  <2>5. shell' # <<>>
    <3>1. shell \in Seq(Kind \X Runs) /\ <<LineOf(at[r]), r>> \in Kind \X Runs
      <4>1. at[r] \in Stage \ {"idle", "done", "exiting"}
        BY <1>0, <2>1 DEF TypeOK, Running
      <4>2. LineOf(at[r]) \in Kind
        BY <4>1 DEF LineOf, Kind, Stage
      <4> QED
        BY <1>0, <4>2 DEF TypeOK
    <3>2. shell' = Append(shell, <<LineOf(at[r]), r>>)
      BY <1>2 DEF Type
    <3> QED
      BY <3>1, <3>2, AppendFacts
  <2> QED
    BY <2>1, <2>2, <2>4, <2>5 DEF GoodOf, boardVars
<1>3. ASSUME NEW r \in Runs, Read(r) PROVE GoodOf(q)'
  BY <1>3, ReadGood
<1>4. ASSUME NEW r \in Runs, KilledAfter40s(r) PROVE GoodOf(q)'
  <2>1. /\ r \in Running /\ at[r] # "exiting" /\ at' = [at EXCEPT ![r] = "exiting"]
        /\ at'[r] = "exiting" /\ outcome'[r] = "killed"
        /\ UNCHANGED <<mode, rx, shell, boardVars, marks>>
    BY <1>0, <1>4 DEF KilledAfter40s, Exit, TypeOK
  <2>2. Running' = Running
    BY <1>0, <2>1 DEF Running, TypeOK
  <2>3. Good(q) /\ GoodOf(q)
    BY <2>1, <2>2 DEF Good, GoodInv
  <2>4. q = r
    BY <2>1, <2>3, GoodIsLone DEF LoneInv, LoneOf
  <2> QED
    BY <2>1, <2>3, <2>4 DEF GoodOf, boardVars
<1>5. ASSUME NEW r \in Runs, Respond(r) PROVE GoodOf(q)'
  <2>1. /\ r \in Running /\ at'[r] = "done"
        /\ \A p \in Runs \ {r} : at'[p] = at[p] /\ marks'[p] = marks[p] /\ mode'[p] = mode[p]
    BY <1>0, <1>5 DEF Respond, TypeOK, Running
  <2>2. q # r
    BY <2>1 DEF Good, Running
  <2>3. Good(q)
    BY <2>1, <2>2 DEF Good, Running
  <2> QED
    BY <2>1, <2>2, <2>3, GoodIsLone DEF LoneInv, LoneOf
<1>6. CASE Execute
  BY <1>6, ExecuteGood
<1>7. CASE DriverDies
  <2>1. q \in Running /\ marks'[q] = Noted(q, {"died"})
    BY <1>7 DEF Good, DriverDies, runVars, Running
  <2>2. "died" \in Noted(q, {"died"}) \/ "beside" \in Noted(q, {"died"})
          \/ "late" \in Noted(q, {"died"})
    BY DEF Noted
  <2> QED
    BY <2>1, <2>2 DEF Good
<1>8. CASE UNCHANGED vars
  BY <1>8 DEF vars, runVars, boardVars, GoodInv, Good, GoodOf, Running
<1> QED
  BY <1>1, <1>2, <1>3, <1>4, <1>5, <1>6, <1>7, <1>8 DEF Next, Process

-----------------------------------------------------------------------------
(* The endless loops, as long as no "start" met another run.               *)

\* The last line the shell was given kills the loop, or there is none.
LastIsKill == IF shell = <<>> THEN loops = {} ELSE shell[Len(shell)][1] = "kill"

\* A loop is started only behind the line that kills the one before.
LoopsBehindKills ==
  \A i \in 1..Len(shell) : shell[i][1] = "loop" =>
    IF i = 1 THEN loops = {} ELSE shell[i - 1][1] = "kill"

\* A "start" is alone.
StartsAlone ==
  \A r \in Runs : mode[r] = "start" => "beside" \notin marks[r] /\ Running = {r}

Killing(r) == \/ at[r] = "kill" /\ typed[r] = "yes"
              \/ at[r] = "loop" /\ typed[r] = "no"
Stopping(r) == \/ at[r] = "stop" /\ typed[r] = "yes" /\ shell = <<>>
               \/ at[r] = "exiting" /\ outcome[r] = "stopped"

LoopInv ==
  tangled = "no" =>
    /\ loops \subseteq {pidfile} /\ LoopsBehindKills /\ StartsAlone
    /\ \A r \in Runs : Killing(r) => LastIsKill
    /\ \A r \in Runs : Lone(r) /\ Stopping(r) => loops = {}

\* Once tangled, always tangled; and a "start" that has company is.
LEMMA TangleStays ==
  ASSUME TypeOK, [Next]_vars, tangled' = "no"
  PROVE  tangled = "no"
<1>1. tangled \in {"yes", "no"}
  BY DEF TypeOK
<1>2. tangled' = tangled \/ NoteTangle
  BY DEF Next, Launch, Process, Type, Read, Respond, KilledAfter40s, Execute,
         DriverDies, vars
<1> QED
  BY <1>1, <1>2 DEF NoteTangle

LEMMA KillingStarts == ASSUME ModeInv, NEW r \in Runs, Killing(r) PROVE mode[r] = "start"
  BY DEF ModeInv, Killing

\* A step that leaves the shell and its loops alone.
LEMMA LoopsSame ==
  ASSUME LoopInv, tangled = "no", UNCHANGED <<shell, loops, pidfile>>,
         StartsAlone',
         \A r \in Runs : Killing(r)' => Killing(r),
         \A r \in Runs : Lone(r)' /\ Stopping(r)' => Lone(r) /\ Stopping(r)
  PROVE  LoopInv'
<1>1. loops' \subseteq {pidfile'} /\ LoopsBehindKills'
  BY DEF LoopInv, LoopsBehindKills
<1>2. ASSUME NEW r \in Runs, Killing(r)' PROVE LastIsKill'
  BY <1>2 DEF LoopInv, LastIsKill
<1>3. ASSUME NEW r \in Runs, Lone(r)', Stopping(r)' PROVE loops' = {}
  BY <1>3 DEF LoopInv
<1> QED
  BY <1>1, <1>2, <1>3 DEF LoopInv, Runs

LEMMA LaunchLoops ==
  ASSUME BaseInv, LoopInv, NEW r \in Runs, NEW m \in Mode, Launch(r, m),
         tangled = "no", tangled' = "no"
  PROVE  LoopInv'
<1>0. TypeOK /\ ModeInv
  BY DEF BaseInv
<1>1. /\ at[r] = "idle" /\ at'[r] = "login" /\ typed'[r] = "no"
      /\ UNCHANGED <<typed, outcome, shell, loops, pidfile>>
      /\ \A q \in Runs \ {r} : at'[q] = at[q] /\ mode'[q] = mode[q]
      /\ \A q \in Running : marks'[q] = Noted(q, {"beside"})
      /\ Running # {} => marks'[r] = {"beside"}
  BY <1>0 DEF Launch, TypeOK, ModeInv, boardVars, Running
<1>2. \A q \in Runs : mode'[q] = "start" => "beside" \notin marks'[q]
  BY DEF Launch, NoteTangle
<1>3. \A q \in Runs \ {r} : mode[q] # "start"
  <2> SUFFICES ASSUME NEW q \in Runs \ {r}, mode[q] = "start" PROVE FALSE
    OBVIOUS
  <2>1. q \in Running
    BY <1>0 DEF ModeInv, Resting, Running
  <2>2. "beside" \in marks'[q]
    BY <1>1, <2>1, NotedMarks
  <2> QED
    BY <1>1, <1>2, <2>2
<1>4. StartsAlone'
  <2> SUFFICES ASSUME NEW q \in Runs, mode'[q] = "start"
               PROVE  "beside" \notin marks'[q] /\ Running' = {q}
    BY DEF StartsAlone, Runs
  <2>1. q = r
    BY <1>1, <1>3
  <2>2. Running = {}
    BY <1>1, <1>2, <2>1
  <2>3. Running' = {r}
    BY <1>0, <1>1, <2>2 DEF Running
  <2> QED
    BY <1>2, <2>1, <2>3
<1>5. ASSUME NEW q \in Runs, Killing(q)' PROVE Killing(q)
  BY <1>1, <1>5 DEF Killing
<1>6. ASSUME NEW q \in Runs, Lone(q)', Stopping(q)' PROVE FALSE
  <2>1. q = r
    BY <1>0, <1>6, LaunchLone
  <2> QED
    BY <1>1, <1>6, <2>1 DEF Stopping
<1> QED
  BY <1>1, <1>4, <1>5, <1>6, LoopsSame

LEMMA TypeLoops ==
  ASSUME BaseInv, LoopInv, NEW r \in Runs, Type(r), tangled = "no" PROVE LoopInv'
<1> DEFINE line == <<LineOf(at[r]), r>>
<1>0. TypeOK /\ ModeInv /\ shell \in Seq(Kind \X Runs) /\ tangled' = "no"
  BY DEF BaseInv, TypeOK, Type
<1>1. /\ r \in Running /\ at[r] # "exiting" /\ typed[r] = "no" /\ typed'[r] = "yes"
      /\ \A q \in Runs \ {r} : typed'[q] = typed[q]
      /\ shell' = Append(shell, line)
      /\ UNCHANGED <<mode, at, left, outcome, loops, pidfile, marks>>
  BY <1>0 DEF Type, TypeOK, boardVars
<1>2. line \in Kind \X Runs
  <2>1. at[r] \in Stage \ {"idle", "done", "exiting"}
    BY <1>0, <1>1 DEF TypeOK, Running
  <2> QED
    BY <2>1 DEF LineOf, Kind, Stage
<1>3. line[1] = LineOf(at[r])
  OBVIOUS
<1> HIDE DEF line
<1>4. /\ Len(shell) \in Nat /\ Len(shell') = Len(shell) + 1 /\ shell' # <<>>
      /\ shell'[Len(shell')] = line
      /\ \A i \in 1..Len(shell) : shell'[i] = shell[i]
  BY <1>0, <1>1, <1>2, AppendFacts
<1>5. ASSUME NEW i \in 1..Len(shell')
      PROVE  \/ i \in 1..Len(shell) /\ i <= Len(shell) /\ shell'[i] = shell[i]
             \/ i = Len(shell) + 1 /\ shell'[i] = line
  BY <1>0, <1>1, <1>2, AppendIndex
<1>6. Running' = Running
  BY <1>1 DEF Running
<1>7. LoopsBehindKills'
  <2> SUFFICES ASSUME NEW i \in 1..Len(shell'), shell'[i][1] = "loop"
               PROVE  IF i = 1 THEN loops = {} ELSE shell'[i - 1][1] = "kill"
    BY <1>1 DEF LoopsBehindKills
  <2>1. CASE i \in 1..Len(shell) /\ i <= Len(shell) /\ shell'[i] = shell[i]
    <3>1. IF i = 1 THEN loops = {} ELSE shell[i - 1][1] = "kill"
      BY <1>0, <2>1 DEF LoopInv, LoopsBehindKills, TypeOK
    <3>2. i # 1 => i - 1 \in 1..Len(shell)
      BY <1>4, <2>1
    <3>3. i # 1 => shell'[i - 1] = shell[i - 1]
      BY <1>4, <3>2
    <3> QED
      BY <3>1, <3>3
  <2>2. CASE i = Len(shell) + 1 /\ shell'[i] = line
    <3>1. at[r] = "loop"
      BY <1>3, <2>2 DEF LineOf
    <3>2. LastIsKill
      BY <1>0, <1>1, <3>1 DEF LoopInv, Killing
    <3>3. CASE shell = <<>>
      <4>1. i = 1 /\ loops = {}
        BY <2>2, <3>2, <3>3 DEF LastIsKill
      <4> QED
        BY <4>1
    <3>4. CASE shell # <<>>
      <4>1. shell[Len(shell)][1] = "kill" /\ Len(shell) \in Nat \ {0}
        BY <1>0, <3>2, <3>4, EmptySeq DEF LastIsKill
      <4>2. i # 1 /\ i - 1 = Len(shell)
        BY <2>2, <4>1
      <4>3. shell'[Len(shell)] = shell[Len(shell)]
        BY <1>4, <4>1
      <4> QED
        BY <4>1, <4>2, <4>3
    <3> QED
      BY <3>3, <3>4
  <2> QED
    BY <1>5, <2>1, <2>2
<1>8. StartsAlone'
  BY <1>0, <1>1, <1>6 DEF LoopInv, StartsAlone
<1>9. ASSUME NEW q \in Runs, Killing(q)' PROVE LastIsKill'
  <2>1. mode[q] = "start"
    BY <1>0, <1>1, <1>9 DEF Killing, ModeInv
  <2>2. q = r
    BY <1>0, <1>1, <2>1 DEF LoopInv, StartsAlone
  <2>3. at[r] = "kill"
    BY <1>1, <1>9, <2>2 DEF Killing
  <2> QED
    BY <1>3, <1>4, <2>3 DEF LastIsKill, LineOf
<1>10. ASSUME NEW q \in Runs, Lone(q)', Stopping(q)' PROVE loops' = {}
  <2>1. Lone(q) /\ Stopping(q)
    BY <1>1, <1>4, <1>6, <1>10 DEF Lone, Stopping
  <2> QED
    BY <1>0, <1>1, <2>1 DEF LoopInv
<1> QED
  BY <1>0, <1>1, <1>7, <1>8, <1>9, <1>10 DEF LoopInv, Runs

LEMMA ReadLoops ==
  ASSUME BaseInv, LoneInv, LoopInv, NEW r \in Runs, Read(r), tangled = "no" PROVE LoopInv'
<1>0. TypeOK /\ ModeInv /\ at \in [Runs -> Stage] /\ outcome \in [Runs -> Outcome]
  BY DEF BaseInv, TypeOK
<1>1. /\ r \in Running /\ typed[r] = "yes" /\ typed'[r] = "no" /\ at[r] # "exiting"
      /\ \A q \in Runs \ {r} : typed'[q] = typed[q] /\ marks'[q] = marks[q]
      /\ UNCHANGED <<mode, shell, loops, pidfile, tangled>> /\ Go(r, rx)
  BY <1>0 DEF Read, TypeOK, boardVars, ModeInv
<1>2. /\ \A q \in Runs \ {r} : at'[q] = at[q] /\ outcome'[q] = outcome[q]
      /\ at'[r] \in Stage \ {"idle", "done", "login"}
  BY <1>0, <1>1, GoFacts
<1>3. Running' = Running
  BY <1>1, <1>2 DEF Running
<1>4. StartsAlone'
  <2>1. marks'[r] = marks[r] \/ marks'[r] = Noted(r, {"late"})
    BY <1>0 DEF Read, TypeOK
  <2>2. "beside" \in marks'[r] => "beside" \in marks[r]
    BY <2>1, NotedMarks
  <2> QED
    BY <1>0, <1>1, <1>3, <2>2 DEF LoopInv, StartsAlone, Runs
<1> USE DEF To, Exit
<1>5. at'[r] = "loop" => at[r] = "kill"
  <2>1. CASE at[r] \in {"login", "login2", "cd", "check", "reload", "recheck"}
    BY <1>0, <1>1, <2>1 DEF Go, AfterLogin
  <2>2. CASE at[r] \in {"vlcheck", "add", "send", "kill", "loop", "stop"}
    BY <1>0, <1>1, <2>2 DEF Go, WithVl
  <2> QED
    BY <1>0, <1>1, <2>1, <2>2 DEF Running, Stage
<1>6. at'[r] = "exiting" /\ outcome'[r] = "stopped" => at[r] = "stop"
  <2>1. CASE at[r] \in {"login", "login2", "cd", "check", "reload", "recheck"}
    BY <1>0, <1>1, <2>1 DEF Go, AfterLogin
  <2>2. CASE at[r] \in {"vlcheck", "add", "send", "kill", "loop", "stop"}
    BY <1>0, <1>1, <2>2 DEF Go, WithVl
  <2> QED
    BY <1>0, <1>1, <2>1, <2>2 DEF Running, Stage
<1>7. ASSUME NEW q \in Runs, Killing(q)' PROVE Killing(q)
  BY <1>1, <1>2, <1>5, <1>7 DEF Killing
<1>8. ASSUME NEW q \in Runs, Lone(q)', Stopping(q)' PROVE Lone(q) /\ Stopping(q)
  <2>1. q = r /\ Lone(r) /\ shell = <<>>
    BY <1>0, <1>8, ReadLone
  <2> QED
    BY <1>1, <1>6, <1>8, <2>1 DEF Stopping
<1> QED
  BY <1>1, <1>4, <1>7, <1>8, LoopsSame

LEMMA ExecuteLoops ==
  ASSUME BaseInv, LoneInv, LoopInv, Execute, tangled = "no", tangled' = "no"
  PROVE  LoopInv'
<1> DEFINE kind == Head(shell)[1]
<1>0. TypeOK /\ ModeInv /\ shell \in Seq(Kind \X Runs)
  BY DEF BaseInv, TypeOK
<1>1. /\ shell # <<>> /\ UNCHANGED <<mode, at, typed, left, outcome>>
      /\ \/ shell' = Tail(shell)
         \/ shell' = shell /\ UNCHANGED <<loops, pidfile>>
      /\ Head(shell) \in Kind \X Runs /\ Head(shell) = shell[1]
  BY <1>0, ExecuteFacts DEF runVars
<1>2. /\ Tail(shell) \in Seq(Kind \X Runs) /\ Len(shell) \in Nat \ {0}
      /\ Len(Tail(shell)) = Len(shell) - 1
      /\ \A i \in 1..Len(Tail(shell)) : Tail(shell)[i] = shell[i + 1]
  BY <1>0, <1>1, TailFacts
<1>3. Running' = Running
  BY <1>1 DEF Running
<1>4. loops \subseteq {pidfile} /\ LoopsBehindKills /\ StartsAlone
  BY DEF LoopInv
<1>5. StartsAlone'
  <2>1. \A q \in Runs : mode'[q] = "start" => "beside" \notin marks'[q]
    BY DEF Execute, NoteTangle
  <2> QED
    BY <1>1, <1>3, <1>4, <2>1 DEF StartsAlone
<1>6. \A q \in Runs : Lone(q)' => Lone(q) /\ LoneOf(q) /\ Head(shell)[2] = q /\ Len(shell) = 1
                            /\ \/ typed[q] = "yes" /\ Head(shell)[1] = LineOf(at[q])
                               \/ outcome[q] = "killed"
  BY <1>0, ExecuteLone
<1>7. CASE shell' = shell /\ UNCHANGED <<loops, pidfile>>
  <2>1. \A q \in Runs : Killing(q)' => Killing(q)
    BY <1>1 DEF Killing
  <2>2. \A q \in Runs : Lone(q)' /\ Stopping(q)' => Lone(q) /\ Stopping(q)
    BY <1>1, <1>6, <1>7 DEF Stopping
  <2> QED
    BY <1>5, <1>7, <2>1, <2>2, LoopsSame
<1>8. CASE shell' = Tail(shell)
  <2>1. \/ kind = "kill" /\ loops' = loops \ {pidfile} /\ pidfile' = pidfile
        \/ kind = "loop" /\ loops' = loops \cup {Head(shell)[2]} /\ pidfile' = Head(shell)[2]
        \/ kind \notin {"kill", "loop"} /\ UNCHANGED <<loops, pidfile>>
    <3>1. CASE kind \in {"get", "reload"}
      BY <3>1 DEF Execute, Get, Reload
    <3>2. CASE kind \notin {"get", "reload"}
      <4>1. OtherLine(kind, Head(shell)[2])
        BY <3>2 DEF Execute
      <4> QED
        BY <4>1 DEF OtherLine
    <3> QED
      BY <3>1, <3>2
  <2>2. kind = "loop" => loops = {}
    <3>1. 1 \in 1..Len(shell)
      BY <1>2
    <3> QED
      BY <1>1, <1>4, <3>1 DEF LoopsBehindKills
  <2>3. kind = "kill" => loops' = {}
    BY <1>4, <2>1
  <2>4. loops' \subseteq {pidfile'}
    BY <1>4, <2>1, <2>2
  <2>5. LoopsBehindKills'
    <3> SUFFICES ASSUME NEW i \in 1..Len(Tail(shell)), Tail(shell)[i][1] = "loop"
                 PROVE  IF i = 1 THEN loops' = {} ELSE Tail(shell)[i - 1][1] = "kill"
      BY <1>8 DEF LoopsBehindKills
    <3>1. i + 1 \in 1..Len(shell) /\ i + 1 # 1 /\ Tail(shell)[i] = shell[i + 1] /\ (i + 1) - 1 = i
      BY <1>2
    <3>2. shell[i][1] = "kill"
      BY <1>4, <3>1 DEF LoopsBehindKills
    <3>3. CASE i = 1
      BY <1>1, <2>3, <3>2, <3>3
    <3>4. CASE i # 1
      <4>1. i - 1 \in 1..Len(Tail(shell)) /\ (i - 1) + 1 = i
        BY <1>2, <3>4
      <4>2. Tail(shell)[i - 1] = shell[i]
        BY <1>2, <4>1
      <4> QED
        BY <3>2, <3>4, <4>2
    <3> QED
      BY <3>3, <3>4
  <2>6. ASSUME NEW q \in Runs, Killing(q)' PROVE LastIsKill'
    <3>1. Killing(q)
      BY <1>1, <2>6 DEF Killing
    <3>2. shell[Len(shell)][1] = "kill"
      BY <1>1, <3>1 DEF LoopInv, LastIsKill
    <3>3. CASE Len(shell) = 1
      <4>1. kind = "kill" /\ Tail(shell) = <<>>
        BY <1>0, <1>1, <3>2, <3>3, TailOfOne
      <4> QED
        BY <1>8, <2>3, <4>1 DEF LastIsKill
    <3>4. CASE Len(shell) # 1
      <4>1. Len(Tail(shell)) \in 1..Len(Tail(shell)) /\ Len(Tail(shell)) + 1 = Len(shell)
        BY <1>2, <3>4
      <4>2. Tail(shell)[Len(Tail(shell))] = shell[Len(shell)]
        BY <1>2, <4>1
      <4>3. Tail(shell) # <<>>
        BY <1>0, <1>1, <3>4, TailOfMore
      <4> QED
        BY <1>8, <3>2, <4>2, <4>3 DEF LastIsKill
    <3> QED
      BY <3>3, <3>4
  <2>7. ASSUME NEW q \in Runs, Lone(q)', Stopping(q)' PROVE loops' = {}
    <3>1. /\ LoneOf(q) /\ Len(shell) = 1
          /\ \/ typed[q] = "yes" /\ kind = LineOf(at[q])
             \/ outcome[q] = "killed"
      BY <1>6, <2>7
    <3>2. CASE at[q] = "stop"
      <4>1. typed[q] = "yes" /\ kind = LineOf(at[q])
        <5>1. typed[q] = "yes"
          BY <1>1, <2>7, <3>2 DEF Stopping
        <5>2. shell = << <<LineOf(at[q]), q>> >>
          BY <1>1, <3>1, <3>2 DEF LoneOf, ShellOf
        <5> QED
          BY <5>1, <5>2
      <4> QED
        BY <2>3, <3>2, <4>1 DEF LineOf
    <3>3. CASE at[q] = "exiting" /\ outcome[q] = "stopped"
      <4>1. typed[q] = "no"
        BY <1>0, <3>3 DEF ModeInv
      <4> QED
        BY <3>1, <3>3, <4>1
    <3> QED
      BY <1>1, <2>7, <3>2, <3>3 DEF Stopping
  <2> QED
    BY <1>5, <2>4, <2>5, <2>6, <2>7 DEF LoopInv, Runs
<1> QED
  BY <1>1, <1>7, <1>8

LEMMA NextLoops == BaseInv /\ LoneInv /\ LoopInv /\ [Next]_vars => LoopInv'
<1> SUFFICES ASSUME BaseInv, LoneInv, LoopInv, [Next]_vars, tangled' = "no"
             PROVE  LoopInv'
  BY DEF LoopInv
<1>0. TypeOK /\ ModeInv /\ tangled = "no"
  BY TangleStays DEF BaseInv
<1>1. ASSUME NEW r \in Runs, NEW m \in Mode, Launch(r, m) PROVE LoopInv'
  BY <1>0, <1>1, LaunchLoops
<1>2. ASSUME NEW r \in Runs, Type(r) PROVE LoopInv'
  BY <1>0, <1>2, TypeLoops
<1>3. ASSUME NEW r \in Runs, Read(r) PROVE LoopInv'
  BY <1>0, <1>3, ReadLoops
<1>4. ASSUME NEW r \in Runs, KilledAfter40s(r) PROVE LoopInv'
  <2>1. /\ at'[r] = "exiting" /\ outcome'[r] = "killed" /\ typed'[r] = "no" /\ r \in Running
        /\ \A q \in Runs \ {r} : /\ at'[q] = at[q] /\ outcome'[q] = outcome[q]
                                /\ typed'[q] = typed[q]
        /\ UNCHANGED <<mode, shell, loops, pidfile, marks>>
    BY <1>0, <1>4 DEF KilledAfter40s, Exit, TypeOK, boardVars
  <2>2. Running' = Running
    BY <2>1 DEF Running
  <2>3. StartsAlone'
    BY <1>0, <2>1, <2>2 DEF LoopInv, StartsAlone
  <2>4. \A q \in Runs : Killing(q)' => Killing(q)
    BY <2>1 DEF Killing
  <2>5. \A q \in Runs : Lone(q)' /\ Stopping(q)' => Lone(q) /\ Stopping(q)
    BY <2>1, <2>2 DEF Lone, Stopping
  <2> QED
    BY <1>0, <2>1, <2>3, <2>4, <2>5, LoopsSame
<1>5. ASSUME NEW r \in Runs, Respond(r) PROVE LoopInv'
  <2>1. /\ at'[r] = "done" /\ mode'[r] = "none" /\ r \in Running
        /\ \A q \in Runs \ {r} : /\ at'[q] = at[q] /\ outcome'[q] = outcome[q]
                                /\ mode'[q] = mode[q] /\ marks'[q] = marks[q]
        /\ UNCHANGED <<typed, shell, loops, pidfile>>
    BY <1>0, <1>5 DEF Respond, TypeOK, Running
  <2>2. StartsAlone'
    <3>1. \A q \in Runs \ {r} : mode[q] # "start"
      BY <1>0, <2>1 DEF LoopInv, StartsAlone
    <3> QED
      BY <2>1, <3>1 DEF StartsAlone, Runs
  <2>3. \A q \in Runs : Killing(q)' => Killing(q)
    BY <2>1 DEF Killing
  <2>4. \A q \in Runs : Lone(q)' /\ Stopping(q)' => Lone(q) /\ Stopping(q)
    BY <2>1 DEF Lone, Stopping, Running
  <2> QED
    BY <1>0, <2>1, <2>2, <2>3, <2>4, LoopsSame
<1>6. CASE Execute
  BY <1>0, <1>6, ExecuteLoops
<1>7. CASE DriverDies
  <2>1. /\ UNCHANGED <<mode, at, typed, outcome, shell, loops, pidfile>>
        /\ \A q \in Runs : marks'[q] = marks[q] \/ marks'[q] = Noted(q, {"died"})
    BY <1>0, <1>7 DEF DriverDies, runVars
  <2>2. /\ \A q \in Runs : "beside" \in marks'[q] => "beside" \in marks[q]
        /\ Running' = Running
    BY <2>1, NotedMarks DEF Running
  <2>3. StartsAlone'
    BY <1>0, <2>1, <2>2 DEF LoopInv, StartsAlone
  <2>4. \A q \in Runs : Killing(q)' => Killing(q)
    BY <2>1 DEF Killing
  <2>5. \A q \in Runs : Lone(q)' /\ Stopping(q)' => Lone(q) /\ Stopping(q)
    BY <2>1, <2>2, NotedMarks DEF Lone, Stopping
  <2> QED
    BY <1>0, <2>1, <2>3, <2>4, <2>5, LoopsSame
<1>8. CASE UNCHANGED vars
  <2>1. UNCHANGED <<mode, at, typed, outcome, shell, loops, pidfile, marks>>
    BY <1>8 DEF vars, runVars, boardVars
  <2>2. StartsAlone'
    BY <1>0, <2>1 DEF LoopInv, StartsAlone, Running
  <2>3. \A q \in Runs : Killing(q)' => Killing(q)
    BY <2>1 DEF Killing
  <2>4. \A q \in Runs : Lone(q)' /\ Stopping(q)' => Lone(q) /\ Stopping(q)
    BY <2>1 DEF Lone, Stopping, Running
  <2> QED
    BY <1>0, <2>1, <2>2, <2>3, <2>4, LoopsSame
<1> QED
  BY <1>1, <1>2, <1>3, <1>4, <1>5, <1>6, <1>7, <1>8 DEF Next, Process

-----------------------------------------------------------------------------
(* The theorems.                                                           *)

IInv == BaseInv /\ LoneInv /\ GoodInv /\ LoopInv

LEMMA Inductive == Spec => []IInv
<1>1. Init => IInv
  <2> SUFFICES ASSUME Init PROVE IInv
    OBVIOUS
  <2>1. Running = {}
    BY DEF Init, Running
  <2>2. LoneInv /\ GoodInv
    BY <2>1 DEF LoneInv, GoodInv, Lone, Good
  <2>3. LoopInv
    BY <2>1 DEF Init, LoopInv, LoopsBehindKills, StartsAlone, Killing, Lone
  <2> QED
    BY <2>2, <2>3, InitBase DEF IInv
<1>2. IInv /\ [Next]_vars => IInv'
  BY NextBase, NextLone, NextGood, NextLoops DEF IInv
<1> QED
  BY <1>1, <1>2, PTL DEF Spec

\* The stages, the counters and the board's state stay in their ranges; no run
\* has more bursts out than it typed lines for.
THEOREM BoardTypes == Spec => []TypeOK
<1>1. IInv => TypeOK
  BY DEF IInv, BaseInv
<1> QED
  BY <1>1, Inductive, PTL

\* A run that is alone and answered in time reloads no driver that is up, says
\* that the driver cannot be had only when it is gone, and that the burst is
\* done only when it is not; it may be broken then, but only after a reload.
THEOREM LoneVerdicts == Spec => []LoneVerdictIsTrue
<1>1. IInv => LoneVerdictIsTrue
  <2> SUFFICES ASSUME IInv, NEW r \in Runs, marks[r] \cap {"beside", "late"} = {}
               PROVE  /\ "live" \notin marks[r]
                      /\ at[r] = "exiting" /\ outcome[r] = "driver_fail" => driver = "gone"
                      /\ at[r] = "exiting" /\ outcome[r] = "burst_ok" => Passed(r)
    BY DEF LoneVerdictIsTrue, Passed
  <2>1. CASE Resting(r)
    BY <2>1 DEF IInv, BaseInv, ModeInv, Resting
  <2>2. CASE ~Resting(r)
    <3>1. Lone(r)
      BY <2>2 DEF Lone, Running, Resting
    <3> QED
      BY <3>1 DEF IInv, LoneInv, LoneOf, DriverOf
  <2> QED
    BY <2>1, <2>2
<1> QED
  BY <1>1, Inductive, PTL

\* An undisturbed burst ends well, with as many sends out as it was asked for,
\* unless the proxy kills it.
THEOREM GoodBursts == Spec => []GoodBurstIsWhole
<1>1. IInv => GoodBurstIsWhole
  BY DEF IInv, GoodInv, Good, GoodOf, GoodBurstIsWhole, Running
<1> QED
  BY <1>1, Inductive, PTL

\* Starts and stops that never met leave at most the loop of the PID file, and
\* none after a stop.
THEOREM LoopsEnd == Spec => []LoneStopEndsLoops
<1>1. IInv => LoneStopEndsLoops
  <2> SUFFICES ASSUME IInv, tangled = "no"
               PROVE  /\ loops \subseteq {pidfile}
                      /\ \A r \in Runs : at[r] = "exiting" /\ outcome[r] = "stopped"
                           /\ marks[r] \cap {"beside", "late"} = {} => loops = {}
    BY DEF LoneStopEndsLoops
  <2>1. loops \subseteq {pidfile}
    BY DEF IInv, LoopInv
  <2>2. ASSUME NEW r \in Runs, at[r] = "exiting", outcome[r] = "stopped",
               marks[r] \cap {"beside", "late"} = {}
        PROVE  loops = {}
    <3>1. Lone(r) /\ Stopping(r)
      BY <2>2 DEF Lone, Stopping, Running
    <3> QED
      BY <3>1 DEF IInv, LoopInv
  <2> QED
    BY <2>1, <2>2
<1> QED
  BY <1>1, Inductive, PTL
=============================================================================
