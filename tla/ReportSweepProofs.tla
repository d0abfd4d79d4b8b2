-------------------------- MODULE ReportSweepProofs --------------------------
(***************************************************************************)
(* Proofs about the rows of a report and their pictures, for any number of *)
(* BAGs, captures and noises, and any sweeps before.                       *)
(***************************************************************************)
EXTENDS ReportSweep, TLAPS

Kept == Captured \cup {None}
Files == [whole : {"yes"}, r : Captured] \cup {Empty}

\* The best of a BAG is of that BAG, and among the captures that wrote, if of
\* this sweep; before the first capture there is neither.
BestInv ==
  /\ best.bag \in {0, bag}
  /\ best.of = "this" => best \in past.wrote
  /\ step = "idle" => best = None
  /\ step = "adding" => turn = 1
  /\ step \in {"capturing", "writing"} /\ turn = 1 => best = None /\ past = NewPast

\* Captures that wrote did so in earlier turns, but for the one whose file is to
\* be loaded.
WroteInv ==
  /\ step = "drawing" => result[bag].r.turn = turn
  /\ \A c \in past.wrote :
       \/ c.turn < turn
       \/ step \in {"drawing", "loading"} /\ c.turn = turn /\ result[bag].r = c
       \/ step = "adding"

\* A file of this sweep is of a capture that is among those that wrote; the
\* later BAGs have none yet.
FilesInv ==
  step # "idle" =>
    \A b \in 1..NBags : b >= bag /\ result[b].r.of = "this" =>
      b = bag /\ result[b].r \in past.wrote

\* When its first capture wrote, the file of a BAG is of this sweep, and so is
\* the best.
OwnInv ==
  "unwritten" \notin past.marks =>
    /\ best # None => best.of = "this"
    /\ /\ step = "loading" \/ (step \in {"capturing", "writing"} /\ turn > 1)
       /\ result[bag].whole = "yes"
       => result[bag].r.of = "this"

\* A capture that wrote is no quieter than the best, or is still to be loaded.
QuietInv ==
  \A c \in past.wrote :
    \/ best # None /\ best.noise <= c.noise
    \/ step \in {"drawing", "loading"} /\ result[bag] = [whole |-> "yes", r |-> c]

\* The picture is of the last capture that wrote, unless that is still to be
\* drawn.
DrawnInv ==
  "undrawn" \notin past.marks =>
    \A c \in past.wrote :
      \/ step = "drawing" /\ c.turn = turn
      \/ image[bag] = c
      \/ image[bag] \in past.wrote /\ image[bag].turn > c.turn

Rows == RowIsThisSweeps /\ RowIsQuietest /\ PictureIsNotOlder
Sweep == BestInv /\ WroteInv /\ FilesInv /\ OwnInv /\ QuietInv /\ DrawnInv
IInv == SweepTypeOK /\ Sweep /\ Rows

-----------------------------------------------------------------------------
(* The steps.                                                              *)

\* A capture is not None, and its noise is a number.
LEMMA CapturedHasNoise ==
  /\ \A c \in Captured : c # None /\ c.noise \in Nat
  /\ \A c \in Kept : c = None \/ c \in Captured
<1>1. \A c \in Captured : c.of \in Sweeps /\ c.noise \in Noises  BY DEF Captured
<1>2. None.of \notin Sweeps  BY DEF None, Sweeps
<1> QED  BY <1>1, <1>2, SweepAssumption DEF Kept

\* No sweep, no files.
LEMMA InitInv == SweepInit => IInv
<1> SUFFICES ASSUME SweepInit PROVE IInv  OBVIOUS
<1> USE SweepAssumption DEF SweepInit, None, Empty, NewPast, NoCard
<1>1. SweepTypeOK  BY DEF SweepTypeOK, Past, Captured
<1>2. Sweep  BY DEF Sweep, BestInv, WroteInv, FilesInv, OwnInv, QuietInv, DrawnInv
<1>3. Rows  BY DEF Rows, RowIsThisSweeps, RowIsQuietest, PictureIsNotOlder
<1> QED  BY <1>1, <1>2, <1>3 DEF IInv

\* A sweep starts afresh, over files that are all of a sweep before.
LEMMA StartSweepInv == IInv /\ StartSweep => IInv'
<1> SUFFICES ASSUME IInv, StartSweep PROVE IInv'  OBVIOUS
<1> USE SweepAssumption DEF IInv, Sweep, StartSweep, fileVars
<1>1. SweepTypeOK'
  <2>1. \A c \in Kept :
          Before(c) \in Kept /\ Before(c).bag = c.bag /\ (c # None => Before(c) \in Captured)
    BY DEF Before, Kept, Captured, Sweeps, None
  <2>2. \A b \in 1..NBags : image[b] \in Kept /\ image[b].bag \in {0, b}
    BY DEF SweepTypeOK, Kept
  <2>3. \A b \in 1..NBags : image'[b] \in Kept /\ image'[b].bag \in {0, b}
    BY <2>1, <2>2
  <2>4. ASSUME NEW b \in 1..NBags
        PROVE  result'[b] \in Files /\ result'[b].r.bag \in {0, b}
    <3>1. result[b] \in Files /\ result[b].r.bag \in {0, b}  BY DEF SweepTypeOK, Files
    <3>2. result'[b] = [result[b] EXCEPT !.r = Before(@)]  OBVIOUS
    <3>3. CASE result[b] = Empty
      BY <3>2, <3>3 DEF Empty, Before, None, Files
    <3>4. CASE result[b] \in [whole : {"yes"}, r : Captured]
      <4>1. result[b].r \in Captured /\ result[b].r # None  BY <3>4 DEF Captured, None, Sweeps
      <4>2. Before(result[b].r) \in Captured /\ Before(result[b].r).bag = result[b].r.bag
        BY <2>1, <4>1 DEF Kept
      <4> QED  BY <3>1, <3>2, <3>4, <4>2 DEF Files
    <3> QED  BY <3>1, <3>3, <3>4 DEF Files
  <2>5. image' \in [1..NBags -> Kept]  BY <2>3
  <2>6. result' \in [1..NBags -> Files]  BY <2>4
  <2>7. None \in Kept /\ NewPast \in Past  BY DEF Kept, NewPast, Past
  <2> QED  BY <2>3, <2>4, <2>5, <2>6, <2>7 DEF SweepTypeOK, Kept, Files, NoCard
<1>2. BestInv'  BY DEF BestInv, None
<1>3. WroteInv'  BY DEF WroteInv, NewPast
<1>4. FilesInv'  BY DEF FilesInv, SweepTypeOK, Empty, None, Captured, Before
<1>5. OwnInv'  BY DEF OwnInv
<1>6. QuietInv'  BY DEF QuietInv, NewPast
<1>7. DrawnInv'  BY DEF DrawnInv, NewPast
<1>8. Rows'  BY DEF Rows, RowIsThisSweeps, RowIsQuietest, PictureIsNotOlder, NoCard, NewPast
<1> QED  BY <1>1, <1>2, <1>3, <1>4, <1>5, <1>6, <1>7, <1>8

\* A capture that fails leaves its mark, if it is the first.
LEMMA CaptureFailsInv == IInv /\ CaptureFails => IInv'
<1> SUFFICES ASSUME IInv, CaptureFails PROVE IInv'  OBVIOUS
<1> USE SweepAssumption DEF IInv, Sweep, CaptureFails, fileVars
<1>1. SweepTypeOK'  BY DEF SweepTypeOK, Unwritten, Past
<1>2. BestInv'  BY DEF BestInv, Unwritten
<1>3. WroteInv'  BY DEF WroteInv, Unwritten
<1>4. FilesInv'  BY DEF FilesInv, Unwritten
<1>5. OwnInv'  BY DEF OwnInv, SweepTypeOK, Unwritten
<1>6. QuietInv'  BY DEF QuietInv, Unwritten
<1>7. DrawnInv'  BY DEF DrawnInv, Unwritten
<1>8. Rows'  BY DEF Rows, RowIsThisSweeps, RowIsQuietest, PictureIsNotOlder
<1> QED  BY <1>1, <1>2, <1>3, <1>4, <1>5, <1>6, <1>7, <1>8

\* A file that has been opened is of no capture.
LEMMA OpenResultInv == IInv /\ OpenResult => IInv'
<1> SUFFICES ASSUME IInv, OpenResult PROVE IInv'  OBVIOUS
<1> USE SweepAssumption DEF IInv, Sweep, OpenResult, fileVars
<1>1. SweepTypeOK'  BY DEF SweepTypeOK, None, Empty
<1>2. BestInv'  BY DEF BestInv
<1>3. WroteInv'  BY DEF WroteInv
<1>4. FilesInv'  BY DEF FilesInv, Empty, None
<1>5. OwnInv'  BY DEF OwnInv, Empty
<1>6. QuietInv'  BY DEF QuietInv
<1>7. DrawnInv'  BY DEF DrawnInv
<1>8. Rows'  BY DEF Rows, RowIsThisSweeps, RowIsQuietest, PictureIsNotOlder
<1> QED  BY <1>1, <1>2, <1>3, <1>4, <1>5, <1>6, <1>7, <1>8

\* The capture that writes is the last, and still to be drawn and loaded.
LEMMA WriteResultInv == IInv /\ WriteResult => IInv'
<1> SUFFICES ASSUME IInv, WriteResult PROVE IInv'  OBVIOUS
<1> USE SweepAssumption DEF IInv, Sweep, WriteResult, fileVars
<1>a. PICK noise \in Noises :
        LET c == [of |-> "this", bag |-> bag, turn |-> turn, noise |-> noise]
        IN /\ result' = [result EXCEPT ![bag] = [whole |-> "yes", r |-> c]]
           /\ past' = [past EXCEPT !.wrote = @ \cup {c}]
  OBVIOUS
<1> DEFINE c == [of |-> "this", bag |-> bag, turn |-> turn, noise |-> noise]
<1>b. c \in Captured /\ bag \in 1..NBags  BY DEF SweepTypeOK, Captured, Sweeps
<1>c. /\ result[bag]' = [whole |-> "yes", r |-> c]
      /\ past'.wrote = past.wrote \cup {c} /\ past'.marks = past.marks
  BY <1>a, <1>b DEF SweepTypeOK, Past
<1>1. SweepTypeOK'
  <2>1. past' \in Past  BY <1>a, <1>b DEF SweepTypeOK, Past
  <2>2. ASSUME NEW b \in 1..NBags
        PROVE  /\ result'[b] \in [whole : {"yes"}, r : Captured] \cup {Empty}
               /\ result'[b].r.bag \in {0, b}
    BY <1>a, <1>b DEF SweepTypeOK
  <2> QED  BY <1>b, <1>c, <2>1, <2>2 DEF SweepTypeOK
<1>2. BestInv'  BY DEF BestInv
<1>3. WroteInv'  BY <1>b, <1>c DEF WroteInv
<1>4. FilesInv'  BY DEF FilesInv
<1>5. OwnInv'  BY DEF OwnInv
<1>6. QuietInv'  BY <1>b, <1>c DEF QuietInv
<1>7. DrawnInv'  BY DEF DrawnInv
<1>8. Rows'  BY DEF Rows, RowIsThisSweeps, RowIsQuietest, PictureIsNotOlder
<1> QED  BY <1>1, <1>2, <1>3, <1>4, <1>5, <1>6, <1>7, <1>8

\* A file that is cut off is of no capture, and leaves its mark, if it is the first.
LEMMA WriteFailsInv == IInv /\ WriteFails => IInv'
<1> SUFFICES ASSUME IInv, WriteFails PROVE IInv'  OBVIOUS
<1> USE SweepAssumption DEF IInv, Sweep, WriteFails, fileVars
<1>1. SweepTypeOK'  BY DEF SweepTypeOK, Unwritten, Past
<1>2. BestInv'  BY DEF BestInv, Unwritten
<1>3. WroteInv'  BY DEF WroteInv, Unwritten
<1>4. FilesInv'  BY DEF FilesInv, Unwritten
<1>5. OwnInv'  BY DEF OwnInv, SweepTypeOK, Unwritten
<1>6. QuietInv'  BY DEF QuietInv, Unwritten
<1>7. DrawnInv'  BY DEF DrawnInv, Unwritten
<1>8. Rows'  BY DEF Rows, RowIsThisSweeps, RowIsQuietest, PictureIsNotOlder
<1> QED  BY <1>1, <1>2, <1>3, <1>4, <1>5, <1>6, <1>7, <1>8

\* The picture becomes that of the last capture, or leaves its mark.
LEMMA DrawInv == IInv /\ Draw => IInv'
<1> SUFFICES ASSUME IInv, Draw PROVE IInv'  OBVIOUS
<1> USE SweepAssumption DEF IInv, Sweep, Draw, fileVars
<1>a. past'.wrote = past.wrote /\ past' \in Past /\ past.marks \subseteq past'.marks
  BY DEF SweepTypeOK, Past
<1>b. \A b \in 1..NBags : image'[b] = image[b] \/ (b = bag /\ image'[b] = result[bag].r)
  BY DEF SweepTypeOK
<1>c. "undrawn" \notin past'.marks => image'[bag] = result[bag].r
  BY DEF SweepTypeOK, Past
<1>d. /\ result[bag].r \in Captured /\ result[bag].r.bag \in {0, bag}
      /\ result[bag].whole = "yes" /\ bag \in 1..NBags
  BY DEF SweepTypeOK, Empty
<1>1. SweepTypeOK'  BY <1>a, <1>b, <1>d DEF SweepTypeOK
<1>2. BestInv'  BY <1>a DEF BestInv
<1>3. WroteInv'  BY DEF WroteInv, SweepTypeOK, Past
<1>4. FilesInv'  BY <1>a DEF FilesInv
<1>5. OwnInv'  BY <1>a DEF OwnInv, SweepTypeOK
<1>6. QuietInv'  BY <1>a DEF QuietInv
<1>7. DrawnInv'
  <2> SUFFICES ASSUME "undrawn" \notin past'.marks, NEW c \in past.wrote
               PROVE  c = image'[bag] \/ (image'[bag] \in past.wrote /\ image'[bag].turn > c.turn)
    BY <1>a DEF DrawnInv
  <2>1. image'[bag] \in past.wrote /\ image'[bag].turn = turn
    <3>1. result[bag].r \in past.wrote /\ image'[bag] = result[bag].r
      BY <1>c, <1>d DEF FilesInv, SweepTypeOK
    <3> QED  BY <3>1 DEF WroteInv
  <2> QED  BY <1>c, <2>1 DEF WroteInv, SweepTypeOK, Past, Captured
<1>8. Rows'  BY DEF Rows, RowIsThisSweeps, RowIsQuietest, PictureIsNotOlder
<1> QED  BY <1>1, <1>2, <1>3, <1>4, <1>5, <1>6, <1>7, <1>8

\* The best becomes the quietest of those loaded.
LEMMA LoadInv == IInv /\ Load => IInv'
<1> SUFFICES ASSUME IInv, Load PROVE IInv'  OBVIOUS
<1> USE SweepAssumption DEF IInv, Sweep, Load, fileVars
<1>1. SweepTypeOK'  BY DEF SweepTypeOK, LastTurn, Empty
<1>2. BestInv'  BY DEF SweepTypeOK, BestInv, FilesInv, NewPast
<1>3. WroteInv'  BY DEF WroteInv, SweepTypeOK, Past, Captured
<1>4. FilesInv'  BY DEF FilesInv
<1>5. OwnInv'  BY DEF OwnInv
<1>6. QuietInv'
  <2> SUFFICES ASSUME NEW c \in past.wrote PROVE best' # None /\ best'.noise <= c.noise
    BY DEF QuietInv
  <2>1. c \in Captured /\ best \in Kept  BY DEF SweepTypeOK, Past, Kept
  <2>2. CASE result[bag] = [whole |-> "yes", r |-> c]
    <3>1. CASE Better(c)
      <4>1. best' = c  BY <2>2, <3>1
      <4> QED  BY <2>1, <4>1, CapturedHasNoise
    <3>2. CASE ~Better(c)
      <4>1. best' = best /\ best # None /\ ~(c.noise < best.noise)  BY <2>2, <3>2 DEF Better
      <4> QED  BY <2>1, <4>1, CapturedHasNoise
    <3> QED  BY <3>1, <3>2
  <2>3. CASE best # None /\ best.noise <= c.noise
    <3>1. CASE result[bag].whole = "yes" /\ Better(result[bag].r)
      <4>1. result[bag].r \in Captured  BY <3>1 DEF SweepTypeOK, Empty
      <4>2. best' = result[bag].r  BY <3>1
      <4>3. best'.noise < best.noise  BY <2>3, <3>1, <4>2 DEF Better
      <4>4. best \in Captured  BY <2>1, <2>3, CapturedHasNoise
      <4> QED  BY <2>1, <2>3, <4>1, <4>2, <4>3, <4>4, CapturedHasNoise
    <3>2. CASE ~(result[bag].whole = "yes" /\ Better(result[bag].r))
      BY <2>3, <3>2
    <3> QED  BY <3>1, <3>2
  <2> QED  BY <2>2, <2>3 DEF QuietInv
<1>7. DrawnInv'  BY DEF DrawnInv
<1>8. Rows'
  <2>1. past'.wrote # {} /\ step' = "adding" => best' # None
    BY <1>6 DEF QuietInv
  <2> QED  BY <2>1 DEF Rows, RowIsThisSweeps, RowIsQuietest, PictureIsNotOlder
<1> QED  BY <1>1, <1>2, <1>3, <1>4, <1>5, <1>6, <1>7, <1>8

\* The row has what the invariant says of the best.
LEMMA AddRowInv == IInv /\ AddRow => IInv'
<1> SUFFICES ASSUME IInv, AddRow PROVE IInv'  OBVIOUS
<1> USE SweepAssumption DEF IInv, Sweep, AddRow, fileVars
<1>1. SweepTypeOK'  BY DEF SweepTypeOK, FirstBest, Picture, Past, NewPast, NoCard
<1>2. BestInv'  BY DEF BestInv, None, FirstBest
<1>3. WroteInv'  BY DEF WroteInv, NewPast
<1>4. FilesInv'  BY DEF FilesInv, SweepTypeOK
<1>5. OwnInv'  BY DEF OwnInv, BestInv, FirstBest
<1>6. QuietInv'  BY DEF QuietInv, NewPast
<1>7. DrawnInv'  BY DEF DrawnInv, NewPast
<1>8. Rows'
  BY DEF Rows, RowIsThisSweeps, RowIsQuietest, PictureIsNotOlder, BestInv, OwnInv, QuietInv,
         DrawnInv, SweepTypeOK, Picture, NoCard, NewPast, Captured
<1> QED  BY <1>1, <1>2, <1>3, <1>4, <1>5, <1>6, <1>7, <1>8

\* Nothing is kept but the files.
LEMMA StopSweepInv == IInv /\ StopSweep => IInv'
<1> SUFFICES ASSUME IInv, StopSweep PROVE IInv'  OBVIOUS
<1> USE SweepAssumption DEF IInv, Sweep, StopSweep, fileVars
<1>1. SweepTypeOK'  BY DEF SweepTypeOK, Past, NewPast, NoCard
<1>2. BestInv'  BY DEF BestInv, None
<1>3. WroteInv'  BY DEF WroteInv, NewPast
<1>4. FilesInv'  BY DEF FilesInv
<1>5. OwnInv'  BY DEF OwnInv
<1>6. QuietInv'  BY DEF QuietInv, NewPast
<1>7. DrawnInv'  BY DEF DrawnInv, NewPast
<1>8. Rows'  BY DEF Rows, RowIsThisSweeps, RowIsQuietest, PictureIsNotOlder, NoCard, NewPast
<1> QED  BY <1>1, <1>2, <1>3, <1>4, <1>5, <1>6, <1>7, <1>8

LEMMA Inductive == SweepSpec => []IInv
<1>1. IInv /\ [SweepNext]_sweepVars => IInv'
  <2> SUFFICES ASSUME IInv, [SweepNext]_sweepVars PROVE IInv'  OBVIOUS
  <2>1. CASE UNCHANGED sweepVars
    BY <2>1 DEF sweepVars, fileVars, IInv, Sweep, Rows, SweepTypeOK, BestInv, WroteInv, FilesInv,
         OwnInv, QuietInv, DrawnInv, RowIsThisSweeps, RowIsQuietest, PictureIsNotOlder
  <2>2. CASE SweepNext
    BY <2>2, StartSweepInv, CaptureFailsInv, OpenResultInv, WriteResultInv, WriteFailsInv,
       DrawInv, LoadInv, AddRowInv, StopSweepInv DEF SweepNext
  <2> QED  BY <2>1, <2>2
<1> QED  BY InitInv, <1>1, PTL DEF SweepSpec

\* The state of a sweep and of its files is well formed, wherever sweeps are
\* broken off.
THEOREM SweepTypes == SweepSpec => []SweepTypeOK
<1>1. IInv => SweepTypeOK  BY DEF IInv
<1> QED  BY <1>1, Inductive, PTL

\* A row is of its own BAG, and of this sweep unless the first capture of that
\* BAG failed.
THEOREM RowsAreOwn == SweepSpec => []RowIsThisSweeps
<1>1. IInv => RowIsThisSweeps  BY DEF IInv, Rows
<1> QED  BY <1>1, Inductive, PTL

\* The row is the quietest of all captures of the BAG that wrote their result.
THEOREM RowsAreQuietest == SweepSpec => []RowIsQuietest
<1>1. IInv => RowIsQuietest  BY DEF IInv, Rows
<1> QED  BY <1>1, Inductive, PTL

\* The picture is the row's or that of a later capture of the same sweep.
THEOREM PicturesAreNotOlder == SweepSpec => []PictureIsNotOlder
<1>1. IInv => PictureIsNotOlder  BY DEF IInv, Rows
<1> QED  BY <1>1, Inductive, PTL
=============================================================================
