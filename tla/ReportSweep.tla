---------------------------- MODULE ReportSweep -----------------------------
(***************************************************************************)
(* The sweep of report.py: for each BAG capture_jitter.py runs several     *)
(* times over one result file, each run is loaded, and the row of the BAG  *)
(* is the quietest; its card shows the picture file of the BAG.  Neither   *)
(* the exit code of a run nor the age of the files is looked at, and an    *)
(* earlier sweep, broken off anywhere, may have left both.                 *)
(*                                                                         *)
(* One sweep runs at a time.  What a capture does before it writes is      *)
(* CapturePipeline's.                                                      *)
(***************************************************************************)
EXTENDS Naturals

CONSTANTS NBags,    \* --bags: how many
          Repeats,  \* --runs: captures for each
          Noises    \* the values rob_std may have

ASSUME SweepAssumption == NBags \in Nat \ {0} /\ Repeats \in Nat \ {0} /\ Noises \subseteq Nat

VARIABLES
  step,    \* where the sweep is
  bag,     \* the BAG it is at
  turn,    \* the capture of that BAG
  best,    \* best of run_capture
  card,    \* the row added last, with its picture and history
  result,  \* result[b]: results/rep_<b>.json
  image,   \* image[b]: results/rep_<b>.png
  past     \* history of this BAG: the captures that wrote their result, and
           \* what befell it

fileVars == <<result, image>>
sweepVars == <<step, bag, turn, best, card, fileVars, past>>

Sweeps == {"this", "before"}
None == [of |-> "none", bag |-> 0, turn |-> 0, noise |-> 0]
Captured == [of : Sweeps, bag : 1..NBags, turn : 1..Repeats, noise : Noises]
\* "unwritten": its first capture wrote no result; "undrawn": one that wrote its
\* result drew no picture.
Past == [wrote : SUBSET Captured, marks : SUBSET {"unwritten", "undrawn"}]
NewPast == [wrote |-> {}, marks |-> {}]
NoCard == [row |-> None, picture |-> None, bag |-> 0, past |-> NewPast]
Empty == [whole |-> "no", r |-> None]

SweepInit ==
  /\ step = "idle" /\ bag = 1 /\ turn = 1 /\ best = None /\ card = NoCard
  /\ result = [b \in 1..NBags |-> Empty] /\ image = [b \in 1..NBags |-> None]
  /\ past = NewPast

-----------------------------------------------------------------------------
Before(c) == IF c = None THEN c ELSE [c EXCEPT !.of = "before"]

\* A sweep starts, after any that went before.
StartSweep ==
  /\ step = "idle"
  /\ step' = "capturing" /\ bag' = 1 /\ turn' = 1 /\ best' = None
  /\ card' = NoCard /\ past' = NewPast
  /\ result' = [b \in 1..NBags |-> [result[b] EXCEPT !.r = Before(@)]]
  /\ image' = [b \in 1..NBags |-> Before(image[b])]

Unwritten == IF turn = 1 THEN [past EXCEPT !.marks = @ \cup {"unwritten"}] ELSE past

\* capture_jitter.py raises, or finds too few frames: no file is touched.
CaptureFails ==
  /\ step = "capturing" /\ step' = "loading"
  /\ past' = Unwritten
  /\ UNCHANGED <<bag, turn, best, card, fileVars>>

\* analyze opens the result file, and empties it.
OpenResult ==
  /\ step = "capturing" /\ step' = "writing"
  /\ result' = [result EXCEPT ![bag] = Empty]
  /\ UNCHANGED <<bag, turn, best, card, image, past>>

WriteResult ==
  /\ step = "writing" /\ step' = "drawing"
  /\ \E noise \in Noises :
       LET c == [of |-> "this", bag |-> bag, turn |-> turn, noise |-> noise]
       IN /\ result' = [result EXCEPT ![bag] = [whole |-> "yes", r |-> c]]
          /\ past' = [past EXCEPT !.wrote = @ \cup {c}]
  /\ UNCHANGED <<bag, turn, best, card, image>>

\* json.dump is cut off: the disk is full, the process is killed.
WriteFails ==
  /\ step = "writing" /\ step' = "loading"
  /\ past' = Unwritten
  /\ UNCHANGED <<bag, turn, best, card, fileVars>>

\* _plot; without matplotlib, or when it raises, the picture stays.
Draw ==
  /\ step = "drawing" /\ step' = "loading"
  /\ \/ image' = [image EXCEPT ![bag] = result[bag].r] /\ UNCHANGED past
     \/ past' = [past EXCEPT !.marks = @ \cup {"undrawn"}] /\ UNCHANGED image
  /\ UNCHANGED <<bag, turn, best, card, result>>

\* Mutant of Better: the loudest is taken.
BetterLoud(r) == best = None \/ r.noise > best.noise
Better(r) == best = None \/ r.noise < best.noise

\* Mutant: one capture too many.
LastTurnAndOne == turn > Repeats
LastTurn == turn = Repeats

\* The body of run_capture's loop after the capture: a file that is missing or
\* cut raises, and the loop goes on.
Load ==
  /\ step = "loading"
  /\ best' = IF result[bag].whole = "yes" /\ Better(result[bag].r)
             THEN result[bag].r ELSE best
  /\ IF LastTurn THEN turn' = 1 /\ step' = "adding"
     ELSE turn' = turn + 1 /\ step' = "capturing"
  /\ UNCHANGED <<bag, card, fileVars, past>>

\* Mutant: the pictures are read when all rows are there, by the name of the
\* last BAG.
PictureOfLast == image[NBags]
Picture == image[bag]

\* Mutant: best is not a variable of the call.
FirstBestKept == best
FirstBest == None

\* The loop of main: a row when there is a best, and the next BAG.
AddRow ==
  /\ step = "adding"
  /\ card' = IF best = None THEN NoCard
             ELSE [row |-> best, picture |-> Picture, bag |-> bag, past |-> past]
  /\ IF bag < NBags THEN bag' = bag + 1 /\ step' = "capturing"
     ELSE bag' = 1 /\ step' = "idle"
  /\ best' = FirstBest /\ past' = NewPast
  /\ UNCHANGED <<turn, fileVars>>

\* Ctrl-C or a kill, with the capture.
StopSweep ==
  /\ step # "idle" /\ step' = "idle"
  /\ bag' = 1 /\ turn' = 1 /\ best' = None /\ card' = NoCard /\ past' = NewPast
  /\ UNCHANGED fileVars

SweepNext ==
  \/ StartSweep \/ CaptureFails \/ OpenResult \/ WriteResult \/ WriteFails
  \/ Draw \/ Load \/ AddRow \/ StopSweep

SweepSpec == SweepInit /\ [][SweepNext]_sweepVars

-----------------------------------------------------------------------------
\* Type invariant.  What is drawn was written, and files hold captures of the
\* BAG in their name.
SweepTypeOK ==
  /\ step \in {"idle", "capturing", "writing", "drawing", "loading", "adding"}
  /\ bag \in 1..NBags /\ turn \in 1..Repeats /\ best \in Captured \cup {None}
  /\ image \in [1..NBags -> Captured \cup {None}]
  /\ result \in [1..NBags -> [whole : {"yes"}, r : Captured] \cup {Empty}]
  /\ \A b \in 1..NBags : image[b].bag \in {0, b} /\ result[b].r.bag \in {0, b}
  /\ step = "drawing" => result[bag].whole = "yes" /\ result[bag].r.of = "this"
  /\ card.row \in Captured \cup {None} /\ card.picture \in Captured \cup {None}
  /\ past \in Past /\ card.past \in Past

\* A row of the report is of its own BAG, and of this sweep when the first
\* capture of that BAG wrote its result; when it did not, the file of an earlier
\* sweep may be the row, and the quieter it is the surer.
RowIsThisSweeps ==
  card.row # None =>
    /\ card.row.bag = card.bag
    /\ "unwritten" \notin card.past.marks => card.row.of = "this"

\* No capture of the BAG that wrote its result, the failed ones between them
\* notwithstanding, is quieter than the row; and when one wrote, there is a row.
RowIsQuietest ==
  /\ \A c \in card.past.wrote : card.row.noise <= c.noise
  /\ step = "adding" /\ past.wrote # {} => best # None

\* The picture beside a row is of the row's own capture or of one that the same
\* sweep made of that BAG after it, when each capture drew its picture.  It is
\* not the row's own when a later capture was louder.
PictureIsNotOlder ==
  card.row # None /\ "undrawn" \notin card.past.marks /\ card.row.of = "this" =>
    \/ card.picture = card.row
    \/ card.picture \in card.past.wrote /\ card.picture.turn > card.row.turn
=============================================================================
