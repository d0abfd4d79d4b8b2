------------------------------ MODULE MCPages -------------------------------
(***************************************************************************)
(* D10Dashboard, D10Capture, MeasureGui, ReportSweep and FaultInjection    *)
(* for TLC, in one run: a behaviour is one of one of them.  As they share  *)
(* no state, what holds of each alone holds of all at a time.              *)
(***************************************************************************)
EXTENDS D10Dashboard, MeasureGui, D10Capture, ReportSweep, FaultInjection

CONSTANTS t1, t2

VARIABLE page  \* what a behaviour is of: "frer" (D10Dashboard), "capture"
               \* (D10Capture), "kfdx" (MeasureGui), "report" (ReportSweep) or
               \* "faults" (FaultInjection)

MCLosses == "A" :> {0} @@ "B" :> {0, 2}
MCPressed == (t1 :> {"set", "clear", "send", "head"}) @@ (t2 :> {"set", "clear"})
MCQueue == (t1 :> 2) @@ (t2 :> 1)

Init ==
  /\ page \in {"frer", "capture", "kfdx", "report", "faults"}
  /\ DashInit /\ CaptureInit /\ GuiInit /\ SweepInit /\ SuiteInit
  \* What stands still begins in one state.
  /\ page # "faults" => mine = "yes" /\ \A n \in Lines : line[n] = 0
Next ==
  \/ page = "frer" /\ DashNext /\ UNCHANGED <<page, captureVars, guiVars, sweepVars, suiteVars>>
  \/ page = "capture" /\ GetCapture /\ UNCHANGED <<page, dashVars, guiVars, sweepVars, suiteVars>>
  \/ page = "kfdx" /\ GuiNext /\ UNCHANGED <<page, dashVars, captureVars, sweepVars, suiteVars>>
  \/ page = "report" /\ SweepNext /\ UNCHANGED <<page, dashVars, captureVars, guiVars, suiteVars>>
  \/ page = "faults" /\ SuiteNext /\ UNCHANGED <<page, dashVars, captureVars, guiVars, sweepVars>>

vars == <<page, dashVars, captureVars, guiVars, sweepVars, suiteVars>>
others == <<page, captureVars, guiVars, sweepVars, suiteVars>>
FairSpec ==
  /\ Init /\ [][Next]_vars
  /\ WF_vars(page = "frer" /\ StartPoll /\ UNCHANGED others)
  /\ WF_vars(page = "frer" /\ Read(1) /\ UNCHANGED others)
  /\ WF_vars(page = "frer" /\ Render(1) /\ UNCHANGED others)

\* PageConverges of D10Dashboard, of the behaviours that are of that page.
DashboardConverges == page = "frer" => PageConverges
=============================================================================
