------------------------------- MODULE ProgressBar ------------------------------
(*************************************************************************)
(* ProgressBar: progress that is reported more often than the tick time  *)
(* is saved and shown later. The bar itself is a library's: it has       *)
(* current() and is completed once current() reaches the maximum.        *)
(*************************************************************************)
EXTENDS Naturals

CONSTANTS BarSize,      \* _size: the work that will be reported
          MaxProgress   \* the most that one Update reports

ASSUME BarAssumption == BarSize \in Nat \ {0} /\ MaxProgress \in Nat

VARIABLES barCurrent,   \* _bar->current()
          barCompleted, \* _bar->is_completed()
          unprint,      \* _unprintProgress
          barShown,     \* _lastUpdateTime is set
          reported,     \* the work reported so far
          barStopped    \* Stop() was called

barVars == <<barCurrent, barCompleted, unprint, barShown, reported, barStopped>>

BarTypeOK == /\ barCurrent \in 0 .. BarSize + MaxProgress + 1
             /\ unprint \in 0 .. BarSize + MaxProgress + 1
             /\ reported \in 0 .. BarSize + MaxProgress + 1
             /\ barCompleted \in BOOLEAN /\ barShown \in BOOLEAN /\ barStopped \in BOOLEAN

BarInit == /\ barCurrent = 0 /\ unprint = 0 /\ reported = 0
           /\ barCompleted = FALSE /\ barShown = FALSE /\ barStopped = FALSE

-------------------------------------------------------------------------------
\* An update without a number counts as one.
SaveUnprintProgress(progress) == unprint + (IF progress = 0 THEN 1 ELSE progress)

\* elapsed: the tick time has passed since the bar was last shown.
CanPrintProgress(saved, elapsed) == \/ barCurrent + saved >= BarSize
                                    \/ elapsed \/ ~barShown

UpdateBar(progress, elapsed) ==
    LET saved == SaveUnprintProgress(progress)
        prints == CanPrintProgress(saved, elapsed)
    IN  /\ ~barCompleted
        /\ unprint' = IF prints THEN 0 ELSE saved
        /\ barCurrent' = IF prints THEN barCurrent + saved ELSE barCurrent
        /\ barCompleted' = (barCurrent' >= BarSize)
        /\ barShown' = (barShown \/ (prints /\ barCurrent + saved < BarSize))
        /\ reported' = reported + saved - unprint
        /\ UNCHANGED barStopped

StopBar == /\ ~barStopped
           /\ barStopped' = TRUE /\ barCompleted' = TRUE
           /\ UNCHANGED <<barCurrent, unprint, barShown, reported>>

BarNext == \/ \E progress \in 0 .. MaxProgress, elapsed \in BOOLEAN : UpdateBar(progress, elapsed)
           \/ StopBar

BarSpec == BarInit /\ [][BarNext]_barVars

-------------------------------------------------------------------------------
\* The bar is completed by the Update that reports the last of the work, however soon
\* after the one before it comes, and never by less work than that.
CompletedWithTheWork == ~barStopped => barCompleted = (reported >= BarSize)
===============================================================================
