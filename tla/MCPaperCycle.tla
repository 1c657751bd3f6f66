---------------------------- MODULE MCPaperCycle ----------------------------
\* Instances of PaperCycle for TLC.
EXTENDS PaperCycle

\* Slots 0 and 1 are a Friday session, 2 is Friday 16:45 (in session and already
\* weekend), 3 the weekend.
FridaySession == {0, 1, 2}
FridayWeekend == {2, 3}

\* Slot 0 is a Friday session, 1 its weekend, 2 the Monday session, 3 Monday night.
MondaySession == {0, 2}
MondayWeekend == {1}

\* Whatever the rules want closed is closed in the end, across crashes, stale writes and
\* missing data: an overdue position, and all of a paused symbol (Scheduler.tick,
\* close_paused_symbols).
DueClosed == OverdueClosed /\ PausedFlattened
=============================================================================
