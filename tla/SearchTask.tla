----------------------------- MODULE SearchTask -----------------------------
(***************************************************************************)
(* The search of an attached client through the history of the focused     *)
(* pane (src/daemon.rs, SearchTask): started by a Search message, advanced *)
(* by a few viewport positions in every turn of the event loop, cancelled  *)
(* by any other message of the client and by losing it, while the pane     *)
(* keeps writing and the view keeps its place (vendor/vt100).              *)
(*                                                                         *)
(* Lines are numbered in the order in which they are written; a query is   *)
(* the set of lines that contain it.  The normal screen of one pane, whose *)
(* width does not change.                                                  *)
(***************************************************************************)
EXTENDS Integers, Sequences

CONSTANTS
  Rows,          \* rows of the pane
  HistoryLimit,  \* scrollback_len: lines kept above them
  SearchStep,    \* SEARCH_STEP: positions looked at per turn
  MaxLines,      \* bound: lines written
  MaxSearches    \* bound: searches started

ASSUME SearchAssumption ==
  /\ {Rows, SearchStep} \subseteq Nat \ {0}
  /\ {HistoryLimit, MaxLines, MaxSearches} \subseteq Nat
  /\ MaxLines >= Rows

Line == 1 .. MaxLines
Position == 0 .. HistoryLimit

VARIABLES
  total,     \* lines written so far; the last Rows of them are the screen
  offset,    \* scrollback_offset of the pane: lines scrolled up
  task,      \* the entry of search_tasks
  result,    \* the last SearchResult sent: "none", "found" or "missing"
  searches,  \* searches started
  viewed,    \* auxiliary: the top line of the view the search started from
  quiet      \* auxiliary: nothing was written since

vars == <<total, offset, task, result, searches, viewed, quiet>>

Task == [query : SUBSET Line, direction : {-1, 1}, original : Position,
         maximum : Position, next : Nat]
NoTask == [query |-> {}, direction |-> 0, original |-> 0, maximum |-> 0, next |-> 0]

Least(a, b) == IF a < b THEN a ELSE b

\* Lines in the history, and what a viewport scrolled up by o shows of it.
HistoryLen == Least(total - Rows, HistoryLimit)
Top(o) == total - Rows - o + 1
View(o) == Top(o) .. total - o

Init ==
  /\ total \in Rows .. MaxLines
  /\ offset = 0 /\ task = NoTask /\ result = "none" /\ searches = 0
  /\ viewed = Top(0) /\ quiet = TRUE

-----------------------------------------------------------------------------
(* The order of the scan. *)

\* Mutant: the last position is left out in either direction.
ScannedEarly(t) == t.next >= t.maximum

\* SearchTask::offset returns None
Scanned(t) ==
  t.next > t.maximum \/ (t.direction < 0 /\ t.next >= t.maximum)

\* Mutant: the oldest position is stepped over.
TaskOffsetSkipping(t, i) ==
  IF t.direction >= 0
  THEN LET first == t.maximum - t.original
       IN IF i < first THEN t.original + 1 + i ELSE i - first + 1
  ELSE IF i < t.original THEN t.original - 1 - i
  ELSE t.maximum - (i - t.original)

\* SearchTask::offset as a function of `next`: up from the view the search
\* started from and on from the bottom, or the other way round.
TaskOffset(t, i) ==
  IF t.direction >= 0
  THEN LET first == t.maximum - t.original
       IN IF i < first THEN t.original + 1 + i ELSE i - first
  ELSE IF i < t.original THEN t.original - 1 - i
  ELSE t.maximum - (i - t.original)

Indices(t) == 0 .. (IF t.direction >= 0 THEN t.maximum ELSE t.maximum - 1)
Matches(t, i) == View(Least(TaskOffset(t, i), HistoryLen)) \cap t.query # {}

\* set_scrollback
Clamped(o) == Least(o, HistoryLen)

-----------------------------------------------------------------------------
(* Messages of the client. *)

\* Mutant: the view stays where the scan has left it.
CancelledThere == offset

\* The offset after cancel_search
Cancelled == IF task = NoTask THEN offset ELSE Clamped(task.original)

\* Search: a search that is under way is cancelled first.
Search(query, direction) ==
  /\ searches < MaxSearches /\ searches' = searches + 1
  /\ offset' = Cancelled
  /\ task' = [query |-> query, direction |-> direction, original |-> Cancelled,
              maximum |-> HistoryLen, next |-> 0]
  /\ result' = "none"
  /\ viewed' = Top(Cancelled) /\ quiet' = TRUE
  /\ UNCHANGED total

\* Every other message but Heartbeat, and every way to lose the client ...
Cancel ==
  /\ task # NoTask
  /\ task' = NoTask /\ offset' = Cancelled
  /\ UNCHANGED <<total, result, searches, viewed, quiet>>

\* ... among them Scroll, ScrollToTop and ScrollToBottom.
Scroll(o) ==
  /\ o # Cancelled
  /\ task' = NoTask /\ offset' = o
  /\ UNCHANGED <<total, result, searches, viewed, quiet>>

-----------------------------------------------------------------------------
(* The event loop. *)

\* Mutant: the scan does not remember how far it has come.
AfterStepNever == [task EXCEPT !.next = SearchStep]

\* The task after a turn that has found nothing
AfterStep == [task EXCEPT !.next = @ + SearchStep]

\* Mutant: the position counted up already is taken for the one that matched.
LandingNext(i) == Clamped(TaskOffset(task, i + 1))

\* Where the view is once position i has been looked at
Landing(i) == Clamped(TaskOffset(task, i))

\* The positions of this turn that show the text
Hits == {i \in Indices(task) : /\ task.next <= i /\ i < task.next + SearchStep
                               /\ Matches(task, i)}

\* process_search_step: up to SEARCH_STEP positions, until one shows the text
\* or none is left; only a search that has found nothing puts the view back.
Step ==
  /\ task # NoTask
  /\ \/ /\ \E i \in Hits : offset' = Landing(i) /\ \A j \in Hits : i <= j
        /\ task' = NoTask /\ result' = "found"
     \/ /\ Hits = {} /\ Scanned(AfterStep)
        /\ offset' = Clamped(task.original)
        /\ task' = NoTask /\ result' = "missing"
     \/ /\ Hits = {} /\ ~Scanned(AfterStep)
        /\ offset' = Landing(task.next + SearchStep - 1)
        /\ task' = AfterStep
        /\ UNCHANGED result
  /\ UNCHANGED <<total, searches, viewed, quiet>>

\* Mutant: the view moves along beyond what is kept.
OutputUnbounded ==
  /\ total < MaxLines
  /\ total' = total + 1
  /\ offset' = IF offset = 0 THEN offset ELSE offset + 1
  /\ quiet' = FALSE
  /\ UNCHANGED <<task, result, searches, viewed>>

\* A line of output scrolls the screen.  A view of the history moves along
\* with its lines until they are dropped.
Output ==
  /\ total < MaxLines
  /\ total' = total + 1
  /\ offset' = IF offset = 0 THEN offset ELSE Least(offset + 1, HistoryLen')
  /\ quiet' = FALSE
  /\ UNCHANGED <<task, result, searches, viewed>>

Next ==
  \/ \E query \in SUBSET Line, direction \in {-1, 1} : Search(query, direction)
  \/ Cancel
  \/ \E o \in 0 .. HistoryLen : Scroll(o)
  \/ Step \/ Output

Spec == Init /\ [][Next]_vars

\* process_search_steps is called in every turn of the loop.
FairSpec == Spec /\ WF_vars(Step)

-----------------------------------------------------------------------------
TypeOK ==
  /\ total \in Rows .. MaxLines
  /\ offset \in 0 .. HistoryLen
  /\ task \in Task \cup {NoTask}
  /\ result \in {"none", "found", "missing"}
  /\ searches \in 0 .. MaxSearches
  /\ viewed \in Int /\ quiet \in BOOLEAN

(* The scan as TerminalState::search spells it out for the tests: the      *)
(* ranges it chains together.                                              *)
UpFrom(a, b) == [i \in 1 .. b - a + 1 |-> a + i - 1]
DownFrom(b, a) == [i \in 1 .. b - a + 1 |-> b - i + 1]
Reference(t) ==
  IF t.direction >= 0
  THEN UpFrom(t.original + 1, t.maximum) \o UpFrom(0, t.original)
  ELSE DownFrom(t.original - 1, 0) \o DownFrom(t.maximum, t.original + 1)

(* The positions a running search still has ahead are those of the         *)
(* reference search, in its order, and the subtractions of SearchTask      *)
(* never go below zero.                                                    *)
ScanFollowsReference ==
  task # NoTask =>
    /\ task.original <= task.maximum
    /\ Len(Reference(task)) = task.maximum + (IF task.direction >= 0 THEN 1 ELSE 0)
    /\ \A i \in Indices(task) : TaskOffset(task, i) = Reference(task)[i + 1]

SearchEnding == task # NoTask /\ task' = NoTask

(* What is reported as found is on the screen the client is then sent,     *)
(* whatever was written during the search.                                 *)
FoundIsShown ==
  [][SearchEnding /\ result' = "found" => View(offset)' \cap task.query # {}]_vars

(* A search of a history that stays as it is reports nothing found only    *)
(* when no view of it shows the text, the view a backward search started   *)
(* from aside.                                                             *)
NothingMissed ==
  [][SearchEnding /\ result' = "missing" /\ quiet =>
       \A o \in 0 .. HistoryLen :
         View(o) \cap task.query = {} \/ (task.direction < 0 /\ o = task.original)]_vars

(* A search that is cancelled or ends without a hit leaves the view on the *)
(* lines it started from, when nothing was written meanwhile.              *)
ViewIsKept ==
  [][quiet /\ SearchEnding /\ (Cancel \/ (Step /\ result' = "missing"))
       => Top(offset)' = viewed]_vars

(* Every search is answered or cancelled, however long the history and     *)
(* whatever is written.                                                    *)
SearchEnds == task # NoTask ~> task = NoTask

=============================================================================
