------------------------- MODULE SearchTask_proofs -------------------------
(***************************************************************************)
(* What the search of module SearchTask does for every size of the screen  *)
(* and the history, and every number of positions per turn: the scan order *)
(* is that of the reference search, what is found is shown, and in a       *)
(* history that stays as it is nothing is missed.                          *)
(***************************************************************************)
EXTENDS SearchTask, SequenceTheorems, TLAPS

\* A task that a Search message may have set up.
WellFormed(t) == t \in Task /\ t.original <= t.maximum

(* The index arithmetic of SearchTask::offset spells out the ranges that   *)
(* TerminalState::search chains together.                                  *)
LEMMA ScanOrder ==
  ASSUME NEW t, WellFormed(t)
  PROVE  /\ Len(Reference(t)) = t.maximum + (IF t.direction >= 0 THEN 1 ELSE 0)
         /\ \A i \in Indices(t) : TaskOffset(t, i) = Reference(t)[i + 1]
<1> DEFINE o == t.original
<1> DEFINE m == t.maximum
<1>1. o \in Nat /\ m \in Nat /\ o <= m
  BY SearchAssumption DEF WellFormed, Task, Position
<1>2. CASE t.direction >= 0
  <2> DEFINE w == m - o
  <2> DEFINE up == [i \in 1 .. w |-> o + i]
  <2> DEFINE on == [i \in 1 .. o + 1 |-> i - 1]
  <2>1. Reference(t) = up \o on
    <3>1. UpFrom(o + 1, m) = up BY <1>1 DEF UpFrom
    <3>2. UpFrom(0, o) = on BY <1>1 DEF UpFrom
    <3> QED BY <1>2, <3>1, <3>2 DEF Reference
  <2>2. w \in Nat /\ o + 1 \in Nat /\ w + (o + 1) = m + 1 BY <1>1
  <2>3. \A i : TaskOffset(t, i) = IF i < w THEN o + 1 + i ELSE i - w
    BY <1>2 DEF TaskOffset
  <2> HIDE DEF w
  <2>4. /\ up \in Seq(Int) /\ Len(up) = w
        /\ \A i \in 1 .. w : up[i] = o + i
    BY <1>1, <2>2
  <2>5. /\ on \in Seq(Int) /\ Len(on) = o + 1
        /\ \A i \in 1 .. o + 1 : on[i] = i - 1
    BY <1>1, <2>2
  <2> HIDE DEF up, on
  <2>6. /\ Len(Reference(t)) = m + 1
        /\ \A j \in 1 .. m + 1 :
             Reference(t)[j] = IF j <= w THEN up[j] ELSE on[j - w]
    BY <2>1, <2>2, <2>4, <2>5, ConcatProperties
  <2>7. ASSUME NEW i \in Indices(t)
        PROVE  TaskOffset(t, i) = Reference(t)[i + 1]
    <3>1. i \in Nat /\ i + 1 \in 1 .. m + 1 BY <1>1, <1>2 DEF Indices
    <3>2. CASE i < w
      <4>1. Reference(t)[i + 1] = o + (i + 1)
        BY <2>2, <2>4, <2>6, <3>1, <3>2
      <4> QED BY <1>1, <2>3, <3>1, <3>2, <4>1
    <3>3. CASE ~(i < w)
      <4>1. Reference(t)[i + 1] = on[i + 1 - w]
        BY <2>2, <2>6, <3>1, <3>3
      <4>2. on[i + 1 - w] = i + 1 - w - 1
        BY <1>1, <2>2, <2>5, <3>1, <3>3
      <4> QED BY <2>2, <2>3, <3>1, <3>3, <4>1, <4>2
    <3> QED BY <3>2, <3>3
  <2> QED BY <1>2, <2>6, <2>7
<1>3. CASE ~(t.direction >= 0)
  <2> DEFINE down == [i \in 1 .. o |-> o - i]
  <2> DEFINE on == [i \in 1 .. m - o |-> m - i + 1]
  <2>1. /\ down \in Seq(Int) /\ Len(down) = o
        /\ \A i \in 1 .. o : down[i] = o - i
    BY <1>1
  <2>2. /\ on \in Seq(Int) /\ Len(on) = m - o
        /\ \A i \in 1 .. m - o : on[i] = m - i + 1
    BY <1>1
  <2>3. Reference(t) = down \o on
    <3>1. DownFrom(o - 1, 0) = down BY <1>1 DEF DownFrom
    <3>2. DownFrom(m, o + 1) = on BY <1>1 DEF DownFrom
    <3> QED BY <1>3, <3>1, <3>2 DEF Reference
  <2> HIDE DEF down, on
  <2>4. /\ Len(Reference(t)) = m
        /\ \A j \in 1 .. m :
             Reference(t)[j] = IF j <= o THEN down[j] ELSE on[j - o]
    <3>1. /\ Len(down \o on) = Len(down) + Len(on)
          /\ \A j \in 1 .. Len(down) + Len(on) :
               (down \o on)[j] = IF j <= Len(down) THEN down[j] ELSE on[j - Len(down)]
      BY <2>1, <2>2, ConcatProperties
    <3>2. Len(down) + Len(on) = m BY <1>1, <2>1, <2>2
    <3> QED BY <2>1, <2>3, <3>1, <3>2
  <2>5. ASSUME NEW i \in Indices(t)
        PROVE  TaskOffset(t, i) = Reference(t)[i + 1]
    <3>1. i \in Nat /\ i < m BY <1>1, <1>3 DEF Indices
    <3>2. i + 1 \in 1 .. m BY <1>1, <3>1
    <3>3. CASE i < o
      <4>1. i + 1 \in 1 .. o /\ i + 1 <= o BY <1>1, <3>1, <3>3
      <4>2. Reference(t)[i + 1] = o - (i + 1) BY <2>1, <2>4, <3>2, <4>1
      <4> QED BY <1>1, <1>3, <3>1, <3>3, <4>2 DEF TaskOffset
    <3>4. CASE ~(i < o)
      <4>1. i + 1 - o \in 1 .. m - o /\ ~(i + 1 <= o) BY <1>1, <3>1, <3>4
      <4>2. Reference(t)[i + 1] = on[i + 1 - o]
        <5>1. Reference(t)[i + 1] = IF i + 1 <= o THEN down[i + 1] ELSE on[(i + 1) - o]
          BY <2>4, <3>2, Zenon
        <5>2. (i + 1) - o = i + 1 - o BY <1>1, <3>1
        <5> QED BY <4>1, <5>1, <5>2, Zenon
      <4>3. on[i + 1 - o] = m - (i + 1 - o) + 1
          BY <1>1, <2>2, <3>1, <4>1
      <4> QED BY <1>1, <1>3, <3>1, <3>4, <4>2, <4>3 DEF TaskOffset
    <3> QED BY <3>3, <3>4
  <2> QED BY <1>3, <2>4, <2>5
<1> QED BY <1>2, <1>3

(* The scan covers every position, except that a backward one leaves out   *)
(* the position it starts from.                                            *)
LEMMA ScanCovers ==
  ASSUME NEW t, WellFormed(t), NEW o \in 0 .. t.maximum,
         t.direction >= 0 \/ o # t.original
  PROVE  \E i \in Indices(t) : TaskOffset(t, i) = o
<1> USE SearchAssumption DEF WellFormed, Task, Position, Indices, TaskOffset
<1>1. t.original \in Nat /\ t.maximum \in Nat /\ t.direction \in {-1, 1} /\ o \in Nat
  OBVIOUS
<1>2. CASE t.direction >= 0 /\ o > t.original
  <2> DEFINE i == o - t.original - 1
  <2>1. i \in Indices(t) /\ TaskOffset(t, i) = o BY <1>1, <1>2
  <2> QED BY <2>1
<1>3. CASE t.direction >= 0 /\ o <= t.original
  <2> DEFINE i == o + (t.maximum - t.original)
  <2>1. i \in Indices(t) /\ TaskOffset(t, i) = o BY <1>1, <1>3
  <2> QED BY <2>1
<1>4. CASE ~(t.direction >= 0) /\ o < t.original
  <2> DEFINE i == t.original - 1 - o
  <2>1. i \in Indices(t) /\ TaskOffset(t, i) = o BY <1>1, <1>4
  <2> QED BY <2>1
<1>5. CASE ~(t.direction >= 0) /\ o > t.original
  <2> DEFINE i == t.original + (t.maximum - o)
  <2>1. i \in Indices(t) /\ TaskOffset(t, i) = o BY <1>1, <1>5
  <2> QED BY <2>1
<1> QED BY <1>1, <1>2, <1>3, <1>4, <1>5

(* No position of the scan lies outside the history it was set up for.     *)
LEMMA ScanInRange ==
  ASSUME NEW t, WellFormed(t), NEW i \in Indices(t)
  PROVE  TaskOffset(t, i) \in 0 .. t.maximum
BY SearchAssumption DEF WellFormed, Task, Position, Indices, TaskOffset

-----------------------------------------------------------------------------
(* The inductive invariant: a task was set up on a history that has only   *)
(* grown since, and as long as nothing was written the positions it has    *)
(* behind it do not show the text and the view it started from is where    *)
(* it was.                                                                 *)
SearchInv ==
  /\ TypeOK
  /\ task # NoTask =>
       /\ result = "none"
       /\ task.original <= task.maximum /\ task.maximum <= HistoryLen
       /\ quiet => /\ task.maximum = HistoryLen
                   /\ viewed = Top(task.original)
                   /\ \A i \in Indices(task) : i < task.next => ~Matches(task, i)

(* Sizes of the history, before and after a line is written.               *)
LEMMA History ==
  ASSUME TypeOK
  PROVE  HistoryLen \in Nat /\ HistoryLen <= HistoryLimit
BY SearchAssumption DEF TypeOK, HistoryLen, Least

(* A position is cut off at the end of the history.                        *)
LEMMA ClampedIs ==
  ASSUME TypeOK, NEW o \in Nat
  PROVE  Clamped(o) \in 0 .. HistoryLen /\ (o <= HistoryLen => Clamped(o) = o)
BY History DEF Clamped, Least

(* cancel_search puts the view somewhere in the history.                   *)
LEMMA CancelledIs ==
  ASSUME SearchInv
  PROVE  Cancelled \in 0 .. HistoryLen
<1>1. CASE task = NoTask
  BY <1>1 DEF Cancelled, SearchInv, TypeOK
<1>2. CASE task # NoTask
  <2>1. task.original \in Nat
    BY <1>2, SearchAssumption DEF SearchInv, TypeOK, Task, Position
  <2> QED BY <1>2, <2>1, ClampedIs DEF Cancelled, SearchInv
<1> QED BY <1>1, <1>2

(* A task under way was set up by a Search message.                        *)
LEMMA TaskIsWellFormed ==
  ASSUME SearchInv, task # NoTask
  PROVE  WellFormed(task)
BY DEF SearchInv, TypeOK, WellFormed

(* The invariant holds at the start, and every kind of step keeps it.      *)
LEMMA InitSearch == Init => SearchInv
BY SearchAssumption
   DEF Init, SearchInv, TypeOK, HistoryLen, Least, Top

(* A Search message sets up a task for the history as it is.               *)
LEMMA SearchStarts ==
  ASSUME SearchInv, NEW q \in SUBSET Line, NEW d \in {-1, 1}, Search(q, d)
  PROVE  SearchInv'
<1>1. Cancelled \in 0 .. HistoryLen BY CancelledIs
<1>2. HistoryLen \in Nat /\ HistoryLen <= HistoryLimit BY History DEF SearchInv
<1>3. HistoryLen' = HistoryLen BY DEF Search, HistoryLen
<1>4. Cancelled \in Position /\ HistoryLen \in Position
  BY <1>1, <1>2, SearchAssumption DEF Position
<1>5. task' \in Task BY <1>4 DEF Search, Task
<1>6. searches' \in 0 .. MaxSearches
  BY SearchAssumption DEF Search, SearchInv, TypeOK
<1>7. viewed' \in Int
  BY <1>1, <1>2, SearchAssumption DEF Search, SearchInv, TypeOK, Top, Line
<1>8. TypeOK'
  BY <1>1, <1>3, <1>5, <1>6, <1>7 DEF Search, SearchInv, TypeOK
<1>9. /\ task'.original = Cancelled /\ task'.maximum = HistoryLen
      /\ task'.next = 0 /\ viewed' = Top(task.original)'
  BY DEF Search, Top
<1>10. \A i \in Indices(task)' : ~(i < task'.next)
  BY <1>2, <1>9 DEF Indices
<1>11. result' = "none" BY DEF Search
<1>12. task'.original <= task'.maximum /\ task'.maximum <= HistoryLen'
  BY <1>1, <1>2, <1>3, <1>9
<1>13. task'.maximum = HistoryLen' BY <1>3, <1>9
<1> QED BY <1>8, <1>9, <1>10, <1>11, <1>12, <1>13 DEF SearchInv

(* A task that is gone leaves nothing to hold.                             *)
LEMMA CancelKeeps ==
  ASSUME SearchInv, Cancel \/ (\E o \in 0 .. HistoryLen : Scroll(o))
  PROVE  SearchInv'
<1>1. HistoryLen' = HistoryLen BY DEF Cancel, Scroll, HistoryLen
<1>2. offset' \in 0 .. HistoryLen BY CancelledIs DEF Cancel, Scroll
<1>3. task' = NoTask BY DEF Cancel, Scroll
<1> QED BY <1>1, <1>2, <1>3 DEF SearchInv, TypeOK, Cancel, Scroll

(* A turn of the scan leaves positions behind that do not show the text.   *)
LEMMA StepKeeps ==
  ASSUME SearchInv, Step
  PROVE  SearchInv'
<1>1. HistoryLen' = HistoryLen BY DEF Step, HistoryLen
<1>2. WellFormed(task) /\ task # NoTask /\ task \in Task
  BY TaskIsWellFormed DEF Step, WellFormed
<1>3. TypeOK BY DEF SearchInv
<1>4. task.original \in Nat /\ task.next \in Nat /\ task.maximum \in Nat
  BY <1>2, SearchAssumption DEF Task, Position
<1>5. CASE \E i \in Hits : offset' = Landing(i) /\ task' = NoTask /\ result' = "found"
  <2>1. PICK i \in Indices(task) : offset' = Landing(i) BY <1>5 DEF Hits
  <2>2. TaskOffset(task, i) \in Nat BY <1>2, <1>4, <2>1, ScanInRange
  <2>3. offset' \in 0 .. HistoryLen
    BY <1>3, <2>1, <2>2, ClampedIs DEF Landing
  <2> QED BY <1>1, <1>5, <2>3 DEF SearchInv, TypeOK, Step
<1>6. CASE offset' = Clamped(task.original) /\ task' = NoTask /\ result' = "missing"
  <2>1. offset' \in 0 .. HistoryLen BY <1>3, <1>4, <1>6, ClampedIs
  <2> QED BY <1>1, <1>6, <2>1 DEF SearchInv, TypeOK, Step
<1>7. CASE /\ Hits = {} /\ ~Scanned(AfterStep)
           /\ offset' = Landing(task.next + SearchStep - 1)
           /\ task' = AfterStep /\ UNCHANGED result
  <2> DEFINE n == task.next + SearchStep
  <2>1. SearchStep \in Nat /\ SearchStep >= 1 BY SearchAssumption
  <2>2. /\ AfterStep \in Task /\ AfterStep.next = n /\ AfterStep # NoTask
        /\ AfterStep.query = task.query /\ AfterStep.direction = task.direction
        /\ AfterStep.original = task.original /\ AfterStep.maximum = task.maximum
    BY <1>2, <1>4, <2>1 DEF AfterStep, Task, NoTask
  <2>3. n - 1 \in Indices(task)
    BY <1>2, <1>4, <1>7, <2>1, <2>2 DEF Scanned, Indices, Task
  <2>4. TaskOffset(task, n - 1) \in Nat BY <1>2, <1>4, <2>3, ScanInRange
  <2>5. offset' \in 0 .. HistoryLen
    <3>1. offset' = Landing(n - 1) BY <1>4, <1>7, <2>1
    <3>2. offset' = Clamped(TaskOffset(task, n - 1)) BY <3>1 DEF Landing
    <3> QED BY <1>3, <2>4, <3>2, ClampedIs
  <2>6. TypeOK'
    BY <1>1, <1>7, <2>2, <2>5 DEF SearchInv, TypeOK, Step
  <2>7. Indices(task)' = Indices(task) BY <1>7, <2>2 DEF Indices
  <2>8. \A i \in Indices(task) : Matches(task, i)' = Matches(task, i)
    BY <1>1, <1>7, <2>2 DEF Matches, TaskOffset, View, Top, Step
  <2>9. ASSUME quiet, NEW i \in Indices(task), i < n
        PROVE  ~Matches(task, i)
    <3>1. CASE i < task.next BY <1>2, <2>9, <3>1 DEF SearchInv
    <3>2. CASE ~(i < task.next)
      BY <1>4, <1>7, <2>1, <2>9, <3>2 DEF Indices, Hits
    <3> QED BY <3>1, <3>2
  <2>10. Top(task.original)' = Top(task.original)
    BY <1>7, <2>2 DEF Top, Step
  <2>11. UNCHANGED <<quiet, viewed>> BY DEF Step
  <2> QED
    BY <1>1, <1>2, <1>7, <2>2, <2>6, <2>7, <2>8, <2>9, <2>10, <2>11 DEF SearchInv
<1> QED BY <1>5, <1>6, <1>7 DEF Step

(* A line of output lets the history grow and ends the quiet.              *)
LEMMA OutputKeeps ==
  ASSUME SearchInv, Output
  PROVE  SearchInv'
<1>1. total \in Nat /\ MaxLines \in Nat /\ Rows \in Nat /\ total >= Rows
  BY SearchAssumption DEF SearchInv, TypeOK
<1>2. total' = total + 1 BY DEF Output
<1>3. total' \in Rows .. MaxLines BY <1>1, SearchAssumption DEF Output, SearchInv, TypeOK
<1>4. HistoryLen \in Nat /\ HistoryLen' \in Nat /\ HistoryLen <= HistoryLen'
  <2>1. HistoryLimit \in Nat BY SearchAssumption
  <2>2. HistoryLen' = Least(total + 1 - Rows, HistoryLimit)
    BY <1>1, <1>2 DEF HistoryLen
  <2> QED BY <1>1, <2>1, <2>2 DEF HistoryLen, Least
<1>5. offset \in 0 .. HistoryLen BY DEF SearchInv, TypeOK
<1>6. offset' \in 0 .. HistoryLen'
  BY <1>4, <1>5 DEF Output, Least
<1>7. TypeOK' BY <1>3, <1>6 DEF Output, SearchInv, TypeOK
<1>8. task # NoTask => task.maximum \in Nat
  BY SearchAssumption DEF SearchInv, TypeOK, Task, Position
<1> QED BY <1>4, <1>7, <1>8 DEF SearchInv, Output

(* Every step keeps the invariant.                                         *)
LEMMA NextKeeps == SearchInv /\ [Next]_vars => SearchInv'
<1> SUFFICES ASSUME SearchInv, [Next]_vars PROVE SearchInv'
  OBVIOUS
<1>1. ASSUME NEW q \in SUBSET Line, NEW d \in {-1, 1}, Search(q, d)
      PROVE  SearchInv'
  BY <1>1, SearchStarts
<1>2. CASE Cancel \/ (\E o \in 0 .. HistoryLen : Scroll(o))
  BY <1>2, CancelKeeps
<1>3. CASE Step BY <1>3, StepKeeps
<1>4. CASE Output BY <1>4, OutputKeeps
<1>5. CASE UNCHANGED vars
  BY <1>5 DEF vars, SearchInv, TypeOK, HistoryLen, Indices, Matches, View, Top
<1> QED BY <1>1, <1>2, <1>3, <1>4, <1>5 DEF Next

(* The invariant holds in every state the search can reach.                *)
THEOREM SearchInvariant == Spec => []SearchInv
BY InitSearch, NextKeeps, PTL DEF Spec

(* The tables and the view keep their types: the view never leaves the     *)
(* history.                                                                *)
THEOREM SearchTypeCorrect == Spec => []TypeOK
<1>1. SearchInv => TypeOK BY DEF SearchInv
<1> QED BY <1>1, SearchInvariant, PTL

(* A running search visits the positions of TerminalState::search in its   *)
(* order.                                                                  *)
THEOREM FollowsReference == Spec => []ScanFollowsReference
<1>1. SearchInv => ScanFollowsReference
  <2> SUFFICES ASSUME SearchInv, task # NoTask
               PROVE  ScanFollowsReference
    BY DEF ScanFollowsReference
  <2>1. WellFormed(task) BY TaskIsWellFormed
  <2> QED BY <2>1, ScanOrder DEF ScanFollowsReference, WellFormed
<1> QED BY <1>1, SearchInvariant, PTL

(* What is reported as found is on the screen the client is then sent.     *)
THEOREM FoundShown == Spec => FoundIsShown
<1>1. SearchInv /\ [Next]_vars =>
        [SearchEnding /\ result' = "found" => View(offset)' \cap task.query # {}]_vars
  <2> SUFFICES ASSUME SearchInv, Next, SearchEnding, result' = "found"
               PROVE  View(offset)' \cap task.query # {}
    OBVIOUS
  <2>1. result # "found" BY DEF SearchInv, SearchEnding
  <2>2. Step BY <2>1 DEF Next, SearchEnding, Search, Output, Cancel, Scroll
  <2>3. \E i \in Indices(task) : offset' = Landing(i) /\ Matches(task, i)
    BY <2>1, <2>2 DEF Step, Hits
  <2>4. PICK i \in Indices(task) : offset' = Landing(i) /\ Matches(task, i)
    BY <2>3
  <2>5. View(offset)' = View(Landing(i))
    BY <2>2, <2>4 DEF Step, View, Top
  <2> QED BY <2>4, <2>5 DEF Matches, Landing, Clamped
<1> QED BY <1>1, SearchInvariant, PTL DEF Spec, FoundIsShown

(* In a history that stays as it is, nothing is missed.                    *)
THEOREM NothingIsMissed == Spec => NothingMissed
<1> DEFINE Miss ==
      SearchEnding /\ result' = "missing" /\ quiet =>
        \A o \in 0 .. HistoryLen :
          View(o) \cap task.query = {} \/ (task.direction < 0 /\ o = task.original)
<1>1. SearchInv /\ [Next]_vars => [Miss]_vars
  <2> SUFFICES ASSUME SearchInv, Next, SearchEnding, result' = "missing", quiet,
                      NEW o \in 0 .. HistoryLen,
                      ~(task.direction < 0 /\ o = task.original)
               PROVE  View(o) \cap task.query = {}
    OBVIOUS
  <2>1. result # "missing" BY DEF SearchInv, SearchEnding
  <2>2. Step BY <2>1 DEF Next, SearchEnding, Search, Output, Cancel, Scroll
  <2>3. Scanned(AfterStep) /\ Hits = {}
    BY <2>1, <2>2 DEF Step
  <2>4. /\ task \in Task /\ task # NoTask /\ WellFormed(task)
        /\ task.maximum = HistoryLen
        /\ \A i \in Indices(task) : i < task.next => ~Matches(task, i)
    BY TaskIsWellFormed DEF SearchInv, SearchEnding, WellFormed
  <2>5. /\ task.next \in Nat /\ task.maximum \in Nat /\ task.original \in Nat
        /\ task.direction \in {-1, 1} /\ SearchStep \in Nat
    BY <2>4, SearchAssumption DEF Task, Position
  <2>6. /\ AfterStep.next = task.next + SearchStep
        /\ AfterStep.maximum = task.maximum /\ AfterStep.direction = task.direction
    BY <2>4 DEF AfterStep, Task
  <2>7. \A i \in Indices(task) : i < task.next + SearchStep
    BY <2>3, <2>5, <2>6 DEF Scanned, Indices
  <2>8. \A i \in Indices(task) : ~Matches(task, i)
    BY <2>3, <2>4, <2>5, <2>7 DEF Indices, Hits
  <2>9. task.direction >= 0 \/ o # task.original BY <2>5
  <2>10. PICK i \in Indices(task) : TaskOffset(task, i) = o
    BY <2>4, <2>9, ScanCovers
  <2>11. Least(TaskOffset(task, i), HistoryLen) = o
    BY <2>4, <2>5, <2>10 DEF Least
  <2> QED BY <2>8, <2>10, <2>11 DEF Matches
<1> QED BY <1>1, SearchInvariant, PTL DEF Spec, NothingMissed

(* A search that is cancelled or ends without a hit leaves the view where   *)
(* it was, as long as nothing was written.                                 *)
THEOREM ViewKept == Spec => ViewIsKept
<1> DEFINE Kept ==
      quiet /\ SearchEnding /\ (Cancel \/ (Step /\ result' = "missing"))
        => Top(offset)' = viewed
<1>1. SearchInv /\ [Next]_vars => [Kept]_vars
  <2> SUFFICES ASSUME SearchInv, quiet, SearchEnding,
                      Cancel \/ (Step /\ result' = "missing")
               PROVE  Top(offset)' = viewed
    OBVIOUS
  <2>1. /\ TypeOK /\ task \in Task /\ result = "none"
        /\ task.original <= task.maximum /\ task.maximum = HistoryLen
        /\ viewed = Top(task.original)
    BY DEF SearchInv, SearchEnding, TypeOK
  <2>2. offset' = Clamped(task.original) /\ total' = total
    BY <2>1 DEF Cancel, Cancelled, Step, SearchEnding
  <2>3. task.original \in Nat BY <2>1, SearchAssumption DEF Task, Position
  <2>4. Clamped(task.original) = task.original BY <2>1, <2>3, ClampedIs
  <2> QED BY <2>1, <2>2, <2>4 DEF Top
<1> QED BY <1>1, SearchInvariant, PTL DEF Spec, ViewIsKept

=============================================================================
