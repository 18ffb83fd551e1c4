----------------------------- MODULE Upload_proofs -----------------------------
(***************************************************************************)
(* Theorems about Upload, for every set of batches and every capacity.     *)
(***************************************************************************)
EXTENDS Upload, SequenceTheorems, TLAPS

(* Where the worker is; a canceller has raised the flag before it does     *)
(* anything else; the slot is filled from Install on; and then the         *)
(* property itself, which only then can be kept: a step of either thread   *)
(* keeps it because the other has raised the flag, or filled the slot,     *)
(* before.                                                                 *)
WorkerAt == {"start", "spawned", "registered", "begin", "item", "header", "bytes",
             "data", "waiting", "done", "gone"}
WorkerType ==
  /\ worker \in [at : WorkerAt, item : Int, sent : Int]
  /\ cancelled \in BOOLEAN /\ slot \in BOOLEAN
FlagFirst == canceller # "idle" => cancelled \/ worker.at = "gone"
SlotFilled ==
  /\ worker.at \in {"start", "spawned"} => ~slot
  /\ worker.at = "registered" => slot
CancelInv == WorkerType /\ FlagFirst /\ SlotFilled /\ CancelledChildIsKilled

LEMMA CancelInit == Init => CancelInv
<1> SUFFICES ASSUME Init PROVE CancelInv
  OBVIOUS
<1>1. WorkerType
  <2>1. worker.at \in WorkerAt /\ worker.item \in Int /\ worker.sent \in Int
    BY DEF Init, WorkerAt
  <2>2. worker = [at |-> worker.at, item |-> worker.item, sent |-> worker.sent]
    BY DEF Init
  <2> QED BY <2>1, <2>2 DEF Init, WorkerType
<1>2. FlagFirst /\ SlotFilled /\ CancelledChildIsKilled
  BY DEF Init, FlagFirst, SlotFilled, CancelledChildIsKilled
<1> QED BY <1>1, <1>2 DEF CancelInv

LEMMA CancelStep == CancelInv /\ [Next]_vars => CancelInv'
<1> SUFFICES ASSUME CancelInv, [Next]_vars PROVE CancelInv'
  OBVIOUS
<1> USE DEF CancelInv, WorkerType, WorkerAt, FlagFirst, SlotFilled,
            CancelledChildIsKilled, control, link, remote, Dies
<1>1. CASE CancelFlags BY <1>1 DEF CancelFlags
<1>2. CASE CancelKills BY <1>2 DEF CancelKills, KillInstalled
<1>3. CASE Refuse BY <1>3 DEF Refuse, Returns
<1>4. CASE Spawn BY <1>4 DEF Spawn
<1>5. CASE Install BY <1>5 DEF Install
<1>6. CASE Recheck BY <1>6 DEF Recheck, KillInstalled
<1>7. CASE Begin BY <1>7 DEF Begin, Transfers, Writes, WriteFails, Fails
<1>8. CASE Check BY <1>8 DEF Check, Transfers, Finishes, Fails
<1>9. CASE SendHeader BY <1>9 DEF SendHeader, Transfers, Writes, WriteFails, Fails
<1>10. CASE CheckBytes
  <2> DEFINE size == items[worker.item].size
  <2>1. CASE worker.sent = size
    BY <1>10, <2>1 DEF CheckBytes, Transfers
  <2>2. CASE worker.sent # size /\ worker.sent < size /\ cancelled
    BY <1>10, <2>2 DEF CheckBytes, Transfers, Fails
  <2>3. CASE worker.sent # size /\ ~(worker.sent < size /\ cancelled)
    BY <1>10, <2>3 DEF CheckBytes, Transfers
  <2> QED BY <2>1, <2>2, <2>3
<1>11. CASE SendData
  <2>1. CASE worker.sent = items[worker.item].content
    BY <1>11, <2>1 DEF SendData, Transfers, Fails
  <2>2. CASE worker.sent # items[worker.item].content /\ child \in Dead
    BY <1>11, <2>2 DEF SendData, Transfers, Writes, WriteFails, Fails, Dead
  <2>3. CASE worker.sent # items[worker.item].content /\ child \notin Dead
    <3>1. /\ worker' = [worker EXCEPT !.at = "bytes", !.sent = @ + 1]
          /\ UNCHANGED <<slot, canceller, child, cancelled>>
      BY <1>11, <2>3 DEF SendData, Transfers, Writes, WriteFails
    <3>2. worker'.at = "bytes" /\ worker' \in [at : WorkerAt, item : Int, sent : Int]
      <4>1. worker = [at |-> worker.at, item |-> worker.item, sent |-> worker.sent]
        OBVIOUS
      <4>2. worker' = [at |-> "bytes", item |-> worker.item, sent |-> worker.sent + 1]
        BY <3>1, <4>1
      <4>3. worker.item \in Int /\ worker.sent + 1 \in Int
        OBVIOUS
      <4> QED BY <4>2, <4>3
    <3>3. worker.at = "data" BY <1>11 DEF SendData, Transfers
    <3>4. FlagFirst' /\ SlotFilled' /\ CancelledChildIsKilled'
      BY <3>1, <3>2, <3>3
    <3>5. WorkerType' BY <3>1, <3>2
    <3> QED BY <3>4, <3>5
  <2> QED BY <2>1, <2>2, <2>3
<1>12. CASE Wait BY <1>12 DEF Wait, Returns
<1>13. CASE Receive
  BY <1>13 DEF Receive, ReceiveBegin, ReceiveHeader, ReceiveData, FileDone, Respond, Receives
<1>14. CASE ChildExits BY <1>14 DEF ChildExits
<1>15. CASE LinkBreaks BY <1>15 DEF LinkBreaks
<1>16. CASE Crash BY <1>16 DEF Crash
<1>17. CASE ClientEnds BY <1>17 DEF ClientEnds
<1>18. CASE UNCHANGED vars BY <1>18 DEF vars
<1> QED
  BY <1>1, <1>2, <1>3, <1>4, <1>5, <1>6, <1>7, <1>8, <1>9, <1>10, <1>11, <1>12,
     <1>13, <1>14, <1>15, <1>16, <1>17, <1>18 DEF Next, Cancel, Work

(* A child that is registered does not outlive cancel, in any interleaving *)
(* of UploadControl::install with UploadControl::cancel.                   *)
THEOREM CancelKillsChild == Spec => []CancelledChildIsKilled
<1>1. CancelInv => CancelledChildIsKilled
  BY DEF CancelInv
<1> QED
  BY <1>1, CancelInit, CancelStep, PTL DEF Spec
-----------------------------------------------------------------------------
(* The two ends agree.                                                     *)
(*                                                                         *)
(* A place in the stream is <<0, 0>>, its beginning, <<i, 0>>, the header  *)
(* of item i, or <<i, k>>, buffer k of item i; a place that is not a token *)
(* is the end.                                                             *)

Batch == Seq([size : Nat, content : Nat])
Part == [is : {"begin", "header", "data"}, n : Nat]
Process == [at : {"none", "begin", "header", "copy", "respond"} \cup Ended,
            count : Nat, item : Nat \ {0}, left : Nat]

Token(b, p) ==
  /\ p \in Nat \X Nat
  /\ \/ p = <<0, 0>>
     \/ p[1] \in 1 .. Len(b) /\ p[2] <= b[p[1]].size

TokenAt(b, p) ==
  IF p[1] = 0 THEN [is |-> "begin", n |-> Len(b)]
  ELSE IF p[2] = 0 THEN [is |-> "header", n |-> b[p[1]].size]
  ELSE [is |-> "data", n |-> 1]

After(b, p) ==
  IF p[1] # 0 /\ p[2] < b[p[1]].size THEN <<p[1], p[2] + 1>> ELSE <<p[1] + 1, 0>>

\* w is the stream from the place p to the place q.
Carries(b, w, p, q) ==
  \E f \in [1 .. Len(w) + 1 -> Nat \X Nat] :
    /\ f[1] = p /\ f[Len(w) + 1] = q
    /\ \A k \in 1 .. Len(w) :
         Token(b, f[k]) /\ w[k] = TokenAt(b, f[k]) /\ f[k + 1] = After(b, f[k])

\* Where the worker has come to, and the receiver.
WrittenTo ==
  CASE worker.at \in {"start", "spawned", "registered", "begin"} -> <<0, 0>>
    [] worker.at \in {"bytes", "data"} -> After(items, <<worker.item, worker.sent>>)
    [] OTHER -> <<worker.item, 0>>
ReadTo ==
  CASE receiver.at \in {"none", "begin"} -> <<0, 0>>
    [] receiver.at = "copy" ->
         After(items, <<receiver.item, items[receiver.item].size - receiver.left>>)
    [] OTHER -> <<receiver.item, 0>>

Reading == receiver.at \in {"none", "begin", "header", "copy", "respond", "ok"}
AllWritten ==
  \/ worker.at \in {"item", "waiting", "done"} /\ worker.item = Len(items) + 1
  \/ worker.at = "bytes" /\ worker.item = Len(items)
       /\ worker.sent = items[worker.item].size
  \/ worker.at = "gone"

EndsType ==
  /\ items \in Batch
  /\ worker \in [at : WorkerAt, item : Nat \ {0}, sent : Nat]
  /\ failed \in BOOLEAN /\ cancelled \in BOOLEAN /\ slot \in BOOLEAN
  /\ wire \in Seq(Part)
  /\ child \in {"none", "running"} \cup Dead
  /\ receiver \in Process
  /\ files \in [DOMAIN files -> Nat]

\* The worker is within the batch.
WorkerPlace ==
  /\ worker.at \in {"start", "spawned", "registered", "begin"} =>
       worker.item = 1 /\ worker.sent = 0
  /\ worker.at = "item" => worker.item <= Len(items) + 1 /\ worker.sent = 0
  /\ worker.at = "header" => worker.item <= Len(items) /\ worker.sent = 0
  /\ worker.at = "bytes" =>
       worker.item <= Len(items) /\ worker.sent <= items[worker.item].size
  /\ worker.at = "data" =>
       worker.item <= Len(items) /\ worker.sent < items[worker.item].size
  /\ worker.at \notin {"start", "done", "gone"} => Len(items) > 0 /\ child # "none"

\* The receiver is within the batch, and has kept all that it has read.
ReceiverPlace ==
  /\ receiver.at = "none" <=> child = "none"
  /\ receiver.at \in {"none", "begin"} => receiver.item = 1 /\ files = NoFiles
  /\ receiver.at \notin {"none", "failed", "crashed"} => Len(items) > 0
  /\ receiver.at \in {"header", "copy", "respond", "ok"} =>
       /\ receiver.count = Len(items)
       /\ receiver.item <= Len(items) + 1
       /\ \A i \in 1 .. receiver.item - 1 : files[i] = items[i].size
  /\ receiver.at = "header" =>
       receiver.item <= Len(items) /\ DOMAIN files = 1 .. receiver.item - 1
  /\ receiver.at = "copy" =>
       /\ receiver.item <= Len(items) /\ DOMAIN files = 1 .. receiver.item
       /\ receiver.left <= items[receiver.item].size
       /\ files[receiver.item] = items[receiver.item].size - receiver.left
  /\ receiver.at \in {"respond", "ok"} =>
       receiver.item = Len(items) + 1 /\ DOMAIN files = 1 .. Len(items)
  /\ receiver.at = "failed" => files = NoFiles

\* What is between them; nothing is missing while ssh runs.
Between ==
  Reading => \E q \in Nat \X Nat :
    Carries(items, wire, ReadTo, q) /\ (child = "running" /\ worker.at # "gone" => q = WrittenTo)

\* How ssh ended, and what it means for the worker.
Outcome ==
  /\ child = "none" => worker.at \in {"start", "done", "gone"} /\ wire = <<>>
  /\ worker.at = "start" => child = "none"
  /\ worker.at \notin {"start", "spawned", "done", "gone"} => slot
  /\ worker.at = "done" => child \in Dead \cup {"none"}
  /\ child = "succeeded" => receiver.at = "ok" /\ AllWritten
  /\ receiver.at = "ok" /\ child \in {"running", "succeeded"} => replied
  /\ failed => child \in {"failed", "killed"}
  /\ worker.at = "waiting" /\ ~failed => worker.item = Len(items) + 1
  /\ cancelled => failed \/ canceller # "idle"
  /\ result # "none" => worker.at = "done"
  /\ result = "ok" => receiver.at = "ok"
  /\ result = "error" /\ child = "succeeded" => canceller # "idle"
  /\ worker.at = "gone" => canceller = "done"

EndsInv == EndsType /\ WorkerPlace /\ ReceiverPlace /\ Between /\ Outcome
-----------------------------------------------------------------------------
(* The stream, wherever it is cut.                                         *)

LEMMA AfterIs ==
  ASSUME NEW b \in Batch, NEW p \in Nat \X Nat
  PROVE  /\ TokenAt(b, p) \in Part \/ ~Token(b, p)
         /\ After(b, p) \in Nat \X Nat
<1>1. p[1] \in Nat /\ p[2] \in Nat OBVIOUS
<1>2. Len(b) \in Nat /\ DOMAIN b = 1 .. Len(b) BY LenProperties DEF Batch
<1>3. \A i \in 1 .. Len(b) : b[i].size \in Nat
  <2>1. b \in Seq([size : Nat, content : Nat]) BY DEF Batch
  <2>2. \A i \in 1 .. Len(b) : b[i] \in [size : Nat, content : Nat] BY <2>1, ElementOfSeq
  <2> QED BY <2>2
<1>4. After(b, p) \in Nat \X Nat BY <1>1 DEF After
<1>5. ASSUME Token(b, p)
      PROVE  TokenAt(b, p) \in Part
  <2>1. CASE p[1] = 0 BY <1>2, <2>1 DEF TokenAt, Part
  <2>2. CASE p[1] # 0 /\ p[2] = 0
    <3>1. p[1] \in 1 .. Len(b) BY <1>5, <2>2 DEF Token
    <3> QED BY <1>3, <2>2, <3>1 DEF TokenAt, Part
  <2>3. CASE p[1] # 0 /\ p[2] # 0 BY <2>3 DEF TokenAt, Part
  <2> QED BY <2>1, <2>2, <2>3
<1> QED BY <1>4, <1>5

LEMMA CarriesNothing ==
  ASSUME NEW b, NEW p \in Nat \X Nat, NEW q
  PROVE  Carries(b, <<>>, p, q) <=> p = q
<1>1. Len(<<>>) = 0 OBVIOUS
<1>2. [i \in 1 .. 1 |-> p] \in [1 .. 1 -> Nat \X Nat] /\ [i \in 1 .. 1 |-> p][1] = p
  OBVIOUS
<1>3. ASSUME p = q PROVE Carries(b, <<>>, p, q)
  <2> DEFINE f == [i \in 1 .. 1 |-> p]
  <2>1. /\ f \in [1 .. Len(<<>>) + 1 -> Nat \X Nat]
        /\ f[1] = p /\ f[Len(<<>>) + 1] = q
    BY <1>1, <1>2, <1>3
  <2> HIDE DEF f
  <2> QED BY <1>1, <2>1 DEF Carries
<1>4. ASSUME Carries(b, <<>>, p, q) PROVE p = q BY <1>1, <1>4 DEF Carries
<1> QED BY <1>3, <1>4

LEMMA CarriesTail ==
  ASSUME NEW b, NEW S, NEW w \in Seq(S), w # <<>>, NEW p, NEW q, Carries(b, w, p, q)
  PROVE  Token(b, p) /\ Head(w) = TokenAt(b, p) /\ Carries(b, Tail(w), After(b, p), q)
<1> DEFINE n == Len(w)
<1>1. /\ n \in Nat \ {0} /\ Head(w) = w[1] /\ Len(Tail(w)) = n - 1
      /\ \A k \in 1 .. n - 1 : Tail(w)[k] = w[k + 1]
  BY HeadTailProperties, EmptySeq, LenProperties
<1>2. PICK f \in [1 .. n + 1 -> Nat \X Nat] :
        /\ f[1] = p /\ f[n + 1] = q
        /\ \A k \in 1 .. n : Token(b, f[k]) /\ w[k] = TokenAt(b, f[k])
                             /\ f[k + 1] = After(b, f[k])
  BY DEF Carries
<1> DEFINE g == [k \in 1 .. n |-> f[k + 1]]
<1> HIDE DEF n
<1>3. /\ g \in [1 .. n -> Nat \X Nat] /\ g[1] = f[2] /\ g[n] = f[n + 1]
      /\ \A k \in 1 .. n - 1 : g[k] = f[k + 1] /\ g[k + 1] = f[k + 2] /\ k + 1 \in 1 .. n
                               /\ (k + 1) + 1 = k + 2
  BY <1>1
<1>4. f[2] = After(b, p) /\ Token(b, p) /\ w[1] = TokenAt(b, p) BY <1>1, <1>2
<1>5. \A k \in 1 .. n - 1 : Token(b, g[k]) /\ Tail(w)[k] = TokenAt(b, g[k])
                            /\ g[k + 1] = After(b, g[k])
  BY <1>1, <1>2, <1>3
<1> HIDE DEF g
<1> DEFINE v == Tail(w)
<1>6. Len(v) = n - 1 /\ Len(v) + 1 = n BY <1>1
<1>7. /\ g \in [1 .. Len(v) + 1 -> Nat \X Nat] /\ g[1] = After(b, p) /\ g[Len(v) + 1] = q
      /\ \A k \in 1 .. Len(v) : Token(b, g[k]) /\ v[k] = TokenAt(b, g[k])
                                /\ g[k + 1] = After(b, g[k])
  <2>1. g \in [1 .. Len(v) + 1 -> Nat \X Nat] /\ g[1] = After(b, p) /\ g[Len(v) + 1] = q
    BY <1>2, <1>3, <1>4, <1>6
  <2> QED BY <2>1, <1>5, <1>6
<1> HIDE DEF v
<1>8. Carries(b, v, After(b, p), q) BY <1>7 DEF Carries
<1> QED BY <1>1, <1>4, <1>8 DEF v

LEMMA CarriesAppend ==
  ASSUME NEW b \in Batch, NEW S, NEW w \in Seq(S), NEW p, NEW q \in Nat \X Nat,
         Carries(b, w, p, q), Token(b, q), TokenAt(b, q) \in S
  PROVE  Carries(b, Append(w, TokenAt(b, q)), p, After(b, q))
<1> DEFINE n == Len(w)
<1> DEFINE t == TokenAt(b, q)
<1> DEFINE r == After(b, q)
<1> DEFINE v == Append(w, t)
<1>1. /\ n \in Nat /\ Len(v) = n + 1 /\ v[n + 1] = t
      /\ \A k \in 1 .. n : v[k] = w[k]
  BY AppendProperties, LenProperties
<1>2. PICK f \in [1 .. n + 1 -> Nat \X Nat] :
        /\ f[1] = p /\ f[n + 1] = q
        /\ \A k \in 1 .. n : Token(b, f[k]) /\ w[k] = TokenAt(b, f[k])
                             /\ f[k + 1] = After(b, f[k])
  BY DEF Carries
<1>3. r \in Nat \X Nat BY AfterIs
<1> DEFINE g == [k \in 1 .. n + 2 |-> IF k = n + 2 THEN r ELSE f[k]]
<1> HIDE DEF n, t, r, v
<1>4. /\ g \in [1 .. (n + 1) + 1 -> Nat \X Nat] /\ g[1] = f[1] /\ g[(n + 1) + 1] = r
      /\ \A k \in 1 .. n + 1 : g[k] = f[k]
  BY <1>1, <1>3
<1>5. \A k \in 1 .. n + 1 : Token(b, g[k]) /\ v[k] = TokenAt(b, g[k])
                            /\ g[k + 1] = After(b, g[k])
  <2> SUFFICES ASSUME NEW k \in 1 .. n + 1
               PROVE  Token(b, g[k]) /\ v[k] = TokenAt(b, g[k]) /\ g[k + 1] = After(b, g[k])
    OBVIOUS
  <2>1. CASE k = n + 1
    <3>1. g[k] = q /\ g[k + 1] = r /\ v[k] = t BY <1>1, <1>2, <1>4, <2>1
    <3> QED BY <3>1 DEF t, r
  <2>2. CASE k # n + 1
    <3>1. k \in 1 .. n /\ k + 1 \in 1 .. n + 1 BY <1>1, <2>2
    <3> QED BY <1>1, <1>2, <1>4, <3>1
  <2> QED BY <2>1, <2>2
<1> HIDE DEF g
<1>6. /\ g \in [1 .. Len(v) + 1 -> Nat \X Nat] /\ g[1] = p /\ g[Len(v) + 1] = r
      /\ \A k \in 1 .. Len(v) : Token(b, g[k]) /\ v[k] = TokenAt(b, g[k])
                                /\ g[k + 1] = After(b, g[k])
  <2>1. g \in [1 .. Len(v) + 1 -> Nat \X Nat] /\ g[1] = p /\ g[Len(v) + 1] = r
    BY <1>1, <1>2, <1>4
  <2> QED BY <2>1, <1>1, <1>5
<1>7. Carries(b, v, p, r) BY <1>6 DEF Carries
<1> QED BY <1>7 DEF v, t, r

LEMMA CarriesPrefix ==
  ASSUME NEW b, NEW S, NEW w \in Seq(S), NEW p, NEW q, Carries(b, w, p, q),
         NEW n \in 0 .. Len(w)
  PROVE  \E r \in Nat \X Nat : Carries(b, SubSeq(w, 1, n), p, r)
<1> DEFINE v == SubSeq(w, 1, n)
<1>1. /\ Len(w) \in Nat /\ n \in Nat /\ n <= Len(w) /\ Len(v) = n
      /\ \A k \in 1 .. n : v[k] = w[k]
  BY SubSeqProperties, LenProperties
<1>2. PICK f \in [1 .. Len(w) + 1 -> Nat \X Nat] :
        /\ f[1] = p /\ f[Len(w) + 1] = q
        /\ \A k \in 1 .. Len(w) : Token(b, f[k]) /\ w[k] = TokenAt(b, f[k])
                                  /\ f[k + 1] = After(b, f[k])
  BY DEF Carries
<1> DEFINE g == [k \in 1 .. n + 1 |-> f[k]]
<1> HIDE DEF v
<1>3. /\ g \in [1 .. n + 1 -> Nat \X Nat] /\ g[1] = p /\ g[n + 1] = f[n + 1]
      /\ f[n + 1] \in Nat \X Nat
      /\ \A k \in 1 .. n : g[k] = f[k] /\ g[k + 1] = f[k + 1] /\ k \in 1 .. Len(w)
  <2>1. \A k \in 1 .. n + 1 : k \in 1 .. Len(w) + 1 /\ f[k] \in Nat \X Nat
    <3>1. \A k \in 1 .. n + 1 : k \in 1 .. Len(w) + 1 BY <1>1
    <3> QED BY <3>1
  <2>2. g \in [1 .. n + 1 -> Nat \X Nat] BY <2>1
  <2>3. 1 \in 1 .. n + 1 /\ n + 1 \in 1 .. n + 1 BY <1>1
  <2>4. \A k \in 1 .. n : k \in 1 .. n + 1 /\ k + 1 \in 1 .. n + 1 /\ k \in 1 .. Len(w)
    BY <1>1
  <2> QED BY <1>2, <2>1, <2>2, <2>3, <2>4
<1>4. \A k \in 1 .. n : Token(b, g[k]) /\ v[k] = TokenAt(b, g[k]) /\ g[k + 1] = After(b, g[k])
  BY <1>1, <1>2, <1>3
<1> HIDE DEF g
<1>5. Carries(b, v, p, f[n + 1]) BY <1>1, <1>3, <1>4 DEF Carries
<1> QED BY <1>3, <1>5 DEF v

-----------------------------------------------------------------------------
(* The steps.                                                              *)

LEMMA BatchIs ==
  ASSUME EndsInv
  PROVE  /\ items \in Batch /\ Len(items) \in Nat
         /\ \A i \in 1 .. Len(items) : items[i].size \in Nat
<1>1. items \in Seq([size : Nat, content : Nat]) BY DEF EndsInv, EndsType, Batch
<1>2. \A i \in 1 .. Len(items) : items[i] \in [size : Nat, content : Nat]
  BY <1>1, ElementOfSeq
<1>3. \A i \in 1 .. Len(items) : items[i].size \in Nat BY <1>2
<1> QED BY <1>1, <1>3, LenProperties DEF Batch

LEMMA ReadToIs ==
  ASSUME EndsInv
  PROVE  ReadTo \in Nat \X Nat
<1>1. receiver.item \in Nat /\ receiver.left \in Nat BY DEF EndsInv, EndsType, Process
<1>2. CASE receiver.at = "copy"
  <2>1. /\ receiver.item \in 1 .. Len(items)
        /\ receiver.left <= items[receiver.item].size
    BY <1>2, BatchIs DEF EndsInv, EndsType, ReceiverPlace, Process
  <2>2. items[receiver.item].size - receiver.left \in Nat BY <1>1, <2>1, BatchIs
  <2> DEFINE p == <<receiver.item, items[receiver.item].size - receiver.left>>
  <2>3. p \in Nat \X Nat BY <1>1, <2>2
  <2>4. After(items, p) \in Nat \X Nat BY <2>3, BatchIs, AfterIs
  <2> QED BY <1>2, <2>4 DEF ReadTo
<1>3. CASE receiver.at # "copy" BY <1>1, <1>3 DEF ReadTo
<1> QED BY <1>2, <1>3

\* ssh ends: a part of the stream is left.
LEMMA DyingKeeps ==
  ASSUME EndsInv, NEW how \in Dead, Dies(how), child # "none"
  PROVE  /\ wire' \in Seq(Part)
         /\ child' \in {"none", "running"} \cup Dead /\ child' # "none"
         /\ Reading => \E q \in Nat \X Nat : Carries(items, wire', ReadTo, q)
<1>1. wire \in Seq(Part) BY DEF EndsInv, EndsType
<1>2. PICK n \in 0 .. Len(wire) : wire' = SubSeq(wire, 1, n) BY DEF Dies
<1>3. wire' \in Seq(Part)
  <2>1. n \in Int /\ \A i \in 1 .. n : wire[i] \in Part
    <3>1. n \in Nat /\ \A i \in 1 .. n : i \in 1 .. Len(wire) BY <1>1, LenProperties
    <3>2. \A i \in 1 .. Len(wire) : wire[i] \in Part
      BY <1>1, ElementOfSeq
    <3> QED BY <3>1, <3>2
  <2>2. SubSeq(wire, 1, n) \in Seq(Part)
    BY <2>1, SubSeqProperties
  <2> QED BY <1>2, <2>2
<1>4. ASSUME Reading PROVE \E q \in Nat \X Nat : Carries(items, wire', ReadTo, q)
  <2>1. PICK q \in Nat \X Nat : Carries(items, wire, ReadTo, q)
    BY <1>4 DEF EndsInv, Between
  <2> QED BY <1>1, <1>2, <2>1, CarriesPrefix
<1> QED BY <1>3, <1>4 DEF Dies, Dead

\* Steps that leave the stream and the receiver alone.
LEMMA StreamStays ==
  ASSUME EndsInv, UNCHANGED <<items, wire, child, receiver, files>>,
         worker'.at = "gone" \/ (worker.at # "gone" /\ (child # "running" \/ WrittenTo' = WrittenTo))
  PROVE  Between' /\ ReceiverPlace'
<1>1. ReadTo' = ReadTo /\ Reading' = Reading BY DEF ReadTo, Reading
<1>2. Between' BY <1>1 DEF EndsInv, Between
<1>3. ReceiverPlace' BY DEF EndsInv, ReceiverPlace
<1> QED BY <1>2, <1>3

\* Steps at which ssh ends.
LEMMA StreamEnds ==
  ASSUME EndsInv, UNCHANGED <<items, receiver, files>>, NEW how \in Dead, Dies(how),
         child # "none"
  PROVE  Between' /\ ReceiverPlace'
<1>1. ReadTo' = ReadTo /\ Reading' = Reading BY DEF ReadTo, Reading
<1>2. child' # "running" /\ child' # "none" BY DEF Dies, Dead
<1>3. Reading => \E q \in Nat \X Nat : Carries(items, wire', ReadTo, q) BY DyingKeeps
<1>4. Between' BY <1>1, <1>2, <1>3 DEF Between
<1>5. ReceiverPlace' BY <1>2 DEF EndsInv, ReceiverPlace
<1> QED BY <1>4, <1>5

\* Steps of the worker that write.
LEMMA StreamGrows ==
  ASSUME EndsInv, UNCHANGED <<items, child, receiver, files>>, child = "running",
         worker.at # "gone", worker'.at # "gone", Token(items, WrittenTo),
         wire' = Append(wire, TokenAt(items, WrittenTo)),
         WrittenTo' = After(items, WrittenTo)
  PROVE  /\ Between' /\ ReceiverPlace'
         /\ wire' \in Seq(Part)
<1> DEFINE t == TokenAt(items, WrittenTo)
<1>1. ReadTo' = ReadTo /\ Reading' = Reading BY DEF ReadTo, Reading
<1>2. wire \in Seq(Part) BY DEF EndsInv, EndsType
<1>3. WrittenTo \in Nat \X Nat BY DEF Token
<1>4. t \in Part BY <1>3, BatchIs, AfterIs
<1>5. wire' \in Seq(Part)
  BY <1>2, <1>4, AppendProperties
<1>6. ASSUME Reading
      PROVE  Carries(items, wire', ReadTo, WrittenTo') /\ WrittenTo' \in Nat \X Nat
  <2>1. Carries(items, wire, ReadTo, WrittenTo) BY <1>6 DEF EndsInv, Between
  <2>2. Carries(items, Append(wire, t), ReadTo, After(items, WrittenTo))
    BY <1>2, <1>3, <1>4, <2>1, BatchIs, CarriesAppend
  <2> QED BY <1>3, <2>2, BatchIs, AfterIs
<1>7. Between' BY <1>1, <1>6 DEF Between
<1>8. ReceiverPlace' BY DEF EndsInv, ReceiverPlace
<1> QED BY <1>5, <1>7, <1>8

\* Steps of the receiver that read.
LEMMA StreamShrinks ==
  ASSUME EndsInv, UNCHANGED <<items, child, worker>>, Reading, wire # <<>>,
         wire' = Tail(wire), Reading' => ReadTo' = After(items, ReadTo)
  PROVE  /\ Between' /\ wire' \in Seq(Part)
         /\ Token(items, ReadTo) /\ Head(wire) = TokenAt(items, ReadTo)
<1>1. wire \in Seq(Part) BY DEF EndsInv, EndsType
<1>2. PICK q \in Nat \X Nat :
        /\ Carries(items, wire, ReadTo, q)
        /\ child = "running" /\ worker.at # "gone" => q = WrittenTo
  BY DEF EndsInv, Between
<1>3. /\ Token(items, ReadTo) /\ Head(wire) = TokenAt(items, ReadTo)
      /\ Carries(items, wire', After(items, ReadTo), q)
  BY <1>1, <1>2, CarriesTail
<1>4. WrittenTo' = WrittenTo BY DEF WrittenTo
<1>5. Between' BY <1>2, <1>3, <1>4 DEF Between
<1>6. wire' \in Seq(Part)
  BY <1>1, HeadTailProperties, EmptySeq
<1> QED BY <1>3, <1>5, <1>6

LEMMA WorkerIs ==
  ASSUME EndsInv
  PROVE  /\ worker = [at |-> worker.at, item |-> worker.item, sent |-> worker.sent]
         /\ worker.at \in WorkerAt /\ worker.item \in Nat \ {0} /\ worker.sent \in Nat
         /\ \A u, a : u = [worker EXCEPT !.at = a] =>
              u = [at |-> a, item |-> worker.item, sent |-> worker.sent]
         /\ \A u, a : u = [worker EXCEPT !.at = a, !.sent = @ + 1] =>
              u = [at |-> a, item |-> worker.item, sent |-> worker.sent + 1]
<1>1. worker \in [at : WorkerAt, item : Nat \ {0}, sent : Nat] BY DEF EndsInv, EndsType
<1>2. worker = [at |-> worker.at, item |-> worker.item, sent |-> worker.sent]
  BY <1>1
<1>3. worker.at \in WorkerAt /\ worker.item \in Nat \ {0} /\ worker.sent \in Nat
  BY <1>1
<1>4. ASSUME NEW u, NEW a, u = [worker EXCEPT !.at = a]
      PROVE  u = [at |-> a, item |-> worker.item, sent |-> worker.sent]
  BY <1>2, <1>4
<1>5. ASSUME NEW u, NEW a, u = [worker EXCEPT !.at = a, !.sent = @ + 1]
      PROVE  u = [at |-> a, item |-> worker.item, sent |-> worker.sent + 1]
  BY <1>2, <1>5
<1> QED BY <1>2, <1>3, <1>4, <1>5

\* Cancelling, registering, and the end of the client.
LEMMA ControlKeeps ==
  ASSUME EndsInv,
         CancelFlags \/ CancelKills \/ Refuse \/ Install \/ Recheck \/ Wait \/ ClientEnds
  PROVE  EndsInv'
<1> DEFINE dies == \E how \in Dead : Dies(how)
<1> DEFINE same == UNCHANGED <<wire, child>>
<1>1. /\ UNCHANGED <<items, receiver, files, replied, failed>>
      /\ same \/ (dies /\ child = "running")
  BY DEF CancelFlags, CancelKills, Refuse, Install, Recheck, Wait, ClientEnds, KillInstalled,
         Returns, link, remote, control, Dead
<1>2. /\ worker' \in [at : WorkerAt, item : Nat \ {0}, sent : Nat]
      /\ worker'.item = worker.item /\ worker'.sent = worker.sent
  <2>1. CASE CancelFlags \/ CancelKills
    BY <2>1 DEF CancelFlags, CancelKills, EndsInv, EndsType
  <2>2. ASSUME NEW a \in WorkerAt, worker' = [worker EXCEPT !.at = a]
        PROVE  /\ worker' \in [at : WorkerAt, item : Nat \ {0}, sent : Nat]
               /\ worker'.item = worker.item /\ worker'.sent = worker.sent
    BY <2>2, WorkerIs
  <2>3. CASE Refuse \/ Wait
    BY <2>2, <2>3 DEF Refuse, Wait, Returns, WorkerAt
  <2>4. CASE Install BY <2>2, <2>4 DEF Install, WorkerAt
  <2>5. CASE Recheck BY <2>2, <2>5 DEF Recheck, WorkerAt
  <2>6. CASE ClientEnds BY <2>2, <2>6 DEF ClientEnds, WorkerAt
  <2> QED BY <2>1, <2>3, <2>4, <2>5, <2>6
<1>3. Between' /\ ReceiverPlace'
  <2>1. CASE same
    <3>1. \/ worker'.at = "gone"
          \/ worker.at # "gone" /\ (child # "running" \/ WrittenTo' = WrittenTo)
      <4>1. CASE CancelFlags \/ CancelKills BY <4>1, <1>2 DEF CancelFlags, CancelKills, WrittenTo
      <4>2. CASE Refuse BY <4>2 DEF Refuse, EndsInv, Outcome
      <4>3. CASE Install \/ Recheck
        BY <4>3, <1>1, WorkerIs DEF Install, Recheck, WrittenTo
      <4>4. CASE Wait BY <4>4 DEF Wait, Dead
      <4>5. CASE ClientEnds BY <4>5, WorkerIs DEF ClientEnds
      <4> QED BY <4>1, <4>2, <4>3, <4>4, <4>5
    <3> QED BY <1>1, <2>1, <3>1, StreamStays
  <2>2. CASE dies /\ child = "running" BY <1>1, <2>2, StreamEnds
  <2> QED BY <1>1, <2>1, <2>2
<1>4. wire' \in Seq(Part)
      /\ child' \in {"none", "running"} \cup Dead /\ (child # "none" => child' # "none")
      /\ (child' # child => child' \in Dead)
  <2>1. CASE same BY <2>1 DEF EndsInv, EndsType
  <2>2. CASE dies /\ child = "running" BY <2>2, DyingKeeps DEF Dies
  <2> QED BY <1>1, <2>1, <2>2
<1>5. child' # child => child' = "killed" /\ child = "running"
  BY DEF CancelFlags, CancelKills, Refuse, Install, Recheck, Wait, ClientEnds, KillInstalled,
         Dies, link
<1>6. EndsType'
  <2>1. cancelled' \in BOOLEAN /\ slot' \in BOOLEAN
    BY DEF EndsInv, EndsType, CancelFlags, CancelKills, Refuse, Install, Recheck, Wait,
           ClientEnds, control
  <2> QED BY <1>1, <1>2, <1>4, <2>1 DEF EndsInv, EndsType
<1>7. WorkerPlace'
  BY <1>1, <1>2, <1>4, WorkerIs DEF EndsInv, WorkerPlace, CancelFlags, CancelKills, Refuse,
     Install, Recheck, Wait, ClientEnds, Returns
<1>8. child' = "none" => child = "none" /\ wire' = wire
  BY <1>1, <1>4 DEF Dies, Dead
<1>9. Outcome'
  <2>1. CASE CancelFlags
    BY <2>1 DEF EndsInv, Outcome, AllWritten, CancelFlags, link, remote
  <2>2. CASE CancelKills
    BY <2>2, <1>1, <1>5, <1>8 DEF EndsInv, Outcome, AllWritten, CancelKills, control, Dead
  <2>3. CASE Refuse
    BY <2>3, WorkerIs DEF EndsInv, Outcome, AllWritten, Refuse, Returns, control, link, remote, Dead
  <2>4. CASE Install
    BY <2>4, WorkerIs DEF EndsInv, Outcome, AllWritten, Install, link, remote, Dead
  <2>5. CASE Recheck
    <3>1. /\ worker.at = "registered" /\ UNCHANGED <<cancelled, slot, canceller, result>>
          /\ worker' = [at |-> "begin", item |-> worker.item, sent |-> worker.sent]
      BY <2>5, WorkerIs DEF Recheck, control
    <3> QED BY <3>1, <1>1, <1>5, <1>8 DEF EndsInv, Outcome, AllWritten, Dead
  <2>6. CASE Wait
    BY <2>6, WorkerIs DEF EndsInv, Outcome, AllWritten, Wait, Returns, Success, link, remote, Dead
  <2>7. CASE ClientEnds
    <3>1. /\ worker.at # "done" /\ canceller' = "done"
          /\ UNCHANGED <<cancelled, slot, result, child>>
          /\ worker'.at = "gone"
      BY <2>7, <1>2, WorkerIs DEF ClientEnds, control
    <3> QED BY <3>1, <1>1, <1>8 DEF EndsInv, Outcome, AllWritten, Dead
  <2> QED BY <2>1, <2>2, <2>3, <2>4, <2>5, <2>6, <2>7
<1> QED BY <1>3, <1>6, <1>7, <1>9 DEF EndsInv

\* ssh ends by itself.
LEMMA LinkKeeps ==
  ASSUME EndsInv, ChildExits \/ LinkBreaks
  PROVE  EndsInv'
<1>1. /\ UNCHANGED <<items, worker, failed, result, cancelled, slot, canceller, receiver,
                     files, replied>>
      /\ child = "running"
  BY DEF ChildExits, LinkBreaks, control, remote
<1>2. PICK how \in {"succeeded", "failed"} :
        Dies(how) /\ (how = "succeeded" => receiver.at = "ok")
  BY DEF ChildExits, LinkBreaks
<1>3. how \in Dead /\ child' = how BY <1>2 DEF Dead, Dies
<1>4. Between' /\ ReceiverPlace' BY <1>1, <1>2, <1>3, StreamEnds
<1>5. wire' \in Seq(Part)
  BY <1>1, <1>2, <1>3, DyingKeeps
<1>6. EndsType' BY <1>1, <1>3, <1>5 DEF EndsInv, EndsType
<1>7. WorkerPlace' BY <1>1, <1>3 DEF EndsInv, WorkerPlace, Dead
<1>8. receiver.at = "ok" => AllWritten
  <2> SUFFICES ASSUME receiver.at = "ok", worker.at # "gone" PROVE AllWritten
    BY DEF AllWritten
  <2>1. Carries(items, wire, ReadTo, WrittenTo) BY <1>1 DEF EndsInv, Between, Reading
  <2>2. ReadTo = <<Len(items) + 1, 0>> BY DEF ReadTo, EndsInv, ReceiverPlace
  <2>3. Len(items) \in Nat BY BatchIs
  <2>4. wire \in Seq(Part) BY DEF EndsInv, EndsType
  <2>5. ~Token(items, ReadTo) BY <2>2, <2>3 DEF Token
  <2>6. wire = <<>> BY <2>1, <2>4, <2>5, CarriesTail
  <2>7. ReadTo = WrittenTo BY <2>1, <2>6, ReadToIs, CarriesNothing
  <2>8. /\ worker.at \notin {"start", "done"} /\ ~failed
        /\ receiver.at # "none"
    BY <1>1 DEF EndsInv, Outcome, Dead
  <2>9. CASE worker.at \in {"spawned", "registered", "begin"}
    BY <2>2, <2>3, <2>7, <2>9 DEF WrittenTo
  <2>10. CASE worker.at \in {"bytes", "data"}
    <3>1. After(items, <<worker.item, worker.sent>>) = <<Len(items) + 1, 0>>
      BY <2>2, <2>7, <2>10 DEF WrittenTo
    <3>2. /\ worker.item \in 1 .. Len(items) /\ worker.sent \in Nat
          /\ items[worker.item].size \in Nat
          /\ worker.at = "bytes" => worker.sent <= items[worker.item].size
          /\ worker.at = "data" => worker.sent < items[worker.item].size
      <4>1. worker.item \in 1 .. Len(items)
        <5>1. worker.item <= Len(items) BY <2>10 DEF EndsInv, WorkerPlace
        <5>2. worker.item \in Nat \ {0} BY WorkerIs
        <5> QED BY <2>3, <5>1, <5>2
      <4>2. items[worker.item].size \in Nat BY <4>1, BatchIs
      <4>3. worker.at = "bytes" => worker.sent <= items[worker.item].size
        BY DEF EndsInv, WorkerPlace
      <4>4. worker.at = "data" => worker.sent < items[worker.item].size
        BY DEF EndsInv, WorkerPlace
      <4> QED BY <4>1, <4>2, <4>3, <4>4, WorkerIs
    <3>3. ~(worker.sent < items[worker.item].size) /\ worker.item = Len(items)
      <4>1. CASE worker.sent < items[worker.item].size
        <5>1. After(items, <<worker.item, worker.sent>>) = <<worker.item, worker.sent + 1>>
          BY <3>2, <4>1 DEF After
        <5> QED BY <2>3, <3>1, <3>2, <5>1
      <4>2. CASE ~(worker.sent < items[worker.item].size)
        <5>1. After(items, <<worker.item, worker.sent>>) = <<worker.item + 1, 0>>
          BY <3>2, <4>2 DEF After
        <5> QED BY <2>3, <3>1, <3>2, <4>2, <5>1
      <4> QED BY <4>1, <4>2
    <3>4. worker.at = "bytes" BY <2>10, <3>2, <3>3
    <3>5. worker.sent = items[worker.item].size BY <3>2, <3>3, <3>4
    <3> QED BY <3>3, <3>4, <3>5 DEF AllWritten
  <2>11. CASE worker.at \in {"item", "header", "waiting"}
    <3>1. WrittenTo = <<worker.item, 0>> BY <2>11 DEF WrittenTo
    <3>2. worker.item = Len(items) + 1 BY <2>2, <2>7, <3>1
    <3>3. worker.at # "header" BY <2>3, <3>2 DEF EndsInv, WorkerPlace
    <3> QED BY <2>11, <3>2, <3>3 DEF AllWritten
  <2> QED BY <2>8, <2>9, <2>10, <2>11, WorkerIs DEF WorkerAt
<1>9. Outcome' BY <1>1, <1>2, <1>3, <1>8 DEF EndsInv, Outcome, AllWritten, Dead
<1> QED BY <1>4, <1>6, <1>7, <1>9 DEF EndsInv

\* Where the worker stands inside an item.
LEMMA WorkerWithin ==
  ASSUME EndsInv, worker.at \in {"header", "bytes", "data"}
  PROVE  /\ worker.item \in 1 .. Len(items) /\ items[worker.item].size \in Nat
         /\ worker.sent \in Nat /\ worker.sent <= items[worker.item].size
         /\ worker.at = "header" => worker.sent = 0
         /\ worker.at = "data" => worker.sent < items[worker.item].size
<1>1. worker.item <= Len(items) BY DEF EndsInv, WorkerPlace
<1>2. worker.item \in Nat \ {0} /\ worker.sent \in Nat BY WorkerIs
<1>3. worker.item \in 1 .. Len(items) /\ items[worker.item].size \in Nat
  BY <1>1, <1>2, BatchIs
<1>4. worker.at = "bytes" => worker.sent <= items[worker.item].size
  BY DEF EndsInv, WorkerPlace
<1>5. worker.at = "data" => worker.sent < items[worker.item].size
  BY DEF EndsInv, WorkerPlace
<1>6. worker.at = "header" => worker.sent = 0 BY DEF EndsInv, WorkerPlace
<1> QED BY <1>2, <1>3, <1>4, <1>5, <1>6

\* What a step of the transfer leaves alone, besides the stream.
TransferFrame ==
  /\ UNCHANGED <<items, result, slot, canceller, receiver, files, replied>>
  /\ worker.at \in {"begin", "item", "header", "bytes", "data"}

\* A transfer that fails kills ssh, unless that has ended, and failed.
LEMMA FailingKeeps ==
  ASSUME EndsInv, TransferFrame, Fails, ~AllWritten
  PROVE  EndsInv'
<1>1. /\ child # "none" /\ slot /\ child # "succeeded" /\ child \in {"running"} \cup Dead
      /\ worker.at \notin {"start", "spawned", "waiting", "done", "gone"}
  BY DEF EndsInv, EndsType, WorkerPlace, Outcome, TransferFrame
<1>2. /\ worker' = [at |-> "waiting", item |-> worker.item, sent |-> worker.sent]
      /\ failed' = TRUE /\ cancelled' = TRUE
  BY WorkerIs DEF Fails
<1>3. CASE child = "running"
  <2>1. Dies("killed") /\ "killed" \in Dead /\ child' = "killed"
    BY <1>1, <1>3 DEF Fails, Dies, Dead
  <2>2. Between' /\ ReceiverPlace' BY <1>1, <2>1, StreamEnds DEF TransferFrame
  <2>3. wire' \in Seq(Part)
    BY <1>1, <2>1, DyingKeeps
  <2>4. EndsType'
    BY <1>2, <2>1, <2>3, WorkerIs DEF EndsInv, EndsType, TransferFrame, WorkerAt
  <2>5. WorkerPlace' BY <1>2, <2>1 DEF EndsInv, WorkerPlace, TransferFrame
  <2>6. Outcome' BY <1>1, <1>2, <2>1 DEF EndsInv, Outcome, TransferFrame, Dead
  <2> QED BY <2>2, <2>4, <2>5, <2>6 DEF EndsInv
<1>4. CASE child # "running"
  <2>1. UNCHANGED <<child, wire>> BY <1>4 DEF Fails
  <2>2. Between' /\ ReceiverPlace'
    BY <1>1, <1>2, <1>4, <2>1, StreamStays DEF TransferFrame
  <2>3. EndsType'
    BY <1>2, <2>1, WorkerIs DEF EndsInv, EndsType, TransferFrame, WorkerAt
  <2>4. WorkerPlace' BY <1>2, <2>1 DEF EndsInv, WorkerPlace, TransferFrame
  <2>5. Outcome' BY <1>1, <1>2, <1>4, <2>1 DEF EndsInv, Outcome, TransferFrame, Dead
  <2> QED BY <2>2, <2>3, <2>4, <2>5 DEF EndsInv
<1> QED BY <1>3, <1>4

\* A write that succeeds appends the token the worker has come to.
LEMMA WritingKeeps ==
  ASSUME EndsInv, TransferFrame, worker.at \in {"begin", "header", "data"},
         Writes(TokenAt(items, WrittenTo),
                CASE worker.at = "begin" -> [worker EXCEPT !.at = "item"]
                  [] worker.at = "header" -> [worker EXCEPT !.at = "bytes"]
                  [] worker.at = "data" -> [worker EXCEPT !.at = "bytes", !.sent = @ + 1])
  PROVE  EndsInv'
<1>1. /\ child = "running" /\ wire' = Append(wire, TokenAt(items, WrittenTo))
      /\ UNCHANGED <<failed, cancelled, child>>
  BY DEF Writes
<1>2. /\ worker.at = "begin" =>
           /\ worker' = [at |-> "item", item |-> worker.item, sent |-> worker.sent]
           /\ worker.item = 1 /\ worker.sent = 0
      /\ worker.at = "header" =>
           worker' = [at |-> "bytes", item |-> worker.item, sent |-> worker.sent]
      /\ worker.at = "data" =>
           worker' = [at |-> "bytes", item |-> worker.item, sent |-> worker.sent + 1]
  BY WorkerIs DEF Writes, EndsInv, WorkerPlace
<1>3. Len(items) \in Nat \ {0} BY BatchIs DEF EndsInv, WorkerPlace, TransferFrame
<1>4. Token(items, WrittenTo) /\ WrittenTo' = After(items, WrittenTo)
  <2>1. CASE worker.at = "begin"
    <3>1. WrittenTo = <<0, 0>> /\ WrittenTo' = <<1, 0>> BY <1>2, <2>1 DEF WrittenTo
    <3> QED BY <3>1 DEF Token, After
  <2>2. CASE worker.at = "header"
    <3>1. /\ WrittenTo = <<worker.item, 0>>
          /\ WrittenTo' = After(items, <<worker.item, 0>>)
      BY <1>2, <2>2, WorkerWithin DEF WrittenTo, TransferFrame
    <3> QED BY <2>2, <3>1, WorkerWithin DEF Token
  <2>3. CASE worker.at = "data"
    <3>1. /\ WrittenTo = After(items, <<worker.item, worker.sent>>)
          /\ WrittenTo' = After(items, <<worker.item, worker.sent + 1>>)
      BY <1>2, <2>3 DEF WrittenTo, TransferFrame
    <3>2. WrittenTo = <<worker.item, worker.sent + 1>>
      BY <2>3, <3>1, WorkerWithin DEF After
    <3> QED BY <2>3, <3>1, <3>2, WorkerWithin DEF Token
  <2> QED BY <2>1, <2>2, <2>3
<1>5. worker'.at \in {"item", "bytes"}
  BY <1>2
<1>6. /\ Between' /\ ReceiverPlace'
      /\ wire' \in Seq(Part)
  BY <1>1, <1>4, <1>5, StreamGrows DEF TransferFrame
<1>7. worker' \in [at : WorkerAt, item : Nat \ {0}, sent : Nat]
  <2>1. worker.item \in Nat \ {0} /\ worker.sent \in Nat BY WorkerIs
  <2>2. "item" \in WorkerAt /\ "bytes" \in WorkerAt BY DEF WorkerAt
  <2>3. worker.sent + 1 \in Nat BY <2>1
  <2> QED BY <1>2, <2>1, <2>2, <2>3
<1>8. EndsType' BY <1>1, <1>6, <1>7 DEF EndsInv, EndsType, TransferFrame
<1>9. WorkerPlace'
  <2>1. CASE worker.at = "begin"
    BY <1>1, <1>2, <1>3, <2>1 DEF EndsInv, WorkerPlace, TransferFrame
  <2>2. CASE worker.at \in {"header", "data"}
    <3>1. /\ worker'.at = "bytes" /\ worker'.item <= Len(items)
          /\ worker'.sent <= items[worker'.item].size
      BY <1>2, <2>2, WorkerWithin
    <3> QED BY <1>1, <1>3, <3>1 DEF WorkerPlace, TransferFrame
  <2> QED BY <2>1, <2>2
<1>10. Outcome' BY <1>1, <1>5 DEF EndsInv, Outcome, TransferFrame, Dead
<1> QED BY <1>6, <1>8, <1>9, <1>10 DEF EndsInv

\* The tests between the writes.
LEMMA MovingKeeps ==
  ASSUME EndsInv, TransferFrame, NEW a \in {"header", "waiting", "item", "data"},
         NEW i \in Nat \ {0},
         worker' = [at |-> a, item |-> i, sent |-> IF a = "data" THEN worker.sent ELSE 0],
         UNCHANGED <<failed, cancelled, child, wire>>, WrittenTo' = WrittenTo,
         a = "header" => i <= Len(items),
         a = "data" => i <= Len(items) /\ worker.sent < items[i].size,
         a = "item" => i <= Len(items) + 1,
         a = "waiting" => i = Len(items) + 1,
         AllWritten => AllWritten'
  PROVE  EndsInv'
<1>1. worker.at \notin {"start", "spawned", "done", "gone"} BY DEF TransferFrame
<1>2. Between' /\ ReceiverPlace' BY <1>1, StreamStays DEF TransferFrame
<1>3. worker.sent \in Nat BY WorkerIs
<1>4. worker' \in [at : WorkerAt, item : Nat \ {0}, sent : Nat]
  BY <1>3 DEF WorkerAt
<1>5. EndsType' BY <1>4 DEF EndsInv, EndsType, TransferFrame
<1>6. WorkerPlace' BY DEF EndsInv, WorkerPlace, TransferFrame
<1>7. Outcome' BY <1>1 DEF EndsInv, Outcome, TransferFrame, Dead
<1> QED BY <1>2, <1>5, <1>6, <1>7 DEF EndsInv

LEMMA TransferKeeps ==
  ASSUME EndsInv, Begin \/ Check \/ SendHeader \/ CheckBytes \/ SendData
  PROVE  EndsInv'
<1>1. TransferFrame
  BY DEF TransferFrame, Begin, Check, SendHeader, CheckBytes, SendData, Transfers, remote
<1>2. Len(items) \in Nat /\ worker.item \in Nat \ {0} /\ worker.sent \in Nat
  BY BatchIs, WorkerIs
<1>3. child = "succeeded" => AllWritten BY DEF EndsInv, Outcome
<1>4. CASE Begin
  <2>1. worker.at = "begin" BY <1>4 DEF Begin, Transfers
  <2>2. CASE WriteFails BY <1>1, <2>1, <2>2, FailingKeeps DEF WriteFails, AllWritten
  <2>3. CASE Writes([is |-> "begin", n |-> Len(items)], [worker EXCEPT !.at = "item"])
    <3>1. TokenAt(items, WrittenTo) = [is |-> "begin", n |-> Len(items)]
      BY <2>1 DEF WrittenTo, TokenAt
    <3> QED BY <1>1, <2>1, <2>3, <3>1, WritingKeeps
  <2> QED BY <1>4, <2>2, <2>3 DEF Begin
<1>5. CASE Check
  <2>1. worker.at = "item" /\ worker.item <= Len(items) + 1 /\ worker.sent = 0
    BY <1>5 DEF Check, Transfers, EndsInv, WorkerPlace
  <2>2. CASE worker.item > Len(items)
    <3>1. Finishes BY <1>2, <1>5, <2>2 DEF Check
    <3>2. /\ worker' = [at |-> "waiting", item |-> worker.item, sent |-> 0]
          /\ UNCHANGED <<failed, cancelled, child, wire>> /\ worker.item = Len(items) + 1
      <4>1. worker' = [worker EXCEPT !.at = "waiting"] BY <3>1 DEF Finishes
      <4>2. worker' = [at |-> "waiting", item |-> worker.item, sent |-> 0]
        BY <2>1, <4>1, WorkerIs
      <4>3. worker.item = Len(items) + 1 BY <1>2, <2>1, <2>2
      <4> QED BY <3>1, <4>2, <4>3 DEF Finishes
    <3>3. WrittenTo' = WrittenTo BY <2>1, <3>2 DEF WrittenTo
    <3>4. AllWritten' BY <1>1, <3>2 DEF AllWritten, TransferFrame
    <3> QED BY <1>1, <1>2, <3>2, <3>3, <3>4, MovingKeeps
  <2>3. CASE worker.item <= Len(items) /\ cancelled
    <3>1. Fails BY <1>2, <1>5, <2>3 DEF Check
    <3>2. ~AllWritten BY <1>2, <2>1, <2>3 DEF AllWritten
    <3> QED BY <1>1, <3>1, <3>2, FailingKeeps
  <2>4. CASE worker.item <= Len(items) /\ ~cancelled
    <3>1. /\ worker' = [worker EXCEPT !.at = "header"]
          /\ UNCHANGED <<failed, cancelled, child, wire>>
      BY <1>2, <1>5, <2>4 DEF Check, link
    <3>2. worker' = [at |-> "header", item |-> worker.item, sent |-> 0]
      BY <2>1, <3>1, WorkerIs
    <3>3. WrittenTo' = WrittenTo BY <2>1, <3>2 DEF WrittenTo
    <3>4. ~AllWritten BY <1>2, <2>1, <2>4 DEF AllWritten
    <3> QED BY <1>1, <1>2, <2>4, <3>1, <3>2, <3>3, <3>4, MovingKeeps
  <2> QED BY <1>2, <2>2, <2>3, <2>4
<1>6. CASE SendHeader
  <2>1. worker.at = "header" BY <1>6 DEF SendHeader, Transfers
  <2>2. CASE WriteFails BY <1>1, <2>1, <2>2, FailingKeeps DEF WriteFails, AllWritten
  <2>3. CASE Writes([is |-> "header", n |-> items[worker.item].size],
                    [worker EXCEPT !.at = "bytes"])
    <3>1. TokenAt(items, WrittenTo) = [is |-> "header", n |-> items[worker.item].size]
      BY <1>2, <2>1 DEF WrittenTo, TokenAt
    <3> QED BY <1>1, <2>1, <2>3, <3>1, WritingKeeps
  <2> QED BY <1>6, <2>2, <2>3 DEF SendHeader
<1>7. CASE CheckBytes
  <2> DEFINE size == items[worker.item].size
  <2>1. worker.at = "bytes" BY <1>7 DEF CheckBytes, Transfers
  <2>2. worker.item \in 1 .. Len(items) /\ size \in Nat /\ worker.sent <= size
    BY <2>1, WorkerWithin
  <2>3. CASE worker.sent = size
    <3>1. /\ worker' = [at |-> "item", item |-> worker.item + 1, sent |-> 0]
          /\ UNCHANGED <<failed, cancelled, child, wire>>
      BY <1>2, <1>7, <2>2, <2>3 DEF CheckBytes, link
    <3>2. After(items, <<worker.item, worker.sent>>) = <<worker.item + 1, 0>>
      BY <1>2, <2>2, <2>3 DEF After
    <3>3. WrittenTo' = WrittenTo BY <2>1, <3>1, <3>2 DEF WrittenTo
    <3>4. AllWritten => AllWritten'
      BY <1>1, <1>2, <2>1, <3>1 DEF AllWritten, TransferFrame
    <3>5. worker.item + 1 \in Nat \ {0} /\ worker.item + 1 <= Len(items) + 1
      BY <1>2, <2>2
    <3> QED BY <1>1, <3>1, <3>3, <3>4, <3>5, MovingKeeps
  <2>4. CASE worker.sent < size /\ cancelled
    <3>1. Fails BY <1>2, <1>7, <2>2, <2>4 DEF CheckBytes
    <3>2. ~AllWritten BY <1>2, <2>1, <2>2, <2>4 DEF AllWritten
    <3> QED BY <1>1, <3>1, <3>2, FailingKeeps
  <2>5. CASE worker.sent < size /\ ~cancelled
    <3>1. /\ worker' = [worker EXCEPT !.at = "data"]
          /\ UNCHANGED <<failed, cancelled, child, wire>>
      BY <1>2, <1>7, <2>2, <2>5 DEF CheckBytes, link
    <3>2. worker' = [at |-> "data", item |-> worker.item, sent |-> worker.sent]
      BY <3>1, WorkerIs
    <3>3. WrittenTo' = WrittenTo BY <1>1, <2>1, <3>2 DEF WrittenTo, TransferFrame
    <3>4. ~AllWritten BY <1>2, <2>1, <2>2, <2>5 DEF AllWritten
    <3>5. worker.item <= Len(items) BY <1>2, <2>2
    <3> QED BY <1>1, <1>2, <2>5, <3>1, <3>2, <3>3, <3>4, <3>5, MovingKeeps
  <2> QED BY <1>2, <2>2, <2>3, <2>4, <2>5
<1>8. CASE SendData
  <2>1. worker.at = "data" /\ ~AllWritten
    BY <1>8 DEF SendData, Transfers, AllWritten
  <2>2. CASE Fails BY <1>1, <2>1, <2>2, FailingKeeps
  <2>3. CASE Writes([is |-> "data", n |-> 1], [worker EXCEPT !.at = "bytes", !.sent = @ + 1])
    <3>1. After(items, <<worker.item, worker.sent>>) = <<worker.item, worker.sent + 1>>
      BY <1>2, <2>1, WorkerWithin DEF After
    <3>2. WrittenTo = <<worker.item, worker.sent + 1>> BY <2>1, <3>1 DEF WrittenTo
    <3>3. TokenAt(items, WrittenTo) = [is |-> "data", n |-> 1]
      BY <1>2, <3>2 DEF TokenAt
    <3> QED BY <1>1, <2>1, <2>3, <3>3, WritingKeeps
  <2> QED BY <1>8, <2>2, <2>3 DEF SendData, WriteFails
<1> QED BY <1>4, <1>5, <1>6, <1>7, <1>8

LEMMA SpawnKeeps ==
  ASSUME EndsInv, Spawn
  PROVE  EndsInv'
<1>1. /\ worker.at = "start" /\ Len(items) > 0 /\ child' = "running" /\ child = "none"
      /\ UNCHANGED <<items, failed, result, cancelled, slot, canceller, wire, closed, files,
                     replied>>
      /\ worker' = [at |-> "spawned", item |-> worker.item, sent |-> worker.sent]
  <2>1. worker' = [worker EXCEPT !.at = "spawned"] BY DEF Spawn
  <2>2. worker' = [at |-> "spawned", item |-> worker.item, sent |-> worker.sent]
    BY <2>1, WorkerIs
  <2>3. Len(items) \in 1 .. MaxItems BY DEF Spawn, Acceptable
  <2>4. Len(items) > 0 BY <2>3
  <2>5. worker.at = "start" /\ child = "none" BY DEF Spawn, EndsInv, Outcome
  <2> QED BY <2>2, <2>4, <2>5 DEF Spawn, control
<1>2. receiver.at = "none" BY <1>1 DEF EndsInv, ReceiverPlace
<1>3. receiver' = [receiver EXCEPT !.at = "begin"] BY DEF Spawn
<1>4. receiver'.at = "begin" /\ receiver'.item = receiver.item
  BY <1>3 DEF EndsInv, EndsType
<1>5. EndsType' BY <1>1, <1>3, WorkerIs DEF EndsInv, EndsType, WorkerAt, Process, Ended
<1>6. WorkerPlace' BY <1>1 DEF EndsInv, WorkerPlace
<1>7. ReceiverPlace' BY <1>1, <1>2, <1>4 DEF EndsInv, ReceiverPlace
<1>8. Between'
  <2>1. ReadTo = <<0, 0>> /\ ReadTo' = <<0, 0>> BY <1>2, <1>4 DEF ReadTo
  <2>2. WrittenTo' = <<0, 0>> BY <1>1 DEF WrittenTo
  <2>3. PICK q \in Nat \X Nat : Carries(items, wire, ReadTo, q)
    BY <1>2 DEF EndsInv, Between, Reading
  <2>4. wire' = <<>> BY <1>1 DEF EndsInv, Outcome
  <2>5. Carries(items, <<>>, <<0, 0>>, <<0, 0>>) BY CarriesNothing
  <2> QED BY <1>1, <2>1, <2>2, <2>4, <2>5 DEF Between
<1>9. Outcome' BY <1>1, <1>4 DEF EndsInv, Outcome, Dead
<1> QED BY <1>5, <1>6, <1>7, <1>8, <1>9 DEF EndsInv

-----------------------------------------------------------------------------
(* The receiver.                                                           *)

LEMMA ReceiverIs ==
  ASSUME EndsInv
  PROVE  /\ receiver = [at |-> receiver.at, count |-> receiver.count,
                        item |-> receiver.item, left |-> receiver.left]
         /\ receiver.count \in Nat /\ receiver.item \in Nat \ {0} /\ receiver.left \in Nat
         /\ files \in [DOMAIN files -> Nat]
<1>1. /\ receiver \in Process
      /\ files \in [DOMAIN files -> Nat]
  BY DEF EndsInv, EndsType
<1> QED BY <1>1 DEF Process

\* What a step of the receiver leaves alone.
ReceiverFrame ==
  /\ UNCHANGED <<items, worker, failed, result, cancelled, slot, canceller, child>>
  /\ receiver.at \notin {"none"} \cup Ended

\* For a receiver that goes on, types and the outcome are as before.
LEMMA ReceiverFrameKeeps ==
  ASSUME EndsInv, ReceiverFrame,
         wire' \in Seq(Part),
         receiver' \in Process,
         files' \in [DOMAIN files' -> Nat],
         \/ receiver'.at = "ok" /\ replied' = (child = "running")
         \/ receiver'.at # "ok" /\ replied' = replied
  PROVE  EndsType' /\ WorkerPlace' /\ Outcome'
<1>1. EndsType' BY DEF EndsInv, EndsType, ReceiverFrame
<1>2. WorkerPlace' BY DEF EndsInv, WorkerPlace, ReceiverFrame
<1>3. child # "none" /\ child # "succeeded" /\ receiver.at # "ok"
  BY DEF EndsInv, ReceiverPlace, Outcome, ReceiverFrame, Ended
<1>4. Outcome' BY <1>3 DEF EndsInv, Outcome, ReceiverFrame, AllWritten, Ended
<1> QED BY <1>1, <1>2, <1>4

\* The receiver fails, and removes what it has, or is killed.
LEMMA GivingUpKeeps ==
  ASSUME EndsInv, ReceiverFrame, UNCHANGED replied,
         wire' \in Seq(Part),
         \/ GiveUp
         \/ receiver' = [receiver EXCEPT !.at = "crashed"] /\ files' = files
  PROVE  EndsInv'
<1>1. receiver'.at \in {"failed", "crashed"} /\ (receiver'.at = "failed" => files' = NoFiles)
  BY ReceiverIs DEF GiveUp
<1>2. receiver' \in Process
  BY ReceiverIs DEF GiveUp, Process, Ended
<1>3. files' \in [DOMAIN files' -> Nat]
  BY ReceiverIs DEF GiveUp, NoFiles
<1>4. EndsType' /\ WorkerPlace' /\ Outcome' BY <1>1, <1>2, <1>3, ReceiverFrameKeeps
<1>5. Between' BY <1>1 DEF Between, Reading
<1>6. child # "none" BY DEF EndsInv, ReceiverPlace, ReceiverFrame
<1>7. ReceiverPlace' BY <1>1, <1>6 DEF ReceiverPlace, ReceiverFrame
<1> QED BY <1>4, <1>5, <1>7 DEF EndsInv

\* The end of the input, wherever it is met.
LEMMA EndKeeps ==
  ASSUME EndsInv, ReceiverFrame, EndOfInput
  PROVE  EndsInv'
<1>1. wire' \in Seq(Part)
  BY DEF EndOfInput, EndsInv, EndsType
<1> QED BY <1>1, GivingUpKeeps DEF EndOfInput, GiveUp

LEMMA ReceiveBeginKeeps ==
  ASSUME EndsInv, ReceiveBegin
  PROVE  EndsInv'
<1>1. ReceiverFrame /\ receiver.at = "begin"
  BY DEF ReceiveBegin, Receives, ReceiverFrame, control, Ended
<1>2. CASE EndOfInput BY <1>1, <1>2, EndKeeps
<1>3. ASSUME Read("begin"), receiver' = [receiver EXCEPT !.at = "header", !.count = Head(wire).n],
             UNCHANGED <<files, replied>>
      PROVE  EndsInv'
  <2>1. ReadTo = <<0, 0>> /\ receiver.item = 1 /\ files = NoFiles
    BY <1>1 DEF ReadTo, EndsInv, ReceiverPlace
  <2>2. /\ receiver'.at = "header" /\ receiver'.item = 1 /\ receiver'.left = receiver.left
        /\ receiver'.count = Head(wire).n
    BY <1>3, <2>1, ReceiverIs
  <2>3. ReadTo' = After(items, ReadTo) BY <2>1, <2>2 DEF ReadTo, After
  <2>4. /\ Between' /\ wire' \in Seq(Part)
        /\ Head(wire) = TokenAt(items, ReadTo)
    BY <1>1, <1>3, <2>3, StreamShrinks DEF Read, Reading, ReceiverFrame
  <2>5. Head(wire).n = Len(items) BY <2>1, <2>4 DEF TokenAt
  <2>6. Len(items) \in Nat \ {0} BY <1>1, BatchIs DEF EndsInv, ReceiverPlace
  <2>7. receiver' \in Process
    BY <1>3, <2>5, <2>6, ReceiverIs DEF Process
  <2>8. files' \in [DOMAIN files' -> Nat] BY <1>3, ReceiverIs
  <2>9. EndsType' /\ WorkerPlace' /\ Outcome'
    BY <1>1, <1>3, <2>4, <2>7, <2>8, ReceiverFrameKeeps
  <2>10. DOMAIN NoFiles = {} BY DEF NoFiles
  <2>11. child # "none" BY <1>1 DEF EndsInv, ReceiverPlace
  <2>12. ReceiverPlace'
    BY <1>1, <1>3, <2>1, <2>2, <2>5, <2>6, <2>10, <2>11 DEF ReceiverPlace, ReceiverFrame
  <2> QED BY <2>4, <2>9, <2>12 DEF EndsInv
<1> QED BY <1>2, <1>3 DEF ReceiveBegin

\* Where the receiver stands inside the batch.
LEMMA ReceiverWithin ==
  ASSUME EndsInv, receiver.at \in {"header", "copy"}
  PROVE  /\ Len(items) \in Nat \ {0} /\ receiver.count = Len(items)
         /\ receiver.item \in 1 .. Len(items) /\ items[receiver.item].size \in Nat
         /\ receiver.left \in Nat
         /\ \A i \in 1 .. receiver.item - 1 : files[i] = items[i].size
         /\ receiver.at = "header" => DOMAIN files = 1 .. receiver.item - 1
         /\ receiver.at = "copy" =>
              /\ DOMAIN files = 1 .. receiver.item
              /\ receiver.left <= items[receiver.item].size
              /\ files[receiver.item] = items[receiver.item].size - receiver.left
<1>1. /\ receiver.count = Len(items) /\ Len(items) > 0 /\ receiver.item <= Len(items)
      /\ \A i \in 1 .. receiver.item - 1 : files[i] = items[i].size
      /\ receiver.at = "header" => DOMAIN files = 1 .. receiver.item - 1
      /\ receiver.at = "copy" =>
           /\ DOMAIN files = 1 .. receiver.item
           /\ receiver.left <= items[receiver.item].size
           /\ files[receiver.item] = items[receiver.item].size - receiver.left
  BY DEF EndsInv, ReceiverPlace
<1>2. receiver.item \in Nat \ {0} /\ receiver.left \in Nat BY ReceiverIs
<1>3. receiver.item \in 1 .. Len(items) /\ items[receiver.item].size \in Nat
  BY <1>1, <1>2, BatchIs
<1>4. Len(items) \in Nat \ {0} BY <1>1, BatchIs
<1> QED BY <1>1, <1>2, <1>3, <1>4

LEMMA ReceiveHeaderKeeps ==
  ASSUME EndsInv, ReceiveHeader
  PROVE  EndsInv'
<1> DEFINE i == receiver.item
<1>1. ReceiverFrame /\ receiver.at = "header"
  BY DEF ReceiveHeader, Receives, ReceiverFrame, control, Ended
<1>2. CASE EndOfInput BY <1>1, <1>2, EndKeeps
<1>3. ReadTo = <<i, 0>> BY <1>1 DEF ReadTo
<1>4. i \in Nat \ {0} BY ReceiverIs
<1>5. ASSUME Read("header"), GiveUp PROVE EndsInv'
  <2>1. wire' \in Seq(Part)
    BY <1>5, HeadTailProperties, EmptySeq DEF Read, EndsInv, EndsType
  <2> QED BY <1>1, <1>5, <2>1, GivingUpKeeps DEF GiveUp
<1>6. ASSUME Read("header"), UNCHANGED replied,
             files' = [j \in DOMAIN files \cup {i} |-> IF j = i THEN 0 ELSE files[j]],
             receiver' = [receiver EXCEPT !.at = "copy", !.left = Head(wire).n]
      PROVE  EndsInv'
  <2> DEFINE size == items[i].size
  <2>1. /\ receiver'.at = "copy" /\ receiver'.item = i /\ receiver'.left = Head(wire).n
        /\ receiver'.count = receiver.count
    BY <1>6, ReceiverIs
  <2>2. /\ wire \in Seq(Part) /\ wire # <<>>
        /\ wire' = Tail(wire)
    BY <1>6 DEF EndsInv, EndsType, Read
  <2>3. /\ Head(wire) = TokenAt(items, ReadTo)
    <3>1. PICK q : Carries(items, wire, ReadTo, q)
      BY <1>1 DEF EndsInv, Between, Reading
    <3> QED BY <2>2, <3>1, CarriesTail
  <2>4. Head(wire).n = size BY <1>3, <1>4, <2>3 DEF TokenAt
  <2>5. i \in 1 .. Len(items) /\ size \in Nat BY <1>1, ReceiverWithin
  <2>6. ReadTo' = After(items, ReadTo)
    <3>1. items' = items /\ items'[receiver'.item].size - receiver'.left = 0
      BY <1>1, <2>1, <2>4, <2>5 DEF ReceiverFrame
    <3> QED BY <1>3, <2>1, <3>1 DEF ReadTo
  <2>7. Between' /\ wire' \in Seq(Part)
    BY <1>1, <2>2, <2>6, StreamShrinks DEF Reading, ReceiverFrame
  <2>8. receiver' \in Process
    BY <1>6, <2>4, <2>5, ReceiverIs DEF Process
  <2>9. /\ DOMAIN files = 1 .. i - 1 /\ DOMAIN files' = 1 .. i
        /\ \A j \in 1 .. i : files'[j] = IF j = i THEN 0 ELSE files[j]
    <3>1. DOMAIN files = 1 .. i - 1 BY <1>1, ReceiverWithin
    <3>2. DOMAIN files \cup {i} = 1 .. i BY <1>4, <3>1
    <3> QED BY <1>6, <3>1, <3>2
  <2>10. files' \in [DOMAIN files' -> Nat]
    BY <1>6, ReceiverIs
  <2>11. EndsType' /\ WorkerPlace' /\ Outcome'
    BY <1>1, <1>6, <2>1, <2>7, <2>8, <2>10, ReceiverFrameKeeps
  <2>12. child # "none" BY <1>1 DEF EndsInv, ReceiverPlace
  <2>13. /\ receiver'.count = Len(items) /\ Len(items) > 0 /\ i <= Len(items)
         /\ \A j \in 1 .. i - 1 : files'[j] = items[j].size
         /\ files'[i] = size - receiver'.left /\ receiver'.left <= size
    <3>1. \A j \in 1 .. i - 1 : j \in 1 .. i /\ j # i BY <1>4
    <3>2. i \in 1 .. i BY <1>4
    <3>3. \A j \in 1 .. i - 1 : files'[j] = items[j].size
      BY <1>1, <2>9, <3>1, ReceiverWithin
    <3>4. files'[i] = 0 BY <2>9, <3>2
    <3> QED BY <1>1, <2>1, <2>4, <2>5, <3>3, <3>4, ReceiverWithin
  <2>14. ReceiverPlace'
    <3>1. /\ receiver'.at = "copy" /\ items' = items /\ child' # "none"
          /\ receiver'.count = Len(items') /\ Len(items') > 0
          /\ receiver'.item <= Len(items') /\ receiver'.item <= Len(items') + 1
          /\ DOMAIN files' = 1 .. receiver'.item
      BY <1>1, <2>1, <2>5, <2>9, <2>12, <2>13, BatchIs DEF ReceiverFrame
    <3>2. /\ \A j \in 1 .. receiver'.item - 1 : files'[j] = items'[j].size
          /\ receiver'.left <= items'[receiver'.item].size
          /\ files'[receiver'.item] = items'[receiver'.item].size - receiver'.left
      BY <2>1, <2>13, <3>1
    <3> QED BY <3>1, <3>2 DEF ReceiverPlace
  <2> QED BY <2>7, <2>11, <2>14 DEF EndsInv
<1> QED BY <1>2, <1>5, <1>6 DEF ReceiveHeader

LEMMA ReceiveDataKeeps ==
  ASSUME EndsInv, ReceiveData
  PROVE  EndsInv'
<1> DEFINE i == receiver.item
<1> DEFINE size == items[i].size
<1>1. ReceiverFrame /\ receiver.at = "copy" /\ receiver.left > 0
  BY DEF ReceiveData, Receives, ReceiverFrame, control, Ended
<1>2. CASE EndOfInput BY <1>1, <1>2, EndKeeps
<1>3. ASSUME Read("data"), GiveUp PROVE EndsInv'
  <2>1. wire' \in Seq(Part)
    BY <1>3, HeadTailProperties, EmptySeq DEF Read, EndsInv, EndsType
  <2> QED BY <1>1, <1>3, <2>1, GivingUpKeeps DEF GiveUp
<1>4. ASSUME Read("data"), UNCHANGED replied, files' = [files EXCEPT ![i] = @ + 1],
             receiver' = [receiver EXCEPT !.left = @ - 1]
      PROVE  EndsInv'
  <2>1. /\ i \in 1 .. Len(items) /\ size \in Nat /\ receiver.left \in Nat
        /\ receiver.left <= size /\ DOMAIN files = 1 .. i
        /\ files[i] = size - receiver.left
    BY <1>1, ReceiverWithin
  <2>2. receiver' = [at |-> receiver.at, count |-> receiver.count, item |-> i,
                     left |-> receiver.left - 1]
    BY <1>4, ReceiverIs
  <2>3. receiver.left - 1 \in Nat BY <1>1, <2>1
  <2>4. wire # <<>> /\ wire' = Tail(wire) BY <1>4 DEF Read
  <2>5. ReadTo' = After(items, ReadTo)
    <3>1. ReadTo = After(items, <<i, size - receiver.left>>) BY <1>1 DEF ReadTo
    <3>2. ReadTo' = After(items, <<i, size - (receiver.left - 1)>>)
      BY <1>1, <2>2 DEF ReadTo, ReceiverFrame
    <3>3. After(items, <<i, size - receiver.left>>) = <<i, size - receiver.left + 1>>
      BY <1>1, <2>1 DEF After
    <3>4. (size - receiver.left) + 1 = size - (receiver.left - 1) BY <2>1
    <3> QED BY <3>1, <3>2, <3>3, <3>4
  <2>6. Between' /\ wire' \in Seq(Part)
    BY <1>1, <2>4, <2>5, StreamShrinks DEF Reading, ReceiverFrame
  <2>7. receiver' \in Process
    BY <1>1, <2>2, <2>3, ReceiverIs DEF Process
  <2>8. /\ DOMAIN files' = 1 .. i /\ files'[i] = files[i] + 1
        /\ \A j \in 1 .. i - 1 : files'[j] = files[j]
    BY <1>4, <2>1
  <2>9. files' \in [DOMAIN files' -> Nat]
    <3>1. files[i] + 1 \in Nat BY <2>1
    <3> QED BY <1>4, <3>1, ReceiverIs
  <2>10. EndsType' /\ WorkerPlace' /\ Outcome'
    BY <1>1, <1>4, <2>2, <2>6, <2>7, <2>9, ReceiverFrameKeeps
  <2>11. child # "none" BY <1>1 DEF EndsInv, ReceiverPlace
  <2>12. /\ receiver.count = Len(items) /\ Len(items) > 0 /\ i <= Len(items)
         /\ \A j \in 1 .. i - 1 : files'[j] = items[j].size
         /\ files'[i] = size - (receiver.left - 1) /\ receiver.left - 1 <= size
    BY <1>1, <2>1, <2>8, ReceiverWithin
  <2>13. ReceiverPlace'
    <3>1. /\ receiver'.at = "copy" /\ items' = items /\ child' # "none"
          /\ receiver'.count = Len(items') /\ Len(items') > 0
          /\ receiver'.item <= Len(items') /\ receiver'.item <= Len(items') + 1
          /\ DOMAIN files' = 1 .. receiver'.item
      BY <1>1, <2>1, <2>2, <2>8, <2>11, <2>12, BatchIs DEF ReceiverFrame
    <3>2. /\ \A j \in 1 .. receiver'.item - 1 : files'[j] = items'[j].size
          /\ receiver'.left <= items'[receiver'.item].size
          /\ files'[receiver'.item] = items'[receiver'.item].size - receiver'.left
      BY <2>2, <2>12, <3>1
    <3> QED BY <3>1, <3>2 DEF ReceiverPlace
  <2> QED BY <2>6, <2>10, <2>13 DEF EndsInv
<1> QED BY <1>2, <1>3, <1>4 DEF ReceiveData

LEMMA FileDoneKeeps ==
  ASSUME EndsInv, FileDone
  PROVE  EndsInv'
<1> DEFINE i == receiver.item
<1>1. /\ ReceiverFrame /\ receiver.at = "copy" /\ receiver.left = 0
      /\ UNCHANGED <<wire, files, replied>>
  BY DEF FileDone, Receives, ReceiverFrame, control, Ended
<1>2. /\ i \in 1 .. Len(items) /\ items[i].size \in Nat /\ Len(items) \in Nat
      /\ receiver.count = Len(items) /\ DOMAIN files = 1 .. i
      /\ files[i] = items[i].size - 0
      /\ \A j \in 1 .. i - 1 : files[j] = items[j].size
  BY <1>1, ReceiverWithin
<1>3. receiver' = [at |-> IF i = receiver.count THEN "respond" ELSE "header",
                   count |-> receiver.count, item |-> i + 1, left |-> receiver.left]
  <2>1. receiver' = [receiver EXCEPT !.item = i + 1,
                       !.at = IF i = receiver.count THEN "respond" ELSE "header"]
    BY DEF FileDone
  <2> QED BY <2>1, ReceiverIs
<1>4. receiver' \in Process
  <2>1. i + 1 \in Nat \ {0} BY <1>2
  <2> QED BY <1>3, <2>1, ReceiverIs DEF Process
<1>5. EndsType' /\ WorkerPlace' /\ Outcome'
  <2>1. receiver'.at # "ok" BY <1>3
  <2>2. wire' \in Seq(Part)
    BY <1>1 DEF EndsInv, EndsType
  <2>3. files' \in [DOMAIN files' -> Nat] BY <1>1, ReceiverIs
  <2> QED BY <1>1, <1>4, <2>1, <2>2, <2>3, ReceiverFrameKeeps
<1>6. ReadTo' = ReadTo
  <2>1. ReadTo = After(items, <<i, items[i].size - 0>>) BY <1>1 DEF ReadTo
  <2>2. After(items, <<i, items[i].size - 0>>) = <<i + 1, 0>> BY <1>2 DEF After
  <2>3. ReadTo' = <<i + 1, 0>> BY <1>3 DEF ReadTo
  <2> QED BY <2>1, <2>2, <2>3
<1>7. Between'
  BY <1>1, <1>6 DEF EndsInv, Between, Reading, ReceiverFrame, WrittenTo
<1>8. \A j \in 1 .. (i + 1) - 1 : files[j] = items[j].size
  <2>1. \A j \in 1 .. (i + 1) - 1 : j = i \/ j \in 1 .. i - 1 BY <1>2
  <2> QED BY <1>2, <2>1
<1>9. child # "none" BY <1>1 DEF EndsInv, ReceiverPlace
<1>10. ReceiverPlace'
  <2>1. CASE i = receiver.count
    BY <1>1, <1>2, <1>3, <1>8, <1>9, <2>1 DEF ReceiverPlace, ReceiverFrame
  <2>2. CASE i # receiver.count
    <3>1. i + 1 <= Len(items) /\ 1 .. (i + 1) - 1 = 1 .. i /\ Len(items) > 0 BY <1>2, <2>2
    <3> QED BY <1>1, <1>2, <1>3, <1>8, <1>9, <2>2, <3>1 DEF ReceiverPlace, ReceiverFrame
  <2> QED BY <2>1, <2>2
<1> QED BY <1>5, <1>7, <1>10 DEF EndsInv

LEMMA RespondKeeps ==
  ASSUME EndsInv, Respond
  PROVE  EndsInv'
<1>1. ReceiverFrame /\ receiver.at = "respond" /\ wire' = wire
  BY DEF Respond, Receives, ReceiverFrame, control, Ended
<1>2. wire' \in Seq(Part)
  BY <1>1 DEF EndsInv, EndsType
<1>3. CASE GiveUp BY <1>1, <1>2, <1>3, GivingUpKeeps DEF GiveUp
<1>4. ASSUME receiver' = [receiver EXCEPT !.at = "ok"], replied' = (child = "running"),
             files' = files
      PROVE  EndsInv'
  <2>1. receiver' = [at |-> "ok", count |-> receiver.count, item |-> receiver.item,
                     left |-> receiver.left]
    BY <1>4, ReceiverIs
  <2>2. receiver' \in Process
    BY <2>1, ReceiverIs DEF Process, Ended
  <2>3. files' \in [DOMAIN files' -> Nat] BY <1>4, ReceiverIs
  <2>4. EndsType' /\ WorkerPlace' /\ Outcome'
    BY <1>1, <1>2, <1>4, <2>1, <2>2, <2>3, ReceiverFrameKeeps
  <2>5. ReadTo' = ReadTo BY <1>1, <2>1 DEF ReadTo
  <2>6. Between'
    BY <1>1, <2>5 DEF EndsInv, Between, Reading, ReceiverFrame, WrittenTo
  <2>7. ReceiverPlace' BY <1>1, <1>4, <2>1 DEF EndsInv, ReceiverPlace, ReceiverFrame
  <2> QED BY <2>4, <2>6, <2>7 DEF EndsInv
<1> QED BY <1>3, <1>4 DEF Respond

LEMMA CrashKeeps ==
  ASSUME EndsInv, Crash
  PROVE  EndsInv'
<1>1. /\ ReceiverFrame /\ receiver' = [receiver EXCEPT !.at = "crashed"]
      /\ UNCHANGED <<wire, files, replied>>
  BY DEF Crash, ReceiverFrame, control, link
<1>2. wire' \in Seq(Part)
  BY <1>1 DEF EndsInv, EndsType
<1> QED BY <1>1, <1>2, GivingUpKeeps

-----------------------------------------------------------------------------
LEMMA EndsInit == Init => EndsInv
<1> SUFFICES ASSUME Init PROVE EndsInv
  OBVIOUS
<1>1. items \in Batch BY UploadAssumption DEF Init, Batch
<1>2. DOMAIN NoFiles = {} /\ NoFiles \in [DOMAIN NoFiles -> Nat] BY DEF NoFiles
<1>3. /\ worker.at = "start" /\ worker.item = 1 /\ worker.sent = 0
      /\ receiver.at = "none" /\ receiver.item = 1 /\ child = "none" /\ wire = <<>>
      /\ files = NoFiles /\ result = "none" /\ canceller = "idle"
      /\ failed = FALSE /\ cancelled = FALSE /\ slot = FALSE
  BY DEF Init
<1>4. EndsType
  <2>1. worker \in [at : WorkerAt, item : Nat \ {0}, sent : Nat] BY DEF Init, WorkerAt
  <2>2. receiver \in Process
    BY DEF Init, Process
  <2>3. wire \in Seq(Part) BY <1>3
  <2>4. files \in [DOMAIN files -> Nat] BY <1>2, <1>3
  <2>5. child \in {"none", "running"} \cup Dead BY <1>3
  <2>6. failed \in BOOLEAN /\ cancelled \in BOOLEAN /\ slot \in BOOLEAN BY <1>3, Zenon
  <2> QED BY <1>1, <2>1, <2>2, <2>3, <2>4, <2>5, <2>6 DEF EndsType
<1>5. Len(items) \in Nat BY <1>1, LenProperties DEF Batch
<1>6. WorkerPlace BY <1>3, <1>5 DEF WorkerPlace
<1>7. ReceiverPlace BY <1>3 DEF ReceiverPlace
<1>8. Between
  <2>1. ReadTo = <<0, 0>> BY <1>3 DEF ReadTo
  <2>2. Carries(items, <<>>, <<0, 0>>, <<0, 0>>) BY CarriesNothing
  <2> QED BY <1>3, <2>1, <2>2 DEF Between
<1>9. Outcome BY <1>3 DEF Outcome, Dead
<1> QED BY <1>4, <1>6, <1>7, <1>8, <1>9 DEF EndsInv

LEMMA EndsStep == EndsInv /\ [Next]_vars => EndsInv'
<1> SUFFICES ASSUME EndsInv, [Next]_vars PROVE EndsInv'
  OBVIOUS
<1>1. CASE Cancel BY <1>1, ControlKeeps DEF Cancel
<1>2. CASE Work
  BY <1>2, ControlKeeps, SpawnKeeps, TransferKeeps DEF Work
<1>3. CASE Receive
  BY <1>3, ReceiveBeginKeeps, ReceiveHeaderKeeps, ReceiveDataKeeps, FileDoneKeeps,
     RespondKeeps DEF Receive
<1>4. CASE ChildExits \/ LinkBreaks BY <1>4, LinkKeeps
<1>5. CASE Crash BY <1>5, CrashKeeps
<1>6. CASE ClientEnds BY <1>6, ControlKeeps
<1>7. CASE UNCHANGED vars
  <2>1. UNCHANGED <<items, worker, failed, result, cancelled, slot, canceller, child, wire,
                    receiver, files, replied>>
    BY <1>7 DEF vars, control, link, remote
  <2>2. EndsType' /\ WorkerPlace' /\ ReceiverPlace'
    BY <2>1 DEF EndsInv, EndsType, WorkerPlace, ReceiverPlace
  <2>3. Between' BY <2>1 DEF EndsInv, Between, Reading, ReadTo, WrittenTo
  <2>4. Outcome' BY <2>1 DEF EndsInv, Outcome, AllWritten
  <2> QED BY <2>2, <2>3, <2>4 DEF EndsInv
<1> QED BY <1>1, <1>2, <1>3, <1>4, <1>5, <1>6, <1>7 DEF Next

(* The paths that are pasted are those of files the receiver has kept,     *)
(* whole; it keeps all or nothing; and it keeps all without the client     *)
(* being told only after a cancel or a lost connection (SshUploader::upload *)
(* and receive_upload).                                                    *)
THEOREM BothEndsAgree == Spec => []EndsAgree
<1>1. EndsInv => EndsAgree
  <2> SUFFICES ASSUME EndsInv PROVE EndsAgree
    OBVIOUS
  <2>1. receiver.at = "ok" => Complete(items)
    <3> SUFFICES ASSUME receiver.at = "ok" PROVE Complete(items)
      OBVIOUS
    <3>1. /\ receiver.item = Len(items) + 1 /\ DOMAIN files = 1 .. Len(items)
          /\ \A i \in 1 .. receiver.item - 1 : files[i] = items[i].size
      BY DEF EndsInv, ReceiverPlace
    <3>2. DOMAIN items = 1 .. Len(items) /\ Len(items) \in Nat
      BY BatchIs, LenProperties DEF Batch
    <3>3. 1 .. receiver.item - 1 = 1 .. Len(items) BY <3>1, <3>2
    <3> QED BY <3>1, <3>2, <3>3 DEF Complete
  <2>2. receiver.at = "failed" => files = NoFiles BY DEF EndsInv, ReceiverPlace
  <2>3. /\ result = "ok" => receiver.at = "ok"
        /\ result = "error" /\ child = "succeeded" => canceller # "idle"
    BY DEF EndsInv, Outcome
  <2> QED BY <2>1, <2>2, <2>3 DEF EndsAgree
<1> QED BY <1>1, EndsInit, EndsStep, PTL DEF Spec
=============================================================================
