--------------------------------- MODULE Upload ---------------------------------
(***************************************************************************)
(* The upload of pasted files (src/transport.rs): a worker of the client   *)
(* (SshUploader::upload) feeds an ssh child, the receiver on the other end *)
(* (receive_upload) writes the files and answers with their paths, and the *)
(* client may cancel at any time through the UploadControl it shares with  *)
(* the worker.                                                             *)
(*                                                                         *)
(* Sizes are counted in buffers.  The pipes of ssh and the network between *)
(* are one queue, `wire`: "begin" with the number of items, a "header" per *)
(* item, and its "data".  ssh and sshd are external.                       *)
(***************************************************************************)
EXTENDS Integers, Sequences, FiniteSets

CONSTANTS
  Batches,    \* what is pasted: items [size: as announced, content: as read]
  MaxItems,   \* MAX_REMOTE_UPLOAD_ITEMS
  MaxTotal,   \* MAX_REMOTE_UPLOAD_SIZE
  Capacity    \* bound: what the wire holds

ASSUME UploadAssumption ==
  /\ Batches \subseteq Seq([size : Nat, content : Nat])
  /\ MaxItems \in Nat /\ MaxTotal \in Nat /\ Capacity \in Nat \ {0}

VARIABLES
  items,      \* the items of this upload
  worker,     \* its thread: at, and the item and the bytes it has come to
  failed,     \* transfer_error
  result,     \* what upload returns
  cancelled,  \* UploadControlState::cancelled
  slot,       \* UploadControlState::child is Some
  canceller,  \* the client's call of cancel: "idle", "flagged", "done"
  child,      \* the ssh process: "none", "running", "succeeded", "failed", "killed"
  wire,       \* what the receiver has not read
  closed,     \* nothing more is written to it
  receiver,   \* the remote process: at, the items it expects, the one it has come
              \* to, and the bytes of it that are still to come
  files,      \* the files it created: item number -> bytes written
  replied     \* the response has reached the client

control == <<cancelled, slot>>
link == <<child, wire, closed>>
remote == <<receiver, files, replied>>
vars == <<items, worker, failed, result, control, canceller, link, remote>>

Total(batch) ==
  LET sum[i \in 0 .. Len(batch)] == IF i = 0 THEN 0 ELSE sum[i - 1] + batch[i].size
  IN sum[Len(batch)]

NoFiles == [i \in {} |-> 0]
Dead == {"succeeded", "failed", "killed"}
Ended == {"ok", "failed", "crashed"}

Init ==
  /\ items \in Batches
  /\ worker = [at |-> "start", item |-> 1, sent |-> 0]
  /\ failed = FALSE /\ result = "none"
  /\ cancelled = FALSE /\ slot = FALSE /\ canceller = "idle"
  /\ child = "none" /\ wire = <<>> /\ closed = FALSE
  /\ receiver = [at |-> "none", count |-> 0, item |-> 1, left |-> 0]
  /\ files = NoFiles /\ replied = FALSE

-----------------------------------------------------------------------------
(* The ssh child *)

\* Its end cuts the wire behind some of what is on it.
Dies(how) ==
  /\ child' = how
  /\ \E n \in 0 .. Len(wire) : wire' = SubSeq(wire, 1, n)
  /\ closed' = TRUE

KillInstalled ==
  IF slot /\ child = "running" THEN Dies("killed") ELSE UNCHANGED link

\* ssh ends with the status of the remote command, or with 255 when the
\* connection is lost.
ChildExits ==
  /\ child = "running" /\ receiver.at \in Ended
  /\ Dies(IF receiver.at = "ok" THEN "succeeded" ELSE "failed")
  /\ UNCHANGED <<items, worker, failed, result, control, canceller, remote>>

LinkBreaks ==
  /\ child = "running"
  /\ Dies("failed")
  /\ UNCHANGED <<items, worker, failed, result, control, canceller, remote>>

-----------------------------------------------------------------------------
(* Cancelling: Esc, no progress for a while, a reconnection, or the end of *)
(* the client.                                                             *)

CancelFlags ==
  /\ canceller = "idle" /\ canceller' = "flagged"
  /\ cancelled' = TRUE
  /\ UNCHANGED <<items, worker, failed, result, slot, link, remote>>

\* Mutant: the flag is all there is to cancelling.
FlagOnly ==
  /\ canceller = "flagged" /\ canceller' = "done"
  /\ UNCHANGED <<items, worker, failed, result, control, link, remote>>

CancelKills ==
  /\ canceller = "flagged" /\ canceller' = "done"
  /\ KillInstalled
  /\ UNCHANGED <<items, worker, failed, result, control, remote>>

-----------------------------------------------------------------------------
(* The worker *)

Returns(r) == worker' = [worker EXCEPT !.at = "done"] /\ result' = r

Acceptable(batch) == Len(batch) \in 1 .. MaxItems /\ Total(batch) <= MaxTotal

\* The first lines of upload; ssh may fail to start.
Refuse ==
  /\ worker.at = "start"
  /\ Returns("error")
  /\ UNCHANGED <<items, failed, control, canceller, link, remote>>

Spawn ==
  /\ worker.at = "start" /\ ~cancelled /\ Acceptable(items)
  /\ worker' = [worker EXCEPT !.at = "spawned"]
  /\ child' = "running"
  /\ receiver' = [receiver EXCEPT !.at = "begin"]
  /\ UNCHANGED <<items, failed, result, control, canceller, wire, closed, files, replied>>

\* UploadControl::install: the child is registered before the flag is read again.
Install ==
  /\ worker.at = "spawned"
  /\ slot' = TRUE
  /\ worker' = [worker EXCEPT !.at = "registered"]
  /\ UNCHANGED <<items, failed, result, cancelled, canceller, link, remote>>

\* Mutant: the flag is not read again.
TrustStart ==
  /\ worker.at = "registered"
  /\ worker' = [worker EXCEPT !.at = "begin"]
  /\ UNCHANGED <<items, failed, result, control, canceller, link, remote>>

Recheck ==
  /\ worker.at = "registered"
  /\ IF cancelled THEN KillInstalled ELSE UNCHANGED link
  /\ worker' = [worker EXCEPT !.at = "begin"]
  /\ UNCHANGED <<items, failed, result, control, canceller, remote>>

\* The transfer is over: stdin is dropped, and a failure cancels.
Finishes ==
  /\ worker' = [worker EXCEPT !.at = "waiting"] /\ closed' = TRUE
  /\ UNCHANGED <<failed, cancelled, child, wire>>
Fails ==
  /\ worker' = [worker EXCEPT !.at = "waiting"]
  /\ failed' = TRUE /\ cancelled' = TRUE
  /\ IF slot /\ child = "running" THEN Dies("killed")
     ELSE closed' = TRUE /\ UNCHANGED <<child, wire>>

\* write_all: blocks while the wire is full, fails once ssh is gone.
Writes(token, then) ==
  /\ child = "running" /\ Len(wire) < Capacity
  /\ wire' = Append(wire, token)
  /\ worker' = then
  /\ UNCHANGED <<failed, cancelled, child, closed>>
WriteFails == child \in Dead /\ Fails

Transfers(at) ==
  /\ worker.at = at
  /\ UNCHANGED <<items, result, slot, canceller, remote>>

Begin ==
  /\ Transfers("begin")
  /\ \/ Writes([is |-> "begin", n |-> Len(items)], [worker EXCEPT !.at = "item"])
     \/ WriteFails

\* The head of the loop over the items, and of the one over the bytes of an item.
Check ==
  /\ Transfers("item")
  /\ LET more == worker.item <= Len(items) IN
     CASE ~more -> Finishes
       [] more /\ cancelled -> Fails
       [] OTHER -> /\ worker' = [worker EXCEPT !.at = "header"]
                   /\ UNCHANGED <<failed, cancelled, link>>

SendHeader ==
  /\ Transfers("header")
  /\ \/ Writes([is |-> "header", n |-> items[worker.item].size],
               [worker EXCEPT !.at = "bytes"])
     \/ WriteFails

CheckBytes ==
  /\ Transfers("bytes")
  /\ CASE worker.sent = items[worker.item].size ->
            /\ worker' = [at |-> "item", item |-> worker.item + 1, sent |-> 0]
            /\ UNCHANGED <<failed, cancelled, link>>
       [] worker.sent < items[worker.item].size /\ cancelled -> Fails
       [] OTHER -> /\ worker' = [worker EXCEPT !.at = "data"]
                   /\ UNCHANGED <<failed, cancelled, link>>

\* A file that has become shorter ends the transfer.
SendData ==
  /\ Transfers("data")
  /\ IF worker.sent = items[worker.item].content THEN Fails
     ELSE \/ Writes([is |-> "data", n |-> 1],
                    [worker EXCEPT !.at = "bytes", !.sent = @ + 1])
          \/ WriteFails

\* Mutant: what was written counts as uploaded.
SuccessUnread == ~failed /\ ~cancelled
\* What is looked at once the child is reaped.
Success == ~failed /\ child = "succeeded" /\ ~cancelled /\ replied

\* UploadControl::wait, and what follows it
Wait ==
  /\ worker.at = "waiting" /\ child \in Dead
  /\ slot' = FALSE
  /\ Returns(IF Success THEN "ok" ELSE "error")
  /\ UNCHANGED <<items, failed, cancelled, canceller, link, remote>>

\* The client ends, orderly or not, and its threads with it.
ClientEnds ==
  /\ worker.at \notin {"done", "gone"}
  /\ worker' = [worker EXCEPT !.at = "gone"] /\ closed' = TRUE
  /\ canceller' = "done"
  /\ UNCHANGED <<items, failed, result, control, child, wire, remote>>

-----------------------------------------------------------------------------
(* The receiver *)

Receives(at) ==
  /\ receiver.at = at
  /\ UNCHANGED <<items, worker, failed, result, control, canceller, child, closed>>

\* An error, at any point: everything received is removed.
GiveUp ==
  /\ receiver' = [receiver EXCEPT !.at = "failed"]
  /\ files' = NoFiles
  /\ UNCHANGED replied

Read(is) == wire # <<>> /\ Head(wire).is = is /\ wire' = Tail(wire)
EndOfInput == wire = <<>> /\ closed /\ GiveUp /\ UNCHANGED wire

ReceiveBegin ==
  /\ Receives("begin")
  /\ \/ /\ Read("begin")
        /\ receiver' = [receiver EXCEPT !.at = "header", !.count = Head(wire).n]
        /\ UNCHANGED <<files, replied>>
     \/ EndOfInput

\* create_upload_file may fail.
ReceiveHeader ==
  /\ Receives("header")
  /\ \/ /\ Read("header")
        /\ \/ /\ files' = [i \in DOMAIN files \cup {receiver.item} |->
                             IF i = receiver.item THEN 0 ELSE files[i]]
              /\ receiver' = [receiver EXCEPT !.at = "copy", !.left = Head(wire).n]
              /\ UNCHANGED replied
           \/ GiveUp
     \/ EndOfInput

\* io::copy of what is still to come of the item; the disk may be full.
ReceiveData ==
  /\ Receives("copy") /\ receiver.left > 0
  /\ \/ /\ Read("data")
        /\ \/ /\ files' = [files EXCEPT ![receiver.item] = @ + 1]
              /\ receiver' = [receiver EXCEPT !.left = @ - 1]
              /\ UNCHANGED replied
           \/ GiveUp
     \/ EndOfInput

FileDone ==
  /\ Receives("copy") /\ receiver.left = 0
  /\ receiver' = [receiver EXCEPT !.item = @ + 1,
                    !.at = IF receiver.item = receiver.count THEN "respond" ELSE "header"]
  /\ UNCHANGED <<wire, files, replied>>

\* The response is written, or the connection to write it to is gone.
Respond ==
  /\ Receives("respond")
  /\ UNCHANGED wire
  /\ \/ /\ receiver' = [receiver EXCEPT !.at = "ok"]
        /\ replied' = (child = "running")
        /\ UNCHANGED files
     \/ GiveUp

\* The process is killed, or its host stops.
Crash ==
  /\ receiver.at \notin Ended \cup {"none"}
  /\ receiver' = [receiver EXCEPT !.at = "crashed"]
  /\ UNCHANGED <<items, worker, failed, result, control, canceller, link, files, replied>>

-----------------------------------------------------------------------------
Cancel == CancelFlags \/ CancelKills
Work == Refuse \/ Spawn \/ Install \/ Recheck \/ Begin \/ Check \/ SendHeader
        \/ CheckBytes \/ SendData \/ Wait
Receive == ReceiveBegin \/ ReceiveHeader \/ ReceiveData \/ FileDone \/ Respond

Next == Cancel \/ Work \/ Receive \/ ChildExits \/ LinkBreaks \/ Crash \/ ClientEnds

Spec == Init /\ [][Next]_vars

\* The threads of the client run on, and it cancels an upload that makes no
\* progress; nothing is promised of the other end.
FairSpec == Spec /\ WF_vars(Work) /\ WF_vars(Cancel)

-----------------------------------------------------------------------------
Complete(batch) ==
  /\ DOMAIN files = DOMAIN batch
  /\ \A i \in DOMAIN batch : files[i] = batch[i].size

\* The two ends agree.  The paths that are pasted are those of files the receiver
\* has kept; what a receiver leaves behind is all of the files with all of their
\* bytes, or nothing; and it is all without the client being told only if that has
\* cancelled, ended or lost the connection.  (A receiver that is killed leaves what
\* it has, until another removes what is older than a day.)
EndsAgree ==
  /\ result = "ok" => receiver.at = "ok"
  /\ receiver.at = "ok" => Complete(items)
  /\ receiver.at = "failed" => files = NoFiles
  /\ receiver.at = "ok" /\ result = "error" => canceller # "idle" \/ child # "succeeded"

\* A child that is registered does not outlive cancel, whichever of the two
\* threads comes first.
CancelledChildIsKilled ==
  canceller = "done" /\ slot /\ worker.at \notin {"registered", "gone"} =>
    child # "running"

\* The worker comes to an end, also if the other end reads and answers nothing.
UploadEnds == <>(worker.at \in {"done", "gone"})
=============================================================================
