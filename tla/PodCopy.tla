------------------------------ MODULE PodCopy ------------------------------
(***************************************************************************)
(* CopyFromPod and CopyToPod (pkg/util/exec/tar.go): the files of a        *)
(* directory go through a tar archive from one goroutine to another. The   *)
(* pipe between them (io.Pipe) holds nothing: a write waits for a read,    *)
(* and ends with an error once the reader has closed its side. Of the two, *)
(* one is the exec of tar in the pod and the other packs or unpacks.       *)
(* Files are regular files: both pass over links and other entries, which  *)
(* are therefore no part of a copy, and log them.                          *)
(***************************************************************************)
EXTENDS Naturals

VARIABLE copy

NoCopy ==
    [way |-> "none", left |-> {}, landed |-> {}, writer |-> "done", writeErr |-> FALSE,
     reader |-> "idle", readErr |-> FALSE, pipe |-> "open", errCh |-> "empty"]

CopyType(File) ==
    [way : {"none", "from", "to"},
     left : SUBSET File,            \* what the writer has not written
     landed : SUBSET File,          \* what has arrived at the other end
     writer : {"write", "report", "close", "done"}, writeErr : BOOLEAN,
     reader : {"idle", "read", "drain", "close", "receive", "done"}, readErr : BOOLEAN,
     pipe : {"open", "eof", "broken"},
     errCh : {"empty", "nil", "error"}]  \* the writer's error, a channel of capacity one

StartCopy(way, files) ==
    copy' = [NoCopy EXCEPT !.way = way, !.left = files, !.writer = "write", !.reader = "read"]

Meet == copy.writer = "write" /\ copy.reader = "read" /\ copy.pipe = "open"

WriteEntry ==
    /\ Meet
    /\ \E f \in copy.left :
         copy' = [copy EXCEPT !.left = @ \ {f}, !.landed = @ \cup {f}]

(* The end of the archive. tar in the pod exits; extractTar returns, and    *)
(* CopyFromPod reads on until tar in the pod has exited.                    *)
WriteTrailer ==
    /\ Meet /\ copy.left = {}
    /\ copy' = [copy EXCEPT !.writer = "report",
                            !.reader = IF copy.way = "from" THEN "drain" ELSE "close"]

(* A write to a pipe whose reader is gone. createTar does not look at the   *)
(* error of the trailer; exec may or may not report that of its output.     *)
WriteBroken ==
    /\ copy.writer = "write" /\ copy.pipe = "broken"
    /\ \E err \in BOOLEAN :
         /\ copy.way = "to" => (err <=> copy.left # {} \/ copy.writeErr)
         /\ copy' = [copy EXCEPT !.writer = "report", !.writeErr = err]

(* Mutant: a channel without a buffer. *)
ReportUnbuffered ==
    /\ copy.writer = "report" /\ copy.reader = "receive"
    /\ copy' = [copy EXCEPT !.writer = "close",
                            !.errCh = IF copy.writeErr THEN "error" ELSE "nil"]

Report ==
    /\ copy.writer = "report"
    /\ copy' = [copy EXCEPT !.writer = "close",
                            !.errCh = IF copy.writeErr THEN "error" ELSE "nil"]

CloseWriter ==
    /\ copy.writer = "close"
    /\ copy' = [copy EXCEPT !.writer = "done", !.pipe = IF @ = "open" THEN "eof" ELSE @]

(* The writer has closed before the end of the archive. Between two entries *)
(* this passes for its end: with extractTar, and maybe with tar in the pod. *)
ReadEOF ==
    /\ copy.reader = "read" /\ copy.pipe = "eof"
    /\ \/ copy' = [copy EXCEPT !.reader = IF copy.way = "from" THEN "drain" ELSE "close"]
       \/ copy' = [copy EXCEPT !.reader = "close", !.readErr = TRUE]

Drain ==
    /\ copy.reader = "drain" /\ copy.pipe = "eof"
    /\ copy' = [copy EXCEPT !.reader = "close"]

CloseReader ==
    /\ copy.reader = "close"
    /\ copy' = [copy EXCEPT !.reader = "receive", !.pipe = IF @ = "open" THEN "broken" ELSE @]

(* Mutant: the error of the other goroutine is not looked at. *)
ReceiveOnly ==
    /\ copy.reader = "receive" /\ copy.errCh # "empty"
    /\ copy' = [copy EXCEPT !.reader = "done"]

Receive ==
    /\ copy.reader = "receive" /\ copy.errCh # "empty"
    /\ copy' = [copy EXCEPT !.reader = "done", !.readErr = @ \/ copy.errCh = "error"]

CopyStep ==
    \/ WriteEntry \/ WriteTrailer \/ WriteBroken \/ Report \/ CloseWriter
    \/ ReadEOF \/ Drain \/ CloseReader \/ Receive

(* The exec that produces the archive fails, and the stream ends.           *)
ExecFails ==
    /\ copy.way = "from" /\ copy.writer = "write"
    /\ copy' = [copy EXCEPT !.writer = "report", !.writeErr = TRUE]

(* createTar cannot read a file: the archive ends there, in good order or   *)
(* in the middle of that file.                                              *)
WalkFails ==
    /\ copy.way = "to" /\ copy.writer = "write" /\ copy.left # {}
    /\ \/ copy' = [copy EXCEPT !.left = {}, !.writeErr = TRUE]
       \/ copy' = [copy EXCEPT !.writer = "report", !.writeErr = TRUE]

(* extractTar cannot write a file, the exec that unpacks fails, or the pod  *)
(* sends more than a mebibyte after the end of the archive.                 *)
UnpackFails ==
    /\ copy.reader = "read" \/ (copy.reader = "drain" /\ copy.pipe = "open")
    /\ copy' = [copy EXCEPT !.reader = "close", !.readErr = TRUE]

CopyFailure == ExecFails \/ WalkFails \/ UnpackFails

Copied == copy.reader = "done"
CopyFailed == copy.readErr
=============================================================================
