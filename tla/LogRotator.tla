----------------------------- MODULE LogRotator -----------------------------
(***************************************************************************)
(* The log file rotator of src/logrotator/logfile_rotator.go, after New    *)
(* opened the file and started its loop.  One goroutine Writes the         *)
(* messages 1..NumMsgs, the OS delivers up to MaxSigs SIGHUPs, one         *)
(* goroutine calls Rotate once and one calls Close once.                   *)
(*                                                                         *)
(* The loop takes a value in one step and handles it in the next, so a     *)
(* Write that comes meanwhile finds no receiver and takes its default.     *)
(* The files are sequences of messages: the active log file, the copy      *)
(* Rotate made, and r.buff.  Every file operation may fail: OpenFile,     *)
(* handle.Close, handle.Write (the message is lost), open's io.Copy (it    *)
(* wrote a prefix of r.buff, which bytes.Buffer.WriteTo drops from r.buff),*)
(* files.Copy (after a prefix of the file reached the copy) and Truncate.  *)
(* Seek's failure changes nothing: the file is opened with O_APPEND.  A    *)
(* failed copy writes whole messages here: a message split in two reads    *)
(* the same for the properties.                                            *)
(***************************************************************************)
EXTENDS Integers, Sequences

CONSTANTS
    NumMsgs,        \* the messages the writer writes, 1..NumMsgs
    MaxSigs         \* the SIGHUPs the OS sends

VARIABLES
    handle,         \* r.handle # nil
    file,           \* the active log file's content
    rotated,        \* the rotation copy's content
    buff,           \* r.buff
    closed,         \* closeCh and ingress are closed
    lpc,            \* the loop: "wait" (in its select), "busy" (handling msg), "end"
    msg,            \* the message the loop took
    taken,          \* the messages the loop handled, in order
    wi,             \* the next message the writer writes
    wpc,            \* the writer: "run", "panic", "end"
    sigs,           \* signals buffered in sigChan (capacity 1)
    sigLeft,        \* SIGHUPs the OS has yet to send
    rpc,            \* the Rotate caller: "call" (blocked in r.rotate <-) or "done"
    cpc,            \* the Close caller: "call" or "done"
    lost,           \* the messages whose write to the file failed
    failed          \* a write, io.Copy, files.Copy or Truncate has failed

vars == <<handle, file, rotated, buff, closed, lpc, msg, taken, wi, wpc, sigs, sigLeft, rpc, cpc,
          lost, failed>>

Init ==
    /\ handle = TRUE
    /\ file = <<>> /\ rotated = <<>> /\ buff = <<>>
    /\ closed = FALSE
    /\ lpc = "wait" /\ msg = 0 /\ taken = <<>>
    /\ wi = 1 /\ wpc = "run"
    /\ sigs = 0 /\ sigLeft = MaxSigs
    /\ rpc = "call" /\ cpc = "call"
    /\ lost = {} /\ failed = FALSE

\* The writer's next call, or the end of its script.
WriterNext ==
    /\ wi' = wi + 1
    /\ wpc' = IF wi < NumMsgs THEN "run" ELSE "end"

(***************************************************************************)
(* Write(p): select { case <-closeCh: case ingress <- p: default: }.       *)
(* Before Close the value passes only to a loop waiting in its select;     *)
(* after Close both cases are ready, and taking the send on the closed     *)
(* ingress panics.                                                         *)
(***************************************************************************)
Write ==
    /\ wpc = "run"
    /\ \/ /\ ~closed /\ lpc = "wait"
          /\ lpc' = "busy" /\ msg' = wi
          /\ WriterNext
       \/ /\ ~closed /\ lpc # "wait"
          /\ WriterNext
          /\ UNCHANGED <<lpc, msg>>
       \/ /\ closed
          /\ WriterNext
          /\ UNCHANGED <<lpc, msg>>
       \/ /\ closed
          /\ wpc' = "panic"
          /\ UNCHANGED <<lpc, msg, wi>>
    /\ UNCHANGED <<handle, file, rotated, buff, closed, taken, sigs, sigLeft, rpc, cpc, lost, failed>>

(***************************************************************************)
(* The ingress case: to r.buff when there is no handle, else to the file.  *)
(* Close sets r.handle to nil without synchronising with the loop (a data  *)
(* race): a loop that read the handle before that writes to a closed file, *)
(* the write fails and the message is lost.  A failed handle.Write is      *)
(* logged and the message lost too.  (After Close the ingress case also    *)
(* yields nil values; writing nil changes nothing and is left out.)        *)
(***************************************************************************)
LoopWrite ==
    /\ lpc = "busy"
    /\ \/ handle /\ file' = Append(file, msg) /\ UNCHANGED <<buff, lost, failed>>
       \/ ~handle /\ buff' = Append(buff, msg) /\ UNCHANGED <<file, lost, failed>>
       \/ /\ handle \/ closed
          /\ lost' = lost \cup {msg} /\ failed' = TRUE
          /\ UNCHANGED <<file, buff>>
    /\ taken' = Append(taken, msg)
    /\ lpc' = "wait"
    /\ UNCHANGED <<handle, rotated, closed, msg, wi, wpc, sigs, sigLeft, rpc, cpc>>

\* signal.Notify's send on sigChan drops the signal when the buffer is full.
Signal ==
    /\ sigLeft > 0
    /\ sigLeft' = sigLeft - 1
    /\ sigs' = 1
    /\ UNCHANGED <<handle, file, rotated, buff, closed, lpc, msg, taken, wi, wpc, rpc, cpc, lost, failed>>

\* open() when io.Copy fails after writing the first k messages of r.buff.
CopyFails ==
    \E k \in 0..(Len(buff) - 1) :
        /\ file' = file \o SubSeq(buff, 1, k)
        /\ buff' = SubSeq(buff, k + 1, Len(buff))
        /\ failed' = TRUE

\* open(), without resetting r.buff after copying it into the file.
OpenNoReset ==
    \/ /\ handle' = FALSE
       /\ UNCHANGED <<file, buff, failed>>
    \/ /\ handle' = TRUE
       /\ file' = file \o buff
       /\ UNCHANGED <<buff, failed>>
    \/ handle' = TRUE /\ CopyFails

\* open() resetting r.buff whether or not io.Copy succeeded.
OpenResetAlways ==
    \/ /\ handle' = FALSE
       /\ UNCHANGED <<file, buff, failed>>
    \/ /\ handle' = TRUE
       /\ file' = file \o buff
       /\ buff' = <<>>
       /\ UNCHANGED failed
    \/ /\ handle' = TRUE
       /\ \E k \in 0..(Len(buff) - 1) : file' = file \o SubSeq(buff, 1, k)
       /\ buff' = <<>>
       /\ failed' = TRUE

(***************************************************************************)
(* open(): close(), then OpenFile; on success set the handle and copy     *)
(* r.buff into the file; reset r.buff only when io.Copy succeeded.         *)
(***************************************************************************)
Open ==
    \/ /\ handle' = FALSE
       /\ UNCHANGED <<file, buff, failed>>
    \/ /\ handle' = TRUE
       /\ file' = file \o buff
       /\ buff' = <<>>
       /\ UNCHANGED failed
    \/ handle' = TRUE /\ CopyFails

(***************************************************************************)
(* The SIGHUP case: close(); on success open() again.  close() sets the    *)
(* handle to nil whether or not handle.Close fails.                        *)
(***************************************************************************)
LoopSighup ==
    /\ lpc = "wait" /\ sigs = 1
    /\ sigs' = 0
    /\ \/ handle' = FALSE /\ UNCHANGED <<file, buff, failed>>
       \/ Open
    /\ UNCHANGED <<rotated, closed, lpc, msg, taken, wi, wpc, sigLeft, rpc, cpc, lost>>

(***************************************************************************)
(* Rotate(fileName) meets the loop's rotate case.  doRotate returns when   *)
(* there is no handle; files.Copy (O_TRUNC on fileName, then io.Copy) may  *)
(* fail having copied a prefix of the file, and doRotate returns; else     *)
(* Truncate empties the file, or fails and doRotate returns.               *)
(***************************************************************************)
LoopRotate ==
    /\ lpc = "wait" /\ rpc = "call"
    /\ rpc' = "done"
    /\ \/ ~handle /\ UNCHANGED <<file, rotated, failed>>
       \/ handle /\ \E k \in 0..Len(file) : rotated' = SubSeq(file, 1, k)
          /\ failed' = TRUE /\ UNCHANGED file
       \/ handle /\ rotated' = file /\ failed' = TRUE /\ UNCHANGED file
       \/ handle /\ rotated' = file /\ file' = <<>> /\ UNCHANGED failed
    /\ UNCHANGED <<handle, buff, closed, lpc, msg, taken, wi, wpc, sigs, sigLeft, cpc, lost>>

\* The closeCh case: the loop returns.
LoopEnd ==
    /\ lpc = "wait" /\ closed
    /\ lpc' = "end"
    /\ UNCHANGED <<handle, file, rotated, buff, closed, msg, taken, wi, wpc, sigs, sigLeft, rpc, cpc,
                   lost, failed>>

\* Close(): once, close closeCh and ingress, then close() the file.
Close ==
    /\ cpc = "call"
    /\ cpc' = "done"
    /\ closed' = TRUE
    /\ handle' = FALSE
    /\ UNCHANGED <<file, rotated, buff, lpc, msg, taken, wi, wpc, sigs, sigLeft, rpc, lost, failed>>

Loop == LoopWrite \/ LoopSighup \/ LoopRotate \/ LoopEnd

Next == Write \/ Loop \/ Signal \/ Close

Spec == Init /\ [][Next]_vars

=============================================================================
