---------------------------- MODULE ExecCommand ----------------------------
(***************************************************************************)
(* A command that Exec runs for a caller: src/plugin/execCommandImpl.go    *)
(* and src/plugin/outputStream.go, with the goroutines that use them.      *)
(*                                                                         *)
(* Copiers carry the command's output to the two output streams.  A stream *)
(* hands each chunk to OutputCh, an unbuffered channel: the sender waits   *)
(* in the send, still holding the stream's lock, until the consumer takes  *)
(* the chunk.  Two closers, the goroutine of NewExecCommand that waits for *)
(* the context and the plugin's goroutine that waits for the command, each *)
(* close both streams.  The consumer (src/api/exec.go) ranges over         *)
(* OutputCh and then asks for the exit code.                               *)
(*                                                                         *)
(* A stream's RWMutex is held between two steps only by a process that is  *)
(* sending, so pc says who holds it.  What a sender does after its chunk   *)
(* is taken and before it unlocks is part of the step that takes it.       *)
(***************************************************************************)
EXTENDS Integers, Sequences

CONSTANTS
    Copiers,    \* the goroutines that copy output
    Feeds,      \* the streams each of them writes to, for every plugin
    MaxChunks,  \* bound: chunks a copier reads
    Plugins,    \* whose Exec it may be
    Started     \* it returned the command; if not, nobody uses the streams

Streams == {"stdout", "stderr"}
Closers == {"canceller", "waiter"}
Procs == Copiers \cup Closers

ASSUME PluginsAssumption ==
    Plugins \subseteq {"ssh", "external", "docker", "kubernetes", "kubernetesTTY"}
ASSUME CopiersAssumption ==
    /\ Copiers \cap Closers = {}
    /\ Feeds \in [Plugins -> [Copiers -> SUBSET Streams]]
    /\ \A p \in Plugins, c, d \in Copiers : c # d => Feeds[p][c] \cap Feeds[p][d] = {}
ASSUME ChunksAssumption == MaxChunks \in Nat
ASSUME StartedAssumption == Started \in BOOLEAN

VARIABLES
    plugin,     \* whose Exec it is
    ctxDone,    \* the execution context is cancelled
    proc,       \* the command: running, exited or stopped
    read,       \* how many chunks each copier has read
    pc,         \* what each process is about to do
    at,         \* and on which stream
    err,        \* the error a closer closes the streams with
    closed,     \* OutputStream.closed
    sentCtxErr, \* OutputStream.sentCtxErr
    countdown,  \* multiCloser.countdown
    chClosed,   \* OutputCh is closed
    exitCh,     \* what is in exitCodeCh ("code") and exitCodeErrCh ("error")
    consumer,   \* what the consumer is doing
    received,   \* the chunks it took
    result      \* and what ExitCode returned

streamVars == <<closed, sentCtxErr, countdown, chClosed>>
vars == <<plugin, ctxDone, proc, read, pc, at, err, streamVars, exitCh, consumer, received, result>>

-----------------------------------------------------------------------------
(* Chunks and locks *)

\* An ExecOutputChunk: data n is the n-th chunk its copier read.
Data(s, n) == [stream |-> s, data |-> n, err |-> "none"]
Error(s, e) == [stream |-> s, data |-> 0, err |-> e]

Sending(p) == pc[p] \in {"send", "senderr"}

\* A closer that has called Lock keeps new readers out, as RWMutex does.
RLockFree(s) == \A g \in Closers : at[g] = s => pc[g] \notin {"lock", "send"}

LockFree(s) == \A p \in Procs : at[p] = s => ~Sending(p)

Goto(p, l) == pc' = [pc EXCEPT ![p] = l]

-----------------------------------------------------------------------------
(* The command and its context *)

Cancel ==
    /\ ~ctxDone
    /\ ctxDone' = TRUE
    /\ UNCHANGED <<plugin, proc, read, pc, at, err, streamVars, exitCh, consumer, received, result>>

Exit ==
    /\ proc = "running"
    /\ proc' = "exited"
    /\ UNCHANGED <<plugin, ctxDone, read, pc, at, err, streamVars, exitCh, consumer, received, result>>

\* SetStopFunc was given a function; the kubernetes plugin has one only with a tty.
HasStop == plugin # "kubernetes"

\* Mutant of StopFunc: only while output is awaited.
StopWhileStreaming ==
    /\ HasStop
    /\ ctxDone
    /\ proc = "running"
    /\ consumer = "range"
    /\ proc' = "stopped"
    /\ UNCHANGED <<plugin, ctxDone, read, pc, at, err, streamVars, exitCh, consumer, received, result>>

\* The goroutine of SetStopFunc.
StopFunc ==
    /\ HasStop
    /\ ctxDone
    /\ proc = "running"
    /\ proc' = "stopped"
    /\ UNCHANGED <<plugin, ctxDone, read, pc, at, err, streamVars, exitCh, consumer, received, result>>

-----------------------------------------------------------------------------
(* Copiers *)

ReadOutput(c, s) ==
    /\ pc[c] = "read"
    /\ proc = "running"
    /\ read[c] < MaxChunks
    /\ read' = [read EXCEPT ![c] = @ + 1]
    /\ at' = [at EXCEPT ![c] = s]
    /\ Goto(c, "rlock")
    /\ UNCHANGED <<plugin, ctxDone, proc, err, streamVars, exitCh, consumer, received, result>>

EndOfOutput(c) ==
    /\ pc[c] = "read"
    /\ proc # "running"
    /\ Goto(c, "done")
    /\ UNCHANGED <<plugin, ctxDone, proc, read, at, err, streamVars, exitCh, consumer, received, result>>

\* Up to the send.  A closed stream drops the chunk and reports success.
WriteWithTimestamp(c) ==
    /\ pc[c] = "rlock"
    /\ RLockFree(at[c])
    /\ Goto(c, IF closed[at[c]] THEN "read" ELSE IF ctxDone THEN "senderr" ELSE "send")
    /\ UNCHANGED <<plugin, ctxDone, proc, read, at, err, streamVars, exitCh, consumer, received, result>>

-----------------------------------------------------------------------------
(* Closers *)

\* The kubernetes plugin sets the exit code before it closes the streams.
ExitCodeFirst == plugin \in {"kubernetes", "kubernetesTTY"}

\* docker passes the error of its copier on: the one a write returned, or one
\* of its own.
CopyErrors ==
    IF plugin # "docker" THEN {"none"}
    ELSE IF \E s \in Streams : sentCtxErr[s] THEN {"ctx"} ELSE {"none", "other"}

\* Mutant of NewExecCommandGoroutine: the streams are closed once the command ends.
CloseAfterCommand ==
    /\ pc["canceller"] = "wait"
    /\ ctxDone
    /\ proc # "running"
    /\ err' = [err EXCEPT !["canceller"] = "ctx"]
    /\ Goto("canceller", "announce")
    /\ UNCHANGED <<plugin, ctxDone, proc, read, at, streamVars, exitCh, consumer, received, result>>

NewExecCommandGoroutine ==
    /\ pc["canceller"] = "wait"
    /\ ctxDone
    /\ err' = [err EXCEPT !["canceller"] = "ctx"]
    /\ Goto("canceller", "announce")
    /\ UNCHANGED <<plugin, ctxDone, proc, read, at, streamVars, exitCh, consumer, received, result>>

\* Mutant of WaitForCommand: the context is awaited.
WaitForContext(e) ==
    /\ pc["waiter"] = "wait"
    /\ ctxDone
    /\ \A c \in Copiers : pc[c] = "done"
    /\ e \in CopyErrors
    /\ err' = [err EXCEPT !["waiter"] = e]
    /\ Goto("waiter", IF ExitCodeFirst THEN "exit" ELSE "announce")
    /\ UNCHANGED <<plugin, ctxDone, proc, read, at, streamVars, exitCh, consumer, received, result>>

\* session.Wait, StdCopy, inv.Wait or Stream returns: the command has ended and
\* so have the copiers.
WaitForCommand(e) ==
    /\ pc["waiter"] = "wait"
    /\ proc # "running"
    /\ \A c \in Copiers : pc[c] = "done"
    /\ e \in CopyErrors
    /\ err' = [err EXCEPT !["waiter"] = e]
    /\ Goto("waiter", IF ExitCodeFirst THEN "exit" ELSE "announce")
    /\ UNCHANGED <<plugin, ctxDone, proc, read, at, streamVars, exitCh, consumer, received, result>>

Announce(g) ==
    /\ pc[g] = "announce"
    /\ Goto(g, "lock")
    /\ UNCHANGED <<plugin, ctxDone, proc, read, at, err, streamVars, exitCh, consumer, received, result>>

\* CloseStreamsWithError: stdout, then stderr.
Proceed(g) ==
    IF at[g] = "stdout"
    THEN Goto(g, "announce") /\ at' = [at EXCEPT ![g] = "stderr"]
    ELSE /\ Goto(g, IF g = "waiter" /\ ~ExitCodeFirst THEN "exit" ELSE "done")
         /\ UNCHANGED at

\* The rest of CloseWithError once the error is sent: multiCloser.Close, closed.
FinishClose(g) ==
    /\ closed' = [closed EXCEPT ![at[g]] = TRUE]
    /\ countdown' = countdown - 1
    /\ chClosed' = (chClosed \/ countdown' = 0)
    /\ Proceed(g)
    /\ UNCHANGED sentCtxErr

HasErrorToSend(g) ==
    /\ err[g] # "none"
    /\ err[g] = "ctx" => ~sentCtxErr[at[g]]

\* Mutant of CloseWithError: closes what is closed already.
CloseTwice(g) ==
    /\ pc[g] = "lock"
    /\ LockFree(at[g])
    /\ IF HasErrorToSend(g)
       THEN Goto(g, "send") /\ UNCHANGED <<at, streamVars>>
       ELSE FinishClose(g)
    /\ UNCHANGED <<plugin, ctxDone, proc, read, err, exitCh, consumer, received, result>>

CloseWithError(g) ==
    /\ pc[g] = "lock"
    /\ LockFree(at[g])
    /\ IF closed[at[g]]
       THEN Proceed(g) /\ UNCHANGED streamVars
       ELSE IF HasErrorToSend(g)
       THEN Goto(g, "send") /\ UNCHANGED <<at, streamVars>>
       ELSE FinishClose(g)
    /\ UNCHANGED <<plugin, ctxDone, proc, read, err, exitCh, consumer, received, result>>

\* Mutant of SetExitCode: the context is not consulted.
SetExitCodeAlways(o) ==
    /\ pc["waiter"] = "exit"
    /\ exitCh' = exitCh \cup {o}
    /\ UNCHANGED err
    /\ Goto("waiter", "done")
    /\ UNCHANGED <<plugin, ctxDone, proc, read, at, streamVars, consumer, received, result>>

\* SetExitCode and SetExitCodeErr.  kubernetes closes with the error it set.
SetExitCode(o) ==
    /\ pc["waiter"] = "exit"
    /\ exitCh' = IF ctxDone THEN exitCh ELSE exitCh \cup {o}
    /\ err' = IF ExitCodeFirst /\ o = "error" THEN [err EXCEPT !["waiter"] = "other"] ELSE err
    /\ Goto("waiter", IF ExitCodeFirst THEN "announce" ELSE "done")
    /\ UNCHANGED <<plugin, ctxDone, proc, read, at, streamVars, consumer, received, result>>

-----------------------------------------------------------------------------
(* The consumer *)

Take(chunk) ==
    /\ consumer = "range"
    /\ received' = Append(received, chunk)
    /\ UNCHANGED <<plugin, ctxDone, proc, read, err, exitCh, consumer, result>>

TakeData(c) ==
    /\ pc[c] = "send"
    /\ Take(Data(at[c], read[c]))
    /\ Goto(c, "read")
    /\ UNCHANGED <<at, streamVars>>

\* The copier's Write fails with the context's error, and it stops.
TakeCtxErr(c) ==
    /\ pc[c] = "senderr"
    /\ Take(Error(at[c], "ctx"))
    /\ sentCtxErr' = [sentCtxErr EXCEPT ![at[c]] = TRUE]
    /\ Goto(c, "done")
    /\ UNCHANGED <<at, closed, countdown, chClosed>>

TakeCloseErr(g) ==
    /\ pc[g] = "send"
    /\ Take(Error(at[g], err[g]))
    /\ FinishClose(g)

RangeEnds ==
    /\ consumer = "range"
    /\ chClosed
    /\ consumer' = "exitcode"
    /\ UNCHANGED <<plugin, ctxDone, proc, read, pc, at, err, streamVars, exitCh, received, result>>

\* A select over the ready cases.
ExitCode ==
    /\ consumer = "exitcode"
    /\ \/ ctxDone /\ result' = "cancelled" /\ UNCHANGED exitCh
       \/ \E o \in exitCh : result' = o /\ exitCh' = exitCh \ {o}
    /\ consumer' = "done"
    /\ UNCHANGED <<plugin, ctxDone, proc, read, pc, at, err, streamVars, received>>

-----------------------------------------------------------------------------
Init ==
    /\ plugin \in Plugins
    /\ ctxDone = FALSE
    /\ proc = IF Started THEN "running" ELSE "exited"
    /\ read = [c \in Copiers |-> 0]
    /\ pc = [p \in Procs |->
                IF p = "canceller" THEN "wait"
                ELSE IF ~Started THEN "done"
                ELSE IF p = "waiter" THEN "wait"
                ELSE IF Feeds[plugin][p] = {} THEN "done" ELSE "read"]
    /\ at = [p \in Procs |-> "stdout"]
    /\ err = [g \in Closers |-> "none"]
    /\ closed = [s \in Streams |-> FALSE]
    /\ sentCtxErr = [s \in Streams |-> FALSE]
    /\ countdown = 2
    /\ chClosed = FALSE
    /\ exitCh = {}
    /\ consumer = IF Started THEN "range" ELSE "none"
    /\ received = <<>>
    /\ result = "none"

CopierNext(c) ==
    \/ \E s \in Feeds[plugin][c] : ReadOutput(c, s)
    \/ EndOfOutput(c) \/ WriteWithTimestamp(c) \/ TakeData(c) \/ TakeCtxErr(c)

CloserNext(g) == Announce(g) \/ CloseWithError(g) \/ TakeCloseErr(g)

WaiterNext ==
    \/ \E e \in {"none", "ctx", "other"} : WaitForCommand(e)
    \/ \E o \in {"code", "error"} : SetExitCode(o)

Finished == consumer # "range" /\ consumer # "exitcode" /\ \A p \in Procs : pc[p] = "done"

\* The command is over and nothing is left to do.
Terminated == Finished /\ UNCHANGED vars

Next ==
    \/ Cancel \/ Exit \/ StopFunc \/ NewExecCommandGoroutine \/ WaiterNext
    \/ RangeEnds \/ ExitCode \/ Terminated
    \/ \E c \in Copiers : CopierNext(c)
    \/ \E g \in Closers : CloserNext(g)

Spec == Init /\ [][Next]_vars

\* Goroutines that can run do run.  The command need not write or exit, and the
\* context need not be cancelled.
FairSpec ==
    /\ Spec
    /\ WF_vars(StopFunc)
    /\ WF_vars(NewExecCommandGoroutine)
    /\ WF_vars(WaiterNext)
    /\ WF_vars(RangeEnds)
    /\ WF_vars(ExitCode)
    /\ \A c \in Copiers :
          WF_vars(EndOfOutput(c) \/ WriteWithTimestamp(c) \/ TakeData(c) \/ TakeCtxErr(c))
    /\ \A g \in Closers : WF_vars(CloserNext(g))

-----------------------------------------------------------------------------
(* Properties *)

\* The type invariant.
TypeOK ==
    /\ plugin \in Plugins
    /\ ctxDone \in BOOLEAN
    /\ chClosed \in BOOLEAN
    /\ proc \in {"running", "exited", "stopped"}
    /\ read \in [Copiers -> 0 .. MaxChunks]
    /\ pc \in [Procs -> {"read", "rlock", "senderr", "wait", "announce", "lock",
                         "send", "exit", "done"}]
    /\ at \in [Procs -> Streams]
    /\ err \in [Closers -> {"none", "ctx", "other"}]
    /\ closed \in [Streams -> BOOLEAN]
    /\ sentCtxErr \in [Streams -> BOOLEAN]
    /\ countdown \in 0 .. 2
    /\ exitCh \subseteq {"code", "error"}
    /\ consumer \in {"none", "range", "exitcode", "done"}
    /\ received \in Seq([stream : Streams, data : Nat, err : {"none", "ctx", "other"}])
    /\ result \in {"none", "code", "error", "cancelled"}

\* outputStream.go:56-62, 82-89: however the two closers and the copiers
\* interleave, OutputCh is closed only when nobody sends on it any more.
NoSendOnClosed == chClosed => \A p \in Procs : ~Sending(p)

\* execCommandImpl.go:12-19: an exit code means that the command ran to its end
\* and that the consumer got all its output, each chunk once and in the order
\* its copier read it.
DataOf(c) == {i \in 1 .. Len(received) :
                received[i].data > 0 /\ received[i].stream \in Feeds[plugin][c]}
Delivered(c, n) == \E i \in DataOf(c) : received[i].data = n
InOrder(c) == \A i, j \in DataOf(c) : i < j => received[i].data < received[j].data
CodeMeansComplete ==
    result = "code" =>
        \A c \in Copiers :
            /\ InOrder(c)
            /\ \A n \in 1 .. read[c] : Delivered(c, n)
            /\ \A i \in DataOf(c) : received[i].data <= read[c]

\* execCommandImpl.go:63-65: a cancelled context unblocks the consumer, even if
\* the command goes on.
CancelUnblocks == (ctxDone /\ Started) ~> (consumer = "done")

\* execCommandImpl.go:23-27: with a stop function a cancelled context ends the
\* command and every goroutine that served it.
CancelCleansUp == (ctxDone /\ HasStop) ~> (Finished /\ proc # "running")

\* execCommandImpl.go:26-27: "the exec'ing command is stopped upon
\* context-cancellation", whichever plugin runs it.
CancelStops == ctxDone ~> (proc # "running")

\* A command that ends releases its consumer without any cancellation.
ExitUnblocks == (proc # "running" /\ Started) ~> (consumer = "done")

\* execCommandImpl.go:44-45: OutputCh is closed when the context is cancelled.
CancelCloses == ctxDone ~> chClosed
=============================================================================
