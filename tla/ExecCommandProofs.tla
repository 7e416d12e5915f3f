------------------------- MODULE ExecCommandProofs -------------------------
(* Theorems about ExecCommand, for every set of copiers and number of chunks. *)
EXTENDS ExecCommand, TLAPS

\* The points at which a process can be.
CopierLabels == {"read", "rlock", "send", "senderr", "done"}
CloserLabels == {"wait", "announce", "lock", "send", "exit", "done"}

\* Copiers and closers stay in their own code, and a copier that has a chunk
\* carries it to a stream it feeds.
ControlInv ==
    /\ \A c \in Copiers :
          /\ pc[c] \in CopierLabels
          /\ pc[c] \in {"rlock", "send", "senderr"} => at[c] \in Feeds[plugin][c]
    /\ \A g \in Closers : pc[g] \in CloserLabels
    /\ pc["canceller"] # "exit"

TypeInv == TypeOK /\ ControlInv

\* A copier never feeds a stream that is none.
LEMMA FeedsType ==
    ASSUME TypeOK, NEW c \in Copiers
    PROVE  /\ Feeds[plugin][c] \subseteq Streams
           /\ c \in Procs /\ c # "canceller" /\ c # "waiter"
BY CopiersAssumption DEF TypeOK, Procs, Closers

\* One countdown step per stream that is not closed yet, a sender only on an open
\* stream, and a closer that sends has its stream to itself.
CountInv ==
    /\ countdown = (IF closed["stdout"] THEN 0 ELSE 1) + (IF closed["stderr"] THEN 0 ELSE 1)
    /\ chClosed <=> countdown = 0
LockInv ==
    /\ \A p \in Procs : Sending(p) => ~closed[at[p]]
    /\ \A g \in Closers : pc[g] = "send" =>
          \A p \in Procs : p # g /\ at[p] = at[g] => ~Sending(p)

StreamInv == TypeInv /\ CountInv /\ LockInv

LEMMA InitStream == Init => StreamInv
<1> SUFFICES ASSUME Init PROVE StreamInv
  OBVIOUS
<1> USE DEF Init
<1>1. TypeOK
  <2>1. pc \in [Procs -> {"read", "rlock", "senderr", "wait", "announce", "lock",
                          "send", "exit", "done"}]
    BY StartedAssumption
  <2>2. received \in Seq([stream : Streams, data : Nat, err : {"none", "ctx", "other"}])
    OBVIOUS
  <2>3. read \in [Copiers -> 0 .. MaxChunks]
    BY ChunksAssumption
  <2>4. closed \in [Streams -> BOOLEAN] /\ sentCtxErr \in [Streams -> BOOLEAN]
    OBVIOUS
  <2>5. at \in [Procs -> Streams] /\ err \in [Closers -> {"none", "ctx", "other"}]
    BY DEF Streams
  <2>6. proc \in {"running", "exited", "stopped"} /\ consumer \in {"none", "range", "exitcode", "done"}
    OBVIOUS
  <2>7. /\ plugin \in Plugins /\ countdown \in 0 .. 2
        /\ exitCh \subseteq {"code", "error"} /\ result \in {"none", "code", "error", "cancelled"}
    OBVIOUS
  <2>8. ctxDone \in BOOLEAN /\ chClosed \in BOOLEAN
    OBVIOUS
  <2>9. QED
    BY <2>1, <2>2, <2>3, <2>4, <2>5, <2>6, <2>7, <2>8 DEF TypeOK
<1>2. ControlInv
  BY CopiersAssumption, StartedAssumption DEF ControlInv, Procs, Closers, CopierLabels, CloserLabels
<1>3. CountInv
  BY DEF CountInv, Streams
<1>4. LockInv
  BY StartedAssumption DEF LockInv, Sending, Procs, Closers, Streams
<1>5. QED
  BY <1>1, <1>2, <1>3, <1>4 DEF StreamInv, TypeInv

\* What CloseWithError does once nothing is left to send.
LEMMA FinishCloseType ==
    ASSUME StreamInv, NEW g \in Closers, ~closed[at[g]], FinishClose(g)
    PROVE  /\ closed' \in [Streams -> BOOLEAN]
           /\ countdown' \in 0 .. 2
           /\ chClosed' \in BOOLEAN
           /\ UNCHANGED sentCtxErr
           /\ Proceed(g)
<1>1. at[g] \in Streams
  BY DEF StreamInv, TypeInv, TypeOK, Procs
<1>2. closed' \in [Streams -> BOOLEAN]
  BY DEF StreamInv, TypeInv, TypeOK, FinishClose
<1>3. countdown' \in 0 .. 2
  BY <1>1 DEF StreamInv, TypeInv, TypeOK, FinishClose, CountInv, Streams
<1>4. QED
  BY <1>2, <1>3 DEF FinishClose

\* It goes on with the other stream, or ends.
LEMMA ProceedType ==
    ASSUME TypeInv, NEW g \in Closers, Proceed(g)
    PROVE  /\ pc' \in [Procs -> {"read", "rlock", "senderr", "wait", "announce", "lock",
                                 "send", "exit", "done"}]
           /\ at' \in [Procs -> Streams]
           /\ pc'[g] \in {"announce", "exit", "done"}
           /\ g = "canceller" => pc'[g] # "exit"
           /\ \A p \in Procs : p # g => pc'[p] = pc[p] /\ at'[p] = at[p]
BY DEF Proceed, Goto, TypeInv, TypeOK, Procs, Streams

\* Every step of every process keeps the types and the control points.
LEMMA TypeStep == StreamInv /\ [Next]_vars => TypeInv'
<1> SUFFICES ASSUME StreamInv, [Next]_vars PROVE TypeInv'
  OBVIOUS
<1> USE DEF StreamInv, TypeInv, ControlInv, CopierLabels, CloserLabels
<1>1. CASE Cancel
  BY <1>1 DEF Cancel, TypeOK, streamVars
<1>2. CASE Exit \/ StopFunc
  BY <1>2 DEF Exit, StopFunc, TypeOK, streamVars
<1>3. CASE NewExecCommandGoroutine
  BY <1>3, FeedsType DEF NewExecCommandGoroutine, Goto, TypeOK, streamVars, Procs, Closers
<1>4. ASSUME NEW e \in {"none", "ctx", "other"}, WaitForCommand(e) PROVE TypeInv'
  BY <1>4, FeedsType DEF WaitForCommand, Goto, TypeOK, streamVars, Procs, Closers
<1>5. ASSUME NEW o \in {"code", "error"}, SetExitCode(o) PROVE TypeInv'
  BY <1>5, FeedsType DEF SetExitCode, Goto, TypeOK, streamVars, Procs, Closers
<1>6. CASE RangeEnds \/ ExitCode \/ Terminated
  BY <1>6 DEF RangeEnds, ExitCode, Terminated, TypeOK, vars, streamVars
<1>7. ASSUME NEW c \in Copiers, NEW s \in Feeds[plugin][c], ReadOutput(c, s) PROVE TypeInv'
  BY <1>7, FeedsType, ChunksAssumption DEF ReadOutput, Goto, TypeOK, streamVars, Procs, Closers
<1>8. ASSUME NEW c \in Copiers, EndOfOutput(c) \/ WriteWithTimestamp(c) PROVE TypeInv'
  <2>1. c \in Procs /\ c # "canceller" /\ c # "waiter"
    BY <1>8, FeedsType
  <2>2. CASE EndOfOutput(c)
    BY <2>1, <2>2 DEF EndOfOutput, Goto, TypeOK, streamVars, Procs, Closers
  <2>3. CASE WriteWithTimestamp(c)
    BY <2>1, <2>3 DEF WriteWithTimestamp, Goto, TypeOK, streamVars, Procs, Closers
  <2>4. QED
    BY <1>8, <2>2, <2>3
<1>9. ASSUME NEW c \in Copiers, TakeData(c) PROVE TypeInv'
  BY <1>9, FeedsType, ChunksAssumption
  DEF TakeData, Take, Data, Goto, TypeOK, streamVars, Procs, Closers
<1>10. ASSUME NEW c \in Copiers, TakeCtxErr(c) PROVE TypeInv'
  BY <1>10, FeedsType DEF TakeCtxErr, Take, Error, Goto, TypeOK, streamVars, Procs, Closers
<1>11. ASSUME NEW g \in Closers, Announce(g) PROVE TypeInv'
  BY <1>11, FeedsType DEF Announce, Goto, TypeOK, streamVars, Procs, Closers
<1>12. ASSUME NEW g \in Closers, CloseWithError(g) PROVE TypeInv'
  <2>1. CASE closed[at[g]]
    BY <1>12, <2>1, FeedsType, ProceedType DEF CloseWithError, TypeOK, streamVars, Procs, Closers
  <2>2. CASE ~closed[at[g]] /\ HasErrorToSend(g)
    BY <1>12, <2>2, FeedsType DEF CloseWithError, Goto, TypeOK, streamVars, Procs, Closers
  <2>3. CASE ~closed[at[g]] /\ ~HasErrorToSend(g)
    BY <1>12, <2>3, FeedsType, FinishCloseType, ProceedType DEF CloseWithError, TypeOK, Procs, Closers
  <2>4. QED
    BY <2>1, <2>2, <2>3
<1>13. ASSUME NEW g \in Closers, TakeCloseErr(g) PROVE TypeInv'
  <2>1. ~closed[at[g]]
    BY <1>13 DEF TakeCloseErr, LockInv, Sending, Procs
  <2>2. QED
    BY <1>13, <2>1, FeedsType, FinishCloseType, ProceedType
    DEF TakeCloseErr, Take, Error, TypeOK, Procs, Closers
<1>14. CASE UNCHANGED vars
  BY <1>14 DEF vars, streamVars, TypeOK
<1>15. QED
  BY <1>1, <1>2, <1>3, <1>4, <1>5, <1>6, <1>7, <1>8, <1>9, <1>10, <1>11, <1>12, <1>13, <1>14
  DEF Next, WaiterNext, CopierNext, CloserNext


\* Only the rest of CloseWithError counts down, once for each stream.
LEMMA CountStep == StreamInv /\ [Next]_vars => CountInv'
<1> SUFFICES ASSUME StreamInv, [Next]_vars PROVE CountInv'
  OBVIOUS
<1> USE DEF StreamInv, TypeInv
<1>1. CASE UNCHANGED <<closed, countdown, chClosed>>
  BY <1>1 DEF CountInv
<1>2. ASSUME NEW g \in Closers, ~closed[at[g]], FinishClose(g) PROVE CountInv'
  <2>1. at[g] \in Streams
    BY DEF TypeOK, Procs
  <2>2. closed' = [closed EXCEPT ![at[g]] = TRUE] /\ countdown' = countdown - 1
    BY <1>2 DEF FinishClose
  <2>3. countdown' = (IF closed'["stdout"] THEN 0 ELSE 1) + (IF closed'["stderr"] THEN 0 ELSE 1)
    BY <1>2, <2>1, <2>2 DEF CountInv, TypeOK, Streams
  <2>4. countdown # 0
    BY <1>2, <2>1 DEF CountInv, TypeOK, Streams
  <2>5. ~chClosed
    BY <2>4 DEF CountInv
  <2>6. chClosed' <=> countdown' = 0
    BY <1>2, <2>5 DEF FinishClose
  <2>7. QED
    BY <2>3, <2>6 DEF CountInv
<1>3. ASSUME NEW g \in Closers, CloseWithError(g) PROVE CountInv'
  BY <1>1, <1>2, <1>3 DEF CloseWithError, streamVars
<1>4. ASSUME NEW g \in Closers, TakeCloseErr(g) PROVE CountInv'
  <2>1. ~closed[at[g]]
    BY <1>4 DEF TakeCloseErr, LockInv, Sending, Procs
  <2>2. QED
    BY <1>2, <1>4, <2>1 DEF TakeCloseErr
<1>5. CASE Cancel \/ Exit \/ StopFunc \/ NewExecCommandGoroutine \/ WaiterNext
           \/ RangeEnds \/ ExitCode \/ Terminated \/ UNCHANGED vars
  BY <1>1, <1>5 DEF Cancel, Exit, StopFunc, NewExecCommandGoroutine, WaiterNext, WaitForCommand,
     SetExitCode, RangeEnds, ExitCode, Terminated, vars, streamVars
<1>6. ASSUME NEW c \in Copiers, CopierNext(c) PROVE CountInv'
  BY <1>1, <1>6 DEF CopierNext, ReadOutput, EndOfOutput, WriteWithTimestamp, TakeData, TakeCtxErr, streamVars
<1>7. ASSUME NEW g \in Closers, Announce(g) PROVE CountInv'
  BY <1>1, <1>7 DEF Announce, streamVars
<1>8. QED
  BY <1>3, <1>4, <1>5, <1>6, <1>7 DEF Next, CloserNext

\* A stream is closed only when nobody sends on it.
LEMMA FinishCloseLock ==
    ASSUME StreamInv, NEW g \in Closers, FinishClose(g),
           \A p \in Procs : p # g /\ at[p] = at[g] => ~Sending(p)
    PROVE  LockInv'
<1> USE DEF StreamInv, TypeInv
<1>1. at[g] \in Streams
  BY DEF TypeOK, Procs
<1>2. /\ pc'[g] \in {"announce", "exit", "done"}
      /\ \A p \in Procs : p # g => pc'[p] = pc[p] /\ at'[p] = at[p]
  BY ProceedType DEF FinishClose
<1>3. \A s \in Streams : s # at[g] => closed'[s] = closed[s]
  BY DEF FinishClose, TypeOK
<1>4. \A p \in Procs : Sending(p)' => p # g /\ Sending(p) /\ at'[p] = at[p] /\ at[p] # at[g]
  BY <1>2 DEF Sending
<1>5. \A p \in Procs : Sending(p)' => ~closed'[at'[p]]
  BY <1>3, <1>4 DEF LockInv, TypeOK
<1>6. ASSUME NEW h \in Closers, pc'[h] = "send", NEW p \in Procs, p # h, at'[p] = at'[h], Sending(p)'
      PROVE  FALSE
  BY <1>2, <1>4, <1>6 DEF LockInv, Procs, Sending
<1>7. QED
  BY <1>5, <1>6 DEF LockInv

\* No step puts a sender on a closed stream or beside a closer that sends.
LEMMA LockStep == StreamInv /\ [Next]_vars => LockInv'
<1> SUFFICES ASSUME StreamInv, [Next]_vars PROVE LockInv'
  OBVIOUS
<1> USE DEF StreamInv, TypeInv
<1>1. CASE UNCHANGED <<pc, at, closed>>
  BY <1>1 DEF LockInv, Sending
<1>2. ASSUME NEW p \in Procs, pc'[p] \notin {"send", "senderr"},
             \A q \in Procs : q # p => pc'[q] = pc[q] /\ at'[q] = at[q],
             UNCHANGED closed
      PROVE  LockInv'
  BY <1>2 DEF LockInv, Sending, Procs, TypeOK
<1>3. CASE Cancel \/ Exit \/ StopFunc \/ RangeEnds \/ ExitCode \/ Terminated \/ UNCHANGED vars
  BY <1>1, <1>3 DEF Cancel, Exit, StopFunc, RangeEnds, ExitCode, Terminated, vars, streamVars
<1>4. CASE NewExecCommandGoroutine
  BY <1>2, <1>4 DEF NewExecCommandGoroutine, Goto, streamVars, TypeOK, Procs, Closers
<1>5. CASE WaiterNext
  BY <1>2, <1>5 DEF WaiterNext, WaitForCommand, SetExitCode, Goto, streamVars, TypeOK, Procs, Closers
<1>6. ASSUME NEW c \in Copiers, NEW s \in Feeds[plugin][c], ReadOutput(c, s) PROVE LockInv'
  BY <1>2, <1>6 DEF ReadOutput, Goto, streamVars, TypeOK, Procs
<1>7. ASSUME NEW c \in Copiers, EndOfOutput(c) PROVE LockInv'
  BY <1>2, <1>7 DEF EndOfOutput, Goto, streamVars, TypeOK, Procs
<1>8. ASSUME NEW c \in Copiers, WriteWithTimestamp(c) PROVE LockInv'
  <2>1. \A g \in Closers : at[g] = at[c] => pc[g] # "send"
    BY <1>8 DEF WriteWithTimestamp, RLockFree
  <2>2. closed[at[c]] => pc'[c] = "read"
    BY <1>8 DEF WriteWithTimestamp, Goto, TypeOK, Procs
  <2>3. \A q \in Procs : q # c => pc'[q] = pc[q]
    BY <1>8 DEF WriteWithTimestamp, Goto, TypeOK
  <2>4. QED
    BY <1>8, <2>1, <2>2, <2>3, FeedsType
    DEF WriteWithTimestamp, streamVars, LockInv, Sending, Procs, Closers
<1>9. ASSUME NEW c \in Copiers, TakeData(c) \/ TakeCtxErr(c) PROVE LockInv'
  BY <1>2, <1>9 DEF TakeData, TakeCtxErr, Goto, streamVars, TypeOK, Procs
<1>10. ASSUME NEW g \in Closers, Announce(g) PROVE LockInv'
  BY <1>2, <1>10 DEF Announce, Goto, streamVars, TypeOK, Procs
<1>11. ASSUME NEW g \in Closers, CloseWithError(g) PROVE LockInv'
  <2>1. CASE closed[at[g]]
    BY <1>2, <1>11, <2>1, ProceedType DEF CloseWithError, streamVars, Procs
  <2>2. CASE ~closed[at[g]] /\ HasErrorToSend(g)
    <3>1. /\ pc'[g] = "send" /\ UNCHANGED <<at, closed>>
          /\ \A q \in Procs : q # g => pc'[q] = pc[q]
      BY <1>11, <2>2 DEF CloseWithError, Goto, streamVars, TypeOK, Procs
    <3>2. \A p \in Procs : at[p] = at[g] => ~Sending(p)
      BY <1>11 DEF CloseWithError, LockFree
    <3>3. QED
      BY <2>2, <3>1, <3>2 DEF LockInv, Sending, Procs
  <2>3. CASE ~closed[at[g]] /\ ~HasErrorToSend(g)
    BY <1>11, <2>3, FinishCloseLock DEF CloseWithError, LockFree
  <2>4. QED
    BY <2>1, <2>2, <2>3
<1>12. ASSUME NEW g \in Closers, TakeCloseErr(g) PROVE LockInv'
  BY <1>12, FinishCloseLock DEF TakeCloseErr, LockInv
<1>13. QED
  BY <1>3, <1>4, <1>5, <1>6, <1>7, <1>8, <1>9, <1>10, <1>11, <1>12 DEF Next, CopierNext, CloserNext

LEMMA StreamCorrect == Spec => []StreamInv
<1>1. StreamInv /\ [Next]_vars => StreamInv'
  BY TypeStep, CountStep, LockStep DEF StreamInv
<1>2. QED
  BY <1>1, InitStream, PTL DEF Spec

\* The state of a command always has its type.
THEOREM TypeCorrect == Spec => []TypeOK
<1>1. StreamInv => TypeOK
  BY DEF StreamInv, TypeInv
<1>2. QED
  BY <1>1, StreamCorrect, PTL

\* However the copiers and the two closers interleave, nobody is in a send when
\* OutputCh is closed: multiCloser closes it with the last stream, and a stream is
\* closed under its lock, which a sender holds.
THEOREM NoSendOnClosedCorrect == Spec => []NoSendOnClosed
<1>1. StreamInv => NoSendOnClosed
  BY DEF StreamInv, TypeInv, TypeOK, CountInv, LockInv, NoSendOnClosed, Streams
<1>2. QED
  BY <1>1, StreamCorrect, PTL


-----------------------------------------------------------------------------
AllDone == \A c \in Copiers : pc[c] = "done"

\* A copier's chunks are delivered in order, and the one it carries is newer than
\* all of them.
OrderInv ==
    \A c \in Copiers :
        /\ InOrder(c)
        /\ \A i \in DataOf(c) : received[i].data <= read[c]
        /\ pc[c] \in {"rlock", "send", "senderr"} =>
              read[c] > 0 /\ \A i \in DataOf(c) : received[i].data < read[c]

\* Without a cancellation nothing is closed, nor about to be, before the copiers
\* have ended.
PhaseInv ==
    /\ pc["canceller"] # "wait" => ctxDone
    /\ pc["waiter"] # "wait" => AllDone
    /\ \A s \in Streams : closed[s] => ctxDone \/ AllDone
    /\ \A c \in Copiers : pc[c] = "senderr" => ctxDone

\* Nothing is dropped before a cancellation, and an exit code says that everything
\* had been delivered when it was set.
CompleteInv ==
    /\ ~ctxDone => \A c \in Copiers : \A n \in 1 .. read[c] :
          Delivered(c, n) \/ (n = read[c] /\ pc[c] \in {"rlock", "send"})
    /\ ("code" \in exitCh \/ result = "code") =>
          AllDone /\ \A c \in Copiers : \A n \in 1 .. read[c] : Delivered(c, n)

OutputInv == StreamInv /\ OrderInv /\ PhaseInv /\ CompleteInv


LEMMA SeqElement ==
    ASSUME NEW S, NEW q \in Seq(S), NEW i \in 1 .. Len(q)
    PROVE  q[i] \in S
OBVIOUS

LEMMA DataTypes ==
    ASSUME TypeInv, NEW c \in Copiers
    PROVE  /\ read[c] \in Nat
           /\ \A i \in DataOf(c) : i \in 1 .. Len(received) /\ received[i].data \in Nat
<1>1. read[c] \in Nat
  BY ChunksAssumption DEF TypeInv, TypeOK
<1> DEFINE Chunk == [stream : Streams, data : Nat, err : {"none", "ctx", "other"}]
<1>2. received \in Seq(Chunk)
  BY DEF TypeInv, TypeOK
<1>3. \A x \in Chunk : x.data \in Nat
  OBVIOUS
<1> HIDE DEF Chunk
<1>4. \A i \in 1 .. Len(received) : received[i].data \in Nat
  BY <1>2, <1>3, SeqElement
<1>5. \A i \in DataOf(c) : i \in 1 .. Len(received)
  BY DEF DataOf
<1>6. QED
  BY <1>1, <1>4, <1>5

\* The step delivers no data.
SameData ==
    \A c \in Copiers : /\ DataOf(c)' = DataOf(c)
                       /\ \A i \in DataOf(c) : received'[i].data = received[i].data

LEMMA NothingReceived == UNCHANGED <<received, plugin>> => SameData
BY DEF SameData, DataOf

LEMMA ErrorReceived ==
    ASSUME TypeOK, NEW s \in Streams, NEW e \in {"none", "ctx", "other"}, UNCHANGED plugin,
           received' = Append(received, Error(s, e))
    PROVE  SameData
<1>1. /\ Len(received') = Len(received) + 1
      /\ \A i \in 1 .. Len(received) : received'[i] = received[i]
      /\ received'[Len(received) + 1] = Error(s, e)
  BY DEF TypeOK, Error
<1>2. Len(received) \in Nat
  BY DEF TypeOK
<1>3. QED
  BY <1>1, <1>2 DEF SameData, DataOf, Error

\* What TakeData adds: one chunk of its copier, at the end.
LEMMA DataReceived ==
    ASSUME TypeInv, NEW c \in Copiers, TakeData(c), read[c] > 0
    PROVE  /\ Len(received) \in Nat
           /\ DataOf(c)' = DataOf(c) \cup {Len(received) + 1}
           /\ \A i \in DataOf(c) : received'[i].data = received[i].data
           /\ received'[Len(received) + 1].data = read[c]
           /\ \A d \in Copiers \ {c} :
                 /\ DataOf(d)' = DataOf(d)
                 /\ \A i \in DataOf(d) : received'[i].data = received[i].data
<1> DEFINE m == Data(at[c], read[c])
<1>1. received' = Append(received, m) /\ UNCHANGED plugin
  BY DEF TakeData, Take
<1>2. m \in [stream : Streams, data : Nat, err : {"none", "ctx", "other"}]
  BY ChunksAssumption DEF TypeInv, TypeOK, Data, Procs
<1> HIDE DEF m
<1>3. Len(received) \in Nat
  BY DEF TypeInv, TypeOK
<1>4. /\ Len(received') = Len(received) + 1
      /\ \A i \in 1 .. Len(received) : received'[i] = received[i]
      /\ received'[Len(received) + 1] = m
  BY <1>1, <1>2 DEF TypeInv, TypeOK
<1>5. m.data = read[c] /\ m.stream = at[c]
  BY DEF m, Data
<1>6. at[c] \in Feeds[plugin][c]
  BY DEF TypeInv, ControlInv, TakeData
<1>7. \A d \in Copiers \ {c} : at[c] \notin Feeds[plugin][d]
  BY <1>6, CopiersAssumption DEF TypeInv, TypeOK
<1>8. DataOf(c)' = DataOf(c) \cup {Len(received) + 1}
  BY <1>1, <1>3, <1>4, <1>5, <1>6 DEF DataOf
<1>9. \A d \in Copiers \ {c} : DataOf(d)' = DataOf(d)
  BY <1>1, <1>3, <1>4, <1>5, <1>7 DEF DataOf
<1>10. QED
  BY <1>3, <1>4, <1>5, <1>8, <1>9 DEF DataOf

Carrying(c) == pc[c] \in {"rlock", "send", "senderr"}

LEMMA OrderKept ==
    ASSUME TypeInv, OrderInv, SameData, UNCHANGED read, \A c \in Copiers : Carrying(c)' => Carrying(c)
    PROVE  OrderInv'
<1> SUFFICES ASSUME NEW c \in Copiers
             PROVE  /\ InOrder(c)'
                    /\ \A i \in DataOf(c)' : received'[i].data <= read'[c]
                    /\ Carrying(c)' =>
                          read'[c] > 0 /\ \A i \in DataOf(c)' : received'[i].data < read'[c]
  BY DEF OrderInv, Carrying
<1>1. DataOf(c)' = DataOf(c) /\ \A i \in DataOf(c) : received'[i].data = received[i].data
  BY DEF SameData
<1>2. InOrder(c)'
  BY <1>1 DEF InOrder, OrderInv
<1>3. QED
  BY <1>1, <1>2 DEF OrderInv, Carrying

LEMMA OrderStep == StreamInv /\ OrderInv /\ [Next]_vars => OrderInv'
<1> SUFFICES ASSUME StreamInv, OrderInv, [Next]_vars PROVE OrderInv'
  OBVIOUS
<1> USE DEF StreamInv
<1> USE DEF Carrying
<1>1. CASE Cancel \/ Exit \/ StopFunc \/ RangeEnds \/ ExitCode \/ Terminated \/ UNCHANGED vars
  BY <1>1, NothingReceived, OrderKept
  DEF Cancel, Exit, StopFunc, RangeEnds, ExitCode, Terminated, vars
<1>2. CASE NewExecCommandGoroutine
  BY <1>2, NothingReceived, OrderKept, FeedsType
  DEF NewExecCommandGoroutine, Goto, TypeInv, TypeOK
<1>3. CASE WaiterNext
  BY <1>3, NothingReceived, OrderKept, FeedsType
  DEF WaiterNext, WaitForCommand, SetExitCode, Goto, TypeInv, TypeOK
<1>4. ASSUME NEW c \in Copiers, NEW s \in Feeds[plugin][c], ReadOutput(c, s) PROVE OrderInv'
  <2>1. SameData
    BY <1>4, NothingReceived DEF ReadOutput
  <2>2. /\ read'[c] = read[c] + 1
        /\ \A d \in Copiers \ {c} : read'[d] = read[d] /\ pc'[d] = pc[d]
    BY <1>4, FeedsType DEF ReadOutput, Goto, TypeInv, TypeOK
  <2>3. \A d \in Copiers : read[d] \in Nat /\ \A i \in DataOf(d) : received[i].data \in Nat
    BY DataTypes
  <2>4. QED
    BY <2>1, <2>2, <2>3 DEF OrderInv, InOrder, SameData
<1>5. ASSUME NEW c \in Copiers, EndOfOutput(c) \/ WriteWithTimestamp(c) PROVE OrderInv'
  BY <1>5, NothingReceived, OrderKept, FeedsType
  DEF EndOfOutput, WriteWithTimestamp, Goto, TypeInv, TypeOK
<1>6. ASSUME NEW c \in Copiers, TakeData(c) PROVE OrderInv'
  <2>1. read[c] > 0 /\ \A i \in DataOf(c) : received[i].data < read[c]
    BY <1>6 DEF TakeData, OrderInv
  <2>2. /\ UNCHANGED read
        /\ pc'[c] = "read" /\ \A d \in Copiers \ {c} : pc'[d] = pc[d]
    BY <1>6, FeedsType DEF TakeData, Take, Goto, TypeInv, TypeOK
  <2>3. \A d \in Copiers :
           /\ read[d] \in Nat
           /\ \A i \in DataOf(d) : i \in 1 .. Len(received) /\ received[i].data \in Nat
    BY DataTypes
  <2>4. /\ Len(received) \in Nat
        /\ DataOf(c)' = DataOf(c) \cup {Len(received) + 1}
        /\ \A i \in DataOf(c) : received'[i].data = received[i].data
        /\ received'[Len(received) + 1].data = read[c]
    BY <1>6, <2>1, DataReceived
  <2>5. InOrder(c)'
    BY <2>1, <2>3, <2>4 DEF InOrder, OrderInv
  <2>6. \A i \in DataOf(c)' : received'[i].data <= read'[c]
    BY <2>1, <2>2, <2>3, <2>4
  <2>7. \A d \in Copiers \ {c} :
           /\ DataOf(d)' = DataOf(d)
           /\ \A i \in DataOf(d) : received'[i].data = received[i].data
    BY <1>6, <2>1, DataReceived
  <2>8. QED
    BY <2>2, <2>5, <2>6, <2>7 DEF OrderInv, InOrder
<1>7. ASSUME NEW c \in Copiers, TakeCtxErr(c) PROVE OrderInv'
  <2>1. SameData
    BY <1>7, ErrorReceived, FeedsType DEF TakeCtxErr, Take, TypeInv, TypeOK
  <2>2. QED
    BY <1>7, <2>1, OrderKept, FeedsType DEF TakeCtxErr, Take, Goto, TypeInv, TypeOK
<1>8. ASSUME NEW g \in Closers, Announce(g) PROVE OrderInv'
  BY <1>8, NothingReceived, OrderKept, FeedsType DEF Announce, Goto, TypeInv, TypeOK, Closers
<1>9. ASSUME NEW g \in Closers, CloseWithError(g) PROVE OrderInv'
  <2>1. \A c \in Copiers : pc'[c] = pc[c]
    BY <1>9, ProceedType, FeedsType DEF CloseWithError, FinishClose, Goto, TypeInv, TypeOK, Closers
  <2>2. QED
    BY <1>9, <2>1, NothingReceived, OrderKept DEF CloseWithError
<1>10. ASSUME NEW g \in Closers, TakeCloseErr(g) PROVE OrderInv'
  <2>1. \A c \in Copiers : pc'[c] = pc[c]
    BY <1>10, ProceedType, FeedsType DEF TakeCloseErr, FinishClose, Closers, TypeInv
  <2>2. SameData
    BY <1>10, ErrorReceived DEF TakeCloseErr, Take, TypeInv, TypeOK, Procs
  <2>3. QED
    BY <1>10, <2>1, <2>2, OrderKept DEF TakeCloseErr, Take
<1>11. QED
  BY <1>1, <1>2, <1>3, <1>4, <1>5, <1>6, <1>7, <1>8, <1>9, <1>10 DEF Next, CopierNext, CloserNext


\* Copiers that have ended do nothing any more.
LEMMA DoneStep ==
    ASSUME TypeInv, AllDone, [Next]_vars
    PROVE  AllDone' /\ SameData /\ UNCHANGED <<plugin, read>>
<1> USE DEF AllDone
<1>1. CASE Cancel \/ Exit \/ StopFunc \/ RangeEnds \/ ExitCode \/ Terminated \/ UNCHANGED vars
  BY <1>1, NothingReceived DEF Cancel, Exit, StopFunc, RangeEnds, ExitCode, Terminated, vars
<1>2. CASE NewExecCommandGoroutine \/ WaiterNext
  BY <1>2, NothingReceived, FeedsType
  DEF NewExecCommandGoroutine, WaiterNext, WaitForCommand, SetExitCode, Goto, TypeInv, TypeOK
<1>3. ASSUME NEW c \in Copiers, CopierNext(c) PROVE FALSE
  BY <1>3 DEF CopierNext, ReadOutput, EndOfOutput, WriteWithTimestamp, TakeData, TakeCtxErr
<1>4. ASSUME NEW g \in Closers, CloserNext(g) PROVE AllDone' /\ SameData /\ UNCHANGED <<plugin, read>>
  <2>1. \A c \in Copiers : pc'[c] = pc[c]
    BY <1>4, ProceedType, FeedsType
    DEF CloserNext, Announce, CloseWithError, TakeCloseErr, FinishClose, Goto, Closers, TypeInv, TypeOK
  <2>2. UNCHANGED <<plugin, read>>
    BY <1>4 DEF CloserNext, Announce, CloseWithError, TakeCloseErr, Take
  <2>3. SameData
    BY <1>4, NothingReceived, ErrorReceived
    DEF CloserNext, Announce, CloseWithError, TakeCloseErr, Take, TypeInv, TypeOK, Procs
  <2>4. QED
    BY <2>1, <2>2, <2>3
<1>5. QED
  BY <1>1, <1>2, <1>3, <1>4 DEF Next

\* Only a closer past its wait closes a stream.
LEMMA PhaseStep == StreamInv /\ PhaseInv /\ [Next]_vars => PhaseInv'
<1> SUFFICES ASSUME StreamInv, PhaseInv, [Next]_vars PROVE PhaseInv'
  OBVIOUS
<1> USE DEF StreamInv
<1>1. AllDone => AllDone'
  BY DoneStep
<1>2. ctxDone => ctxDone'
  BY DEF Next, Cancel, Exit, StopFunc, NewExecCommandGoroutine, WaiterNext, WaitForCommand, SetExitCode,
     RangeEnds, ExitCode, Terminated, CopierNext, ReadOutput, EndOfOutput, WriteWithTimestamp, TakeData,
     TakeCtxErr, Take, CloserNext, Announce, CloseWithError, TakeCloseErr, vars
<1>3. CASE Cancel \/ Exit \/ StopFunc \/ RangeEnds \/ ExitCode \/ Terminated \/ UNCHANGED vars
  BY <1>1, <1>2, <1>3 DEF PhaseInv, Cancel, Exit, StopFunc, RangeEnds, ExitCode, Terminated, vars, streamVars
<1>4. CASE NewExecCommandGoroutine
  BY <1>1, <1>2, <1>4, FeedsType
  DEF PhaseInv, NewExecCommandGoroutine, Goto, streamVars, TypeInv, TypeOK, Procs, Closers
<1>5. ASSUME NEW e \in {"none", "ctx", "other"}, WaitForCommand(e) PROVE PhaseInv'
  <2>1. AllDone
    BY <1>5 DEF WaitForCommand, AllDone
  <2>2. QED
    BY <1>1, <1>2, <1>5, <2>1, FeedsType
    DEF PhaseInv, WaitForCommand, Goto, streamVars, TypeInv, TypeOK, Procs, Closers
<1>6. ASSUME NEW o \in {"code", "error"}, SetExitCode(o) PROVE PhaseInv'
  BY <1>1, <1>2, <1>6, FeedsType
  DEF PhaseInv, SetExitCode, Goto, streamVars, TypeInv, TypeOK, Procs, Closers
<1>7. ASSUME NEW c \in Copiers, CopierNext(c) PROVE PhaseInv'
  <2>1. pc'["canceller"] = pc["canceller"] /\ pc'["waiter"] = pc["waiter"]
    <3>1. \E l : Goto(c, l)
      BY <1>7 DEF CopierNext, ReadOutput, EndOfOutput, WriteWithTimestamp, TakeData, TakeCtxErr
    <3>2. QED
      BY <3>1, FeedsType DEF Goto, TypeInv, TypeOK
  <2>2. UNCHANGED closed
    BY <1>7 DEF CopierNext, ReadOutput, EndOfOutput, WriteWithTimestamp, TakeData, TakeCtxErr, streamVars
  <2>3. \A d \in Copiers : pc'[d] = "senderr" => ctxDone
    BY <1>7, FeedsType DEF CopierNext, ReadOutput, EndOfOutput, WriteWithTimestamp, TakeData, TakeCtxErr,
       Goto, TypeInv, TypeOK, PhaseInv
  <2>4. QED
    BY <1>1, <1>2, <2>1, <2>2, <2>3 DEF PhaseInv
<1>8. ASSUME NEW g \in Closers, CloserNext(g) PROVE PhaseInv'
  <2>1. /\ pc[g] # "wait"
        /\ \A p \in Procs \ {g} : pc'[p] = pc[p]
    <3>1. CASE Announce(g)
      BY <3>1 DEF Announce, Goto, Procs, TypeInv, TypeOK
    <3>2. CASE CloseWithError(g)
      BY <3>2, ProceedType DEF CloseWithError, FinishClose, Goto, Procs, TypeInv, TypeOK
    <3>3. CASE TakeCloseErr(g)
      BY <3>3, ProceedType DEF TakeCloseErr, FinishClose, Procs, TypeInv
    <3>4. QED
      BY <1>8, <3>1, <3>2, <3>3 DEF CloserNext
  <2>2. ctxDone \/ AllDone
    BY <2>1 DEF PhaseInv, Closers
  <2>3. pc'["canceller"] # "wait" => ctxDone
    BY <2>1 DEF PhaseInv, Closers, Procs
  <2>4. pc'["waiter"] # "wait" => AllDone
    BY <2>1 DEF PhaseInv, Closers, Procs
  <2>5. \A c \in Copiers : pc'[c] = "senderr" => ctxDone
    BY <2>1, FeedsType DEF PhaseInv, Closers, TypeInv
  <2>6. QED
    BY <1>1, <1>2, <2>2, <2>3, <2>4, <2>5 DEF PhaseInv
<1>9. QED
  BY <1>3, <1>4, <1>5, <1>6, <1>7, <1>8 DEF Next, WaiterNext


\* Chunks that were delivered stay delivered.
LEMMA DeliveredKept ==
    ASSUME SameData, NEW c \in Copiers, NEW n
    PROVE  Delivered(c, n)' <=> Delivered(c, n)
BY DEF SameData, Delivered

LEMMA CompleteStep == OutputInv /\ [Next]_vars => CompleteInv'
<1> SUFFICES ASSUME OutputInv, [Next]_vars PROVE CompleteInv'
  OBVIOUS
<1> USE DEF OutputInv, StreamInv
<1> DEFINE Before ==
        ~ctxDone => \A c \in Copiers : \A n \in 1 .. read[c] :
            Delivered(c, n) \/ (n = read[c] /\ pc[c] \in {"rlock", "send"})
<1> DEFINE HasCode == "code" \in exitCh \/ result = "code"
<1> DEFINE All == AllDone /\ \A c \in Copiers : \A n \in 1 .. read[c] : Delivered(c, n)
<1>1. (HasCode => All) /\ Before
  BY DEF CompleteInv
<1>2. All => All'
  BY DoneStep, DeliveredKept
<1>3. ~ctxDone /\ AllDone => All
  BY <1>1 DEF AllDone
<1>4. HasCode' => HasCode \/ (~ctxDone /\ AllDone)
  <2>1. ASSUME NEW o \in {"code", "error"}, SetExitCode(o) PROVE HasCode' => HasCode \/ (~ctxDone /\ AllDone)
    BY <2>1 DEF SetExitCode, PhaseInv
  <2>2. CASE ExitCode
    BY <2>2 DEF ExitCode
  <2>3. CASE UNCHANGED <<exitCh, result>>
    BY <2>3
  <2>4. QED
    BY <2>1, <2>2, <2>3
    DEF Next, Cancel, Exit, StopFunc, NewExecCommandGoroutine, WaiterNext, WaitForCommand, RangeEnds,
        Terminated, CopierNext, ReadOutput, EndOfOutput, WriteWithTimestamp, TakeData, TakeCtxErr, Take,
        CloserNext, Announce, CloseWithError, TakeCloseErr, vars
<1>5. Before'
  <2> SUFFICES ASSUME ~ctxDone', NEW c \in Copiers, NEW n \in 1 .. read'[c],
                      ~(n = read'[c] /\ pc'[c] \in {"rlock", "send"})
               PROVE  Delivered(c, n)'
    OBVIOUS
  <2>1. ~ctxDone
    BY DEF Next, Cancel, Exit, StopFunc, NewExecCommandGoroutine, WaiterNext, WaitForCommand, SetExitCode,
       RangeEnds, ExitCode, Terminated, CopierNext, ReadOutput, EndOfOutput, WriteWithTimestamp, TakeData,
       TakeCtxErr, Take, CloserNext, Announce, CloseWithError, TakeCloseErr, vars
  <2>2. read[c] \in Nat
    BY DataTypes
  <2>3. CASE SameData /\ UNCHANGED read /\ (pc[c] \in {"rlock", "send"} => pc'[c] \in {"rlock", "send"})
    BY <1>1, <2>1, <2>3, DeliveredKept
  <2>4. CASE Cancel \/ Exit \/ StopFunc \/ RangeEnds \/ ExitCode \/ Terminated \/ UNCHANGED vars
    BY <2>3, <2>4, NothingReceived DEF Cancel, Exit, StopFunc, RangeEnds, ExitCode, Terminated, vars
  <2>5. CASE NewExecCommandGoroutine \/ WaiterNext
    BY <2>3, <2>5, NothingReceived, FeedsType
    DEF NewExecCommandGoroutine, WaiterNext, WaitForCommand, SetExitCode, Goto, TypeInv, TypeOK
  <2>6. ASSUME NEW d \in Copiers, NEW s \in Feeds[plugin][d], ReadOutput(d, s) PROVE Delivered(c, n)'
    <3>1. SameData
      BY <2>6, NothingReceived DEF ReadOutput
    <3>2. CASE d = c
      <4>1. read'[c] = read[c] + 1 /\ pc'[c] = "rlock" /\ pc[c] = "read"
        BY <2>6, <3>2, FeedsType DEF ReadOutput, Goto, TypeInv, TypeOK
      <4>2. QED
        BY <1>1, <2>1, <2>2, <3>1, <4>1, DeliveredKept
    <3>3. CASE d # c
      <4>1. read'[c] = read[c] /\ pc'[c] = pc[c]
        BY <2>6, <3>3 DEF ReadOutput, Goto, TypeInv, TypeOK
      <4>2. QED
        BY <1>1, <2>1, <3>1, <4>1, DeliveredKept
    <3>4. QED
      BY <3>2, <3>3
  <2>7. ASSUME NEW d \in Copiers, EndOfOutput(d) PROVE Delivered(c, n)'
    BY <2>3, <2>7, NothingReceived, FeedsType DEF EndOfOutput, Goto, TypeInv, TypeOK
  <2>8. ASSUME NEW d \in Copiers, WriteWithTimestamp(d) PROVE Delivered(c, n)'
    <3>1. at[d] \in Streams
      BY FeedsType DEF TypeInv, TypeOK
    <3>2. ~AllDone
      BY <2>8 DEF WriteWithTimestamp, AllDone
    <3>3. ~closed[at[d]]
      BY <2>1, <3>1, <3>2 DEF PhaseInv
    <3>4. QED
      BY <2>1, <2>3, <2>8, <3>3, NothingReceived, FeedsType DEF WriteWithTimestamp, Goto, TypeInv, TypeOK
  <2>9. ASSUME NEW d \in Copiers, TakeData(d) PROVE Delivered(c, n)'
    <3>1. read[d] > 0
      BY <2>9 DEF OrderInv, TakeData
    <3>2. UNCHANGED read /\ \A e \in Copiers \ {d} : pc'[e] = pc[e]
      BY <2>9, FeedsType DEF TakeData, Take, Goto, TypeInv, TypeOK
    <3>3. CASE d = c
      BY <1>1, <2>1, <2>9, <3>1, <3>2, <3>3, DataReceived DEF Delivered
    <3>4. CASE d # c
      BY <1>1, <2>1, <2>9, <3>1, <3>2, <3>4, DataReceived DEF Delivered
    <3>5. QED
      BY <3>3, <3>4
  <2>10. ASSUME NEW d \in Copiers, TakeCtxErr(d) PROVE FALSE
    BY <2>1, <2>10 DEF TakeCtxErr, PhaseInv
  <2>11. ASSUME NEW g \in Closers, CloserNext(g) PROVE Delivered(c, n)'
    <3>1. pc[g] # "wait"
      BY <2>11 DEF CloserNext, Announce, CloseWithError, TakeCloseErr
    <3>2. AllDone
      BY <2>1, <3>1 DEF PhaseInv, Closers
    <3>3. QED
      BY <1>3, <2>1, <3>2, DoneStep, DeliveredKept
  <2>12. QED
    BY <2>4, <2>5, <2>6, <2>7, <2>8, <2>9, <2>10, <2>11 DEF Next, CopierNext
<1>6. QED
  BY <1>1, <1>2, <1>3, <1>4, <1>5 DEF CompleteInv

\* ExitCode returns a code only after a command that ran to its end, and then the
\* consumer has every chunk that was read, once and in order.
THEOREM CodeMeansCompleteCorrect == Spec => []CodeMeansComplete
<1>1. Init => OrderInv /\ PhaseInv /\ CompleteInv
  <2> SUFFICES ASSUME Init PROVE OrderInv /\ PhaseInv /\ CompleteInv
    OBVIOUS
  <2>1. \A c \in Copiers : DataOf(c) = {} /\ read[c] = 0 /\ pc[c] \in {"read", "done"}
    <3>1. Len(received) = 0 /\ \A c \in Copiers : read[c] = 0
      BY DEF Init
    <3>2. \A c \in Copiers : pc[c] \in {"read", "done"}
      <4>1. \A c \in Copiers : c # "canceller" /\ c # "waiter" /\ c \in Procs
        BY CopiersAssumption DEF Procs, Closers
      <4>2. QED
        BY <4>1 DEF Init
    <3>3. \A c \in Copiers : DataOf(c) = {}
      <4>1. 1 .. Len(received) = {}
        BY <3>1
      <4>2. QED
        BY <4>1 DEF DataOf
    <3>4. QED
      BY <3>1, <3>2, <3>3
  <2>2. OrderInv
    BY <2>1 DEF OrderInv, InOrder
  <2>3. PhaseInv
    <3>1. pc["canceller"] = "wait" /\ (pc["waiter"] # "wait" => ~Started)
      BY DEF Init, Procs, Closers
    <3>2. ~Started => AllDone
      BY CopiersAssumption DEF Init, AllDone, Procs, Closers
    <3>3. \A s \in Streams : ~closed[s]
      BY DEF Init
    <3>4. QED
      BY <2>1, <3>1, <3>2, <3>3 DEF PhaseInv
  <2>4. CompleteInv
    BY <2>1 DEF Init, CompleteInv
  <2>5. QED
    BY <2>2, <2>3, <2>4
<1>2. OutputInv /\ [Next]_vars => OutputInv'
  <2>1. StreamInv /\ [Next]_vars => StreamInv'
    BY TypeStep, CountStep, LockStep DEF StreamInv
  <2>2. QED
    BY <2>1, OrderStep, PhaseStep, CompleteStep DEF OutputInv
<1>3. OutputInv => CodeMeansComplete
  BY DEF OutputInv, OrderInv, CompleteInv, CodeMeansComplete
<1>4. Init => OutputInv
  BY <1>1, InitStream DEF OutputInv
<1>5. QED
  BY <1>2, <1>3, <1>4, PTL DEF Spec

=============================================================================
