------------------------------ MODULE Journal ------------------------------
(***************************************************************************)
(* The activity journals (src/activity): the history of journals, the      *)
(* cache of recorders with their open log files, and the method            *)
(* invocations a recorder submits to analytics once.  The requests that    *)
(* use them run concurrently; a request is a thread here.                  *)
(*                                                                         *)
(* The cache is datastore.MemCache with a limit and an eviction callback,  *)
(* at the grain that matters to its user: a hit finds the recorder and     *)
(* stores it again to reset its ttl, a miss evicts at the limit and then   *)
(* generates.  A recorder is a number, in the order they are made.         *)
(***************************************************************************)
EXTENDS Integers, Sequences, FiniteSets

CONSTANTS
    Journals,      \* journals that have an ID
    Earlier,       \* the history so far: journals of commands that are over
    DeadLetter,    \* deadLetterOfficeJournal, used when there is none
    Methods,       \* what SubmitMethodInvocation is called with
    Threads,
    Followers,     \* GET /history?follow=true
    Limit,         \* the limit of recorderCache
    MaxRecorders,  \* bound: recorders made
    CanFail,       \* a log file may fail to open
    CanExpire,     \* recorders may expire
    CanClose       \* CloseAll may be called

AllJournals == Journals \cup {DeadLetter}
Over == {Earlier[i] : i \in 1 .. Len(Earlier)}
Recorders == 1 .. MaxRecorders
NoRecorder == 0
OpenError == -1

ASSUME EarlierAssumption ==
    /\ Earlier \in Seq(Journals)
    /\ \A i, k \in 1 .. Len(Earlier) : Earlier[i] = Earlier[k] => i = k
ASSUME LimitAssumption == Limit \in Nat \ {0} /\ MaxRecorders \in Nat
ASSUME FlagsAssumption == {CanFail, CanExpire, CanClose} \subseteq BOOLEAN

VARIABLES
    list,       \* history.list
    stored,     \* history.stored: an index into list counted from 1, or 0
    capacity,   \* of the array under history.list
    cached,     \* recorderCache: a recorder, OpenError or NoRecorder
    expired,    \* the journals whose item is past its expiration, still there
    open,       \* recorders whose file is open
    invoked,    \* recorder.methodInvocations
    nextRec,    \* the next recorder
    pc, jour, method, rec,  \* each thread, and its locals
    panicked,   \* history: what a panic has ended: a "request", the "process", "none"
    submitted,  \* history: how often a recorder submitted a method
    fpc, base, out,         \* each follower, the array it reads from, and what it has sent
    torn        \* history: what it sent while append moved history.list to a larger array

historyVars == <<list, stored, capacity>>
cacheVars == <<cached, expired, open, nextRec>>
callVars == <<invoked, submitted>>
locals == <<jour, method, rec>>
followVars == <<fpc, base, out, torn>>
vars == <<historyVars, cacheVars, callVars, pc, locals, panicked, followVars>>

Goto(t, l) ==
    /\ pc' = [pc EXCEPT ![t] = l]
    /\ UNCHANGED locals

\* The request is done, and its locals are gone.
Return(t) ==
    /\ pc' = [pc EXCEPT ![t] = "idle"]
    /\ jour' = [jour EXCEPT ![t] = DeadLetter]
    /\ method' = [method EXCEPT ![t] = {}]
    /\ rec' = [rec EXCEPT ![t] = NoRecorder]

\* A request goes on to l with the recorder r.
GotRecorder(t, r, l) ==
    /\ pc' = [pc EXCEPT ![t] = l]
    /\ rec' = [rec EXCEPT ![t] = r]
    /\ UNCHANGED <<jour, method>>

-----------------------------------------------------------------------------
(* Record and Warnf, up to the recorder: addToHistory *)

Start(t, j, ms, l) ==
    /\ pc[t] = "idle"
    /\ pc' = [pc EXCEPT ![t] = l]
    /\ jour' = [jour EXCEPT ![t] = j]
    /\ method' = [method EXCEPT ![t] = ms]
    /\ UNCHANGED <<historyVars, cacheVars, callVars, rec, panicked, followVars>>

Record(t, j) == Start(t, j, {}, IF j = DeadLetter THEN "get" ELSE "check")

\* Under the read lock.
CheckHistory(t) ==
    /\ pc[t] = "check"
    /\ Goto(t, IF stored[jour[t]] # 0 THEN "get" ELSE "add")
    /\ UNCHANGED <<historyVars, cacheVars, callVars, panicked, followVars>>

\* append moves to a larger array when this one is full.
Register(j) ==
    /\ list' = Append(list, j)
    /\ stored' = [stored EXCEPT ![j] = Len(list')]
    /\ capacity' = IF Len(list) < capacity THEN capacity
                   ELSE IF capacity = 0 THEN 1 ELSE 2 * capacity

\* Mutant of AddToHistory: no second look.
AddUnchecked(t) ==
    /\ pc[t] = "add"
    /\ Register(jour[t])
    /\ Goto(t, "get")
    /\ UNCHANGED <<cacheVars, callVars, panicked, followVars>>

\* Under the write lock, after a second look.
AddToHistory(t) ==
    /\ pc[t] = "add"
    /\ IF stored[jour[t]] # 0 THEN UNCHANGED historyVars ELSE Register(jour[t])
    /\ Goto(t, "get")
    /\ UNCHANGED <<cacheVars, callVars, panicked, followVars>>

-----------------------------------------------------------------------------
(* getRecorder.  A panic in a request is recovered by the server. *)

Panic(t) ==
    /\ panicked' = "request"
    /\ Return(t)

Live(j) == cached[j] # NoRecorder /\ j \notin expired

\* What comes after a recorder was obtained.
Use(t) == IF method[t] = {} THEN "print" ELSE "invoked"

\* A cached error makes obj.(recorder) panic: GetOrUpdate returned nil with it.
Hit(t) ==
    /\ pc[t] = "get"
    /\ Live(jour[t])
    /\ \A u \in Threads : pc[u] = "make" => jour[u] # jour[t]
    /\ IF cached[jour[t]] = OpenError
       THEN Panic(t)
       ELSE GotRecorder(t, cached[jour[t]], "touch") /\ UNCHANGED panicked
    /\ UNCHANGED <<historyVars, cacheVars, callVars, followVars>>

Stored(t, r) ==
    /\ cached' = [cached EXCEPT ![jour[t]] = r]
    /\ expired' = expired \ {jour[t]}

\* Set, with the recorder the lookup found.
Touch(t) ==
    /\ pc[t] = "touch"
    /\ Stored(t, rec[t])
    /\ Goto(t, Use(t))
    /\ UNCHANGED <<historyVars, open, nextRec, callVars, panicked, followVars>>

Items == {j \in AllJournals : cached[j] # NoRecorder}
LiveItems == Items \ expired

\* closeRecorder for the items in J; it panics on one that holds an error.
Evict(J) ==
    /\ cached' = [j \in AllJournals |-> IF j \in J THEN NoRecorder ELSE cached[j]]
    /\ expired' = expired \ J
    /\ open' = open \ {cached[j] : j \in J}
Refuses(J) == \E j \in J : cached[j] = OpenError

\* No live item for the journal, and no call for it is in the cache.
Misses(t) ==
    /\ pc[t] = "get"
    /\ ~Live(jour[t])
    /\ \A u \in Threads : pc[u] \in {"make", "touch"} => jour[u] # jour[t]

Miss(t) ==
    /\ Misses(t)
    /\ Cardinality(Items) < Limit
    /\ Goto(t, "make")
    /\ UNCHANGED <<historyVars, cacheVars, callVars, panicked, followVars>>

\* At the limit some live item is evicted.  With none to evict, or one that
\* closeRecorder refuses, it panics under the write lock, which the deferred
\* RUnlock turns into a fatal error.
MissAtLimit(t) ==
    /\ Misses(t)
    /\ Cardinality(Items) >= Limit
    /\ \/ \E j \in LiveItems : ~Refuses({j}) /\ Evict({j}) /\ Goto(t, "make") /\ UNCHANGED panicked
       \/ /\ LiveItems = {} \/ Refuses(LiveItems)
          /\ panicked' = "process"
          /\ UNCHANGED <<cached, expired, open, pc, locals>>
    /\ UNCHANGED <<historyVars, nextRec, callVars, followVars>>

\* The log file is opened and the recorder stored over whatever is there.
MakeRecorder(t) ==
    /\ pc[t] = "make"
    /\ nextRec <= MaxRecorders
    /\ Stored(t, nextRec)
    /\ open' = open \cup {nextRec}
    /\ nextRec' = nextRec + 1
    /\ GotRecorder(t, nextRec, Use(t))
    /\ UNCHANGED <<historyVars, callVars, panicked, followVars>>

\* The error is stored instead, and obj.(recorder) panics.
MakeFails(t) ==
    /\ CanFail
    /\ pc[t] = "make"
    /\ Stored(t, OpenError)
    /\ Panic(t)
    /\ UNCHANGED <<historyVars, open, nextRec, callVars, followVars>>

\* logger.Printf; on a closed file the message goes nowhere.
PrintMessage(t) ==
    /\ pc[t] = "print"
    /\ Return(t)
    /\ UNCHANGED <<historyVars, cacheVars, callVars, panicked, followVars>>

-----------------------------------------------------------------------------
(* SubmitMethodInvocation *)

SubmitMethodInvocation(t, j, m) == Start(t, j, {m}, "get")

\* methodInvoked, under the read lock.
CheckInvoked(t) ==
    /\ pc[t] = "invoked"
    /\ IF method[t] \subseteq invoked[rec[t]] THEN Return(t) ELSE Goto(t, "mark")
    /\ UNCHANGED <<historyVars, cacheVars, callVars, panicked, followVars>>

\* Mutant of MarkInvoked: no second look.
MarkUnchecked(t) ==
    /\ pc[t] = "mark"
    /\ invoked' = [invoked EXCEPT ![rec[t]] = @ \cup method[t]]
    /\ Goto(t, "submit")
    /\ UNCHANGED <<historyVars, cacheVars, submitted, panicked, followVars>>

\* The second look and the mark, under the write lock.
MarkInvoked(t) ==
    /\ pc[t] = "mark"
    /\ invoked' = [invoked EXCEPT ![rec[t]] = @ \cup method[t]]
    /\ IF method[t] \subseteq invoked[rec[t]] THEN Return(t) ELSE Goto(t, "submit")
    /\ UNCHANGED <<historyVars, cacheVars, submitted, panicked, followVars>>

Submit(t) ==
    /\ pc[t] = "submit"
    /\ submitted' = [submitted EXCEPT ![rec[t]] =
            [m \in Methods |-> @[m] + IF m \in method[t] THEN 1 ELSE 0]]
    /\ Return(t)
    /\ UNCHANGED <<historyVars, cacheVars, invoked, panicked, followVars>>

-----------------------------------------------------------------------------
(* The cache's clock, and CloseAll.  A panic here ends the process. *)

Expire(j) ==
    /\ CanExpire
    /\ Live(j)
    /\ expired' = expired \cup {j}
    /\ UNCHANGED <<historyVars, cached, open, nextRec, callVars, pc, locals, panicked, followVars>>

CloseRecorders(J) ==
    /\ IF Refuses(J)
       THEN panicked' = "process" /\ UNCHANGED <<cached, expired, open>>
       ELSE Evict(J) /\ UNCHANGED panicked
    /\ UNCHANGED <<historyVars, nextRec, callVars, pc, locals, followVars>>

\* go-cache's janitor, without MemCache's lock.
Janitor ==
    /\ expired # {}
    /\ CloseRecorders(expired)

\* Flush waits for the calls that are in the cache.
CloseAll ==
    /\ CanClose
    /\ \A t \in Threads : pc[t] \notin {"make", "touch"}
    /\ CloseRecorders(Items)

-----------------------------------------------------------------------------
(* historyHandler with follow: History copies history.list without its lock, *)
(* first the array's address, then the length.                               *)

NoArray == [cap |-> 0, items |-> <<>>]

LoadArray(f) ==
    /\ fpc[f] = "array"
    /\ base' = [base EXCEPT ![f] = [cap |-> capacity, items |-> list]]
    /\ fpc' = [fpc EXCEPT ![f] = "length"]
    /\ UNCHANGED <<historyVars, cacheVars, callVars, pc, locals, panicked, out, torn>>

\* The journal at index i of the array: one that was appended later is there as
\* long as the array was not replaced, and past its end is what memory holds.
Item(f, i) ==
    IF i <= Len(base[f].items) THEN base[f].items[i]
    ELSE IF i <= base[f].cap THEN list[i] ELSE "garbage"

\* The indices that are sent next, if the array they are read from is not the current one.
Tear(f) ==
    torn' = [torn EXCEPT ![f] =
                @ \cup IF base[f].cap = capacity THEN {} ELSE (Len(out[f]) + 1) .. Len(list)]

\* Mutant of WriteHistory: the last journal is sent again.
WriteHistoryAgain(f) ==
    /\ fpc[f] = "length"
    /\ LET last == IF out[f] = <<>> THEN 0 ELSE Len(out[f]) - 1
       IN  out' = [out EXCEPT ![f] = @ \o [i \in 1 .. (Len(list) - last) |-> Item(f, last + i)]]
    /\ fpc' = [fpc EXCEPT ![f] = "array"]
    /\ base' = [base EXCEPT ![f] = NoArray]
    /\ Tear(f)
    /\ UNCHANGED <<historyVars, cacheVars, callVars, pc, locals, panicked>>

WriteHistory(f) ==
    /\ fpc[f] = "length"
    /\ out' = [out EXCEPT ![f] = @ \o [i \in 1 .. (Len(list) - Len(@)) |-> Item(f, Len(@) + i)]]
    /\ fpc' = [fpc EXCEPT ![f] = "array"]
    /\ base' = [base EXCEPT ![f] = NoArray]
    /\ Tear(f)
    /\ UNCHANGED <<historyVars, cacheVars, callVars, pc, locals, panicked>>

-----------------------------------------------------------------------------
\* The capacity that append has given the array of n journals: the least power of 2, if any
Grown(n) == IF n = 0 THEN {0} ELSE {c \in n .. (2 * n - 1) : \E k \in 0 .. n : c = 2 ^ k}

Init ==
    /\ list = Earlier
    /\ stored \in [Journals -> 0 .. Len(Earlier)]
    /\ \A j \in Journals : IF stored[j] = 0 THEN j \notin Over ELSE Earlier[stored[j]] = j
    /\ capacity \in Grown(Len(Earlier))
    /\ cached = [j \in AllJournals |-> NoRecorder]
    /\ expired = {}
    /\ open = {}
    /\ nextRec = 1
    /\ invoked = [r \in Recorders |-> {}]
    /\ submitted = [r \in Recorders |-> [m \in Methods |-> 0]]
    /\ pc = [t \in Threads |-> "idle"]
    /\ jour = [t \in Threads |-> DeadLetter]
    /\ method = [t \in Threads |-> {}]
    /\ rec = [t \in Threads |-> NoRecorder]
    /\ panicked = "none"
    /\ fpc = [f \in Followers |-> "array"]
    /\ base = [f \in Followers |-> NoArray]
    /\ out = [f \in Followers |-> <<>>]
    /\ torn = [f \in Followers |-> {}]

Next ==
    /\ panicked # "process"
    /\ \/ \E t \in Threads :
             \/ \E j \in AllJournals \ Over :
                   Record(t, j) \/ \E m \in Methods : SubmitMethodInvocation(t, j, m)
             \/ CheckHistory(t) \/ AddToHistory(t)
             \/ Hit(t) \/ Touch(t) \/ Miss(t) \/ MissAtLimit(t) \/ MakeRecorder(t) \/ MakeFails(t)
             \/ PrintMessage(t) \/ CheckInvoked(t) \/ MarkInvoked(t) \/ Submit(t)
       \/ \E j \in AllJournals : Expire(j)
       \/ Janitor \/ CloseAll
       \/ \E f \in Followers : LoadArray(f) \/ WriteHistory(f)

Spec == Init /\ [][Next]_vars

-----------------------------------------------------------------------------
(* Properties *)

\* The type invariant.
TypeOK ==
    /\ list \in Seq(Journals)
    /\ stored \in [Journals -> Nat]
    /\ capacity \in Nat
    /\ cached \in [AllJournals -> {NoRecorder, OpenError} \cup Recorders]
    /\ expired \subseteq AllJournals
    /\ open \subseteq Recorders
    /\ nextRec \in 1 .. (MaxRecorders + 1)
    /\ invoked \in [Recorders -> SUBSET Methods]
    /\ submitted \in [Recorders -> [Methods -> Nat]]
    /\ pc \in [Threads -> {"idle", "check", "add", "get", "touch", "make", "print",
                           "invoked", "mark", "submit"}]
    /\ jour \in [Threads -> AllJournals]
    /\ method \in [Threads -> SUBSET Methods]
    /\ rec \in [Threads -> {NoRecorder} \cup Recorders]
    /\ panicked \in {"none", "request", "process"}
    /\ fpc \in [Followers -> {"array", "length"}]
    /\ base \in [Followers -> [cap : Nat, items : Seq(Journals)]]
    /\ out \in [Followers -> Seq(Journals \cup {"garbage"})]
    /\ torn \in [Followers -> SUBSET Nat]

\* journal.go:59-68: "we only register the command once": a journal that
\* concurrent requests record to is in history once, where stored says.
RegisteredOnce ==
    /\ \A i \in 1 .. Len(list) : stored[list[i]] = i
    /\ \A j \in Journals : stored[j] # 0 => stored[j] <= Len(list) /\ list[stored[j]] = j

\* journal.go:211-213: a recorder submits an invocation of a method "only if
\* the method has not previously been invoked".
SubmittedOnce ==
    \A r \in Recorders, m \in Methods : submitted[r][m] <= 1

\* journal.go:130-131: Record "appends the message to that journal": the file a
\* message goes to is open.
MessageWritten ==
    \A t \in Threads : pc[t] = "print" => rec[t] \in open

\* journal.go:77-79: recording a method invocation "should never error", and
\* core.go:146-157: what closeRecorder gets always is a recorder with a file.
NoPanic == panicked = "none"

\* journal.go:175: "the slice wont be modified by other operations later": what
\* a follower has sent is the history, in order and without gaps.
FollowerExact ==
    \A f \in Followers : \A i \in 1 .. Len(out[f]) : out[f][i] = list[i]

\* api/history.go:72-83: what a follower was sent is the history up to some point, each journal
\* once and in order, over any number of reads without the lock while journals are added; except
\* where append moved the history to a larger array between the two loads of a read (FollowerExact,
\* which MCJournalFaults violates, has no such exception).
FollowerInOrder ==
    \A f \in Followers :
        /\ Len(out[f]) <= Len(list)
        /\ \A i \in 1 .. Len(out[f]) : i \in torn[f] \/ out[f][i] = list[i]
=============================================================================
