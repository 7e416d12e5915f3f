----------------------------- MODULE Analytics -----------------------------
(***************************************************************************)
(* The analytics client (src/analytics/client.go): a queue of hits under a *)
(* lock.  Whoever finds it full, the ticker and the server's shutdown post *)
(* the queued hits over the network, and hold the lock until it answers.   *)
(***************************************************************************)
EXTENDS Integers, Sequences, SequencesExt

CONSTANTS
    Callers,    \* the goroutines that submit hits
    maxHits     \* the size of the queue

ASSUME AnalyticsAssumption ==
    /\ maxHits \in Nat \ {0}
    /\ Callers \intersect {"ticker", "final", "free"} = {}

Threads == Callers \union {"ticker", "final"}

VARIABLES
    client,     \* "none" before NewClient, "real", or "noop" when disabled
    queuedHits,
    queueLock,  \* the thread that holds it, or "free"
    at,         \* per thread: "idle", "lock" (waits for the lock) or "post" (waits for the network)
    submits,    \* hits submitted so far; they are numbered
    hit,        \* per caller, the hit that it submits
    delivered,  \* history: the hits posted, in order
    dropped,    \* history: the hits in posts that failed
    enqueued    \* history: all hits queued, in order

anaVars == <<client, queuedHits, queueLock, at, submits, hit, delivered, dropped, enqueued>>

AnaInit ==
    /\ client = "none"
    /\ queuedHits = <<>>
    /\ queueLock = "free"
    /\ at = [t \in Threads |-> "idle"]
    /\ submits = 0
    /\ hit = [c \in Callers |-> 0]
    /\ delivered = <<>>
    /\ dropped = {}
    /\ enqueued = <<>>

\* NewClient
NewClient ==
    /\ client' \in {"real", "noop"}
    /\ UNCHANGED <<queuedHits, queueLock, at, submits, hit, delivered, dropped, enqueued>>

\* Screenview, Event: params that are not valid return an error, the noop client queues nothing.
Submit(c) ==
    /\ client = "real"
    /\ at[c] = "idle"
    /\ submits' = submits + 1
    /\ hit' = [hit EXCEPT ![c] = submits + 1]
    /\ at' = [at EXCEPT ![c] = "lock"]
    /\ UNCHANGED <<client, queuedHits, queueLock, delivered, dropped, enqueued>>

\* Flush, by the ticker or at the server's shutdown
Flush(t) ==
    /\ client = "real"
    /\ at[t] = "idle"
    /\ at' = [at EXCEPT ![t] = "lock"]
    /\ UNCHANGED <<client, queuedHits, queueLock, submits, hit, delivered, dropped, enqueued>>

\* Whether thread t, which has the lock, posts the queue
MustPost(t) ==
    IF t \in Callers THEN Len(queuedHits) >= maxHits ELSE queuedHits # <<>>

\* The end of enqueue or Flush: a caller appends its hit to the queue, and the lock is released.
Unlock(t, queue) ==
    /\ at' = [at EXCEPT ![t] = "idle"]
    /\ queueLock' = "free"
    /\ IF t \in Callers
       THEN /\ queuedHits' = Append(queue, hit[t])
            /\ enqueued' = Append(enqueued, hit[t])
            /\ hit' = [hit EXCEPT ![t] = 0]
       ELSE queuedHits' = queue /\ UNCHANGED <<enqueued, hit>>

\* enqueue and Flush with the lock
Acquire(t) ==
    /\ at[t] = "lock"
    /\ queueLock = "free"
    /\ IF MustPost(t)
       THEN /\ queueLock' = t
            /\ at' = [at EXCEPT ![t] = "post"]
            /\ UNCHANGED <<queuedHits, enqueued, hit>>
       ELSE Unlock(t, queuedHits)
    /\ UNCHANGED <<client, submits, delivered, dropped>>

\* Mutant of Posted: hits that could not be sent stay queued.
PostedRetries(t, ok) ==
    /\ delivered' = IF ok THEN delivered \o queuedHits ELSE delivered
    /\ dropped' = IF ok THEN dropped ELSE dropped \union Range(queuedHits)
    /\ Unlock(t, IF ok THEN <<>> ELSE queuedHits)

\* The rest of flush: the queue is emptied whether or not the post succeeded.
Posted(t, ok) ==
    /\ delivered' = IF ok THEN delivered \o queuedHits ELSE delivered
    /\ dropped' = IF ok THEN dropped ELSE dropped \union Range(queuedHits)
    /\ Unlock(t, <<>>)

\* The network answers, or fails.
Answer(t) ==
    /\ at[t] = "post"
    /\ \E ok \in BOOLEAN : Posted(t, ok)
    /\ UNCHANGED <<client, submits>>

AnaTypeOK ==
    /\ client \in {"none", "real", "noop"}
    /\ queueLock \in Threads \union {"free"}
    /\ at \in [Threads -> {"idle", "lock", "post"}]
    /\ submits \in Nat
    /\ hit \in [Callers -> Nat]
    /\ queuedHits \in Seq(Nat) /\ delivered \in Seq(Nat) /\ enqueued \in Seq(Nat)
    /\ dropped \subseteq Nat

\* client.go:95: no hit is sent twice or lost but in a post that failed, and they are sent in the
\* order they were queued; at most maxHits wait, whoever submits and flushes concurrently.
HitsOnce ==
    LET sent == delivered \o queuedHits
    IN  /\ Range(sent) = Range(enqueued) \ dropped
        /\ \A i, j \in 1 .. Len(sent), k, l \in 1 .. Len(enqueued) :
              i < j /\ sent[i] = enqueued[k] /\ sent[j] = enqueued[l] => k < l
        /\ Len(queuedHits) <= maxHits
=============================================================================
