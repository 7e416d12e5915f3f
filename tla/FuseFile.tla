------------------------------ MODULE FuseFile ------------------------------
(***************************************************************************)
(* A file of the FUSE filesystem (src/fuse/file.go): the handlers of one   *)
(* file node, called by the kernel for the handles that have it open, each *)
(* request on a goroutine of its own.                                      *)
(*                                                                         *)
(* Every handler holds file.mux from its first to its last line and is one *)
(* action, except Release, whose releaseWriter runs without mux and is     *)
(* split at its accesses to the shared fields.                             *)
(*                                                                         *)
(* A byte is a natural number, 0 being the null character.  A write sends  *)
(* one byte: a longer one is a sequence of these with nothing in between.  *)
(***************************************************************************)
EXTENDS Integers, Sequences

CONSTANTS
    Handles,    \* fuse.HandleID
    Kinds,      \* whether the entry's attributes have a size: TRUE, FALSE or either
    Readable,   \* the entry supports read
    Writable,   \* the entry supports write
    Initial,    \* the content of the entry when wash starts
    Bytes,      \* what is written
    Offsets,    \* where it is written
    Sizes,      \* the sizes Setattr requests
    CanFail,    \* a call to the plugin may fail
    FlushFlag   \* the kernel may set ReleaseFlush on a release

ASSUME FlagsAssumption ==
    Kinds \subseteq BOOLEAN /\ {Readable, Writable, CanFail, FlushFlag} \subseteq BOOLEAN
ASSUME ContentAssumption ==
    Initial \in Seq(Nat) /\ Bytes \subseteq Nat /\ Offsets \subseteq Nat /\ Sizes \subseteq Nat

VARIABLES
    fileLike,   \* the entry's attributes have a size
    remote,     \* the content the plugin's API would return
    sent,       \* the argument of the last plugin.Write
    cached,     \* the cached result of the entry's Read: {} or {content}
    listed,     \* the size in the cached List of the entry's parent: {} or {size}
    entrySize,  \* the Size attribute of file.entry
    writers,    \* file.writers
    data,       \* file.data
    readSize,   \* file.readSize
    mode,       \* how each handle is open
    stage,      \* how far its close has come
    want,       \* history: the content a file system would have by now
    panicked    \* history: the assertion in Flush has failed

pluginVars == <<remote, sent, cached, listed>>
fileVars == <<entrySize, writers, data, readSize>>
vars == <<fileLike, pluginVars, fileVars, mode, stage, want, panicked>>

-----------------------------------------------------------------------------
(* Contents *)

Larger(m, n) == IF m >= n THEN m ELSE n
Smaller(m, n) == IF m <= n THEN m ELSE n

Zeros(n) == [i \in 1 .. n |-> 0]

Grown(s, n) == IF n > Len(s) THEN s \o Zeros(n - Len(s)) ELSE s

Resized(s, n) == SubSeq(Grown(s, n), 1, n)

\* One byte at an offset, after what is missing before it was filled with nulls.
Overwritten(s, off, b) == [Grown(s, off + 1) EXCEPT ![off + 1] = b]

\* cachedRead: the cached content, or a new Read that is then cached.
Content == IF cached = {} THEN remote ELSE CHOOSE s \in cached : TRUE

\* entryContentImpl.read
ContentRead(s, size, off) ==
    IF off >= Len(s)
    THEN [data |-> <<>>, eof |-> TRUE]
    ELSE [data |-> SubSeq(s, off + 1, Smaller(off + size, Len(s))),
          eof  |-> Len(s) < off + size]

\* plugin.Read: the entry's own Size attribute is consulted first.  Past the
\* end the size asked for becomes the whole content's.
PluginRead(size, off) ==
    IF fileLike /\ off >= entrySize
    THEN [data |-> <<>>, eof |-> TRUE]
    ELSE IF fileLike /\ entrySize < size + off
         THEN [ContentRead(Content, entrySize, off) EXCEPT !.eof = TRUE]
         ELSE ContentRead(Content, size, off)

\* Whether that call gets as far as cachedRead.
ReachesContent(off) == ~fileLike \/ off < entrySize

useLocalContent == writers # {} /\ fileLike

\* The content a write starts from, in a file system.
Base == IF writers # {} THEN want ELSE IF fileLike THEN remote ELSE <<>>

-----------------------------------------------------------------------------
(* Attr and Open *)

\* refind: the entry as the parent's List, cached or not, has it.
refind ==
    /\ listed' = IF listed = {} THEN {Len(remote)} ELSE listed
    /\ entrySize' = CHOOSE n \in listed' : TRUE

\* Only when nothing is being written.  An entry without a size has nothing
\* here that a newer one could change.
RefindUnlessWriting ==
    IF useLocalContent \/ ~fileLike THEN UNCHANGED <<listed, entrySize>> ELSE refind

Attr ==
    /\ RefindUnlessWriting
    /\ UNCHANGED <<fileLike, remote, sent, cached, writers, data, readSize, mode, stage, want, panicked>>

Supported(m) ==
    /\ m \in {"r", "rw"} => Readable
    /\ m \in {"w", "rw"} => Writable
    /\ m = "rw" => fileLike

Open(h, m) ==
    /\ mode[h] = "closed"
    /\ Supported(m)
    /\ RefindUnlessWriting
    /\ IF fileLike
       THEN readSize' = entrySize' /\ UNCHANGED cached
       ELSE IF m = "r"
       THEN readSize' = Len(Content) /\ cached' = {Content}
       ELSE UNCHANGED <<readSize, cached>>
    /\ mode' = [mode EXCEPT ![h] = m]
    /\ UNCHANGED <<fileLike, remote, sent, writers, data, stage, want, panicked>>

-----------------------------------------------------------------------------
(* Read, Write and Setattr *)

InUse(h, modes) == mode[h] \in modes /\ stage[h] = "open"

\* Only the content cache can change: while writing, data is served instead.
Read(h, off) ==
    /\ InUse(h, {"r", "rw"})
    /\ IF useLocalContent \/ ~ReachesContent(off)
       THEN UNCHANGED cached
       ELSE cached' = {Content}
    /\ UNCHANGED <<fileLike, remote, sent, listed, fileVars, mode, stage, want, panicked>>

\* A write past the end of data first loads what lies between.
NeedsLoad(off) == fileLike /\ off > Len(data)

\* Mutant of WriteOK: the size does not grow with the data.
WriteOKFixedSize(h, off, b) ==
    /\ InUse(h, {"w", "rw"})
    /\ ~NeedsLoad(off)
    /\ data' = Overwritten(data, off, b)
    /\ writers' = writers \cup {h}
    /\ want' = Overwritten(Base, off, b)
    /\ UNCHANGED <<fileLike, remote, sent, cached, listed, entrySize, readSize, mode, stage, panicked>>

WriteOK(h, off, b) ==
    /\ InUse(h, {"w", "rw"})
    /\ LET gap == off - Len(data)
           loaded == IF NeedsLoad(off) THEN PluginRead(gap, Len(data)).data ELSE <<>>
       IN  /\ NeedsLoad(off) => Readable /\ ~PluginRead(gap, Len(data)).eof
           /\ data' = Overwritten(data \o loaded, off, b)
    /\ readSize' = IF fileLike THEN Larger(readSize, off + 1) ELSE readSize
    /\ writers' = writers \cup {h}
    /\ cached' = IF NeedsLoad(off) /\ ReachesContent(Len(data)) THEN {Content} ELSE cached
    /\ want' = Overwritten(Base, off, b)
    /\ UNCHANGED <<fileLike, remote, sent, listed, entrySize, mode, stage, panicked>>

\* The load fails (end of file included): only the handle is registered.
WriteError(h, off) ==
    /\ InUse(h, {"w", "rw"})
    /\ NeedsLoad(off)
    /\ CanFail \/ ~Readable \/ PluginRead(off - Len(data), Len(data)).eof
    /\ writers' = writers \cup {h}
    /\ cached' \in {cached, IF Readable /\ ReachesContent(Len(data)) THEN {Content} ELSE cached}
    /\ want' = Base
    /\ UNCHANGED <<fileLike, remote, sent, listed, entrySize, data, readSize, mode, stage, panicked>>

\* Without a handle Setattr changes nothing (ENOTSUP).
Setattr(h, n) ==
    /\ InUse(h, {"w", "rw"})
    /\ writers' = writers \cup {h}
    /\ IF fileLike
       THEN readSize' = n /\ UNCHANGED data
       ELSE data' = Resized(data, n) /\ UNCHANGED readSize
    /\ want' = Resized(Base, n)
    /\ UNCHANGED <<fileLike, pluginVars, entrySize, mode, stage, panicked>>

-----------------------------------------------------------------------------
(* Flush *)

Oversized == fileLike /\ Len(data) > readSize

\* Mutant of Remainder: read from the start of the entry.
RemainderFromStart == PluginRead(readSize - Len(data), 0).data

\* What Flush sends: data, completed up to readSize.
Remainder == PluginRead(readSize - Len(data), Len(data)).data

NeedsRemainder == fileLike /\ Len(data) < readSize

\* Mutant of Completed: what was not written becomes nulls.
CompletedWithNulls == Grown(data, readSize)

Completed == IF NeedsRemainder THEN Grown(data \o Remainder, readSize) ELSE data

CachedAfterFlush ==
    IF NeedsRemainder /\ ReachesContent(Len(data)) THEN {Content} ELSE cached

FlushNoop(h) ==
    /\ h \notin writers
    /\ UNCHANGED <<fileLike, pluginVars, fileVars, want, panicked>>

FlushPanic(h) ==
    /\ h \in writers
    /\ Oversized
    /\ panicked' = TRUE
    /\ UNCHANGED <<fileLike, pluginVars, fileVars, want>>

\* A non-file-like entry is done with the write: releaseWriter, under mux.
FlushOK(h) ==
    /\ h \in writers
    /\ ~Oversized
    /\ NeedsRemainder => Readable
    /\ sent' = Completed
    /\ IF fileLike
       THEN /\ remote' = Completed
            /\ data' = Completed
            /\ cached' = CachedAfterFlush
            /\ UNCHANGED <<writers, listed>>
       ELSE /\ writers' = writers \ {h}
            /\ data' = IF writers' = {} THEN <<>> ELSE data
            /\ cached' = IF writers' = {} THEN {} ELSE cached
            /\ listed' = IF writers' = {} THEN {} ELSE listed
            /\ UNCHANGED remote
    /\ want' = IF writers' = {} THEN <<>> ELSE want
    /\ UNCHANGED <<fileLike, entrySize, readSize, panicked>>

\* The load or the plugin's Write fails.
FlushError(h) ==
    /\ h \in writers
    /\ ~Oversized
    /\ CanFail \/ (NeedsRemainder /\ ~Readable)
    /\ \/ UNCHANGED <<data, cached>>
       \/ /\ NeedsRemainder => Readable
          /\ data' = Completed
          /\ cached' = CachedAfterFlush
    /\ UNCHANGED <<fileLike, remote, sent, listed, entrySize, writers, readSize, want, panicked>>

\* close(2) on a descriptor of the handle, the last one or not.
Flush(h) ==
    /\ InUse(h, {"r", "w", "rw"})
    /\ FlushNoop(h) \/ FlushPanic(h) \/ FlushOK(h) \/ FlushError(h)
    /\ stage' \in {stage, [stage EXCEPT ![h] = "flushed"]}
    /\ UNCHANGED mode

-----------------------------------------------------------------------------
(* Release *)

\* The kernel releases a handle after the flush of its last descriptor.
Release(h) ==
    /\ stage[h] = "flushed"
    /\ stage' = [stage EXCEPT ![h] = "release"]
    /\ UNCHANGED <<fileLike, pluginVars, fileVars, mode, want, panicked>>

\* With ReleaseFlush, Flush is called again; its error ends Release early.
ReleaseFlush(h) ==
    /\ FlushFlag
    /\ stage[h] = "flushed"
    /\ \/ /\ FlushNoop(h) \/ FlushOK(h)
          /\ stage' = [stage EXCEPT ![h] = "release"]
          /\ UNCHANGED mode
       \/ /\ FlushError(h) \/ FlushPanic(h)
          /\ stage' = [stage EXCEPT ![h] = "open"]
          /\ mode' = [mode EXCEPT ![h] = "closed"]

Closed(h) ==
    /\ stage' = [stage EXCEPT ![h] = "open"]
    /\ mode' = [mode EXCEPT ![h] = "closed"]

\* Mutant of ClearCache: the parent's listing is not cleared.
ClearCacheKeepsList(h) ==
    /\ stage[h] = "clear"
    /\ cached' = {}
    /\ Closed(h)
    /\ UNCHANGED <<fileLike, remote, sent, listed, fileVars, want, panicked>>

\* Mutant of ReleaseWriter: the buffer and the caches are kept.
ReleaseWriterKeepsData(h) ==
    /\ stage[h] = "release"
    /\ writers' = writers \ {h}
    /\ Closed(h)
    /\ UNCHANGED <<fileLike, pluginVars, entrySize, data, readSize, want, panicked>>

\* releaseWriter, without mux: the writer is removed, and when it was the last
\* one the buffer and the caches go.
ReleaseWriter(h) ==
    /\ stage[h] = "release"
    /\ writers' = writers \ {h}
    /\ IF h \in writers /\ writers' = {}
       THEN stage' = [stage EXCEPT ![h] = "drop"] /\ UNCHANGED mode
       ELSE Closed(h)
    /\ want' = IF writers' = {} THEN <<>> ELSE want
    /\ UNCHANGED <<fileLike, pluginVars, entrySize, data, readSize, panicked>>

DropData(h) ==
    /\ stage[h] = "drop"
    /\ data' = <<>>
    /\ stage' = [stage EXCEPT ![h] = "clear"]
    /\ UNCHANGED <<fileLike, pluginVars, entrySize, writers, readSize, mode, want, panicked>>

\* plugin.ClearCacheFor(plugin.ID(f.entry), true)
ClearCache(h) ==
    /\ stage[h] = "clear"
    /\ cached' = {}
    /\ listed' = {}
    /\ Closed(h)
    /\ UNCHANGED <<fileLike, remote, sent, fileVars, want, panicked>>

-----------------------------------------------------------------------------
(* The ttl of the caches *)

Expire ==
    /\ cached # {} \/ listed # {}
    /\ cached' \in {{}, cached}
    /\ listed' \in {{}, listed}
    /\ UNCHANGED <<fileLike, remote, sent, fileVars, mode, stage, want, panicked>>

Init ==
    /\ fileLike \in Kinds
    /\ remote = Initial
    /\ sent = <<>>
    /\ cached = {}
    /\ listed = {}
    /\ entrySize = IF fileLike THEN Len(Initial) ELSE 0
    /\ writers = {}
    /\ data = <<>>
    /\ readSize = 0
    /\ mode = [h \in Handles |-> "closed"]
    /\ stage = [h \in Handles |-> "open"]
    /\ want = <<>>
    /\ panicked = FALSE

Next ==
    \/ Attr \/ Expire
    \/ \E h \in Handles :
          \/ \E m \in {"r", "w", "rw"} : Open(h, m)
          \/ \E off \in Offsets : Read(h, off) \/ WriteError(h, off)
          \/ \E off \in Offsets, b \in Bytes : WriteOK(h, off, b)
          \/ \E n \in Sizes : Setattr(h, n)
          \/ Flush(h) \/ Release(h) \/ ReleaseFlush(h)
          \/ ReleaseWriter(h) \/ DropData(h) \/ ClearCache(h)

Spec == Init /\ [][Next]_vars

-----------------------------------------------------------------------------
(* Properties *)

\* The type invariant.
TypeOK ==
    /\ fileLike \in Kinds
    /\ remote \in Seq(Nat) /\ sent \in Seq(Nat) /\ data \in Seq(Nat) /\ want \in Seq(Nat)
    /\ cached \subseteq Seq(Nat)
    /\ listed \subseteq Nat
    /\ entrySize \in Nat /\ readSize \in Nat
    /\ writers \subseteq Handles
    /\ mode \in [Handles -> {"closed", "r", "w", "rw"}]
    /\ stage \in [Handles -> {"open", "flushed", "release", "drop", "clear"}]
    /\ panicked \in BOOLEAN

\* file.go:305-306: data never outgrows readSize.
NoPanic == ~panicked

\* A flush that succeeds has sent the file as the writes and resizes since its
\* first writer left it, whatever part of it was in data at the time.
FlushSendsFile == \A h \in Handles : FlushOK(h) => sent' = want
FlushComplete == [][FlushSendsFile]_vars

\* file.go:310: the part that was not written is filled in from the entry, when
\* no release of another handle interferes.
FlushFillsIn ==
    \A h \in Handles :
        FlushOK(h) /\ (\A g \in Handles : stage[g] \in {"open", "flushed"}) =>
        \A i \in (Len(data) + 1) .. Smaller(Len(remote), Len(sent')) : sent'[i] = remote[i]
FillsFromEntry == [][FlushFillsIn]_vars

\* file.go:51: data is "only valid if len(writers) > 0": with no writer and no
\* release on its way to drop it, nothing is left in the buffer.
BufferReleased ==
    (writers = {} /\ \A h \in Handles : stage[h] # "drop") => data = <<>>

\* file.go:184-187: once the last writer is gone, a request sees the content
\* and the size that were written, not what was cached before.
CachesFresh ==
    (writers = {} /\ \A h \in Handles : stage[h] \notin {"drop", "clear"})
        => cached \subseteq {remote} /\ (fileLike => listed \subseteq {Len(remote)})

\* A handle that is closed has no write in progress.
ClosedNotWriting == \A h \in writers : mode[h] # "closed"

-----------------------------------------------------------------------------
(* Handles that take turns *)

\* One handle is open at a time, a release does not fail in its flush, and Setattr does not
\* shrink an entry with a size.  Without the first, a release or an open of another handle
\* changes what is being written (MCFuseFileRace); without the others, see MCFuseFileResize.
Orderly ==
    /\ \A g, h \in Handles : mode'[g] # "closed" /\ mode'[h] # "closed" => g = h
    /\ ClosedNotWriting'
    /\ \A h \in Handles, n \in Sizes : Setattr(h, n) /\ fileLike => n >= readSize

OrderlySpec == Init /\ [][Next /\ Orderly]_vars
=============================================================================
