------------------------------- MODULE Volume ------------------------------
(***************************************************************************)
(* The filesystem of a container or a VM as entries (volume/): listings    *)
(* made by running find and stat there, the directory maps that several    *)
(* levels of entries share, deletion, and the streaming of a file.         *)
(*                                                                         *)
(* A path is a sequence of names, <<>> is the root.  A dirmap is a         *)
(* function from paths of directories to their children, Nil if they were  *)
(* not explored.  An entry is a record of its path, its kind and the dirmap*)
(* it refers to, 0 if none.  A client walks from the root: it lists an     *)
(* entry and goes on with one of the children, as the API and FUSE do.     *)
(***************************************************************************)
EXTENDS Integers, Sequences, SequencesExt, FiniteSetsExt, TLC

CONSTANTS
    Clients,
    Initial,        \* what is on the volume: a function from paths to kinds
    MaxDepth,       \* the levels that one listing explores
    Shells,         \* the login shells of the executor
    Outputs,        \* what a streaming command may write: sequences of chunks, "error" one of them
    Volatile,       \* the nodes that others remove and make again
    Denied,         \* the directories that may turn out not to be readable
    CanFail,        \* whether commands may fail
    MaxLists,       \* bound: listings
    MaxChanges      \* bound: changes on the volume made by others

RootPath == <<>>
Parent(path) == SubSeq(path, 1, Len(path) - 1)

ASSUME DepthAssumption == MaxDepth \in Nat \ {0} /\ MaxLists \in Nat \ {0}

\* What is on the volume is a finite tree of directories and files.
ASSUME TreeAssumption ==
    /\ IsFiniteSet(DOMAIN Initial)
    /\ \A p \in DOMAIN Initial : /\ p \in Seq(STRING) /\ p # RootPath
                                 /\ Initial[p] \in {"dir", "file"}
                                 /\ \/ Parent(p) = RootPath
                                    \/ Parent(p) \in DOMAIN Initial /\ Initial[Parent(p)] = "dir"
    /\ Volatile \subseteq DOMAIN Initial
    /\ Denied \subseteq DOMAIN Initial

ASSUME OutputAssumption == \A out \in Outputs : out \in Seq(STRING)

VARIABLES
    shell,      \* the login shell
    remote,     \* what is on the volume
    fs,         \* the FS entry: "new", "accessible", "inaccessible"
    maps,       \* the dirmaps made
    cached,     \* the cached lists: a function from paths to their results
    client,     \* what each client does
    changes,    \* changes made by others
    snapshot,   \* history: per dirmap, where it starts and the nodes that the command could see
    deletions,  \* history: the paths deleted through Wash
    gone        \* history: those that no listing may show, see DeletedGone

vars == <<shell, remote, fs, maps, cached, client, changes, snapshot, deletions, gone>>
history == <<snapshot, deletions, gone>>

IsBelow(p, q) == Len(p) > Len(q) /\ SubSeq(p, 1, Len(q)) = q

Empty == [x \in {} |-> x]
Nil == [x \in {"nil"} |-> "nil"]
Put(f, a, b) == [x \in DOMAIN f \union {a} |-> IF x = a THEN b ELSE f[x]]
Without(f, S) == [x \in DOMAIN f \ S |-> f[x]]

(***************************************************************************)
(* What a command writes: lines with the path and the kind of a node,      *)
(* Normal for an error message that is to be expected, or Other.           *)
(***************************************************************************)
Normal == [path |-> RootPath, kind |-> "normal"]
Other == [path |-> RootPath, kind |-> "other"]

\* What is on disk below start, without the contents of the directories denied
Visible(disk, start, denied) ==
    {p \in DOMAIN disk : IsBelow(p, start) /\ \A d \in denied : ~IsBelow(p, d)}

\* StatCmdPOSIX, StatCmdPowershell: -maxdepth counts from start.
WithinDepth(paths, start) == {p \in paths : Len(p) <= Len(start) + MaxDepth}

\* The lines for paths, in any order in which directories come before what they contain
StatLines(disk, paths) ==
    {[i \in DOMAIN order |-> [path |-> order[i], kind |-> disk[order[i]]]] :
        order \in {s \in [1..Cardinality(paths) -> paths] :
                     /\ \A p \in paths : \E i \in DOMAIN s : s[i] = p
                     /\ \A i, j \in DOMAIN s : IsBelow(s[j], s[i]) => i < j}}

\* NormalErrorPOSIX, NormalErrorPowerShell
NormalError(sh, line) == sh = "posix" /\ line = Normal

\* makeChildren: the directories from path up to the first that exists are made, each empty but
\* for the next one.
MakeChildren(dirmap, path) ==
    LET missing == {q \in Prefixes(path) :
                       \A r \in Prefixes(path) : r \in DOMAIN dirmap => Len(r) < Len(q)}
        Children(q) == IF q \in DOMAIN dirmap THEN dirmap[q] ELSE Empty
    IN  [q \in DOMAIN dirmap \union missing |->
            IF \E m \in missing : Parent(m) = q THEN Put(Children(q), path[Len(q) + 1], "dir")
            ELSE Children(q)]

\* Mutant of AddAttributesForPath: no directory is left unexplored.
AddExplored(dirmap, path, kind, maxdepth) ==
    LET explored == IF kind = "dir" THEN Put(dirmap, path, Empty) ELSE dirmap
        made == MakeChildren(explored, Parent(path))
    IN  [made EXCEPT ![Parent(path)] = Put(@, Last(path), kind)]

\* A directory at maxdepth is unexplored; a path beyond it panics.
AddAttributesForPath(dirmap, path, kind, maxdepth) ==
    LET explored == IF kind # "dir" THEN dirmap
                    ELSE Put(dirmap, path, IF Len(path) = maxdepth THEN Nil ELSE Empty)
        made == MakeChildren(explored, Parent(path))
    IN  IF Len(path) > maxdepth THEN Assert(FALSE, "more segments than maxdepth")
        ELSE [made EXCEPT ![Parent(path)] = Put(@, Last(path), kind)]

\* The dirmap after all lines, each added to the one after the lines before it
Scan(lines, maxdepth) ==
    LET dirmap[n \in 0..Len(lines)] ==
            IF n = 0 THEN Put(Empty, RootPath, Empty)
            ELSE IF NormalError("posix", lines[n]) THEN dirmap[n - 1]
            ELSE AddAttributesForPath(dirmap[n - 1], lines[n].path, lines[n].kind, maxdepth)
    IN  dirmap[Len(lines)]

\* ParseStatPOSIX: {} if a line does not parse
ParseStatPOSIX(lines, start) ==
    IF Other \in Range(lines) THEN {} ELSE {Scan(lines, MaxDepth + Len(start))}

\* ParseStatPowershell: error lines are not records either.
ParseStatPowershell(lines, start) ==
    IF {Other, Normal} \cap Range(lines) # {} THEN {} ELSE {Scan(lines, MaxDepth + Len(start))}

\* exec: an error of the stream or no exit code is an error, another code than 0 is left to the caller.
Exec(command) ==
    IF command.broken \/ command.exit = "unknown" THEN "failed"
    ELSE IF command.exit # "zero" THEN "nonzero" ELSE "none"

\* VolumeList, given what the command does: the dirmap, or {} if it fails
VolumeList(command, start) ==
    LET err == Exec(command)
        normal == \A line \in Range(command.stderr) : NormalError(shell, line)
    IN  IF err = "failed" \/ (err = "nonzero" /\ ~normal) THEN {}
        ELSE IF shell = "posix" THEN ParseStatPOSIX(command.stdout, start)
        ELSE ParseStatPowershell(command.stdout, start)

\* generateChildren, from the dirmap that is or will be maps[id]
GenerateChildren(dirmap, id, path) ==
    LET parent == IF path \in DOMAIN dirmap THEN dirmap[path] ELSE Empty
        NewEntry(name) ==
            LET sub == Append(path, name)
                explored == sub \in DOMAIN dirmap /\ dirmap[sub] # Nil
            IN  [path |-> sub, kind |-> parent[name],
                 dirmap |-> IF parent[name] = "dir" /\ ~explored THEN 0 ELSE id]
    IN  [name \in DOMAIN parent |-> NewEntry(name)]

(***************************************************************************)
(* Clients                                                                 *)
(***************************************************************************)
Root == [path |-> RootPath, kind |-> "dir", dirmap |-> 0]
NoStream == [output |-> <<>>, out |-> <<>>, writing |-> <<>>, got |-> <<>>, errs |-> FALSE,
             reader |-> "none", ended |-> "no"]
Idle == [pc |-> "idle", entry |-> Root, shown |-> Empty, of |-> 0, overlap |-> FALSE,
         result |-> {}, stream |-> NoStream]

Init ==
    /\ shell \in Shells
    /\ remote = Initial
    /\ fs = "new"
    /\ maps = <<>>
    /\ cached = Empty
    /\ client = [c \in Clients |-> Idle]
    /\ changes = 0
    /\ snapshot = <<>>
    /\ deletions = {}
    /\ gone = {}

\* What may become of a command: it succeeds, or it exits with another code, or with none, after it
\* was denied a directory, wrote messages to stderr, or to a terminal that mixes them into its
\* output, or its stream broke.
Outcomes ==
    LET messages == {<<>>, <<Normal>>, <<Other>>}
    IN  {o \in [denied : {{}} \union {{d} : d \in Denied}, out : messages, err : messages,
                broken : BOOLEAN, exit : {"zero", "nonzero", "unknown"}] :
            /\ o.denied # {} <=> o.out = <<Normal>> \/ o.err = <<Normal>>
            /\ o.exit = "zero" => o.out = <<>> /\ o.err = <<>> /\ ~o.broken
            /\ CanFail \/ o.exit = "zero"}

\* What the command may do below start, with what it could see
Commands(start) ==
    UNION {LET visible == Visible(remote, start, o.denied)
           IN  {[stdout |-> o.out \o lines, stderr |-> o.err, broken |-> o.broken, exit |-> o.exit,
                 visible |-> visible] : lines \in StatLines(remote, WithinDepth(visible, start))} :
           o \in Outcomes}

Made(dirmap, start, visible) ==
    /\ maps' = Append(maps, dirmap)
    /\ snapshot' = Append(snapshot, [start |-> start, nodes |-> visible])

\* NewFS lists the root, which fills the cache.  The entry that contains the FS makes it again, when
\* it was inaccessible, with its next list.
NewFS ==
    /\ fs # "accessible"
    /\ \E command \in Commands(RootPath) :
        IF VolumeList(command, RootPath) = {}
        THEN fs' = "inaccessible" /\ UNCHANGED <<maps, cached, snapshot>>
        ELSE \E dirmap \in VolumeList(command, RootPath) :
                /\ fs' = "accessible"
                /\ Made(dirmap, RootPath, command.visible)
                /\ cached' = Put(Empty, RootPath, [of |-> 1, children |-> GenerateChildren(dirmap, 1, RootPath)])
    /\ UNCHANGED <<shell, remote, client, changes, deletions, gone>>

At(c, pc) == fs = "accessible" /\ client[c].pc = pc
Entry(c) == client[c].entry
Lists(c) == At(c, "idle") /\ Entry(c).kind = "dir"

\* List of an entry with a dirmap, which is not cached
ListPrefetched(c) ==
    /\ Lists(c)
    /\ Entry(c).dirmap # 0
    /\ client' = [client EXCEPT ![c] =
                     [@ EXCEPT !.pc = "listed", !.of = Entry(c).dirmap,
                               !.shown = GenerateChildren(maps[Entry(c).dirmap], Entry(c).dirmap, Entry(c).path)]]
    /\ UNCHANGED <<shell, remote, fs, maps, cached, changes, history>>

\* cachedList with a result that is cached
ListCached(c) ==
    /\ Lists(c)
    /\ Entry(c).dirmap = 0
    /\ Entry(c).path \in DOMAIN cached
    /\ client' = [client EXCEPT ![c] = [@ EXCEPT !.pc = "listed", !.of = cached[Entry(c).path].of,
                                                 !.shown = cached[Entry(c).path].children]]
    /\ UNCHANGED <<shell, remote, fs, maps, cached, changes, history>>

Listing(path) == \E c \in Clients : client[c].pc = "listing" /\ client[c].entry.path = path

\* The command runs; the key's lock keeps others from listing the same entry.
ListRuns(c) ==
    /\ Lists(c)
    /\ Entry(c).dirmap = 0
    /\ Entry(c).path \notin DOMAIN cached
    /\ ~Listing(Entry(c).path)
    /\ \E command \in Commands(Entry(c).path) :
        client' = [client EXCEPT ![c] =
                     [@ EXCEPT !.pc = "listing",
                               !.result = {[dirmap |-> dirmap, nodes |-> command.visible] :
                                              dirmap \in VolumeList(command, Entry(c).path)}]]
    /\ UNCHANGED <<shell, remote, fs, maps, cached, changes, history>>

\* A client that is on its way from the root; a stream does not need its entry any more.
Busy(cl) == cl.pc \notin {"idle", "streaming", "streamed"} \/ cl.entry # Root

\* A listing overlaps with what another client does with its entry.
Overlapped(clients, c) ==
    [d \in Clients |-> IF d # c /\ Busy(clients[d]) THEN [clients[d] EXCEPT !.overlap = TRUE]
                       ELSE clients[d]]

ListEnds(c) ==
    /\ At(c, "listing")
    /\ IF client[c].result = {} \/ Len(maps) = MaxLists
       THEN /\ client' = [client EXCEPT ![c] = Idle]
            /\ UNCHANGED <<maps, cached, snapshot>>
       ELSE \E r \in client[c].result :
                LET path == Entry(c).path
                    id == Len(maps) + 1
                    children == GenerateChildren(r.dirmap, id, path)
                IN  /\ Made(r.dirmap, path, r.nodes)
                    /\ cached' = Put(cached, path, [of |-> id, children |-> children])
                    /\ client' = Overlapped([client EXCEPT ![c] = [@ EXCEPT !.pc = "listed", !.of = id,
                                                                   !.shown = children, !.result = {}]], c)
    /\ UNCHANGED <<shell, remote, fs, changes, deletions, gone>>

\* The client goes on with one of the children, or starts again from the root.
Choose(c) ==
    /\ At(c, "listed")
    /\ \/ \E name \in DOMAIN client[c].shown :
            client' = [client EXCEPT ![c] = [Idle EXCEPT !.entry = client[c].shown[name],
                                                         !.overlap = client[c].overlap]]
       \/ client' = [client EXCEPT ![c] = Idle]
    /\ UNCHANGED <<shell, remote, fs, maps, cached, changes, history>>

(***************************************************************************)
(* Delete                                                                  *)
(***************************************************************************)
\* VolumeDelete; rm -rf succeeds although the path is gone.
VolumeDelete(c) ==
    /\ At(c, "idle")
    /\ Entry(c) # Root
    /\ \/ /\ remote' = Without(remote, {p \in DOMAIN remote : p = Entry(c).path \/ IsBelow(p, Entry(c).path)})
          /\ deletions' = deletions \union {Entry(c).path}
          /\ client' = [client EXCEPT ![c].pc = "deleting"]
       \/ /\ CanFail
          /\ client' = [client EXCEPT ![c] = Idle]
          /\ UNCHANGED <<remote, deletions>>
    /\ UNCHANGED <<shell, fs, maps, cached, changes, snapshot, gone>>

\* Mutant of WithoutNode: the parent's children keep the node.
WithoutDirOnly(dirmap, path) == Without(dirmap, {path})

\* The dirmap after the node was removed from it and from its parent's children
WithoutNode(dirmap, path) ==
    [p \in DOMAIN dirmap \ {path} |->
        IF p = Parent(path) /\ dirmap[p] # Nil THEN Without(dirmap[p], {Last(path)}) ELSE dirmap[p]]

\* The rest of deleteNode, under the lock of the dirmap.  An entry that has none panics.
DeleteNode(c) ==
    /\ At(c, "deleting")
    /\ IF Entry(c).dirmap = 0
       THEN client' = [client EXCEPT ![c].pc = "panicked"] /\ UNCHANGED maps
       ELSE /\ client' = [client EXCEPT ![c].pc = "deleted"]
            /\ maps' = [maps EXCEPT ![Entry(c).dirmap] = WithoutNode(@, Entry(c).path)]
    /\ UNCHANGED <<shell, remote, fs, cached, changes, history>>

\* The cache after plugin.Delete: no list of the entry or below, no such child of its parent
CacheWithout(path) ==
    [p \in {q \in DOMAIN cached : q # path /\ ~IsBelow(q, path)} |->
        IF p = Parent(path) THEN [cached[p] EXCEPT !.children = Without(@, {Last(path)})] ELSE cached[p]]

\* The rest of plugin.Delete
DeleteReturns(c) ==
    /\ At(c, "deleted")
    /\ cached' = CacheWithout(Entry(c).path)
    /\ gone' = IF \/ client[c].overlap
                  \/ \E d \in Clients \ {c} : Busy(client[d])
                  \/ Entry(c).path \in DOMAIN remote
               THEN gone ELSE gone \union {Entry(c).path}
    /\ client' = [client EXCEPT ![c] = Idle]
    /\ UNCHANGED <<shell, remote, fs, maps, changes, snapshot, deletions>>

(***************************************************************************)
(* Read and Stream                                                         *)
(***************************************************************************)
\* VolumeStream: a goroutine copies the command's output to a pipe.  out is what the command has
\* still to send; what it sends once its context is cancelled is one of Outputs as well.
VolumeStream(c) ==
    /\ At(c, "idle")
    /\ Entry(c).kind = "file"
    /\ \/ \E out \in Outputs :
            client' = [client EXCEPT ![c] = [Idle EXCEPT !.pc = "streaming",
                         !.stream = [NoStream EXCEPT !.output = out, !.out = out, !.reader = "open"]]]
       \/ CanFail /\ client' = [client EXCEPT ![c] = Idle]
    /\ UNCHANGED <<shell, remote, fs, maps, cached, changes, history>>

\* Mutant of Received: after an error of the command, data are still written.
ReceivedAfterError(stream) ==
    LET chunk == Head(stream.out)
    IN  [stream EXCEPT !.out = Tail(stream.out),
                       !.errs = stream.errs \/ chunk = "error",
                       !.writing = IF chunk = "error" THEN <<>> ELSE <<chunk>>]

\* The stream after a chunk was received: once there was an error the output is only drained.
Received(stream) ==
    LET chunk == Head(stream.out)
    IN  [stream EXCEPT !.out = Tail(stream.out),
                       !.errs = stream.errs \/ chunk = "error",
                       !.writing = IF stream.errs \/ chunk = "error" THEN <<>> ELSE <<chunk>>]

\* The goroutine receives the next chunk; a write to the pipe is not over before its reader has
\* taken the chunk, however long that takes, or has gone.
StreamChunk(c) ==
    /\ At(c, "streaming")
    /\ client[c].stream.out # <<>>
    /\ client[c].stream.writing = <<>>
    /\ client' = [client EXCEPT ![c].stream = Received(client[c].stream)]
    /\ UNCHANGED <<shell, remote, fs, maps, cached, changes, history>>

\* The reader takes the chunk that is being written.
ReaderReads(c) ==
    /\ At(c, "streaming")
    /\ client[c].stream.writing # <<>>
    /\ client[c].stream.reader = "open"
    /\ client' = [client EXCEPT ![c].stream.got = Append(@, Head(client[c].stream.writing)),
                                ![c].stream.writing = <<>>]
    /\ UNCHANGED <<shell, remote, fs, maps, cached, changes, history>>

\* Mutant of WriteFails: the goroutine returns.
WriteFailsReturns(c) ==
    /\ At(c, "streaming")
    /\ client[c].stream.writing # <<>>
    /\ client[c].stream.reader = "closed"
    /\ client' = [client EXCEPT ![c].pc = "streamed",
                                ![c].stream.errs = TRUE,
                                ![c].stream.writing = <<>>,
                                ![c].stream.ended = "error"]
    /\ UNCHANGED <<shell, remote, fs, maps, cached, changes, history>>

\* The write returns an error, and the loop goes on.
WriteFails(c) ==
    /\ At(c, "streaming")
    /\ client[c].stream.writing # <<>>
    /\ client[c].stream.reader = "closed"
    /\ client' = [client EXCEPT ![c].stream.errs = TRUE, ![c].stream.writing = <<>>]
    /\ UNCHANGED <<shell, remote, fs, maps, cached, changes, history>>

\* The output ends; the writer is closed, with an error if there was one.
StreamEnds(c) ==
    /\ At(c, "streaming")
    /\ client[c].stream.out = <<>>
    /\ client[c].stream.writing = <<>>
    /\ client' = [client EXCEPT ![c].pc = "streamed",
                                ![c].stream.ended = IF client[c].stream.errs THEN "error" ELSE "eof"]
    /\ UNCHANGED <<shell, remote, fs, maps, cached, changes, history>>

\* The client goes away: its request's context is cancelled and the reader closed (api/stream.go).
CloseReader(c) ==
    /\ At(c, "streaming")
    /\ client[c].stream.reader = "open"
    /\ client' = [client EXCEPT ![c].stream.reader = "closed"]
    /\ UNCHANGED <<shell, remote, fs, maps, cached, changes, history>>

Leave(c) ==
    /\ \/ At(c, "streamed")
       \/ At(c, "panicked")
    /\ client' = [client EXCEPT ![c] = Idle]
    /\ UNCHANGED <<shell, remote, fs, maps, cached, changes, history>>

(***************************************************************************)
(* The environment                                                         *)
(***************************************************************************)
\* The ttl of a cached list is over.
Expire ==
    /\ \E path \in DOMAIN cached : cached' = Without(cached, {path})
    /\ UNCHANGED <<shell, remote, fs, maps, client, changes, history>>

\* Someone else removes a node, or makes again one that is not there.
Change ==
    /\ changes < MaxChanges
    /\ changes' = changes + 1
    /\ \E path \in Volatile :
        \/ /\ path \in DOMAIN remote
           /\ remote' = Without(remote, {p \in DOMAIN remote : p = path \/ IsBelow(p, path)})
           /\ UNCHANGED gone
        \/ /\ path \notin DOMAIN remote
           /\ Parent(path) \in DOMAIN remote \union {RootPath}
           /\ remote' = Put(remote, path, Initial[path])
           /\ gone' = gone \ {path}
    /\ UNCHANGED <<shell, fs, maps, cached, client, snapshot, deletions>>

Next ==
    \/ NewFS \/ Expire \/ Change
    \/ \E c \in Clients :
        \/ ListPrefetched(c) \/ ListCached(c) \/ ListRuns(c) \/ ListEnds(c) \/ Choose(c)
        \/ VolumeDelete(c) \/ DeleteNode(c) \/ DeleteReturns(c)
        \/ VolumeStream(c) \/ StreamChunk(c) \/ ReaderReads(c) \/ WriteFails(c) \/ StreamEnds(c)
        \/ CloseReader(c) \/ Leave(c)

\* What the goroutine of a stream does once the client is gone
Drains(c) ==
    /\ client[c].stream.reader = "closed"
    /\ StreamChunk(c) \/ WriteFails(c) \/ StreamEnds(c)

\* The goroutine runs, and a command whose context is cancelled closes its output (CancelUnblocks
\* of ExecCommand).  Until then the command, a tail -f, need not write or end, and the reader need
\* not read.
Fairness == \A c \in Clients : WF_vars(Drains(c))

Spec == Init /\ [][Next]_vars /\ Fairness

(***************************************************************************)
(* Properties                                                              *)
(***************************************************************************)
\* Entries refer to dirmaps that were made, and dirmaps hold what entries are made of.
TypeOK ==
    /\ fs \in {"new", "accessible", "inaccessible"}
    /\ DOMAIN remote \subseteq DOMAIN Initial
    /\ Len(maps) = Len(snapshot) /\ Len(maps) <= MaxLists
    /\ \A i \in DOMAIN maps : \A p \in DOMAIN maps[i] :
          maps[i][p] # Nil => \A n \in DOMAIN maps[i][p] : maps[i][p][n] \in {"dir", "file"}
    /\ \A p \in DOMAIN cached : cached[p].of \in DOMAIN maps
    /\ \A c \in Clients : /\ client[c].entry.dirmap \in 0..Len(maps)
                          /\ client[c].entry.kind = "file" => client[c].entry.dirmap # 0

\* The nodes among paths whose parent is path
ChildrenAmong(paths, path) == {p \in paths : p # RootPath /\ Parent(p) = path}

\* A listing shows the children that were on the volume when its command ran, whichever of the
\* levels of a dirmap they come from, except what was deleted through Wash since: a directory that
\* was not explored is never shown as an empty one (stat.go:12, dir.go:38).
ListedExact ==
    \A c \in Clients : client[c].pc = "listed" =>
        LET path == client[c].entry.path
            shown == {client[c].shown[n].path : n \in DOMAIN client[c].shown}
            there == ChildrenAmong(snapshot[client[c].of].nodes, path)
        IN  /\ shown \subseteq there
            /\ \A p \in there \ shown : \E d \in deletions : p = d \/ IsBelow(p, d)

\* A node deleted through Wash, with no other request under way meanwhile, is not shown by any
\* later listing until someone makes it again (core.go:78, methodWrappers.go:265).
DeletedGone ==
    [][\A c \in Clients : client[c].pc # "listed" /\ client'[c].pc = "listed" =>
          \A n \in DOMAIN client'[c].shown : client'[c].shown[n].path \notin gone]_vars

\* The reader of a stream gets what the command wrote before its first error, in order and
\* without gaps, and end of file only if it got all (fs.go:175).
StreamExact ==
    \A c \in Clients : client[c].pc = "streamed" =>
        LET stream == client[c].stream
            out == stream.output
            got == stream.got
        IN  /\ Len(got) <= Len(out)
            /\ \A i \in DOMAIN got : got[i] = out[i] /\ out[i] # "error"
            /\ stream.reader = "open" => got = out \/ out[Len(got) + 1] = "error"
            /\ stream.ended = "eof" <=> got = out

\* Once the client has gone, also while a write to it is under way, everything that the command
\* still sends is received before the goroutine ends: nobody is left sending on its channel
\* (fs.go:178-192).
StreamDrained ==
    \A c \in Clients : (client[c].pc = "streaming" /\ client[c].stream.reader = "closed")
                          ~> (client[c].pc = "streamed" /\ client[c].stream.out = <<>>)

\* Deleting does not panic (core.go:88).
NoPanic == \A c \in Clients : client[c].pc # "panicked"

\* DeletedGone whatever other requests were under way, once every deletion has returned
DeletedHidden ==
    [][\A c \in Clients : client[c].pc # "listed" /\ client'[c].pc = "listed" =>
          \A n \in DOMAIN client'[c].shown :
              LET p == client'[c].shown[n].path
              IN  p \in deletions => \/ p \in DOMAIN remote
                                    \/ \E d \in Clients : client[d].pc \in {"deleting", "deleted", "panicked"}]_vars
=============================================================================
