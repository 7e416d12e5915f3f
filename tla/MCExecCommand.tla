--------------------------- MODULE MCExecCommand ---------------------------
(* Instances of ExecCommand for TLC. *)
EXTENDS ExecCommand, TLC

CONSTANTS c1, c2

\* One copier for each stream; docker's StdCopy demultiplexes both streams.
PluginFeeds ==
    [p \in Plugins |->
        IF p = "docker" THEN (c1 :> Streams) @@ (c2 :> {})
        ELSE (c1 :> {"stdout"}) @@ (c2 :> {"stderr"})]
=============================================================================
