------------------------------ MODULE Registry -----------------------------
(***************************************************************************)
(* Loading the plugins: one goroutine per plugin (loadPlugins of           *)
(* src/cmd/internal/server/core.go) initializes it and registers it        *)
(* (src/plugin/registry.go).  Appending to pluginRoots reads and writes    *)
(* the slice in two steps, which the registry's mux keeps together.        *)
(***************************************************************************)
EXTENDS Integers, Sequences, SequencesExt, FiniteSetsExt

CONSTANTS
    Plugins,    \* the plugins to load, by name
    Internal,   \* the names of core plugins
    Unfit       \* plugins whose root makes registering panic: by its name, or as it implements
                \* delete or, of an external plugin, not list

ASSUME PluginsAssumption == IsFiniteSet(Plugins) /\ "free" \notin Plugins

VARIABLES
    loader,         \* per plugin, what its goroutine does next
    regMux,         \* who holds the registry's mux, or "free"
    plugins,        \* registered: a function from names to "root" or "stub"
    pluginRoots,    \* the roots in the order they were appended
    read,           \* per plugin, the slice it appends to
    failed          \* failedPlugins

regVars == <<loader, regMux, plugins, pluginRoots, read, failed>>

RegInit ==
    /\ loader = [p \in Plugins |-> "init"]
    /\ regMux = "free"
    /\ plugins = [p \in {} |-> "root"]
    /\ pluginRoots = <<>>
    /\ read = [p \in Plugins |-> <<>>]
    /\ failed = {}

\* root.Init; that of an external plugin is given five seconds.  A root that fails is replaced by a
\* stub, for its documentation.
PluginInit(p) ==
    /\ loader[p] = "init"
    /\ \E root \in {"root", "stub"} : loader' = [loader EXCEPT ![p] = root]
    /\ UNCHANGED <<regMux, plugins, pluginRoots, read, failed>>

\* Mutant of Register: without the mux.
RegisterUnlocked(p) ==
    /\ loader[p] \in {"root", "stub"}
    /\ UNCHANGED regMux
    /\ IF loader[p] = "root" /\ p \in Unfit
       THEN loader' = [loader EXCEPT ![p] = "panicked"] /\ UNCHANGED <<plugins, read>>
       ELSE /\ loader' = [loader EXCEPT ![p] = "append"]
            /\ plugins' = [q \in DOMAIN plugins \union {p} |-> IF q = p THEN loader[p] ELSE plugins[q]]
            /\ read' = [read EXCEPT ![p] = pluginRoots]
    /\ UNCHANGED <<pluginRoots, failed>>

\* registerPlugin up to the append; panics with the mux held if the root is unfit.
Register(p) ==
    /\ loader[p] \in {"root", "stub"}
    /\ regMux = "free"
    /\ regMux' = p
    /\ IF loader[p] = "root" /\ p \in Unfit
       THEN loader' = [loader EXCEPT ![p] = "panicked"] /\ UNCHANGED <<plugins, read>>
       ELSE /\ loader' = [loader EXCEPT ![p] = "append"]
            /\ plugins' = [q \in DOMAIN plugins \union {p} |-> IF q = p THEN loader[p] ELSE plugins[q]]
            /\ read' = [read EXCEPT ![p] = pluginRoots]
    /\ UNCHANGED <<pluginRoots, failed>>

\* The append, Unlock, and the return to loadPlugins
RegisterReturns(p) ==
    /\ loader[p] = "append"
    /\ pluginRoots' = Append(read[p], p)
    /\ read' = [read EXCEPT ![p] = <<>>]
    /\ regMux' = "free"
    /\ loader' = [loader EXCEPT ![p] = IF plugins[p] = "stub" /\ p \in Internal THEN "report" ELSE "done"]
    /\ UNCHANGED <<plugins, failed>>

\* The append to failedPlugins, under its mux
ReportFailed(p) ==
    /\ loader[p] = "report"
    /\ failed' = failed \union {p}
    /\ loader' = [loader EXCEPT ![p] = "done"]
    /\ UNCHANGED <<regMux, plugins, pluginRoots, read>>

LoaderNext(p) == PluginInit(p) \/ Register(p) \/ RegisterReturns(p) \/ ReportFailed(p)

\* wg.Wait
AllLoaded == \A p \in Plugins : loader[p] = "done"
Panicked == \E p \in Plugins : loader[p] = "panicked"

RegTypeOK ==
    /\ loader \in [Plugins -> {"init", "root", "stub", "append", "report", "done", "panicked"}]
    /\ regMux \in Plugins \union {"free"}
    /\ DOMAIN plugins \subseteq Plugins /\ plugins \in [DOMAIN plugins -> {"root", "stub"}]
    /\ pluginRoots \in Seq(Plugins)
    /\ read \in [Plugins -> Seq(Plugins)]
    /\ failed \subseteq Plugins

\* registry.go:41, core.go:248: the registry holds each plugin once, in the map and in the list
\* that is shown at the root; Start's result, and the warning, are about the core plugins that are
\* only there as a stub.
RegistryComplete ==
    /\ DOMAIN plugins = Plugins
    /\ Len(pluginRoots) = Cardinality(Plugins) /\ Range(pluginRoots) = Plugins
    /\ failed = {p \in Plugins \intersect Internal : plugins[p] = "stub"}
=============================================================================
