-------------------------- MODULE ServerLifecycle --------------------------
(***************************************************************************)
(* The start and the end of a wash server: the main goroutine              *)
(* (src/cmd/internal/server/core.go), the API server and its stop          *)
(* goroutine (StartAPI of src/api/server.go), the FUSE server and its      *)
(* clean-up goroutine (ServeFuseFS of src/fuse/core.go).  They talk over   *)
(* two pairs of channels: stopCh, on which the API's takes a context and   *)
(* which is then closed, and stoppedCh, which is only ever closed.         *)
(* Composed with the loading of the plugins, before anything is served,    *)
(* and with the analytics client, which requests and main submit hits to   *)
(* and which the shutdown flushes.                                         *)
(***************************************************************************)
EXTENDS Registry, Analytics

CONSTANTS
    Modes,          \* how main may run it: "wait" (wash server), "shell" (wash)
                    \* or "verify" (wash --verify-install)
    MaxSubmits,     \* bound: hits submitted by requests
    CanFailStart,   \* listening on the socket, mounting or making a CPU profile may fail
    CanFailServe,   \* the API server may stop on its own
    CanFailUnmount  \* unmounting may fail other than by being busy

ASSUME ModeAssumption == Modes \subseteq {"wait", "shell", "verify"}
ASSUME BoundsAssumption == MaxSubmits \in Nat
ASSUME CallersAssumption == "main" \in Callers
ASSUME FlagsAssumption == {CanFailStart, CanFailServe, CanFailUnmount} \subseteq BOOLEAN

VARIABLES
    mode,       \* how main runs the server
    main,       \* where the main goroutine is
    ended,      \* the signal was delivered, or the shell has ended
    apiStop,    \* api.stopCh: "open" or "closed"
    stopper,    \* the goroutine of StartAPI that waits for it
    apiStopped, \* api.stoppedCh is closed
    serving,    \* httpServer.Serve: "no", "yes", "shutdown" or "failed"
    active,     \* API requests in progress, a subset of Requests
    mounted,    \* the mount point is mounted
    busy,       \* some process uses it
    serve,      \* the goroutine that runs fs.Serve; "exited": serverExitedCh is closed
    fuseStop,   \* fuse.stopCh is closed
    cleaner,    \* the clean-up goroutine of ServeFuseFS
    fuseStopped,\* fuse.stoppedCh is closed
    journals,   \* activity.CloseAll: "open" or "closed"
    before      \* history: how many hits were queued before the shutdown

apiVars == <<apiStop, stopper, apiStopped, serving, active>>
fuseVars == <<mounted, busy, serve, fuseStop, cleaner, fuseStopped>>
rest == <<mode, before, regVars, anaVars>>
vars == <<main, ended, apiVars, fuseVars, journals, rest>>

Requests == Callers \ {"main"}

-----------------------------------------------------------------------------
(* Start *)

LoadPlugins ==
    /\ main = "loadPlugins"
    /\ AllLoaded
    /\ main' = IF Plugins = {} THEN "failed" ELSE "newClient"
    /\ UNCHANGED <<ended, apiVars, fuseVars, journals, rest>>

\* analytics.GetConfig and NewClient
MakeClient ==
    /\ main = "newClient"
    /\ \/ NewClient /\ main' = "startAPI"
       \/ CanFailStart /\ main' = "failed" /\ UNCHANGED anaVars
    /\ UNCHANGED <<ended, apiVars, fuseVars, journals, mode, before, regVars>>

StartAPI ==
    /\ main = "startAPI"
    /\ \/ /\ serving' = "yes"
          /\ stopper' = "wait"
          /\ main' = "serveFuseFS"
       \/ /\ CanFailStart
          /\ main' = "failed"
          /\ UNCHANGED <<serving, stopper>>
    /\ UNCHANGED <<ended, apiStop, apiStopped, active, fuseVars, journals, rest>>

\* When mounting fails the API server is stopped again.
ServeFuseFS ==
    /\ main = "serveFuseFS"
    /\ \/ /\ mounted' = TRUE
          /\ serve' = "serving"
          /\ cleaner' = "select"
          /\ main' = IF mode = "verify" THEN "sendAPI" ELSE "ping"
       \/ /\ CanFailStart
          /\ main' = "abortAPI"
          /\ UNCHANGED <<mounted, serve, cleaner>>
    /\ UNCHANGED <<ended, apiVars, busy, fuseStop, fuseStopped, journals, rest>>

\* A CPU profile is asked for and its file cannot be made, or it cannot be started: log.Fatal and
\* errz.Fatal end the process there and then, with both servers up.
ProfileFails ==
    /\ main = "ping"
    /\ CanFailStart
    /\ main' = "fatal"
    /\ UNCHANGED <<ended, apiVars, fuseVars, journals, rest>>

\* The initial start-up ping, submitted synchronously
Ping ==
    /\ main = "ping"
    /\ IF client = "real"
       THEN main' = "pinging" /\ Submit("main")
       ELSE main' = "running" /\ UNCHANGED anaVars
    /\ UNCHANGED <<ended, apiVars, fuseVars, journals, mode, before, regVars>>

Pinged ==
    /\ main = "pinging"
    /\ at["main"] = "idle"
    /\ main' = "running"
    /\ UNCHANGED <<ended, apiVars, fuseVars, journals, rest>>

-----------------------------------------------------------------------------
(* Wait and Stop *)

\* The signal, or the end of the shell.
End ==
    /\ main \in {"loadPlugins", "newClient", "startAPI", "serveFuseFS", "ping", "pinging", "running"}
    /\ mode # "verify" /\ ~ended
    /\ mode = "shell" => main = "running"
    /\ ended' = TRUE
    /\ UNCHANGED <<main, apiVars, fuseVars, journals, rest>>

\* Wait selects among the signal and the two stopped channels; in a shell Stop is
\* called once the shell has ended, and only then.
WaitOrStop ==
    /\ main = "running"
    /\ \/ ended /\ main' = "sendAPI"
       \/ mode = "wait" /\ fuseStopped /\ main' = "sendAPIOnly"
       \/ mode = "wait" /\ apiStopped /\ main' = "closeFuse"
    /\ UNCHANGED <<ended, apiVars, fuseVars, journals, rest>>

\* stopAPIServer: the send completes when the stopper takes the context.
SendAPI ==
    /\ main \in {"sendAPI", "sendAPIOnly", "abortAPI"}
    /\ stopper = "wait"
    /\ apiStop = "open"
    /\ apiStop' = "closed"
    /\ stopper' = "shutdown"
    /\ serving' = IF serving = "yes" THEN "shutdown" ELSE serving
    /\ main' = CASE main = "sendAPI" -> "awaitAPI"
                 [] main = "sendAPIOnly" -> "awaitAPIOnly"
                 [] main = "abortAPI" -> "awaitAbort"
    /\ UNCHANGED <<ended, apiStopped, active, fuseVars, journals, rest>>

AwaitAPI ==
    /\ main \in {"awaitAPI", "awaitAPIOnly", "awaitAbort"}
    /\ apiStopped
    /\ main' = CASE main = "awaitAPI" -> "closeFuse"
                 [] main = "awaitAPIOnly" -> "closeAll"
                 [] main = "awaitAbort" -> "failed"
    /\ UNCHANGED <<ended, apiVars, fuseVars, journals, rest>>

\* stopFUSEServer
CloseFuse ==
    /\ main = "closeFuse"
    /\ fuseStop' = TRUE
    /\ main' = "awaitFuse"
    /\ UNCHANGED <<ended, apiVars, mounted, busy, serve, cleaner, fuseStopped, journals, rest>>

AwaitFuse ==
    /\ main = "awaitFuse"
    /\ fuseStopped
    /\ main' = "closeAll"
    /\ UNCHANGED <<ended, apiVars, fuseVars, journals, rest>>

\* shutdown, which does nothing after a verification.
CloseAll ==
    /\ main = "closeAll"
    /\ IF mode = "verify"
       THEN main' = "exited" /\ UNCHANGED <<journals, before>>
       ELSE main' = "flush" /\ journals' = "closed" /\ before' = Len(enqueued)
    /\ UNCHANGED <<ended, apiVars, fuseVars, mode, regVars, anaVars>>

\* Mutant of FlushAnalytics: nothing is flushed.
FlushNothing ==
    /\ main = "flush"
    /\ main' = "exited"
    /\ UNCHANGED <<ended, apiVars, fuseVars, journals, rest>>

\* A goroutine runs analyticsClient.Flush.
FlushAnalytics ==
    /\ main = "flush"
    /\ IF client = "real"
       THEN main' = "flushing" /\ Flush("final")
       ELSE main' = "exited" /\ UNCHANGED anaVars
    /\ UNCHANGED <<ended, apiVars, fuseVars, journals, mode, before, regVars>>

\* main waits for it, but not longer than FlushDuration.
FlushEnds ==
    /\ main = "flushing"
    /\ main' = IF at["final"] = "idle" THEN "exited" ELSE "timedOut"
    /\ UNCHANGED <<ended, apiVars, fuseVars, journals, rest>>

-----------------------------------------------------------------------------
(* The API server *)

BeginRequest(c) ==
    /\ serving = "yes"
    /\ c \notin active
    /\ active' = active \union {c}
    /\ UNCHANGED <<main, ended, apiStop, stopper, apiStopped, serving, fuseVars, journals, rest>>

\* A request submits a screenview, or a method invocation.
RequestSubmits(c) ==
    /\ c \in active
    /\ submits < MaxSubmits
    /\ Submit(c)
    /\ UNCHANGED <<main, ended, apiVars, fuseVars, journals, mode, before, regVars>>

EndRequest(c) ==
    /\ c \in active
    /\ at[c] = "idle"
    /\ active' = active \ {c}
    /\ UNCHANGED <<main, ended, apiStop, stopper, apiStopped, serving, fuseVars, journals, rest>>

\* httpServer.Serve returns an error that is not ErrServerClosed.
ServeFails ==
    /\ CanFailServe
    /\ serving = "yes"
    /\ serving' = "failed"
    /\ UNCHANGED <<main, ended, apiStop, stopper, apiStopped, active, fuseVars, journals, rest>>

\* Mutant of Shutdown: without the deadline.
ShutdownWaits ==
    /\ stopper = "shutdown"
    /\ active = {}
    /\ stopper' = "done"
    /\ apiStopped' = TRUE
    /\ UNCHANGED <<main, ended, apiStop, serving, active, fuseVars, journals, rest>>

\* httpServer.Shutdown waits for the requests, or for the deadline three seconds
\* away; then stoppedCh is closed either way.
Shutdown ==
    /\ stopper = "shutdown"
    /\ stopper' = "done"
    /\ apiStopped' = TRUE
    /\ UNCHANGED <<main, ended, apiStop, serving, active, fuseVars, journals, rest>>

-----------------------------------------------------------------------------
(* The FUSE server *)

\* A process opens something under the mount point, or leaves it.
UseMount ==
    /\ mounted /\ ~busy /\ serve = "serving"
    /\ busy' = TRUE
    /\ UNCHANGED <<main, ended, apiVars, mounted, serve, fuseStop, cleaner, fuseStopped, journals, rest>>

LeaveMount ==
    /\ busy
    /\ busy' = FALSE
    /\ UNCHANGED <<main, ended, apiVars, mounted, serve, fuseStop, cleaner, fuseStopped, journals, rest>>

\* The user unmounts it while the server is running.
UserUnmount ==
    /\ mounted /\ ~busy
    /\ mounted' = FALSE
    /\ UNCHANGED <<main, ended, apiVars, busy, serve, fuseStop, cleaner, fuseStopped, journals, rest>>

\* fs.Serve returns once nothing is mounted, and closes serverExitedCh.
ServeExits ==
    /\ serve = "serving"
    /\ ~mounted
    /\ serve' = "exited"
    /\ UNCHANGED <<main, ended, apiVars, mounted, busy, fuseStop, cleaner, fuseStopped, journals, rest>>

\* Mutant of CleanerSelects: only an explicit shutdown is handled.
CleanerAwaitsStop ==
    /\ cleaner = "select"
    /\ fuseStop /\ cleaner' = "unmount"
    /\ UNCHANGED <<main, ended, apiVars, mounted, busy, serve, fuseStop, fuseStopped, journals, rest>>

CleanerSelects ==
    /\ cleaner = "select"
    /\ \/ fuseStop /\ cleaner' = "unmount"
       \/ serve = "exited" /\ cleaner' = "await"
    /\ UNCHANGED <<main, ended, apiVars, mounted, busy, serve, fuseStop, fuseStopped, journals, rest>>

\* Retried for as long as it is busy; any other failure ends the attempts, that
\* of unmounting what is no longer mounted too.
Unmount ==
    /\ cleaner = "unmount"
    /\ \/ mounted /\ busy /\ UNCHANGED <<mounted, cleaner>>
       \/ ~(mounted /\ busy) /\ mounted' = FALSE /\ cleaner' = "await"
       \/ CanFailUnmount /\ mounted /\ cleaner' = "await" /\ UNCHANGED mounted
    /\ UNCHANGED <<main, ended, apiVars, busy, serve, fuseStop, fuseStopped, journals, rest>>

\* Mutant of CleanerDone: Serve is not awaited.
CleanerInHurry ==
    /\ cleaner = "await"
    /\ cleaner' = "done"
    /\ fuseStopped' = TRUE
    /\ UNCHANGED <<main, ended, apiVars, mounted, busy, serve, fuseStop, journals, rest>>

CleanerDone ==
    /\ cleaner = "await"
    /\ serve = "exited"
    /\ cleaner' = "done"
    /\ fuseStopped' = TRUE
    /\ UNCHANGED <<main, ended, apiVars, mounted, busy, serve, fuseStop, journals, rest>>

-----------------------------------------------------------------------------
Init ==
    /\ mode \in Modes
    /\ main = IF mode = "verify" THEN "startAPI" ELSE "loadPlugins"
    /\ ended = FALSE
    /\ apiStop = "open"
    /\ stopper = "none"
    /\ apiStopped = FALSE
    /\ serving = "no"
    /\ active = {}
    /\ mounted = FALSE
    /\ busy = FALSE
    /\ serve = "none"
    /\ fuseStop = FALSE
    /\ cleaner = "none"
    /\ fuseStopped = FALSE
    /\ journals = "open"
    /\ before = 0
    /\ RegInit
    /\ AnaInit

MainNext ==
    \/ LoadPlugins \/ MakeClient \/ StartAPI \/ ServeFuseFS \/ ProfileFails \/ Ping \/ Pinged
    \/ WaitOrStop \/ SendAPI \/ AwaitAPI \/ CloseFuse \/ AwaitFuse
    \/ CloseAll \/ FlushAnalytics \/ FlushEnds

CleanerNext == CleanerSelects \/ Unmount \/ CleanerDone

\* A goroutine that loads a plugin.  A panic in it ends the process.
Loads(p) ==
    /\ main = "loadPlugins"
    /\ LoaderNext(p)
    /\ UNCHANGED <<main, ended, apiVars, fuseVars, journals, mode, before, anaVars>>

\* A thread of the analytics client that waits for its lock, or for the network
LockNext(t) ==
    /\ Acquire(t)
    /\ UNCHANGED <<main, ended, apiVars, fuseVars, journals, mode, before, regVars>>

NetworkNext(t) ==
    /\ Answer(t)
    /\ UNCHANGED <<main, ended, apiVars, fuseVars, journals, mode, before, regVars>>

\* Once a minute
Tick ==
    /\ Flush("ticker")
    /\ UNCHANGED <<main, ended, apiVars, fuseVars, journals, mode, before, regVars>>

Over == main \in {"failed", "fatal", "exited", "timedOut"} \/ Panicked

\* The process has ended, and its goroutines with it.
Terminated == Over /\ UNCHANGED vars

Next ==
    \/ /\ ~Over
       /\ \/ MainNext \/ CleanerNext \/ Shutdown \/ ServeExits
          \/ End \/ ServeFails \/ Tick
          \/ UseMount \/ LeaveMount \/ UserUnmount
          \/ \E p \in Plugins : Loads(p)
          \/ \E c \in Requests : BeginRequest(c) \/ RequestSubmits(c) \/ EndRequest(c)
          \/ \E t \in Threads : LockNext(t) \/ NetworkNext(t)
    \/ Terminated

Spec == Init /\ [][Next]_vars

\* Goroutines that can run do run, and the deadline of Shutdown passes.  Whoever
\* uses the mount point leaves it, and one of the attempts to unmount it finds it
\* free.  The initialization of plugins ends, and a thread that waits for the analytics client's
\* lock gets it when it is released time and again.  Requests need not end, the network need not
\* answer, and nobody need send a signal.
FairSpec ==
    /\ Spec
    /\ WF_vars(MainNext /\ ~Over)
    /\ WF_vars(Shutdown /\ ~Over)
    /\ WF_vars(ServeExits /\ ~Over)
    /\ SF_vars(CleanerNext /\ ~Over)
    /\ WF_vars(LeaveMount /\ ~Over)
    /\ WF_vars(\E p \in Plugins : Loads(p) /\ ~Over)
    /\ SF_vars(LockNext("main") /\ ~Over)

-----------------------------------------------------------------------------
(* Properties *)

\* The type invariant.
TypeOK ==
    /\ main \in {"loadPlugins", "newClient", "startAPI", "serveFuseFS", "ping", "pinging",
                 "running", "sendAPI", "sendAPIOnly", "abortAPI", "awaitAPI", "awaitAPIOnly",
                 "awaitAbort", "closeFuse", "awaitFuse", "closeAll", "flush", "flushing",
                 "failed", "fatal", "exited", "timedOut"}
    /\ mode \in Modes
    /\ apiStop \in {"open", "closed"}
    /\ stopper \in {"none", "wait", "shutdown", "done"}
    /\ serving \in {"no", "yes", "shutdown", "failed"}
    /\ active \subseteq Requests
    /\ serve \in {"none", "serving", "exited"}
    /\ cleaner \in {"none", "select", "unmount", "await", "done"}
    /\ journals \in {"open", "closed"}
    /\ ended \in BOOLEAN /\ apiStopped \in BOOLEAN /\ mounted \in BOOLEAN
    /\ busy \in BOOLEAN /\ fuseStop \in BOOLEAN /\ fuseStopped \in BOOLEAN
    /\ before \in Nat
    /\ RegTypeOK
    /\ AnaTypeOK

\* core.go:30-32, 118: nothing is served before every plugin was registered (registry.Plugins
\* "should not be called while registering plugins").
LoadedBeforeServing == serving # "no" /\ mode # "verify" => RegistryComplete

\* core.go:201: a server that exits without its flush having timed out has sent every hit that was
\* queued before its shutdown, or failed to.
FlushedAtExit ==
    main = "exited" =>
        \A i \in 1 .. before : enqueued[i] \in Range(delivered) \union dropped

\* core.go:174-187, 198: journals are closed, and the server exits, only after
\* both servers have stopped: no request is accepted any more, fs.Serve has
\* returned and nothing is mounted, whichever of them stopped first; nor does a start that
\* returns an error half-way (core.go:147) leave one of them behind.  A start that ends in
\* log.Fatal leaves both, see FatalStops.
StoppedBeforeClose ==
    (journals = "closed" \/ main \in {"exited", "timedOut", "failed"})
        => /\ serving # "yes"
           /\ ~mounted
           /\ serve = "exited" \/ (serve = "none" /\ main = "failed")

\* StoppedBeforeClose for the other way in which a start fails (core.go:154-160)
FatalStops == main = "fatal" => serving # "yes" /\ ~mounted

\* fuse/core.go:208-209: unmounting has failed, and "Manual cleanup required".
GivenUp == cleaner = "await" /\ mounted

\* The ping, or a hit or a flush that it waits for, is being posted.
PingWaits == main = "pinging" /\ queueLock # "free"

\* core.go:223: a signal, or the end of the shell, makes the server exit, even if
\* requests never end, the API server has failed, the mount point is busy for a
\* while, the user unmounts it or the network never answers; unless it cannot be unmounted, or
\* the start-up ping waits for the network.
EndStops == ended ~> (Over \/ GivenUp \/ PingWaits)

\* core.go:231-232: so does unmounting the mount point of a wash server that waits.
UnmountStops == (mode = "wait" /\ main = "running" /\ ~mounted) ~> Over

\* core.go:235: so does an API server that "prematurely shuts down".
APIFailureStops == (serving = "failed") ~> Over

\* core.go:162-164: "It's OK to do this synchronously because this is the first hit so the
\* analytics client will not send it over the network."
PingNotPosted == at["main"] # "post"
=============================================================================
