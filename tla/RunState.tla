------------------------------ MODULE RunState ------------------------------
(***************************************************************************)
(* One agent's process: how its live configuration comes about             *)
(* (internal/app/app.go, internal/watcher, internal/scheduler and          *)
(* internal/config/{loader,generate,remote}.go).                           *)
(*                                                                         *)
(* Three goroutines share runState: the scheduler runs passes, and in      *)
(* remote mode fetches the configuration anew at the start of one; the     *)
(* watcher polls the local file; the reloader loads it.  The local file is *)
(* watched in remote mode as well.                                         *)
(*                                                                         *)
(* Abstractions: a configuration is the number of the edit it stems from   *)
(* and whether it validates.  Time is counted in edits: the modification   *)
(* time of the file is that of its last edit, or an earlier one when a     *)
(* backup is put back or the clock too coarse; it is never in the future.  *)
(* The remote service sends an ETag; Stat and WriteFile of WriteDefault    *)
(* are one step.                                                           *)
(***************************************************************************)
EXTENDS Naturals

CONSTANTS
    MaxEdits,     \* bound on edits of the local file and of the remote one
    MaxFaults     \* bound on failed fetches, crashes and signals

ASSUME RunStateAssumption == MaxEdits \in Nat \ {0} /\ MaxFaults \in Nat

VARIABLES
    mode,      \* where the configuration comes from: file or remote
    file,      \* the local configuration file
    server,    \* the configuration the remote service offers
    edits,     \* edits made so far, by anyone
    pc,        \* the main goroutine: startup, then the scheduler
    live,      \* runState: the configuration in use, and its source
    cache,     \* RemoteCache: the edit fetched last
    fresh,     \* its TTL has not expired
    stop,      \* the signal has been received
    lastMod,   \* the watcher's lastMod
    base,      \* the edit the file had when Init gave it its first value
    queue,     \* the channel of capacity one is full
    rpc,       \* the reloader
    read,      \* the configuration the reloader has loaded
    faults

vars == <<mode, file, server, edits, pc, live, cache, fresh, stop, lastMod,
          base, queue, rpc, read, faults>>

Edit == 0..MaxEdits

None == [from |-> "none", ver |-> 0, ok |-> FALSE]

TypeOK ==
    /\ mode \in {"file", "remote"}
    /\ file \in [there : BOOLEAN, ver : Edit, time : Edit, ok : BOOLEAN]
    /\ server \in [ver : Edit, ok : BOOLEAN]
    /\ edits \in Edit
    /\ pc \in {"boot", "init", "first", "swap", "pass", "idle", "cleanup", "done"}
    /\ live \in [from : {"none", "file", "remote"}, ver : Edit, ok : BOOLEAN]
    /\ cache \in Edit
    /\ fresh \in BOOLEAN
    /\ stop \in BOOLEAN
    /\ lastMod \in Edit /\ base \in Edit
    /\ queue \in BOOLEAN
    /\ rpc \in {"wait", "stat", "create", "read", "swap"}
    /\ read \in [ver : Edit, ok : BOOLEAN]
    /\ faults \in 0..MaxFaults

Init ==
    /\ mode \in {"file", "remote"}
    /\ file \in [there : BOOLEAN, ver : {1}, time : {1}, ok : {TRUE}]
    /\ server = [ver |-> 1, ok |-> TRUE]
    /\ edits = 1
    /\ pc = "boot"
    /\ live = None
    /\ cache = 0
    /\ fresh = FALSE
    /\ stop = FALSE
    /\ lastMod = 0 /\ base = 0
    /\ queue = FALSE
    /\ rpc = "wait"
    /\ read = [ver |-> 0, ok |-> FALSE]
    /\ faults = 0

Fault == faults < MaxFaults /\ faults' = faults + 1

\* The starter configuration, where there is no file; the number was set
\* aside when the file was removed.
WriteDefault == ~file.there /\ file' = [file EXCEPT !.there = TRUE]

-----------------------------------------------------------------------------
(* Startup.                                                                *)

Outside == <<mode, server>>
Watcher == <<lastMod, base, queue>>
Reloader == <<rpc, read>>

\* config.Load, which makes a missing file, or LoadFromURLCached.
BootLoad ==
    /\ pc = "boot"
    /\ \/ /\ mode = "file" /\ file.there /\ file.ok
          /\ live' = [from |-> "file", ver |-> file.ver, ok |-> TRUE]
          /\ UNCHANGED <<file, cache, fresh>>
       \/ /\ mode = "file" /\ WriteDefault
          /\ live' = [from |-> "file", ver |-> file.ver, ok |-> TRUE]
          /\ UNCHANGED <<cache, fresh>>
       \/ /\ mode = "remote" /\ server.ok
          /\ cache' = server.ver
          /\ fresh' = TRUE
          /\ live' = [from |-> "remote", ver |-> server.ver, ok |-> TRUE]
          /\ UNCHANGED file
    /\ pc' = "init"
    /\ UNCHANGED <<Outside, edits, stop, Watcher, Reloader, faults>>

\* An invalid configuration, or one that cannot be had, ends the process.
BootFails ==
    /\ pc = "boot"
    /\ \/ mode = "file" /\ file.there /\ ~file.ok
       \/ mode = "remote" /\ ~server.ok
    /\ UNCHANGED vars

\* Mutant: the watcher starts without its baseline.
InitNoBaseline ==
    /\ pc = "init"
    /\ lastMod' = 0
    /\ base' = IF file.there THEN file.ver ELSE 0
    /\ pc' = "first"
    /\ UNCHANGED <<Outside, file, edits, live, cache, fresh, stop, queue, Reloader, faults>>

\* FileWatcher.Init; then the goroutines start.
InitWatcher ==
    /\ pc = "init"
    /\ lastMod' = IF file.there THEN file.time ELSE 0
    /\ base' = IF file.there THEN file.ver ELSE 0
    /\ pc' = "first"
    /\ UNCHANGED <<Outside, file, edits, live, cache, fresh, stop, queue, Reloader, faults>>

-----------------------------------------------------------------------------
(* The scheduler.                                                          *)

\* The first pass runs at once, the next ones on schedule: when the signal is
\* there as well, select may still take the timer.
PassDue == pc \in {"first", "idle"}

\* A pass that needs no fetch goes on with what is live.
BeginPass ==
    /\ PassDue
    /\ mode = "file" \/ fresh
    /\ pc' = "pass"
    /\ UNCHANGED <<Outside, file, edits, live, cache, fresh, stop, Watcher,
                   Reloader, faults>>

\* The TTL has expired: 304, 200 with a valid configuration, 200 with an
\* invalid one, or an error; the last two leave the live one as it is.  An
\* error starts the TTL anew, but for one that cuts the body short.
Fetch ==
    /\ PassDue
    /\ mode = "remote" /\ ~fresh
    /\ \/ /\ cache = server.ver
          /\ fresh' = TRUE /\ pc' = "pass"
          /\ UNCHANGED <<cache, faults>>
       \/ /\ cache # server.ver /\ server.ok
          /\ cache' = server.ver /\ fresh' = TRUE /\ pc' = "swap"
          /\ UNCHANGED faults
       \/ /\ cache # server.ver /\ ~server.ok
          /\ pc' = "pass"
          /\ UNCHANGED <<cache, fresh, faults>>
       \/ /\ Fault
          /\ fresh' \in BOOLEAN /\ pc' = "pass"
          /\ UNCHANGED cache
    /\ UNCHANGED <<Outside, file, edits, live, stop, Watcher, Reloader>>

\* The fetched configuration goes live.
SwapRemote ==
    /\ pc = "swap"
    /\ live' = [from |-> "remote", ver |-> cache, ok |-> TRUE]
    /\ pc' = "pass"
    /\ UNCHANGED <<Outside, file, edits, cache, fresh, stop, Watcher, Reloader, faults>>

EndPass ==
    /\ pc = "pass"
    /\ pc' = "idle"
    /\ UNCHANGED <<Outside, file, edits, live, cache, fresh, stop, Watcher,
                   Reloader, faults>>

\* Mutant: the signal is looked at before the first pass and not between two.
ShutdownAtFirst ==
    /\ \/ pc = "first" /\ stop /\ pc' = "cleanup"
       \/ pc = "cleanup" /\ pc' = "done"
    /\ UNCHANGED <<Outside, file, edits, live, cache, fresh, stop, Watcher,
                   Reloader, faults>>

\* Scheduler.Run returns; the cleanup, if there is one, ends the process.
Shutdown ==
    /\ \/ pc = "idle" /\ stop /\ pc' = "cleanup"
       \/ pc = "cleanup" /\ pc' = "done"
    /\ UNCHANGED <<Outside, file, edits, live, cache, fresh, stop, Watcher,
                   Reloader, faults>>

Main == BootLoad \/ InitWatcher \/ BeginPass \/ Fetch \/ SwapRemote \/ EndPass \/ Shutdown

-----------------------------------------------------------------------------
(* The watcher and the reloader.                                           *)

Running == pc \notin {"boot", "init", "done"}

\* Mutant: the channel has no buffer, and a change is dropped while the
\* reloader is busy.
PollUnbuffered ==
    /\ Running
    /\ file.there /\ file.time > lastMod
    /\ lastMod' = file.time
    /\ queue' = (rpc = "wait")
    /\ UNCHANGED <<Outside, file, edits, pc, live, cache, fresh, stop, base,
                   Reloader, faults>>

\* A later modification time is noted and signalled; when a signal is
\* waiting already, this one is dropped.
Poll ==
    /\ Running
    /\ file.there /\ file.time > lastMod
    /\ lastMod' = file.time
    /\ queue' = TRUE
    /\ UNCHANGED <<Outside, file, edits, pc, live, cache, fresh, stop, base,
                   Reloader, faults>>

\* A change is taken from the channel: config.Load looks for the file.
Receive ==
    /\ Running
    /\ rpc = "wait" /\ queue
    /\ queue' = FALSE
    /\ rpc' = "stat"
    /\ UNCHANGED <<Outside, file, edits, pc, live, cache, fresh, stop, lastMod,
                   base, read, faults>>

LoadStat ==
    /\ Running
    /\ rpc = "stat"
    /\ rpc' = IF file.there THEN "read" ELSE "create"
    /\ UNCHANGED <<Outside, file, edits, pc, live, cache, fresh, stop, Watcher,
                   read, faults>>

\* The file is gone: a starter configuration takes its place, unless another
\* has come in between.
LoadCreate ==
    /\ Running
    /\ rpc = "create"
    /\ \/ WriteDefault /\ rpc' = "read"
       \/ file.there /\ rpc' = "wait" /\ UNCHANGED file
    /\ UNCHANGED <<Outside, edits, pc, live, cache, fresh, stop, Watcher, read, faults>>

\* Mutant: the file is not validated.
LoadUnvalidated ==
    /\ Running
    /\ rpc = "read"
    /\ IF file.there
       THEN read' = [ver |-> file.ver, ok |-> file.ok] /\ rpc' = "swap"
       ELSE rpc' = "wait" /\ UNCHANGED read
    /\ UNCHANGED <<Outside, file, edits, pc, live, cache, fresh, stop, Watcher, faults>>

\* The file is read; when it is gone or invalid the current configuration
\* stays.
LoadRead ==
    /\ Running
    /\ rpc = "read"
    /\ IF file.there /\ file.ok
       THEN read' = [ver |-> file.ver, ok |-> file.ok] /\ rpc' = "swap"
       ELSE rpc' = "wait" /\ UNCHANGED read
    /\ UNCHANGED <<Outside, file, edits, pc, live, cache, fresh, stop, Watcher, faults>>

\* Mutant: what was read is put in place as it is.
SwapAsRead ==
    /\ Running
    /\ rpc = "swap"
    /\ live' = read
    /\ rpc' = "wait"
    /\ UNCHANGED <<Outside, file, edits, pc, cache, fresh, stop, Watcher, read, faults>>

\* The configuration is replaced under the lock.
SwapFile ==
    /\ Running
    /\ rpc = "swap"
    /\ live' = [from |-> "file", ver |-> read.ver, ok |-> read.ok]
    /\ rpc' = "wait"
    /\ UNCHANGED <<Outside, file, edits, pc, cache, fresh, stop, Watcher, read, faults>>

Reload == Receive \/ LoadStat \/ LoadCreate \/ LoadRead \/ SwapFile

-----------------------------------------------------------------------------
(* The environment.                                                        *)

\* The operator saves the file, valid or not, or removes it.
EditFile ==
    /\ edits < MaxEdits /\ edits' = edits + 1
    /\ \/ \E ok \in BOOLEAN, time \in 1..edits' :
             file' = [there |-> TRUE, ver |-> edits', time |-> time, ok |-> ok]
       \/ /\ file.there
          /\ file' = [there |-> FALSE, ver |-> edits', time |-> edits', ok |-> TRUE]
    /\ UNCHANGED <<Outside, pc, live, cache, fresh, stop, Watcher, Reloader, faults>>

EditServer ==
    /\ edits < MaxEdits /\ edits' = edits + 1
    /\ \E ok \in BOOLEAN : server' = [ver |-> edits', ok |-> ok]
    /\ UNCHANGED <<mode, file, pc, live, cache, fresh, stop, Watcher, Reloader, faults>>

Expire ==
    /\ fresh /\ fresh' = FALSE
    /\ UNCHANGED <<Outside, file, edits, pc, live, cache, stop, Watcher, Reloader, faults>>

Signal ==
    /\ pc \notin {"boot", "done"} /\ ~stop /\ stop' = TRUE
    /\ Fault
    /\ UNCHANGED <<Outside, file, edits, pc, live, cache, fresh, Watcher, Reloader>>

\* The process ended, or dies now, and is started again.
Restart ==
    /\ \/ pc = "done" /\ UNCHANGED faults
       \/ pc \notin {"boot", "done"} /\ Fault
    /\ pc' = "boot"
    /\ live' = None
    /\ cache' = 0 /\ fresh' = FALSE
    /\ stop' = FALSE
    /\ lastMod' = 0 /\ base' = 0
    /\ queue' = FALSE
    /\ rpc' = "wait" /\ read' = [ver |-> 0, ok |-> FALSE]
    /\ UNCHANGED <<Outside, file, edits>>

Next ==
    \/ Main \/ BootFails
    \/ Poll \/ Reload
    \/ EditFile \/ EditServer \/ Expire \/ Signal \/ Restart

Spec == Init /\ [][Next]_vars

\* The goroutines are scheduled, the ticker ticks, and the TTL runs out; of
\* timer and signal select takes either at random, so not the timer for ever.
Fairness ==
    /\ WF_vars(Main) /\ SF_vars(Shutdown)
    /\ WF_vars(~stop /\ Poll)
    /\ WF_vars(~stop /\ Reload)
    /\ WF_vars(Expire)

FairSpec == Spec /\ Fairness

-----------------------------------------------------------------------------
(* Properties.                                                             *)

\* Only a validated configuration goes live, whichever goroutine puts it
\* there (app.go:391-395, remote.go:241-246).
OnlyValid == live.from # "none" => live.ok

\* In remote mode the local file takes over only by an edit made after the
\* agent started, not by being there (watcher.go:37-44).
RemoteStands ==
    mode = "remote" /\ live.from = "file" => live.ver > base

\* The agent comes to run on the last edit of the source its configuration
\* came from, if that is valid: a remote one whatever was cached, a local one
\* however many were coalesced, and whatever the watcher did not see before.
\* That is an edit between the first load and its baseline (app.go:317), and
\* one that leaves the file with an earlier time (watcher.go:67).
Behind ==
    \/ /\ live.from = "file" /\ file.there /\ file.ok
       /\ file.ver > base /\ file.time = file.ver /\ live.ver # file.ver
    \/ live.from = "remote" /\ server.ok /\ live.ver # server.ver

CatchesUp == <>[](Running /\ ~stop => ~Behind)

\* A signal ends the process, whatever pass or reload is under way.
Terminates == stop ~> pc \in {"done", "boot"}
=============================================================================
