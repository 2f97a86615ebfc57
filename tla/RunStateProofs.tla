--------------------------- MODULE RunStateProofs ---------------------------
(***************************************************************************)
(* Proofs about RunState, for any bounds: only validated configurations go *)
(* live, and in remote mode the local file takes over only by an edit.     *)
(***************************************************************************)
EXTENDS RunState, TLAPS

\* No goroutine but the main one runs before the watcher has its baseline.
Quiet == pc \in {"boot", "init"} => ~queue /\ rpc = "wait" /\ base = 0

\* Until then a remote configuration stays; a change that was signalled, and
\* a configuration on its way through the reloader, is later than the baseline,
\* as the file of the baseline does not look changed to the watcher.
Later ==
    /\ pc = "boot" => live.from = "none"
    /\ pc = "init" => live.from = mode
    /\ base <= file.ver
    /\ pc \notin {"boot", "init"} => base < file.ver \/ (file.there /\ file.time <= lastMod)
    /\ queue \/ rpc \in {"stat", "create", "read"} => base < file.ver
    /\ rpc = "swap" => base < read.ver /\ read.ok

\* Edits are numbered in the order they are made.
Numbered ==
    0 < file.ver /\ file.ver <= edits /\ file.time <= edits /\ server.ver <= edits

Safe == Quiet /\ Later /\ Numbered /\ OnlyValid /\ RemoteStands

Inv == TypeOK /\ Safe

FileType == [there : BOOLEAN, ver : Edit, time : Edit, ok : BOOLEAN]

\* Records of the right fields are of the right type.
LEMMA RecordsTyped ==
    ASSUME NEW v \in Edit, NEW m \in Edit, NEW b \in BOOLEAN, NEW d \in BOOLEAN,
           NEW f \in {"none", "file", "remote"}
    PROVE  /\ [there |-> d, ver |-> v, time |-> m, ok |-> b] \in FileType
           /\ [from |-> f, ver |-> v, ok |-> b]
                 \in [from : {"none", "file", "remote"}, ver : Edit, ok : BOOLEAN]
           /\ [ver |-> v, ok |-> b] \in [ver : Edit, ok : BOOLEAN]
BY DEF FileType

\* The numbers in the state are natural numbers.
LEMMA Numbers ==
    TypeOK => /\ file.ver \in Nat /\ file.time \in Nat /\ server.ver \in Nat /\ live.ver \in Nat
              /\ read.ver \in Nat /\ edits \in Nat /\ lastMod \in Nat /\ base \in Nat
BY RunStateAssumption DEF TypeOK, Edit

\* The invariant holds at first.
LEMMA InitInv == Init => Inv
<1> SUFFICES ASSUME Init PROVE Inv
  OBVIOUS
<1>1. 1 \in Edit /\ 0 \in Edit
  BY RunStateAssumption DEF Edit
<1>2. file \in FileType
  BY <1>1 DEF Init, FileType
<1>3. TypeOK
  <2>1. /\ live \in [from : {"none", "file", "remote"}, ver : Edit, ok : BOOLEAN]
        /\ server \in [ver : Edit, ok : BOOLEAN]
        /\ read \in [ver : Edit, ok : BOOLEAN]
    BY <1>1, RecordsTyped DEF Init, None
  <2>2. /\ mode \in {"file", "remote"} /\ pc = "boot" /\ rpc = "wait"
        /\ edits \in Edit /\ cache \in Edit /\ lastMod \in Edit /\ base \in Edit
        /\ fresh \in BOOLEAN /\ stop \in BOOLEAN /\ queue \in BOOLEAN
    BY <1>1 DEF Init
  <2>3. faults \in 0..MaxFaults
    BY RunStateAssumption DEF Init
  <2> QED
    BY <1>2, <2>1, <2>2, <2>3 DEF TypeOK, FileType
<1>4. Safe
  BY RunStateAssumption
     DEF Init, Safe, Quiet, Later, Numbered, OnlyValid, RemoteStands, None
<1> QED
  BY <1>3, <1>4 DEF Inv

\* The starter configuration is a file like any other.
LEMMA StarterTyped ==
    ASSUME TypeOK, WriteDefault
    PROVE  /\ file' \in FileType /\ file'.ver = file.ver /\ file'.time = file.time
           /\ ~file.there /\ file'.there
BY DEF TypeOK, WriteDefault, FileType

\* A configuration loaded at startup is valid and its source the mode's.
LEMMA BootLoadStep ==
    ASSUME Inv, BootLoad
    PROVE  Inv'
<1>1. TypeOK /\ Safe
  BY DEF Inv
<1>2. TypeOK'
  <2>1. file' \in FileType
    BY <1>1, StarterTyped DEF BootLoad, TypeOK, FileType
  <2>2. live' \in [from : {"none", "file", "remote"}, ver : Edit, ok : BOOLEAN]
    <3>1. file.ver \in Edit /\ server.ver \in Edit
      BY <1>1 DEF TypeOK
    <3>2. \/ live' = [from |-> "file", ver |-> file.ver, ok |-> TRUE]
          \/ live' = [from |-> "remote", ver |-> server.ver, ok |-> TRUE]
      BY DEF BootLoad
    <3> QED
      BY <3>1, <3>2, RecordsTyped
  <2>3. cache' \in Edit /\ fresh' \in BOOLEAN
    BY <1>1 DEF BootLoad, TypeOK
  <2> QED
    BY <1>1, <2>1, <2>2, <2>3 DEF BootLoad, TypeOK, FileType, Outside, Watcher, Reloader
<1>3. Safe'
  <2>1. file'.ver = file.ver /\ file'.time = file.time
    BY <1>1, StarterTyped DEF BootLoad
  <2>2. live'.ok /\ live'.from = mode
    BY DEF BootLoad
  <2>3. base' = 0 /\ file.ver \in Nat /\ pc' = "init"
    BY <1>1, Numbers DEF BootLoad, Safe, Quiet, Watcher
  <2> QED
    BY <1>1, <2>1, <2>2, <2>3
       DEF BootLoad, Safe, Quiet, Later, Numbered, OnlyValid, RemoteStands,
           Outside, Watcher, Reloader
<1> QED
  BY <1>2, <1>3 DEF Inv

\* The baseline is taken before any change can be signalled.
LEMMA InitWatcherStep ==
    ASSUME Inv, InitWatcher
    PROVE  Inv'
<1>1. TypeOK /\ Safe
  BY DEF Inv
<1>2. TypeOK'
  BY <1>1, RunStateAssumption
     DEF InitWatcher, TypeOK, Edit, Outside, Watcher, Reloader
<1>3. Safe'
  <2>1. file.ver \in Nat /\ file.time \in Nat /\ pc' = "first"
    BY <1>1, Numbers DEF InitWatcher
  <2>2. base' <= file.ver /\ (base' < file.ver \/ (file.there /\ file.time <= lastMod'))
    BY <1>1, <2>1 DEF InitWatcher, Safe, Numbered
  <2>3. ~queue' /\ rpc' = "wait" /\ live' = live /\ live.from = mode /\ mode' = mode
    BY <1>1 DEF InitWatcher, Safe, Quiet, Later, Outside, Reloader
  <2>4. RemoteStands'
    BY <2>3 DEF RemoteStands
  <2> QED
    BY <1>1, <2>1, <2>2, <2>3, <2>4
       DEF InitWatcher, Safe, Quiet, Later, Numbered, OnlyValid, Outside
<1> QED
  BY <1>2, <1>3 DEF Inv

\* A pass, once begun, only moves the main goroutine.
LEMMA PassStep ==
    ASSUME Inv, BeginPass \/ EndPass \/ Shutdown
    PROVE  Inv'
<1>1. TypeOK /\ Safe
  BY DEF Inv
<1>2. TypeOK'
  BY <1>1, RunStateAssumption
     DEF BeginPass, EndPass, Shutdown, PassDue, TypeOK, Edit, Outside, Watcher, Reloader
<1>3. Safe'
  BY <1>1, <1>2, Numbers
     DEF BeginPass, EndPass, Shutdown, PassDue, Safe, Quiet, Later, Numbered, OnlyValid, RemoteStands,
         Outside, Watcher, Reloader
<1> QED
  BY <1>2, <1>3 DEF Inv

\* A fetch changes the cache alone.
LEMMA FetchStep ==
    ASSUME Inv, Fetch
    PROVE  Inv'
<1>1. TypeOK /\ Safe
  BY DEF Inv
<1>2. TypeOK'
  <2>1. cache' \in Edit /\ fresh' \in BOOLEAN /\ pc' \in {"pass", "swap"}
    BY <1>1 DEF Fetch, TypeOK
  <2>2. faults' \in 0..MaxFaults
    BY <1>1, RunStateAssumption DEF Fetch, Fault, TypeOK
  <2> QED
    BY <1>1, <2>1, <2>2 DEF Fetch, TypeOK, Outside, Watcher, Reloader
<1>3. Safe'
  BY <1>1, <1>2, Numbers
     DEF Fetch, PassDue, Fault, Safe, Quiet, Later, Numbered, OnlyValid, RemoteStands,
         Outside, Watcher, Reloader
<1> QED
  BY <1>2, <1>3 DEF Inv

\* What was fetched is valid.
LEMMA SwapRemoteStep ==
    ASSUME Inv, SwapRemote
    PROVE  Inv'
<1>1. TypeOK /\ Safe
  BY DEF Inv
<1>2. TypeOK'
  BY <1>1, RunStateAssumption
     DEF SwapRemote, TypeOK, Edit, Outside, Watcher, Reloader
<1>3. Safe'
  BY <1>1, <1>2, Numbers
     DEF SwapRemote, Safe, Quiet, Later, Numbered, OnlyValid, RemoteStands,
         Outside, Watcher, Reloader
<1> QED
  BY <1>2, <1>3 DEF Inv

\* A change is signalled only when it is later than the baseline.
LEMMA PollStep ==
    ASSUME Inv, Poll
    PROVE  Inv'
<1>1. TypeOK /\ Safe
  BY DEF Inv
<1>2. TypeOK'
  BY <1>1, RunStateAssumption
     DEF Poll, Running, TypeOK, Edit, Outside, Watcher, Reloader
<1>3. Safe'
  BY <1>1, <1>2, Numbers
     DEF Poll, Running, Safe, Quiet, Later, Numbered, OnlyValid, RemoteStands,
         Outside, Watcher, Reloader
<1> QED
  BY <1>2, <1>3 DEF Inv

\* The reloader takes a signal and looks for the file.
LEMMA ReceiveStep ==
    ASSUME Inv, Receive \/ LoadStat
    PROVE  Inv'
<1>1. TypeOK /\ Safe
  BY DEF Inv
<1>2. TypeOK'
  BY <1>1, RunStateAssumption
     DEF Receive, LoadStat, Running, TypeOK, Edit, Outside, Watcher, Reloader
<1>3. Safe'
  BY <1>1, <1>2, Numbers
     DEF Receive, LoadStat, Running, Safe, Quiet, Later, Numbered, OnlyValid, RemoteStands,
         Outside, Watcher, Reloader
<1> QED
  BY <1>2, <1>3 DEF Inv

\* A starter configuration is later than the baseline, too.
LEMMA LoadCreateStep ==
    ASSUME Inv, LoadCreate
    PROVE  Inv'
<1>1. TypeOK /\ Safe
  BY DEF Inv
<1>2. TypeOK'
  <2>1. file' \in FileType
    BY <1>1, StarterTyped DEF LoadCreate, TypeOK, FileType
  <2> QED
    BY <1>1, <2>1 DEF LoadCreate, TypeOK, FileType, Outside, Watcher
<1>3. Safe'
  <2>1. file'.ver = file.ver /\ file'.time = file.time /\ (file.there => file'.there)
    BY <1>1, StarterTyped DEF LoadCreate
  <2>2. base < file.ver /\ pc' = pc /\ rpc' \in {"wait", "read"}
    BY <1>1 DEF LoadCreate, Safe, Later
  <2> QED
    BY <1>1, <2>1, <2>2
       DEF LoadCreate, Safe, Quiet, Later, Numbered, OnlyValid, RemoteStands,
           Outside, Watcher, Running
<1> QED
  BY <1>2, <1>3 DEF Inv

\* Only a valid configuration passes on to the swap.
LEMMA LoadReadStep ==
    ASSUME Inv, LoadRead
    PROVE  Inv'
<1>1. TypeOK /\ Safe
  BY DEF Inv
<1>2. TypeOK'
  BY <1>1, RunStateAssumption
     DEF LoadRead, Running, TypeOK, Edit, Outside, Watcher, Reloader
<1>3. Safe'
  BY <1>1, <1>2, Numbers
     DEF LoadRead, Running, Safe, Quiet, Later, Numbered, OnlyValid, RemoteStands,
         Outside, Watcher, Reloader
<1> QED
  BY <1>2, <1>3 DEF Inv

\* And so the swap puts a valid and late one in use.
LEMMA SwapFileStep ==
    ASSUME Inv, SwapFile
    PROVE  Inv'
<1>1. TypeOK /\ Safe
  BY DEF Inv
<1>2. TypeOK'
  BY <1>1, RunStateAssumption
     DEF SwapFile, Running, TypeOK, Edit, Outside, Watcher, Reloader
<1>3. Safe'
  BY <1>1, <1>2, Numbers
     DEF SwapFile, Running, Safe, Quiet, Later, Numbered, OnlyValid, RemoteStands,
         Outside, Watcher, Reloader
<1> QED
  BY <1>2, <1>3 DEF Inv

\* Edits of the local file have later numbers.
LEMMA EditFileStep ==
    ASSUME Inv, EditFile
    PROVE  Inv'
<1>1. TypeOK /\ Safe
  BY DEF Inv
<1>2. edits' \in Edit /\ edits' \in Nat /\ 1 <= edits' /\ edits < edits'
  BY <1>1, Numbers, RunStateAssumption DEF EditFile, Edit
<1>3. /\ file' \in FileType /\ file'.ver = edits' /\ file'.time <= edits'
  <2>1. PICK there \in BOOLEAN, ok \in BOOLEAN, time \in 1..edits' :
           file' = [there |-> there, ver |-> edits', time |-> time, ok |-> ok]
    <3>1. edits' \in 1..edits'
      BY <1>2
    <3> QED
      BY <3>1 DEF EditFile
  <2>2. time \in Edit /\ time <= edits'
    BY <1>2, <2>1, RunStateAssumption DEF Edit
  <2> QED
    BY <1>2, <2>1, <2>2, RecordsTyped
<1>4. TypeOK'
  BY <1>1, <1>2, <1>3 DEF EditFile, TypeOK, FileType, Outside, Watcher, Reloader
<1>5. Safe'
  <2>1. /\ base \in Nat /\ file.ver \in Nat /\ server.ver \in Nat /\ edits \in Nat
        /\ base <= file.ver /\ file.ver <= edits /\ server.ver <= edits
    BY <1>1, Numbers DEF Safe, Later, Numbered
  <2>2. base < file'.ver /\ 0 < file'.ver /\ file'.ver <= edits' /\ server.ver <= edits'
    BY <1>2, <1>3, <2>1
  <2>3. /\ mode' = mode /\ server' = server /\ pc' = pc /\ live' = live
        /\ lastMod' = lastMod /\ base' = base /\ queue' = queue
        /\ rpc' = rpc /\ read' = read
    BY DEF EditFile, Outside, Watcher, Reloader
  <2>4. Quiet' /\ OnlyValid' /\ RemoteStands'
    BY <1>1, <2>3 DEF Safe, Quiet, OnlyValid, RemoteStands
  <2>5. Numbered'
    BY <1>3, <2>2, <2>3 DEF Numbered
  <2>6. Later'
    <3>1. base' < file'.ver /\ base' <= file'.ver
      BY <1>2, <1>3, <2>1, <2>2, <2>3
    <3> QED
      BY <1>1, <2>3, <3>1, Zenon DEF Safe, Later
  <2> QED
    BY <2>4, <2>5, <2>6 DEF Safe
<1> QED
  BY <1>4, <1>5 DEF Inv

\* The remote service and the signal leave the reloader alone.
LEMMA OutsideStep ==
    ASSUME Inv, EditServer \/ Expire \/ Signal
    PROVE  Inv'
<1>1. TypeOK /\ Safe
  BY DEF Inv
<1>2. TypeOK'
  <2>1. faults' \in 0..MaxFaults
    BY <1>1, RunStateAssumption DEF EditServer, Expire, Signal, Fault, TypeOK
  <2>2. edits' \in Edit
    BY <1>1, RunStateAssumption DEF EditServer, Expire, Signal, TypeOK, Edit
  <2>3. server' \in [ver : Edit, ok : BOOLEAN]
    BY <1>1, <2>2 DEF EditServer, Expire, Signal, TypeOK, Outside
  <2>4. mode' = mode /\ file' = file /\ live' = live /\ read' = read
    BY DEF EditServer, Expire, Signal, Outside, Reloader
  <2>5. fresh' \in BOOLEAN /\ stop' \in BOOLEAN
    BY <1>1 DEF EditServer, Expire, Signal, TypeOK
  <2> QED
    BY <1>1, <2>1, <2>2, <2>3, <2>4, <2>5
       DEF EditServer, Expire, Signal, TypeOK, Watcher, Reloader
<1>3. Safe'
  BY <1>1, <1>2, Numbers
     DEF EditServer, Expire, Signal, Fault, Safe, Quiet, Later, Numbered, OnlyValid, RemoteStands,
         Outside, Watcher, Reloader
<1> QED
  BY <1>2, <1>3 DEF Inv

\* A restart starts from nothing.
LEMMA RestartStep ==
    ASSUME Inv, Restart
    PROVE  Inv'
<1>1. TypeOK /\ Safe
  BY DEF Inv
<1>2. TypeOK'
  <2>1. faults' \in 0..MaxFaults
    BY <1>1, RunStateAssumption DEF Restart, Fault, TypeOK
  <2>2. 0 \in Edit
    BY RunStateAssumption DEF Edit
  <2> QED
    BY <1>1, <2>1, <2>2 DEF Restart, TypeOK, None, Outside
<1>3. Safe'
  BY <1>1, <1>2, Numbers
     DEF Restart, None, Fault, Safe, Quiet, Later, Numbered, OnlyValid, RemoteStands,
         Outside, Watcher, Reloader
<1> QED
  BY <1>2, <1>3 DEF Inv

\* The invariant of the process, whatever is edited, fails or crashes.
THEOREM ProcessInvariant == Spec => []Inv
<1>1. Inv /\ [Next]_vars => Inv'
  <2>1. ASSUME Inv, BootFails \/ UNCHANGED vars PROVE Inv'
    BY <2>1 DEF BootFails, vars, Inv, TypeOK, Safe, Quiet, Later, Numbered,
                OnlyValid, RemoteStands
  <2> QED
    BY <2>1, BootLoadStep, InitWatcherStep, PassStep, FetchStep, SwapRemoteStep,
       PollStep, ReceiveStep, LoadCreateStep, LoadReadStep, SwapFileStep,
       EditFileStep, OutsideStep, RestartStep DEF Next, Main, Reload
<1> QED
  BY <1>1, InitInv, PTL DEF Spec

\* Every variable keeps its type.
THEOREM ProcessTyped == Spec => []TypeOK
<1>1. Inv => TypeOK
  BY DEF Inv
<1> QED
  BY <1>1, ProcessInvariant, PTL

\* No goroutine ever puts an invalid configuration in use.
THEOREM ValidOnly == Spec => []OnlyValid
<1>1. Inv => OnlyValid
  BY DEF Inv, Safe
<1> QED
  BY <1>1, ProcessInvariant, PTL

\* A local file that is merely there never replaces a remote configuration.
THEOREM LocalFileWaits == Spec => []RemoteStands
<1>1. Inv => RemoteStands
  BY DEF Inv, Safe
<1> QED
  BY <1>1, ProcessInvariant, PTL
=============================================================================
