---------------------------- MODULE LogRotation ----------------------------
(***************************************************************************)
(* The log files of the agent (internal/logging).                          *)
(*                                                                         *)
(* A process writes its lines to the file of the day and turns to another  *)
(* one when the day changes or the file counts as full; whoever opens a    *)
(* file also removes the oldest ones of the directory.  The service and a  *)
(* --once run started by hand share the directory.  The date may be set    *)
(* back, as on a machine without a battery whose clock is corrected once   *)
(* the network is there.                                                   *)
(*                                                                         *)
(* Abstractions: the file of a day is the number of that day, as the names *)
(* sort like the days; a file of another name that fits the pattern sorts  *)
(* after all of them.  The date does not change between the two places a   *)
(* write reads it.                                                         *)
(***************************************************************************)
EXTENDS Naturals, FiniteSets

CONSTANTS
    Processes,
    MaxFileSize,   \* DefaultMaxFileSize
    MaxFiles,      \* DefaultMaxFiles
    LastDay,       \* bound on the days
    Strays,        \* other files the pattern fits, numbers beyond LastDay
    MaxLength,     \* bound on the length of a file
    MaxFaults      \* bound on failed system calls and changes of the clock

Days == 1..LastDay

ASSUME LogRotationAssumption ==
    /\ MaxFileSize \in Nat \ {0} /\ MaxFiles \in Nat \ {0}
    /\ LastDay \in Nat \ {0}
    /\ Strays \subseteq Nat \ 0..LastDay /\ IsFiniteSet(Strays)
    /\ MaxLength \in Nat \ {0} /\ MaxFaults \in Nat

VARIABLES
    day,       \* the date of the host
    files,     \* what the pattern fits in the log directory
    length,    \* length[d]: the bytes in the file of day d, 0 where there is none
    handle,    \* handle[p]: the file writer of process p, and its file
    today,     \* today[p]: the day it last meant to open a file for
    size,      \* size[p]: what it takes for the length of its file
    faults

vars == <<day, files, length, handle, today, size, faults>>

\* "down": no such process; "none": it has no file writer and logs to its
\* standard error alone; "gone": its file is open and has been removed.
Handles == {"down", "none", "open", "gone", "closed"}

TypeOK ==
    /\ day \in Days
    /\ files \subseteq Days \cup Strays
    /\ length \in [Days -> 0..MaxLength]
    /\ handle \in [Processes -> Handles]
    /\ today \in [Processes -> 0..LastDay]
    /\ size \in [Processes -> 0..MaxLength]
    /\ faults \in 0..MaxFaults

Init ==
    /\ day \in Days
    /\ files \in SUBSET ({d \in Days : d < day} \cup Strays)
    /\ length = [d \in Days |-> IF d \in files THEN 1 ELSE 0]
    /\ handle = [p \in Processes |-> "down"]
    /\ today = [p \in Processes |-> 0]
    /\ size = [p \in Processes |-> 0]
    /\ faults = 0

Fault == faults < MaxFaults /\ faults' = faults + 1
NoFault == UNCHANGED faults

-----------------------------------------------------------------------------
(* Opening a file.                                                         *)

\* Mutant: one file more is removed.
OldestAndOne(names) == {f \in names : Cardinality({g \in names : g > f}) >= MaxFiles - 1}

\* Mutant: the names are sorted the wrong way round.
Newest(names) == {f \in names : Cardinality({g \in names : g < f}) >= MaxFiles}

\* The names beyond the MaxFiles that sort last.
Oldest(names) == {f \in names : Cardinality({g \in names : g > f}) >= MaxFiles}

\* pruneOldFiles; a file that cannot be removed stays.  Process p has just
\* opened the file of the day and is about to write n bytes.
PruneOldFiles(p, n) ==
    LET names == files \cup {day}
        after == [handle EXCEPT ![p] = "open"]
    IN  \E gone \in SUBSET Oldest(names) :
            /\ IF gone = Oldest(names) THEN NoFault ELSE Fault
            /\ files' = names \ gone
            /\ length' = [d \in Days |-> IF d \in gone THEN 0
                                        ELSE length[d] + (IF d = day THEN n ELSE 0)]
            /\ handle' = [q \in Processes |->
                   IF after[q] = "open" /\ today'[q] \in gone THEN "gone" ELSE after[q]]

\* Mutant: the files are not pruned.
OpenOnly(p, n) ==
    /\ length[day] + n <= MaxLength
    /\ handle' = [handle EXCEPT ![p] = "open"]
    /\ today' = [today EXCEPT ![p] = day]
    /\ size' = [size EXCEPT ![p] = length[day] + n]
    /\ files' = files \cup {day} /\ NoFault
    /\ length' = [length EXCEPT ![day] = @ + n]

\* Mutant: the size of the last file is not forgotten.
OpenKeepsSize(p, n) ==
    /\ length[day] + n <= MaxLength
    /\ today' = [today EXCEPT ![p] = day]
    /\ size' = [size EXCEPT ![p] = @ + n]
    /\ PruneOldFiles(p, n)

\* Mutant: the file of the day is opened with O_TRUNC in place of O_APPEND.
OpenTruncates(p, n) ==
    /\ today' = [today EXCEPT ![p] = day]
    /\ size' = [size EXCEPT ![p] = n]
    /\ PruneOldFiles(p, n - length[day])

\* openOrRotate: the old file is closed, the file of the day opened or made,
\* its size asked for, and the directory pruned; n bytes are written after.
Open(p, n) ==
    /\ length[day] + n <= MaxLength
    /\ today' = [today EXCEPT ![p] = day]
    /\ size' = [size EXCEPT ![p] = length[day] + n]
    /\ PruneOldFiles(p, n)

\* It fails to open the file, or to ask for its size: the day is noted, the
\* old file is closed and still the one that will be written to.
OpenFails(p, left) ==
    /\ Fault
    /\ handle' = [handle EXCEPT ![p] = left]
    /\ today' = [today EXCEPT ![p] = day]
    /\ files' \in {files, files \cup {day}}
    /\ UNCHANGED <<length, size>>

-----------------------------------------------------------------------------
(* The processes.                                                          *)

\* NewRotatingFileWriter; when it fails the process goes on without.
Start(p) ==
    /\ handle[p] = "down"
    /\ Open(p, 0) \/ OpenFails(p, "none")
    /\ UNCHANGED day

Turned(p) == today[p] # day \/ size[p] >= MaxFileSize

\* Write, with a file open and nothing to turn: the line is appended.
AppendLine(p) ==
    /\ handle[p] \in {"open", "gone"} /\ ~Turned(p)
    /\ size[p] < MaxLength
    /\ size' = [size EXCEPT ![p] = @ + 1]
    /\ \/ handle[p] = "open" /\ length[day] < MaxLength /\ length' = [length EXCEPT ![day] = @ + 1]
       \/ handle[p] = "gone" /\ UNCHANGED length
    /\ UNCHANGED <<day, files, handle, today, faults>>

\* Mutant: a writer whose file is closed does not try again.
RotateOpen(p) ==
    /\ handle[p] \in {"open", "gone"} /\ Turned(p)
    /\ Open(p, 1) \/ OpenFails(p, "closed")
    /\ UNCHANGED day

\* Write, with a day or a size at which to turn.
Rotate(p) ==
    /\ handle[p] \in {"open", "gone", "closed"} /\ Turned(p)
    /\ Open(p, 1) \/ OpenFails(p, "closed")
    /\ UNCHANGED day

\* Write, on the day an open failed: the closed file refuses the line.
Lose(p) ==
    /\ handle[p] = "closed" /\ ~Turned(p)
    /\ UNCHANGED vars

\* Close, or the death of the process.
Stop(p) ==
    /\ handle[p] # "down"
    /\ handle' = [handle EXCEPT ![p] = "down"]
    /\ today' = [today EXCEPT ![p] = 0]
    /\ size' = [size EXCEPT ![p] = 0]
    /\ UNCHANGED <<day, files, length, faults>>

-----------------------------------------------------------------------------
(* The date.                                                               *)

NextDay ==
    /\ day < LastDay /\ day' = day + 1
    /\ UNCHANGED <<files, length, handle, today, size, faults>>

SetDate ==
    /\ \E d \in Days \ {day} : day' = d
    /\ Fault
    /\ UNCHANGED <<files, length, handle, today, size>>

Next ==
    \/ \E p \in Processes : Start(p) \/ AppendLine(p) \/ Rotate(p) \/ Lose(p) \/ Stop(p)
    \/ NextDay \/ SetDate

Spec == Init /\ [][Next]_vars

\* Every pass logs lines, and days go by.
Fairness ==
    /\ \A p \in Processes : WF_vars(AppendLine(p) \/ Rotate(p))
    /\ WF_vars(NextDay)

FairSpec == Spec /\ Fairness

-----------------------------------------------------------------------------
(* Properties.                                                             *)

\* A process has its file where people look for it: what one process removes
\* is never the file another one, or it itself, is writing to, unless
\* MaxFiles later ones are there, as when the date went back (rotation.go:
\* 106-131, "oldest files are removed").
FileFound ==
    \A p \in Processes :
        /\ handle[p] = "open" => today[p] \in files
        /\ handle[p] = "gone" => Cardinality({f \in files : f > today[p]}) >= MaxFiles

\* Whoever removes a file leaves MaxFiles that are later, whatever several
\* processes, failed removals and changes of the date have left behind.
KeepsLatest ==
    [][\A f \in files \ files' : Cardinality({g \in files' : g > f}) >= MaxFiles]_vars

\* From the first open on there are MaxFiles files at most, but for those
\* that could not be removed, or were made by an open that failed later.
FewFiles ==
    faults = 0 /\ (\E p \in Processes : handle[p] = "open") =>
        Cardinality(files) <= MaxFiles

\* What a process takes for the length of its file is never more than the
\* file holds, across restarts and days: it does not turn too early.
SizeCounted ==
    \A p \in Processes :
        handle[p] = "open" => size[p] <= length[today[p]]

\* A writer whose open failed tries again with its first line of another
\* day: at most the lines of one day are lost each time (but for the bounds
\* on days and lengths).
Resumes ==
    \A p \in Processes :
        handle[p] = "closed" /\ day < LastDay
        ~> handle[p] # "closed" \/ today[p] = LastDay \/ length[LastDay] = MaxLength

\* "DefaultMaxFileSize is the maximum size of a single log file" (rotation.go):
\* a file that counts as full is left for another one.
SizeKept == \A d \in Days : length[d] <= MaxFileSize
=============================================================================
