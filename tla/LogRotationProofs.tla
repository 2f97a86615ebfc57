------------------------- MODULE LogRotationProofs -------------------------
(***************************************************************************)
(* The log files, for any number of processes, limits and days.            *)
(***************************************************************************)
EXTENDS LogRotation, FiniteSetTheorems, TLAPS

\* The names that sort after x.
Later(x, names) == {g \in names : g > x}

-----------------------------------------------------------------------------
(* What pruning leaves.                                                    *)

\* Of some numbers one is the least.
LEMMA LeastExists ==
    ASSUME NEW S \in SUBSET Nat, S # {}
    PROVE  \E x \in S : \A y \in S : x <= y
<1>1. PICK x \in S : \A y \in S : <<y, x>> \notin OpToRel(<, Nat)
  BY NatLessThanWellFounded, WFMin
<1>2. \A y \in S : ~(y < x)
  BY <1>1 DEF OpToRel
<1> QED
  BY <1>2

\* Of some numbers with an end one is the greatest: the one the fewest are
\* later than.
LEMMA GreatestExists ==
    ASSUME NEW S \in SUBSET Nat, IsFiniteSet(S), S # {}
    PROVE  \E x \in S : \A y \in S : y <= x
<1> DEFINE Counts == {Cardinality(Later(x, S)) : x \in S}
<1>1. ASSUME NEW x \in S
      PROVE  IsFiniteSet(Later(x, S)) /\ Cardinality(Later(x, S)) \in Nat
  BY FS_Subset, FS_CardinalityType DEF Later
<1>2. Counts \in SUBSET Nat /\ Counts # {}
  BY <1>1
<1>3. PICK c \in Counts : \A d \in Counts : c <= d
  BY <1>2, LeastExists
<1>4. PICK x \in S : c = Cardinality(Later(x, S))
  BY <1>3
<1>5. ASSUME NEW y \in S, y > x PROVE FALSE
  <2>1. Later(y, S) \subseteq Later(x, S) /\ Later(y, S) # Later(x, S)
    <3>1. \A g \in S : g > y => g > x
      BY <1>5
    <3>2. y \in Later(x, S) /\ y \notin Later(y, S)
      BY <1>5 DEF Later
    <3> QED
      BY <3>1, <3>2 DEF Later
  <2>2. Cardinality(Later(y, S)) < Cardinality(Later(x, S))
    BY <1>1, <2>1, FS_Subset
  <2>3. Cardinality(Later(y, S)) \in Counts
    OBVIOUS
  <2> QED
    BY <1>1, <1>3, <1>4, <2>2, <2>3
<1> QED
  BY <1>5

\* The names a number of later ones are counted among.
LEMMA LaterFinite ==
    ASSUME NEW names \in SUBSET Nat, IsFiniteSet(names), NEW x
    PROVE  /\ IsFiniteSet(Later(x, names)) /\ Cardinality(Later(x, names)) \in Nat
           /\ \A S \in SUBSET Later(x, names) :
                  /\ IsFiniteSet(S) /\ Cardinality(S) \in Nat
                  /\ Cardinality(S) <= Cardinality(Later(x, names))
<1>1. IsFiniteSet(Later(x, names))
  BY FS_Subset DEF Later
<1> QED
  BY <1>1, FS_Subset, FS_CardinalityType

\* However many of the oldest names are removed, whatever had MaxFiles later
\* ones has them still.
LEMMA LatestStay ==
    ASSUME NEW names \in SUBSET Nat, IsFiniteSet(names),
           NEW gone \in SUBSET Oldest(names), NEW x \in Nat,
           Cardinality(Later(x, names)) >= MaxFiles
    PROVE  Cardinality(Later(x, names \ gone)) >= MaxFiles
<1>1. MaxFiles \in Nat \ {0}
  BY LogRotationAssumption
<1>2. CASE Later(x, gone) = {}
  <2>1. Later(x, names \ gone) = Later(x, names)
    BY <1>2 DEF Later
  <2> QED
    BY <2>1
<1>3. CASE Later(x, gone) # {}
  <2>1. Oldest(names) \in SUBSET Nat /\ IsFiniteSet(Oldest(names)) /\ Oldest(names) # {}
    BY <1>3, FS_Subset DEF Oldest, Later
  <2>2. PICK m \in Oldest(names) : \A y \in Oldest(names) : y <= m
    BY <2>1, GreatestExists
  <2>3. m \in names /\ Cardinality(Later(m, names)) >= MaxFiles
    BY <2>2 DEF Oldest, Later
  <2>4. Later(m, names) \in SUBSET Later(x, names \ gone)
    <3>1. PICK y \in gone : y > x
      BY <1>3 DEF Later
    <3>2. y <= m /\ y \in Nat /\ m \in Nat
      BY <2>1, <2>2
    <3>3. ASSUME NEW g \in names, g > m PROVE g > x /\ g \notin gone
      BY <2>2, <3>1, <3>2, <3>3
    <3> QED
      BY <3>3 DEF Later
  <2>5. IsFiniteSet(names \ gone) /\ names \ gone \in SUBSET Nat
    BY FS_Subset
  <2>6. /\ Cardinality(Later(x, names \ gone)) \in Nat
        /\ Cardinality(Later(m, names)) \in Nat
        /\ Cardinality(Later(m, names)) <= Cardinality(Later(x, names \ gone))
    BY <2>4, <2>5, LaterFinite
  <2> QED
    BY <1>1, <2>3, <2>6
<1> QED
  BY <1>2, <1>3

\* With all of the oldest names removed, MaxFiles are left at most.
LEMMA FewStay ==
    ASSUME NEW names \in SUBSET Nat, IsFiniteSet(names)
    PROVE  Cardinality(names \ Oldest(names)) <= MaxFiles
<1> DEFINE kept == names \ Oldest(names)
<1>1. MaxFiles \in Nat \ {0}
  BY LogRotationAssumption
<1>2. CASE kept = {}
  BY <1>1, <1>2, FS_EmptySet
<1>3. CASE kept # {}
  <2>1. PICK m \in kept : \A y \in kept : m <= y
    BY <1>3, LeastExists
  <2>2. Cardinality(Later(m, names)) < MaxFiles
    <3>1. ~(Cardinality(Later(m, names)) >= MaxFiles)
      BY <2>1 DEF Oldest, Later
    <3>2. Cardinality(Later(m, names)) \in Nat
      BY LaterFinite
    <3> QED
      BY <1>1, <3>1, <3>2
  <2>3. kept \ {m} \in SUBSET Later(m, names)
    <3>1. ASSUME NEW y \in kept \ {m} PROVE y \in names /\ y > m
      <4>1. y \in Nat /\ m \in Nat /\ m <= y
        BY <2>1
      <4> QED
        BY <4>1
    <3> QED
      BY <3>1 DEF Later
  <2>4. IsFiniteSet(kept \ {m}) /\ Cardinality(kept \ {m}) \in Nat
        /\ Cardinality(kept \ {m}) <= Cardinality(Later(m, names))
    BY <2>3, LaterFinite
  <2>5. kept = (kept \ {m}) \cup {m}
    BY <2>1
  <2>6. Cardinality(kept) = Cardinality(kept \ {m}) + 1
    BY <2>4, <2>5, FS_AddElement
  <2>7. Cardinality(Later(m, names)) \in Nat
    BY LaterFinite
  <2> QED
    BY <1>1, <2>2, <2>4, <2>6, <2>7
<1> QED
  BY <1>2, <1>3

-----------------------------------------------------------------------------
(* The invariant.                                                          *)

\* What is held of the files is inductive as a whole: a process whose file is
\* there has counted what is in it, and one whose file is gone had MaxFiles
\* later ones.
Inductive == TypeOK /\ FileFound /\ FewFiles /\ SizeCounted

\* There are finitely many files at any time, and the file of a day is not
\* one of another name.
LEMMA NamesFinite ==
    ASSUME NEW names \in SUBSET (Days \cup Strays)
    PROVE  /\ names \in SUBSET Nat /\ IsFiniteSet(names)
           /\ \A d \in names : d \in 0..LastDay => d \in Days
<1>1. IsFiniteSet(Days \cup Strays)
  <2>1. IsFiniteSet(Days)
    <3>1. 1 \in Int /\ LastDay \in Int
      BY LogRotationAssumption
    <3> QED
      BY <3>1, FS_Interval DEF Days
  <2> QED
    BY <2>1, FS_Union, LogRotationAssumption
<1>2. IsFiniteSet(names)
  BY <1>1, FS_Subset
<1> QED
  BY <1>2, LogRotationAssumption DEF Days

\* The names there are when process p has opened the file of the day.
Names == files \cup {day}

\* Process p has opened the file of the day, those of gone have been removed,
\* and it has written n bytes.
Opened(p, n, gone) ==
    /\ gone \in SUBSET Oldest(Names)
    /\ IF gone = Oldest(Names) THEN NoFault ELSE Fault
    /\ files' = Names \ gone
    /\ length' = [d \in Days |-> IF d \in gone THEN 0
                                ELSE length[d] + (IF d = day THEN n ELSE 0)]
    /\ today' = [today EXCEPT ![p] = day]
    /\ size' = [size EXCEPT ![p] = length[day] + n]
    /\ length[day] + n <= MaxLength
    /\ UNCHANGED day
    /\ handle' \in [Processes -> Handles]
    /\ handle'[p] = (IF day \in gone THEN "gone" ELSE "open")
    /\ \A q \in Processes \ {p} :
           handle'[q] = (IF handle[q] = "open" /\ today[q] \in gone THEN "gone" ELSE handle[q])

LEMMA OpenRemoves ==
    ASSUME TypeOK, NEW p \in Processes, NEW n, Open(p, n), UNCHANGED day
    PROVE  \E gone : Opened(p, n, gone)
<1> DEFINE after == [handle EXCEPT ![p] = "open"]
<1>1. PICK gone \in SUBSET Oldest(Names) :
          /\ IF gone = Oldest(Names) THEN NoFault ELSE Fault
          /\ files' = Names \ gone
          /\ length' = [d \in Days |-> IF d \in gone THEN 0
                                      ELSE length[d] + (IF d = day THEN n ELSE 0)]
          /\ handle' = [q \in Processes |->
                 IF after[q] = "open" /\ today'[q] \in gone THEN "gone" ELSE after[q]]
  BY DEF Open, PruneOldFiles, Names
<1>2. today' = [today EXCEPT ![p] = day] /\ size' = [size EXCEPT ![p] = length[day] + n]
      /\ length[day] + n <= MaxLength
  BY DEF Open
<1>3. after[p] = "open" /\ today'[p] = day
      /\ \A q \in Processes \ {p} : after[q] = handle[q] /\ today'[q] = today[q]
  BY <1>2 DEF TypeOK
<1>4. after \in [Processes -> Handles]
  BY DEF TypeOK, Handles
<1> HIDE DEF after
<1>5. handle' \in [Processes -> Handles]
  BY <1>1, <1>4 DEF Handles
<1>6. Opened(p, n, gone)
  BY <1>1, <1>2, <1>3, <1>5 DEF Opened
<1> QED
  BY <1>6

\* Each part of the invariant, where a process opens a file.
LEMMA OpenKeepsTypes ==
    ASSUME TypeOK, NEW p \in Processes, NEW n \in 0..1, NEW gone, Opened(p, n, gone)
    PROVE  TypeOK'
<1>1. files' \subseteq Days \cup Strays
  BY DEF TypeOK, Opened, Names
<1>2. length' \in [Days -> 0..MaxLength]
  BY LogRotationAssumption DEF TypeOK, Opened, Days
<1>3. today' \in [Processes -> 0..LastDay]
  BY LogRotationAssumption DEF TypeOK, Opened, Days
<1>4. size' \in [Processes -> 0..MaxLength]
  BY LogRotationAssumption DEF TypeOK, Opened, Days
<1>5. faults' \in 0..MaxFaults
  BY LogRotationAssumption DEF TypeOK, Opened, NoFault, Fault
<1> QED
  BY <1>1, <1>2, <1>3, <1>4, <1>5 DEF TypeOK, Opened

LEMMA OpenNames ==
    ASSUME TypeOK
    PROVE  Names \in SUBSET Nat /\ IsFiniteSet(Names) /\ files \in SUBSET Names
<1>1. Names \in SUBSET (Days \cup Strays) /\ files \in SUBSET Names
  BY DEF TypeOK, Names
<1> QED
  BY <1>1, NamesFinite

LEMMA OpenKeepsFound ==
    ASSUME TypeOK, FileFound, NEW p \in Processes, NEW n \in 0..1, NEW gone,
           Opened(p, n, gone)
    PROVE  FileFound'
<1> SUFFICES ASSUME NEW q \in Processes
             PROVE  /\ handle'[q] = "open" => today'[q] \in files'
                    /\ handle'[q] = "gone" => Cardinality(Later(today'[q], files')) >= MaxFiles
  BY DEF FileFound, Later
<1>1. today'[p] = day /\ (q # p => today'[q] = today[q]) /\ today'[q] \in Nat
  BY LogRotationAssumption DEF TypeOK, Opened, Days
<1>2. files' = Names \ gone /\ gone \in SUBSET Oldest(Names)
  BY DEF Opened
<1>3. ASSUME handle'[q] = "open" PROVE today'[q] \in files'
  BY <1>1, <1>2, <1>3 DEF Opened, FileFound, Names
<1>4. ASSUME handle'[q] = "gone" PROVE Cardinality(Later(today'[q], files')) >= MaxFiles
  <2>1. CASE today'[q] \in gone
    <3>1. Cardinality(Later(today'[q], Names)) >= MaxFiles
      BY <1>2, <2>1 DEF Oldest, Later
    <3> QED
      BY <1>1, <1>2, <3>1, OpenNames, LatestStay
  <2>2. CASE today'[q] \notin gone
    <3>1. q # p /\ handle[q] = "gone"
      BY <1>1, <1>4, <2>2 DEF Opened
    <3>2. Cardinality(Later(today'[q], files)) >= MaxFiles
      BY <1>1, <3>1 DEF FileFound, Later
    <3>3. Later(today'[q], files) \in SUBSET Later(today'[q], Names)
      BY OpenNames DEF Later
    <3>4. /\ Cardinality(Later(today'[q], files)) \in Nat
          /\ Cardinality(Later(today'[q], Names)) \in Nat
          /\ Cardinality(Later(today'[q], files)) <= Cardinality(Later(today'[q], Names))
      BY <3>3, OpenNames, LaterFinite
    <3>5. Cardinality(Later(today'[q], Names)) >= MaxFiles
      BY <3>2, <3>4, LogRotationAssumption
    <3> QED
      BY <1>1, <1>2, <3>5, OpenNames, LatestStay
  <2> QED
    BY <2>1, <2>2
<1> QED
  BY <1>3, <1>4

LEMMA OpenKeepsFew ==
    ASSUME TypeOK, NEW p \in Processes, NEW n \in 0..1, NEW gone, Opened(p, n, gone)
    PROVE  FewFiles'
<1>1. CASE gone = Oldest(Names)
  BY <1>1, OpenNames, FewStay DEF FewFiles, Opened
<1>2. CASE gone # Oldest(Names)
  BY <1>2 DEF FewFiles, Opened, Fault, TypeOK
<1> QED
  BY <1>1, <1>2

LEMMA OpenKeepsSizes ==
    ASSUME TypeOK, FileFound, SizeCounted, NEW p \in Processes, NEW n \in 0..1, NEW gone,
           Opened(p, n, gone)
    PROVE  SizeCounted'
<1> SUFFICES ASSUME NEW q \in Processes, handle'[q] = "open"
             PROVE  size'[q] <= length'[today'[q]]
  BY DEF SizeCounted
<1>1. CASE q = p
  BY <1>1, LogRotationAssumption DEF TypeOK, Opened, Days
<1>2. CASE q # p
  <2>1. handle[q] = "open" /\ today[q] \notin gone
        /\ today'[q] = today[q] /\ size'[q] = size[q]
    BY <1>2 DEF Opened, TypeOK
  <2>2. today[q] \in Days
    BY <2>1, NamesFinite DEF FileFound, TypeOK
  <2>3. size[q] <= length[today[q]] /\ size[q] \in Nat /\ length[today[q]] \in Nat
    BY <2>1, <2>2 DEF SizeCounted, TypeOK
  <2>4. length'[today[q]] >= length[today[q]] /\ length'[today[q]] \in Nat
    BY <2>1, <2>2, <2>3 DEF Opened
  <2> QED
    BY <2>1, <2>3, <2>4
<1> QED
  BY <1>1, <1>2

\* An open that fails leaves the files, and every other process, as they were.
LEMMA OpenFailsKeeps ==
    ASSUME Inductive, NEW p \in Processes, NEW left \in {"none", "closed"},
           OpenFails(p, left), UNCHANGED day
    PROVE  Inductive'
<1>1. TypeOK /\ FileFound /\ FewFiles /\ SizeCounted
  BY DEF Inductive
<1>2. /\ handle' = [handle EXCEPT ![p] = left] /\ today' = [today EXCEPT ![p] = day]
      /\ files' \in SUBSET Names /\ files \in SUBSET files'
      /\ Fault /\ UNCHANGED <<day, length, size>>
  BY DEF OpenFails, Names
<1>3. TypeOK'
  BY <1>1, <1>2, LogRotationAssumption DEF TypeOK, Fault, Handles, Names, Days
<1>4. /\ handle'[p] = left
      /\ \A q \in Processes \ {p} : handle'[q] = handle[q] /\ today'[q] = today[q]
  BY <1>1, <1>2 DEF TypeOK
<1>5. ASSUME NEW q \in Processes, handle'[q] = "gone"
      PROVE  Cardinality(Later(today'[q], files')) >= MaxFiles
  <2>1. q # p /\ Cardinality(Later(today[q], files)) >= MaxFiles
    BY <1>1, <1>4, <1>5 DEF FileFound, Later
  <2>2. files' \in SUBSET Nat /\ IsFiniteSet(files')
    BY <1>3, NamesFinite DEF TypeOK
  <2>3. Later(today[q], files) \in SUBSET Later(today[q], files')
    BY <1>2 DEF Later
  <2>4. /\ Cardinality(Later(today[q], files)) \in Nat
        /\ Cardinality(Later(today[q], files')) \in Nat
        /\ Cardinality(Later(today[q], files)) <= Cardinality(Later(today[q], files'))
    BY <2>2, <2>3, LaterFinite
  <2> QED
    BY <1>4, <2>1, <2>4, LogRotationAssumption
<1>6. FileFound'
  BY <1>1, <1>2, <1>4, <1>5 DEF FileFound, Later
<1>7. FewFiles'
  BY <1>1, <1>2 DEF FewFiles, Fault, TypeOK
<1>8. SizeCounted'
  BY <1>1, <1>2, <1>4 DEF SizeCounted
<1> QED
  BY <1>3, <1>6, <1>7, <1>8 DEF Inductive

\* A line is appended to the file of its process, be it there or not.
LEMMA AppendKeeps ==
    ASSUME Inductive, NEW p \in Processes, AppendLine(p)
    PROVE  Inductive'
<1>1. TypeOK /\ FileFound /\ FewFiles /\ SizeCounted
  BY DEF Inductive
<1>2. TypeOK'
  <2>1. size' \in [Processes -> 0..MaxLength]
    BY <1>1, LogRotationAssumption DEF TypeOK, AppendLine
  <2>2. length' \in [Days -> 0..MaxLength]
    BY <1>1, LogRotationAssumption DEF TypeOK, AppendLine
  <2> QED
    BY <1>1, <2>1, <2>2 DEF TypeOK, AppendLine
<1>3. FileFound' /\ FewFiles'
  BY <1>1 DEF FileFound, FewFiles, AppendLine
<1>4. ASSUME NEW q \in Processes, handle'[q] = "open"
      PROVE  size'[q] <= length'[today'[q]]
  <2>1. handle[q] = "open" /\ today'[q] = today[q] /\ today[p] = day
    BY <1>4 DEF AppendLine, Turned
  <2>2. today[q] \in Days
    BY <1>1, <2>1, NamesFinite DEF FileFound, TypeOK
  <2>3. size[q] <= length[today[q]] /\ size[q] \in Nat /\ length[today[q]] \in Nat
    BY <1>1, <2>1, <2>2 DEF SizeCounted, TypeOK
  <2>4. CASE q = p
    BY <1>1, <2>1, <2>2, <2>3, <2>4 DEF AppendLine, TypeOK
  <2>5. CASE q # p
    BY <1>1, <2>1, <2>2, <2>3, <2>5 DEF AppendLine, TypeOK
  <2> QED
    BY <2>4, <2>5
<1> QED
  BY <1>1, <1>2, <1>3, <1>4 DEF Inductive, SizeCounted

\* Every step is an open, one that fails, a line, or one that leaves the files.
LEMMA StepKeeps == Inductive /\ [Next]_vars => Inductive'
<1> SUFFICES ASSUME Inductive, [Next]_vars PROVE Inductive'
  OBVIOUS
<1>1. TypeOK /\ FileFound /\ FewFiles /\ SizeCounted
  BY DEF Inductive
<1>2. ASSUME NEW p \in Processes, NEW n \in 0..1, Open(p, n), UNCHANGED day
      PROVE  Inductive'
  <2>1. PICK gone : Opened(p, n, gone)
    BY <1>1, <1>2, OpenRemoves
  <2> QED
    BY <1>1, <2>1, OpenKeepsTypes, OpenKeepsFound, OpenKeepsFew, OpenKeepsSizes DEF Inductive
<1>3. ASSUME NEW p \in Processes, Start(p) PROVE Inductive'
  BY <1>2, <1>3, OpenFailsKeeps DEF Start
<1>4. ASSUME NEW p \in Processes, Rotate(p) PROVE Inductive'
  BY <1>2, <1>4, OpenFailsKeeps DEF Rotate
<1>5. ASSUME NEW p \in Processes, Stop(p) PROVE Inductive'
  BY <1>1, <1>5, LogRotationAssumption
     DEF Inductive, TypeOK, FileFound, FewFiles, SizeCounted, Stop, Handles
<1>6. CASE UNCHANGED vars
  BY <1>1, <1>6 DEF vars, Inductive, TypeOK, FileFound, FewFiles, SizeCounted
<1>7. CASE NextDay
  <2>1. day' \in Days
    BY <1>1, <1>7, LogRotationAssumption DEF NextDay, Days, TypeOK
  <2> QED
    BY <1>1, <1>7, <2>1 DEF NextDay, Inductive, TypeOK, FileFound, FewFiles, SizeCounted
<1>8. CASE SetDate
  BY <1>1, <1>8, LogRotationAssumption
     DEF SetDate, Fault, Inductive, TypeOK, FileFound, FewFiles, SizeCounted
<1> QED
  BY <1>3, <1>4, <1>5, <1>6, <1>7, <1>8, AppendKeeps DEF Next, Lose

LEMMA InitHolds == Init => Inductive
<1> SUFFICES ASSUME Init PROVE Inductive
  OBVIOUS
<1>1. TypeOK
  BY LogRotationAssumption DEF Init, TypeOK, Days, Handles
<1> QED
  BY <1>1 DEF Init, Inductive, FileFound, FewFiles, SizeCounted

\* The inductive invariant of the log files.
THEOREM InductiveHolds == Spec => []Inductive
BY InitHolds, StepKeeps, PTL DEF Spec

-----------------------------------------------------------------------------
(* What it gives.                                                          *)

\* The state of the log files is of its type.
THEOREM TypeHolds == Spec => []TypeOK
<1>1. Inductive => TypeOK
  BY DEF Inductive
<1> QED
  BY <1>1, InductiveHolds, PTL

\* No process loses the file it writes to, unless MaxFiles later ones are
\* there, however many processes share the directory.
THEOREM NoFileLost == Spec => []FileFound
<1>1. Inductive => FileFound
  BY DEF Inductive
<1> QED
  BY <1>1, InductiveHolds, PTL

\* Where nothing fails and the date only goes on, MaxFiles files are all that
\* is there once a process has opened one.
THEOREM FilesBounded == Spec => []FewFiles
<1>1. Inductive => FewFiles
  BY DEF Inductive
<1> QED
  BY <1>1, InductiveHolds, PTL

\* No process takes its file for longer than it is.
THEOREM SizesCounted == Spec => []SizeCounted
<1>1. Inductive => SizeCounted
  BY DEF Inductive
<1> QED
  BY <1>1, InductiveHolds, PTL

\* Only a file with MaxFiles later ones is ever removed.
THEOREM LatestKept == Spec => KeepsLatest
<1>1. ASSUME TypeOK, NEW p \in Processes, NEW n, Open(p, n), UNCHANGED day,
             NEW f \in files \ files'
      PROVE  Cardinality(Later(f, files')) >= MaxFiles
  <2>1. PICK gone : Opened(p, n, gone)
    BY <1>1, OpenRemoves
  <2>2. gone \in SUBSET Oldest(Names) /\ files' = Names \ gone /\ f \in gone
    BY <1>1, <2>1 DEF Opened, Names
  <2>3. f \in Nat /\ Cardinality(Later(f, Names)) >= MaxFiles
    BY <1>1, <2>2, OpenNames DEF Oldest, Later
  <2> QED
    BY <1>1, <2>2, <2>3, OpenNames, LatestStay
<1>2. ASSUME TypeOK, [Next]_vars, NEW f \in files \ files'
      PROVE  Cardinality({g \in files' : g > f}) >= MaxFiles
  <2>1. \E p \in Processes : (Start(p) \/ Rotate(p)) /\ ~OpenFails(p, "none")
                             /\ ~OpenFails(p, "closed")
    BY <1>2 DEF Next, AppendLine, Lose, Stop, NextDay, SetDate, OpenFails, vars
  <2>2. PICK p \in Processes : \E n \in {0, 1} : Open(p, n) /\ UNCHANGED day
    BY <2>1 DEF Start, Rotate
  <2> QED
    BY <1>1, <1>2, <2>2 DEF Later
<1>3. TypeOK /\ [Next]_vars
      => [\A f \in files \ files' : Cardinality({g \in files' : g > f}) >= MaxFiles]_vars
  BY <1>2
<1> QED
  BY <1>3, TypeHolds, PTL DEF Spec, KeepsLatest
=============================================================================
