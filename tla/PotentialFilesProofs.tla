------------------------ MODULE PotentialFilesProofs ------------------------
(***************************************************************************)
(* PotentialFiles, for any potentials, files, metadata and bounds.         *)
(***************************************************************************)
EXTENDS PotentialFiles, FiniteSetTheorems, TLAPS

\* What is downloaded is not there yet, so no file is written over.
LEMMA DownloadKeeps ==
    ASSUME NEW d, NEW p, NEW outcome \in [Missing(p, d) -> Outcomes], NEW f \in Present(d)
    PROVE  Download(p, d, outcome)[f] = d[f]
<1>1. f \in Files /\ f \notin DOMAIN outcome
    BY DEF Missing, Present
<1>2. QED
    BY <1>1 DEF Download

\* A file in the directory never changes.
THEOREM Steady == Spec => SteadyFiles
<1> DEFINE Kept == \A f \in Present(disk) : disk'[f] = disk[f]
<1>1. ASSUME NEW j \in Jobs, Start(j) PROVE Kept
    BY <1>1 DEF Start
<1>2. ASSUME NEW j \in Jobs, Resolve(j) PROVE Kept
  <2>1. PICK outcome \in [Missing(serves[j], disk) -> Outcomes] : Fetch(serves[j], outcome)
      BY <1>2 DEF Resolve
  <2>2. QED
      BY <2>1, DownloadKeeps DEF Fetch
<1>3. ASSUME NEW j \in Jobs, Launch(j) PROVE Kept
    BY <1>3 DEF Launch
<1>4. ASSUME Crash PROVE Kept
  <2>1. CASE UNCHANGED disk
      BY <2>1
  <2>2. CASE \E j \in Jobs : \E outcome \in [Missing(serves[j], disk) -> Outcomes] :
                Fetch(serves[j], outcome)
    <3>1. PICK j \in Jobs : \E outcome \in [Missing(serves[j], disk) -> Outcomes] :
                Fetch(serves[j], outcome)
        BY <2>2
    <3>2. PICK outcome \in [Missing(serves[j], disk) -> Outcomes] : Fetch(serves[j], outcome)
        BY <3>1
    <3>3. QED
        BY <3>2, DownloadKeeps DEF Fetch
  <2>3. QED
      BY <1>4, <2>1, <2>2 DEF Crash
<1>5. [Next]_vars => [Kept]_disk
    BY <1>1, <1>2, <1>3, <1>4 DEF Next, vars
<1>6. QED
    BY <1>5, PTL DEF Spec, SteadyFiles

-----------------------------------------------------------------------------
(* Type correctness.  A job that has started serves a potential, so what is *)
(* downloaded for it is of one.                                            *)

Reads == SUBSET (Content \cup {None})

FInv ==
    /\ disk \in [Files -> Content \cup {None}]
    /\ serves \in [Jobs -> Potentials \cup {None}]
    /\ pc \in [Jobs -> {"waiting", "ready", "launching", "killed"}]
    /\ script \in [Jobs -> SUBSET (Files \cup {None})]
    /\ launches \in [Jobs -> Seq(Reads)]
    /\ \A j \in Jobs : pc[j] \in {"ready", "launching"} => serves[j] \in Potentials
    /\ \A j \in Jobs : pc[j] = "launching" => script[j] # {}
    /\ \A j \in Jobs : Len(launches[j]) <= MaxLaunches
    /\ failures \in 0 .. MaxFailures /\ crashes \in 0 .. MaxCrashes
    /\ unfetched \subseteq Potentials /\ cutOff \subseteq Potentials

LEMMA Implied == FInv => TypeOK
<1> SUFFICES ASSUME FInv, NEW j \in Jobs, NEW k \in 1 .. Len(launches[j])
             PROVE  launches[j][k] \subseteq Content \cup {None}
    BY DEF FInv, TypeOK
<1>1. launches[j] \in Seq(Reads)
    BY DEF FInv
<1>2. launches[j][k] \in Reads
    BY <1>1
<1>3. QED
    BY <1>2 DEF Reads

\* What the metadata of a potential is made of.
LEMMA MetaFields ==
    ASSUME NEW p \in Potentials
    PROVE  /\ Meta[p].coeff \in Seq(Files) /\ Meta[p].urls \in Seq(Files)
           /\ Meta[p].named \in Seq(Files) /\ Meta[p].alike \subseteq Files
           /\ Meta[p].pot_file \in Files \cup {None}
           /\ Meta[p].reads \in {"pot_file", "coeff", "library"}
<1>1. Meta[p] \in MetaRecord
    BY MetaAssumption
<1>2. QED
    BY <1>1 DEF MetaRecord

LEMMA ElementsIn == ASSUME NEW s \in Seq(Files) PROVE Elements(s) \subseteq Files
BY DEF Elements

LEMMA FirstIn == \A s, d : FirstPresent(s, d) \subseteq Present(d)
BY DEF FirstPresent

\* A file that is answered is there.
LEMMA ResolvedIn ==
    ASSUME NEW p \in Potentials, NEW before, NEW after, Present(before) \subseteq Present(after)
    PROVE  Resolved(p, before, after) \subseteq Present(after)
<1>1. OnDisk(p, before) \subseteq Present(after)
    BY FirstIn DEF OnDisk
<1>2. Downloaded(p, after) \subseteq Present(after)
    BY DEF Downloaded
<1>3. QED
    BY <1>1, <1>2, FirstIn DEF Resolved

\* A script names files, at least one.
LEMMA ConfigNames ==
    ASSUME NEW p \in Potentials, NEW f \in Files, NEW d, NEW names \in PairConfigs(p, f, d)
    PROVE  names \in SUBSET (Files \cup {None}) /\ names # {}
<1> DEFINE m == Meta[p]
           specific == IF Len(m.urls) >= 2 /\ m.urls[2] \in Present(d) THEN m.urls[2] ELSE f
           given == {IF g \in Present(d) THEN g ELSE None : g \in Elements(m.coeff)}
<1>1. specific \in Files
    BY DEF Present
<1>2. m.reads = "coeff" => given \subseteq Files \cup {None} /\ given # {}
  <2>1. Elements(m.coeff) \subseteq Files
      BY MetaFields, ElementsIn
  <2>2. m.reads = "coeff" => m.coeff[1] \in Elements(m.coeff)
      BY CoeffAssumption, MetaFields DEF Elements
  <2>3. QED
      BY <2>1, <2>2
<1>3. m.reads = "pot_file" => names = {f}
    BY DEF PairConfigs
<1>4. m.reads = "coeff" => names = given
    BY DEF PairConfigs
<1>5. m.reads = "library" => names = {f} \/ \E l \in Present(d) : names = {l, specific}
    BY DEF PairConfigs
<1>6. Present(d) \subseteq Files
    BY DEF Present
<1> HIDE DEF specific, given
<1>7. m.reads \in {"pot_file", "coeff", "library"}
    BY MetaFields
<1>8. QED
    BY <1>1, <1>2, <1>3, <1>4, <1>5, <1>6, <1>7

\* What a resolution leaves behind.
LEMMA FetchTypes ==
    ASSUME FInv, NEW p \in Potentials, NEW outcome \in [Missing(p, disk) -> Outcomes],
           Fetch(p, outcome)
    PROVE  /\ disk' \in [Files -> Content \cup {None}]
           /\ Present(disk) \subseteq Present(disk')
           /\ failures' \in 0 .. MaxFailures
           /\ unfetched' \subseteq Potentials /\ cutOff' \subseteq Potentials
<1> DEFINE failed == {f \in DOMAIN outcome : outcome[f] # "ok"}
<1>1. [of |-> p, whole |-> TRUE] \in Content /\ [of |-> p, whole |-> FALSE] \in Content
    BY DEF Content
<1>2. disk' = Download(p, disk, outcome)
    BY DEF Fetch
<1>3. disk' \in [Files -> Content \cup {None}]
  <2>1. ASSUME NEW f \in Files PROVE [of |-> p, whole |-> outcome[f] = "ok"] \in Content
      BY DEF Content
  <2>2. QED
      BY <1>2, <2>1 DEF Download, FInv
<1>4. Present(disk) \subseteq Present(disk')
    BY <1>2, DownloadKeeps DEF Present
<1>5. IsFiniteSet(failed)
  <2>1. DOMAIN outcome \subseteq Elements(Meta[p].urls)
      BY DEF Missing
  <2>2. IsFiniteSet(1 .. Len(Meta[p].urls))
      BY MetaFields, FS_Interval
  <2>3. IsFiniteSet(Elements(Meta[p].urls))
    <3> DEFINE s == Meta[p].urls
    <3>1. s \in Surjection(1 .. Len(s), Elements(s))
        BY MetaFields DEF Surjection, Elements
    <3>2. QED
        BY <2>2, <3>1, FS_Surjection
  <2>4. QED
      BY <2>1, <2>3, FS_Subset
<1>6. Cardinality(failed) \in Nat
    BY <1>5, FS_CardinalityType
<1>7. failures' \in 0 .. MaxFailures
  <2>1. failures + Cardinality(failed) <= MaxFailures /\ failures' = failures + Cardinality(failed)
      BY DEF Fetch
  <2>2. failures \in 0 .. MaxFailures
      BY DEF FInv
  <2> HIDE DEF failed
  <2>3. QED
      BY <1>6, <2>1, <2>2, BoundsAssumption
<1>8. unfetched' \subseteq Potentials /\ cutOff' \subseteq Potentials
    BY DEF Fetch, FInv
<1>9. QED
    BY <1>3, <1>4, <1>7, <1>8

\* One more entry in what the processes of a job read.
LEMMA LaunchedTypes ==
    ASSUME FInv, NEW j \in Jobs, NEW read \in Reads, Len(launches[j]) < MaxLaunches,
           Launched(j, read)
    PROVE  /\ launches' \in [Jobs -> Seq(Reads)]
           /\ \A i \in Jobs : Len(launches'[i]) <= MaxLaunches
<1>1. launches \in [Jobs -> Seq(Reads)] /\ \A i \in Jobs : Len(launches[i]) <= MaxLaunches
    BY DEF FInv
<1>2. launches' = [launches EXCEPT ![j] = Append(@, read)]
    BY DEF Launched
<1>3. launches[j] \in Seq(Reads) /\ Append(launches[j], read) \in Seq(Reads)
    BY <1>1
<1>4. Len(Append(launches[j], read)) <= MaxLaunches
    BY <1>3, BoundsAssumption
<1>5. \A i \in Jobs : launches'[i] = IF i = j THEN Append(launches[j], read) ELSE launches[i]
    BY <1>1, <1>2
<1>6. QED
    BY <1>1, <1>2, <1>3, <1>4, <1>5

LEMMA StartTypes == ASSUME FInv, NEW j \in Jobs, Start(j) PROVE FInv'
BY DEF FInv, Start

LEMMA ResolveTypes == ASSUME FInv, NEW j \in Jobs, Resolve(j) PROVE FInv'
<1> DEFINE p == serves[j]
<1>1. p \in Potentials /\ Len(launches[j]) < MaxLaunches
    BY DEF FInv, Resolve
<1>2. PICK outcome \in [Missing(p, disk) -> Outcomes] : Fetch(p, outcome)
    BY DEF Resolve
<1>3. /\ disk' \in [Files -> Content \cup {None}]
      /\ Present(disk) \subseteq Present(disk')
      /\ failures' \in 0 .. MaxFailures
      /\ unfetched' \subseteq Potentials /\ cutOff' \subseteq Potentials
    BY <1>1, <1>2, FetchTypes
<1>4. UNCHANGED <<serves, crashes>>
    BY DEF Resolve
<1>5. CASE Launched(j, {None}) /\ UNCHANGED <<pc, script>>
  <2>1. /\ launches' \in [Jobs -> Seq(Reads)]
        /\ \A i \in Jobs : Len(launches'[i]) <= MaxLaunches
      BY <1>1, <1>5, LaunchedTypes DEF Reads
  <2>2. QED
      BY <1>3, <1>4, <1>5, <2>1 DEF FInv
<1>6. CASE /\ \E f \in Resolved(p, disk, disk') : \E names \in PairConfigs(p, f, disk') :
                  script' = [script EXCEPT ![j] = names]
           /\ pc' = [pc EXCEPT ![j] = "launching"]
           /\ UNCHANGED launches
  <2>1. PICK f \in Resolved(p, disk, disk') : \E names \in PairConfigs(p, f, disk') :
                  script' = [script EXCEPT ![j] = names]
      BY <1>6
  <2>2. PICK names \in PairConfigs(p, f, disk') : script' = [script EXCEPT ![j] = names]
      BY <2>1
  <2>3. f \in Files
      BY <1>1, <1>3, ResolvedIn DEF Present
  <2>4. names \in SUBSET (Files \cup {None}) /\ names # {}
      BY <1>1, <2>3, ConfigNames
  <2>5. script' \in [Jobs -> SUBSET (Files \cup {None})]
      BY <2>2, <2>4 DEF FInv
  <2>6. pc' \in [Jobs -> {"waiting", "ready", "launching", "killed"}]
      BY <1>6 DEF FInv
  <2>7. ASSUME NEW i \in Jobs
        PROVE  /\ pc'[i] \in {"ready", "launching"} => serves'[i] \in Potentials
               /\ pc'[i] = "launching" => script'[i] # {}
    <3>1. pc'[i] = IF i = j THEN "launching" ELSE pc[i]
        BY <1>6 DEF FInv
    <3>2. script'[i] = IF i = j THEN names ELSE script[i]
        BY <2>2 DEF FInv
    <3>3. QED
        BY <1>1, <1>4, <2>4, <3>1, <3>2 DEF FInv
  <2>8. QED
      BY <1>3, <1>4, <1>6, <2>5, <2>6, <2>7 DEF FInv
<1>7. QED
    BY <1>5, <1>6 DEF Resolve

LEMMA ReadTypes ==
    ASSUME FInv, NEW j \in Jobs
    PROVE  {Reading(disk, f) : f \in script[j]} \in Reads
<1>1. script[j] \subseteq Files \cup {None}
    BY DEF FInv
<1>2. ASSUME NEW f \in script[j] PROVE Reading(disk, f) \in Content \cup {None}
    BY <1>1 DEF FInv, Reading
<1>3. QED
    BY <1>2 DEF Reads

LEMMA LaunchTypes == ASSUME FInv, NEW j \in Jobs, Launch(j) PROVE FInv'
<1> DEFINE read == {Reading(disk, f) : f \in script[j]}
<1>1. read \in Reads
    BY ReadTypes
<1>2. Launched(j, read) /\ Len(launches[j]) < MaxLaunches
    BY DEF Launch
<1> HIDE DEF read
<1>3. /\ launches' \in [Jobs -> Seq(Reads)]
      /\ \A i \in Jobs : Len(launches'[i]) <= MaxLaunches
    BY <1>1, <1>2, LaunchedTypes
<1>4. UNCHANGED <<disk, serves, script, failures, crashes, unfetched, cutOff>>
    BY DEF Launch
<1>5. pc[j] = "launching" /\ pc' \in {pc, [pc EXCEPT ![j] = "ready"]}
    BY DEF Launch
<1>6. pc' \in [Jobs -> {"waiting", "ready", "launching", "killed"}]
    BY <1>5 DEF FInv
<1>7. ASSUME NEW i \in Jobs
      PROVE  /\ pc'[i] \in {"ready", "launching"} => pc[i] \in {"ready", "launching"}
             /\ pc'[i] = "launching" => pc[i] = "launching"
    BY <1>5 DEF FInv
<1>8. QED
    BY <1>3, <1>4, <1>6, <1>7 DEF FInv

LEMMA CrashTypes == ASSUME FInv, Crash PROVE FInv'
<1>1. UNCHANGED <<serves, script, launches>>
    BY DEF Crash
<1>2. crashes' \in 0 .. MaxCrashes
    BY BoundsAssumption DEF FInv, Crash
<1>3. pc' = [j \in Jobs |-> IF pc[j] = "waiting" THEN "waiting" ELSE "killed"]
    BY DEF Crash
<1>4. /\ disk' \in [Files -> Content \cup {None}]
      /\ failures' \in 0 .. MaxFailures
      /\ unfetched' \subseteq Potentials /\ cutOff' \subseteq Potentials
  <2>1. CASE UNCHANGED <<disk, failures, unfetched, cutOff>>
      BY <2>1 DEF FInv
  <2>2. CASE \E j \in Jobs : /\ pc[j] = "ready"
                             /\ \E outcome \in [Missing(serves[j], disk) -> Outcomes] :
                                    Fetch(serves[j], outcome)
    <3>1. PICK j \in Jobs : /\ pc[j] = "ready"
                           /\ \E outcome \in [Missing(serves[j], disk) -> Outcomes] :
                                  Fetch(serves[j], outcome)
        BY <2>2
    <3>2. PICK outcome \in [Missing(serves[j], disk) -> Outcomes] : Fetch(serves[j], outcome)
        BY <3>1
    <3>3. serves[j] \in Potentials
        BY <3>1 DEF FInv
    <3>4. QED
        BY <3>2, <3>3, FetchTypes
  <2>3. QED
      BY <2>1, <2>2 DEF Crash
<1>5. QED
    BY <1>1, <1>2, <1>3, <1>4 DEF FInv

LEMMA InitTypes == Init => FInv
<1> SUFFICES ASSUME Init PROVE FInv
    OBVIOUS
<1>1. disk \in [Files -> Content \cup {None}]
  <2>1. ASSUME NEW f \in Files, Preloaded[f] # None
        PROVE  [of |-> Preloaded[f], whole |-> TRUE] \in Content
      BY <2>1, PreloadedAssumption DEF Content
  <2>2. QED
      BY <2>1 DEF Init
<1>2. QED
    BY <1>1, BoundsAssumption DEF Init, FInv

LEMMA Invariance == Spec => []FInv
<1>1. Init => FInv
    BY InitTypes
<1>2. FInv /\ [Next]_vars => FInv'
  <2> SUFFICES ASSUME FInv, [Next]_vars PROVE FInv'
      OBVIOUS
  <2>1. CASE UNCHANGED vars
      BY <2>1 DEF FInv, vars
  <2>2. CASE Next
      BY <2>2, StartTypes, ResolveTypes, LaunchTypes, CrashTypes DEF Next
  <2>3. QED
      BY <2>1, <2>2
<1>3. QED
    BY <1>1, <1>2, PTL DEF Spec

\* Types; a property that has been resolved has a script.
THEOREM TypeCorrectness == Spec => []TypeOK
BY Invariance, Implied, PTL

-----------------------------------------------------------------------------
(* Computing with the potential's own files.                               *)

\* With a file that the first strategies look for there, a potential is answered
\* one of its own names: those that guess by name are not reached.
LEMMA ResolvedOwn ==
    ASSUME NEW p \in Potentials, NEW before, NEW after, Present(before) \subseteq Present(after),
           OnDisk(p, before) # {} \/ (Meta[p].urls # <<>> /\ Meta[p].urls[1] \in Present(after)),
           NEW f \in Resolved(p, before, after)
    PROVE  f \in OwnNames(p) \cap Present(after)
<1>1. f \in Present(after) /\ f \in Files /\ f # None
    BY ResolvedIn, NoneAssumption DEF Present
<1>2. Meta[p].urls # <<>> => Meta[p].urls[1] \in Elements(Meta[p].urls)
    BY MetaFields DEF Elements
<1>3. OnDisk(p, before) # {} \/ Downloaded(p, after) # {}
    BY DEF Downloaded
<1>4. f \in OnDisk(p, before) \/ f \in Downloaded(p, after)
    BY <1>3 DEF Resolved
<1>5. OnDisk(p, before) \subseteq {Meta[p].pot_file} \cup Elements(Meta[p].coeff)
    BY DEF OnDisk, FirstPresent, Elements
<1>6. Downloaded(p, after) \subseteq {Meta[p].pot_file} \cup Elements(Meta[p].urls)
    BY <1>2 DEF Downloaded
<1>7. QED
    BY <1>1, <1>4, <1>5, <1>6 DEF OwnNames

\* The script of a potential that borrows none names its own files.
LEMMA ConfigOwn ==
    ASSUME NEW p \in Potentials, NEW d, ~Borrows(p),
           Meta[p].reads = "library" => Meta[p].urls[1] \in Present(d),
           NEW f \in OwnNames(p) \cap Present(d), NEW names \in PairConfigs(p, f, d)
    PROVE  names \subseteq (OwnNames(p) \cap Present(d)) \cup {None}
<1> DEFINE m == Meta[p]
           specific == IF Len(m.urls) >= 2 /\ m.urls[2] \in Present(d) THEN m.urls[2] ELSE f
           given == {IF g \in Present(d) THEN g ELSE None : g \in Elements(m.coeff)}
           mine == OwnNames(p) \cap Present(d)
<1>1. m.reads \in {"pot_file", "coeff", "library"} /\ None \notin Present(d)
    BY MetaFields, NoneAssumption DEF Present
<1>2. given \subseteq mine \cup {None}
    BY <1>1 DEF OwnNames
<1>3. ASSUME m.reads = "library" PROVE names = {m.urls[1], specific} /\ m.urls[1] \in mine /\ specific \in mine
  <2>1. m.urls # <<>> /\ Len(m.urls) >= 2
      BY <1>3, MetaFields DEF Borrows
  <2>2. {m.urls[1], m.urls[2]} \subseteq Elements(m.urls)
      BY <2>1, MetaFields DEF Elements
  <2>3. {m.urls[1]} \cap Present(d) = {m.urls[1]}
      BY <1>3
  <2>4. names \in {{l, specific} : l \in {m.urls[1]}}
      BY <1>3, <2>1, <2>3 DEF PairConfigs
  <2>5. m.urls[1] \in mine
      BY <1>1, <1>3, <2>2 DEF OwnNames
  <2>6. specific \in mine
      BY <1>1, <2>2 DEF OwnNames
  <2>7. QED
      BY <2>4, <2>5, <2>6
<1>4. m.reads = "pot_file" => names = {f}
    BY DEF PairConfigs
<1>5. m.reads = "coeff" => names = given
    BY DEF PairConfigs
<1> HIDE DEF specific, given
<1>6. QED
    BY <1>1, <1>2, <1>3, <1>4, <1>5

\* A property whose potential's first file is there and that borrows none,
\* and whose names nobody else's files hold, computes with this potential's
\* files alone.
THEOREM OwnFiles == Spec => OwnPreferred
<1> DEFINE Own == \A j \in Jobs :
              LET p == serves[j] IN
              (/\ pc[j] = "ready" /\ pc'[j] = "launching"
               /\ ~Borrows(p) /\ Meta[p].urls[1] \in Present(disk') /\ ~Shadowed(p, disk'))
              => \A f \in script'[j] \ {None} : disk'[f].of = p
<1>1. ASSUME FInv, Next PROVE Own
  <2> SUFFICES ASSUME NEW j \in Jobs, pc[j] = "ready", pc'[j] = "launching",
                      ~Borrows(serves[j]), Meta[serves[j]].urls[1] \in Present(disk'),
                      ~Shadowed(serves[j], disk'), NEW g \in script'[j] \ {None}
               PROVE  disk'[g].of = serves[j]
      OBVIOUS
  <2> DEFINE p == serves[j]
  <2>1. Resolve(j)
    <3>1. ~Crash
        BY DEF Crash
    <3>2. PICK i \in Jobs : Start(i) \/ Resolve(i) \/ Launch(i)
        BY <1>1, <3>1 DEF Next
    <3>3. pc \in [Jobs -> {"waiting", "ready", "launching", "killed"}]
        BY <1>1 DEF FInv
    <3>4. ~Start(i)
        BY <3>3 DEF Start
    <3>5. ~Launch(i)
        BY <3>3 DEF Launch
    <3>6. i = j
        BY <3>2, <3>3, <3>4, <3>5 DEF Resolve
    <3>7. QED
        BY <3>2, <3>4, <3>5, <3>6
  <2>2. p \in Potentials
      BY <1>1 DEF FInv
  <2>3. PICK outcome \in [Missing(p, disk) -> Outcomes] : Fetch(p, outcome)
      BY <2>1 DEF Resolve
  <2>4. Present(disk) \subseteq Present(disk')
      BY <1>1, <2>2, <2>3, FetchTypes
  <2>5. \E f \in Resolved(p, disk, disk') : \E names \in PairConfigs(p, f, disk') :
            script' = [script EXCEPT ![j] = names]
      BY <2>1 DEF Resolve
  <2>6. PICK f \in Resolved(p, disk, disk') : \E names \in PairConfigs(p, f, disk') :
            script' = [script EXCEPT ![j] = names]
      BY <2>5
  <2>7. PICK names \in PairConfigs(p, f, disk') : script' = [script EXCEPT ![j] = names]
      BY <2>6
  <2>8. f \in OwnNames(p) \cap Present(disk')
      BY <2>2, <2>4, <2>6, ResolvedOwn DEF Borrows
  <2>9. names \subseteq (OwnNames(p) \cap Present(disk')) \cup {None}
      BY <2>2, <2>7, <2>8, ConfigOwn
  <2>10. script'[j] = names
      BY <1>1, <2>7 DEF FInv
  <2>11. QED
      BY <2>9, <2>10 DEF Shadowed
<1>2. FInv /\ [Next]_vars => [Own]_vars
    BY <1>1
<1>3. QED
    BY <1>2, Invariance, PTL DEF Spec, OwnPreferred

-----------------------------------------------------------------------------
(* Why LAMMPS reads what it reads.  The invariant says it of the scripts    *)
(* that wait to be read, too, and says of the directory what the reasons    *)
(* need: a part of a file is of a cut download, and a file that this        *)
(* program downloaded for a potential came with all the others of its URL   *)
(* or one of them was refused.                                             *)

\* d, u and k stand for disk, unfetched and cutOff, before or after a step.
Foreign(p, d, u) == p \in u \/ Borrows(p) \/ Shadowed(p, d)
Explained(p, c, d, u, k) ==
    /\ c = None => Foreign(p, d, u) \/ Lacks(p)
    /\ c # None => (~c.whole => c.of \in k) /\ (c.of # p => Foreign(p, d, u))

WholeOrCut == \A f \in Present(disk) : ~disk[f].whole => disk[f].of \in cutOff
Together == \A f \in Present(disk) : Preloaded[f] = None =>
                \/ disk[f].of \in unfetched
                \/ Elements(Meta[disk[f].of].urls) \subseteq Present(disk)
ScriptExplained(j) ==
    pc[j] = "launching" =>
        \A f \in script[j] : (f # None => f \in Present(disk))
                           /\ Explained(serves[j], Reading(disk, f), disk, unfetched, cutOff)
LaunchesExplained(j) ==
    \A k \in 1 .. Len(launches[j]) : \A c \in launches[j][k] :
        Explained(serves[j], c, disk, unfetched, cutOff)
Fresh(j) == pc[j] = "waiting" => launches[j] = <<>>

EInv ==
    /\ FInv /\ WholeOrCut /\ Together
    /\ \A j \in Jobs : ScriptExplained(j) /\ LaunchesExplained(j) /\ Fresh(j)

\* What a step may do to the directory and the histories.
Grows ==
    /\ \A f \in Present(disk) : disk'[f] = disk[f]
    /\ Present(disk) \subseteq Present(disk')
    /\ unfetched \subseteq unfetched' /\ cutOff \subseteq cutOff'

\* An explanation stays one.
LEMMA StaysExplained ==
    ASSUME Grows, NEW p, NEW c, Explained(p, c, disk, unfetched, cutOff)
    PROVE  Explained(p, c, disk', unfetched', cutOff')
<1>1. Shadowed(p, disk) => Shadowed(p, disk')
    BY DEF Grows, Shadowed
<1>2. Foreign(p, disk, unfetched) => Foreign(p, disk', unfetched')
    BY <1>1 DEF Foreign, Grows
<1>3. QED
    BY <1>2 DEF Explained, Grows

\* What the downloads of a resolution leave behind.
LEMMA FetchExplained ==
    ASSUME EInv, NEW p \in Potentials, NEW outcome \in [Missing(p, disk) -> Outcomes],
           Fetch(p, outcome)
    PROVE  /\ Grows
           /\ p \in unfetched' \/ Missing(p, disk) \subseteq Present(disk')
           /\ WholeOrCut' /\ Together'
<1>1. disk' = Download(p, disk, outcome)
    BY DEF Fetch
<1>2. FInv /\ Present(disk) \subseteq Present(disk')
    BY FetchTypes DEF EInv
<1>3. Grows
  <2>1. \A f \in Present(disk) : disk'[f] = disk[f]
      BY <1>1, DownloadKeeps
  <2>2. unfetched \subseteq unfetched' /\ cutOff \subseteq cutOff'
      BY DEF Fetch
  <2>3. QED
      BY <1>2, <2>1, <2>2 DEF Grows
<1>4. ASSUME NEW f \in Files
      PROVE  disk'[f] = IF f \notin DOMAIN outcome \/ outcome[f] = "none" THEN disk[f]
                        ELSE [of |-> p, whole |-> outcome[f] = "ok"]
    BY <1>1 DEF Download
<1>5. Missing(p, disk) \subseteq Files
    BY MetaFields, ElementsIn DEF Missing
<1>6. p \in unfetched' \/ Missing(p, disk) \subseteq Present(disk')
  <2> SUFFICES ASSUME NEW f \in Missing(p, disk), p \notin unfetched' PROVE f \in Present(disk')
      OBVIOUS
  <2>1. outcome[f] # "none"
      BY DEF Fetch
  <2>2. disk'[f] = [of |-> p, whole |-> outcome[f] = "ok"]
      BY <1>4, <1>5, <2>1
  <2>3. [of |-> p, whole |-> outcome[f] = "ok"] # None
    <3>1. [of |-> p, whole |-> outcome[f] = "ok"] \in Content
        BY DEF Content
    <3>2. QED
        BY <3>1, NoneAssumption
  <2>4. QED
      BY <1>5, <2>2, <2>3 DEF Present
<1>7. ASSUME NEW f \in Present(disk'), f \notin Present(disk)
      PROVE  /\ f \in Missing(p, disk) /\ disk'[f].of = p
             /\ disk'[f].whole = (outcome[f] = "ok")
  <2>1. f \in Files /\ disk'[f] # disk[f]
      BY <1>7 DEF Present
  <2>2. f \in DOMAIN outcome /\ disk'[f] = [of |-> p, whole |-> outcome[f] = "ok"]
      BY <1>4, <2>1
  <2>3. QED
      BY <2>2
<1>8. WholeOrCut'
  <2> SUFFICES ASSUME NEW f \in Present(disk'), ~disk'[f].whole PROVE disk'[f].of \in cutOff'
      BY DEF WholeOrCut
  <2>1. CASE f \in Present(disk)
      BY <1>3, <2>1 DEF EInv, WholeOrCut, Grows
  <2>2. CASE f \notin Present(disk)
    <3>1. f \in Missing(p, disk) /\ disk'[f].of = p /\ outcome[f] # "ok"
        BY <1>7, <2>2
    <3>2. outcome[f] # "none"
        BY <1>4, <2>2, <3>1 DEF Present
    <3>3. outcome[f] = "cut off"
        BY <3>1, <3>2 DEF Outcomes
    <3>4. QED
        BY <3>1, <3>3 DEF Fetch
  <2>3. QED
      BY <2>1, <2>2
<1>9. ASSUME NEW f \in Present(disk'), Preloaded[f] = None
      PROVE  \/ disk'[f].of \in unfetched'
             \/ Elements(Meta[disk'[f].of].urls) \subseteq Present(disk')
  <2>1. CASE f \in Present(disk)
      BY <1>3, <1>9, <2>1 DEF EInv, Together, Grows
  <2>2. CASE f \notin Present(disk)
    <3>1. f \in Missing(p, disk) /\ disk'[f].of = p
        BY <1>7, <2>2
    <3>2. Elements(Meta[p].urls) \subseteq Missing(p, disk) \cup Present(disk)
        BY <3>1 DEF Missing
    <3>3. QED
        BY <1>2, <1>6, <3>1, <3>2
  <2>3. QED
      BY <2>1, <2>2
<1>10. QED
    BY <1>3, <1>6, <1>8, <1>9 DEF Together

\* Every name of a script but None is of a file that is there.
LEMMA ConfigThere ==
    ASSUME NEW p \in Potentials, NEW d, NEW f \in Present(d), NEW names \in PairConfigs(p, f, d),
           NEW g \in names, g # None
    PROVE  g \in Present(d)
<1>1. Meta[p].reads \in {"pot_file", "coeff", "library"}
    BY MetaFields
<1>2. CASE Meta[p].reads = "pot_file"
    BY <1>2 DEF PairConfigs
<1>3. CASE Meta[p].reads = "coeff"
  <2>1. names = {IF h \in Present(d) THEN h ELSE None : h \in Elements(Meta[p].coeff)}
      BY <1>3 DEF PairConfigs
  <2>2. QED
      BY <2>1
<1>4. CASE Meta[p].reads = "library"
  <2> DEFINE specific == IF Len(Meta[p].urls) >= 2 /\ Meta[p].urls[2] \in Present(d)
                         THEN Meta[p].urls[2] ELSE f
  <2>1. names = {f} \/ \E l \in Present(d) : names = {l, specific}
      BY <1>4 DEF PairConfigs
  <2>2. specific \in Present(d)
      OBVIOUS
  <2>3. QED
      BY <2>1, <2>2
<1>5. QED
    BY <1>1, <1>2, <1>3, <1>4

\* Only a file of pair_coeff that is not there leaves a script a bare name.
LEMMA ConfigNone ==
    ASSUME NEW p \in Potentials, NEW d, NEW f \in Present(d), NEW names \in PairConfigs(p, f, d),
           None \in names
    PROVE  Meta[p].reads = "coeff" /\ ~(Elements(Meta[p].coeff) \subseteq Present(d))
<1>1. Meta[p].reads \in {"pot_file", "coeff", "library"} /\ None \notin Present(d)
    BY MetaFields, NoneAssumption DEF Present
<1>2. Meta[p].reads # "pot_file"
    BY <1>1 DEF PairConfigs
<1>3. Meta[p].reads # "library"
  <2> SUFFICES ASSUME Meta[p].reads = "library" PROVE FALSE
      OBVIOUS
  <2> DEFINE specific == IF Len(Meta[p].urls) >= 2 /\ Meta[p].urls[2] \in Present(d)
                         THEN Meta[p].urls[2] ELSE f
  <2>1. names = {f} \/ \E l \in Present(d) : names = {l, specific}
      BY DEF PairConfigs
  <2>2. specific \in Present(d)
      OBVIOUS
  <2>3. QED
      BY <1>1, <2>1, <2>2
<1>4. names = {IF h \in Present(d) THEN h ELSE None : h \in Elements(Meta[p].coeff)}
    BY <1>1, <1>2, <1>3 DEF PairConfigs
<1>5. QED
    BY <1>1, <1>2, <1>3, <1>4

\* The script of a property that found a file, and the answer to one that found
\* none, are explained.
LEMMA ResolutionExplained ==
    ASSUME EInv, NEW p \in Potentials, NEW outcome \in [Missing(p, disk) -> Outcomes],
           Fetch(p, outcome)
    PROVE  /\ Resolved(p, disk, disk') = {} => Explained(p, None, disk', unfetched', cutOff')
           /\ \A f \in Resolved(p, disk, disk') : \A names \in PairConfigs(p, f, disk') :
                 \A g \in names : (g # None => g \in Present(disk'))
                                 /\ Explained(p, Reading(disk', g), disk', unfetched', cutOff')
<1>1. /\ Grows
      /\ p \in unfetched' \/ Missing(p, disk) \subseteq Present(disk')
      /\ WholeOrCut' /\ Together'
    BY FetchExplained
<1>2. Present(disk) \subseteq Present(disk')
    BY <1>1 DEF Grows
<1>3. Foreign(p, disk', unfetched') = (p \in unfetched' \/ Borrows(p) \/ Shadowed(p, disk'))
    BY DEF Foreign
<1>4. ASSUME ~Foreign(p, disk', unfetched'), OnDisk(p, disk) = {}
      PROVE  Elements(Meta[p].urls) \subseteq Present(disk')
  <2>1. Missing(p, disk) = Elements(Meta[p].urls) \ Present(disk)
      BY <1>4 DEF Missing
  <2>2. Missing(p, disk) \subseteq Present(disk')
      BY <1>1, <1>3, <1>4
  <2>3. QED
      BY <1>2, <2>1, <2>2
<1>5. ASSUME ~Foreign(p, disk', unfetched')
      PROVE  Meta[p].urls # <<>> /\ Meta[p].urls[1] \in Elements(Meta[p].urls)
  <2>1. Meta[p].urls # <<>>
      BY <1>3, <1>5 DEF Borrows
  <2>2. QED
      BY <2>1, MetaFields DEF Elements
<1>6. Resolved(p, disk, disk') = {} => Explained(p, None, disk', unfetched', cutOff')
  <2> SUFFICES ASSUME Resolved(p, disk, disk') = {}, ~Foreign(p, disk', unfetched') PROVE FALSE
      BY DEF Explained
  <2>1. OnDisk(p, disk) = {}
      BY DEF Resolved
  <2>2. Meta[p].urls # <<>> /\ Meta[p].urls[1] \in Present(disk')
      BY <1>4, <1>5, <2>1
  <2>3. Downloaded(p, disk') # {}
      BY <2>2 DEF Downloaded
  <2>4. QED
      BY <2>1, <2>3 DEF Resolved
<1>7. ASSUME NEW f \in Resolved(p, disk, disk'), NEW names \in PairConfigs(p, f, disk'),
             NEW g \in names
      PROVE  g # None => g \in Present(disk')
  <2>1. f \in Present(disk')
      BY <1>2, ResolvedIn
  <2>2. QED
      BY <2>1, ConfigThere
<1>8. ASSUME NEW f \in Resolved(p, disk, disk'), NEW names \in PairConfigs(p, f, disk'),
             NEW g \in names, ~Foreign(p, disk', unfetched')
      PROVE  g \in (OwnNames(p) \cap Present(disk')) \cup {None}
  <2>1. OnDisk(p, disk) # {} \/ (Meta[p].urls # <<>> /\ Meta[p].urls[1] \in Present(disk'))
      BY <1>4, <1>5, <1>8
  <2>2. f \in OwnNames(p) \cap Present(disk')
      BY <1>2, <2>1, ResolvedOwn
  <2>3. Meta[p].reads = "library" => OnDisk(p, disk) = {}
    <3>1. Meta[p].reads = "library" => Meta[p].coeff = <<>> /\ ~Meta[p].absolute
        BY <1>3, <1>8, CoeffAssumption DEF Borrows
    <3>2. FirstPresent(<<>>, disk) = {}
        BY DEF FirstPresent
    <3>3. QED
        BY <3>1, <3>2 DEF OnDisk
  <2>4. Meta[p].reads = "library" => Meta[p].urls[1] \in Present(disk')
      BY <1>4, <1>5, <1>8, <2>3
  <2>5. QED
      BY <1>3, <1>8, <2>2, <2>4, ConfigOwn
<1>9. ASSUME NEW f \in Resolved(p, disk, disk'), NEW names \in PairConfigs(p, f, disk'),
             None \in names, ~Foreign(p, disk', unfetched'), ~Lacks(p)
      PROVE  FALSE
  <2>1. f \in Present(disk')
      BY <1>2, ResolvedIn
  <2>2. Meta[p].reads = "coeff" /\ ~(Elements(Meta[p].coeff) \subseteq Present(disk'))
      BY <1>9, <2>1, ConfigNone
  <2>3. ~Meta[p].absolute /\ Elements(Meta[p].coeff) \subseteq Elements(Meta[p].urls)
      BY <1>9, <2>2 DEF Lacks
  <2>4. CASE OnDisk(p, disk) = {}
      BY <1>4, <1>9, <2>2, <2>3, <2>4
  <2>5. CASE OnDisk(p, disk) # {}
    <3>1. PICK h \in Elements(Meta[p].coeff) : h \in Present(disk)
        BY <2>3, <2>5 DEF OnDisk, FirstPresent, Elements
    <3>2. Preloaded[h] = None
        BY <1>9, <2>2, <3>1 DEF Lacks
    <3>3. h \in OwnNames(p) \cap Present(disk')
        BY <1>2, <3>1, NoneAssumption DEF OwnNames, Present
    <3>4. disk'[h].of = p
        BY <1>3, <1>9, <3>3 DEF Shadowed
    <3>5. Elements(Meta[p].urls) \subseteq Present(disk')
        BY <1>1, <1>3, <1>9, <3>2, <3>3, <3>4 DEF Together
    <3>6. QED
        BY <2>2, <2>3, <3>5
  <2>6. QED
      BY <2>4, <2>5
<1>10. ASSUME NEW f \in Resolved(p, disk, disk'), NEW names \in PairConfigs(p, f, disk'),
              NEW g \in names
       PROVE  Explained(p, Reading(disk', g), disk', unfetched', cutOff')
  <2>1. CASE g = None
      BY <1>9, <2>1 DEF Explained, Reading
  <2>2. CASE g # None
    <3>1. g \in Present(disk') /\ Reading(disk', g) = disk'[g] /\ disk'[g] # None
        BY <1>7, <2>2 DEF Reading, Present
    <3>2. ~disk'[g].whole => disk'[g].of \in cutOff'
        BY <1>1, <3>1 DEF WholeOrCut
    <3>3. ~Foreign(p, disk', unfetched') => disk'[g].of = p
        BY <1>3, <1>8, <2>2 DEF Shadowed
    <3>4. QED
        BY <3>1, <3>2, <3>3 DEF Explained
  <2>3. QED
      BY <2>1, <2>2
<1>11. QED
    BY <1>6, <1>7, <1>10

\* What was explained of a job before a step still is, where the step leaves it
\* alone.
LEMMA JobStays ==
    ASSUME EInv, Grows, NEW j \in Jobs, serves'[j] = serves[j]
    PROVE  /\ launches'[j] = launches[j] => LaunchesExplained(j)'
           /\ pc'[j] = pc[j] /\ script'[j] = script[j] => ScriptExplained(j)'
<1> DEFINE q == serves[j]
<1>1. \A c : Explained(q, c, disk, unfetched, cutOff) => Explained(q, c, disk', unfetched', cutOff')
    BY StaysExplained
<1>2. ASSUME launches'[j] = launches[j] PROVE LaunchesExplained(j)'
    BY <1>1, <1>2 DEF EInv, LaunchesExplained
<1>3. ASSUME pc'[j] = pc[j], script'[j] = script[j] PROVE ScriptExplained(j)'
  <2> SUFFICES ASSUME pc[j] = "launching", NEW f \in script[j]
               PROVE  /\ f # None => f \in Present(disk')
                      /\ Explained(q, Reading(disk', f), disk', unfetched', cutOff')
      BY <1>3 DEF ScriptExplained
  <2>1. /\ f # None => f \in Present(disk)
        /\ Explained(q, Reading(disk, f), disk, unfetched, cutOff)
      BY DEF EInv, ScriptExplained
  <2>2. Reading(disk', f) = Reading(disk, f) /\ (f # None => f \in Present(disk'))
      BY <2>1 DEF Reading, Grows
  <2>3. QED
      BY <1>1, <2>1, <2>2
<1>4. QED
    BY <1>2, <1>3

LEMMA InitExplained == Init => EInv
<1> SUFFICES ASSUME Init PROVE EInv
    OBVIOUS
<1>1. FInv
    BY InitTypes
<1>2. ASSUME NEW f \in Present(disk) PROVE Preloaded[f] # None /\ disk[f].whole
    BY DEF Init, Present
<1>3. \A j \in Jobs : pc[j] = "waiting" /\ launches[j] = <<>>
    BY DEF Init
<1>4. QED
    BY <1>1, <1>2, <1>3
       DEF EInv, WholeOrCut, Together, ScriptExplained, LaunchesExplained, Fresh

LEMMA StartExplained == ASSUME EInv, NEW j \in Jobs, Start(j) PROVE EInv'
<1>1. FInv /\ FInv'
    BY StartTypes DEF EInv
<1>2. UNCHANGED <<disk, script, launches, unfetched, cutOff>>
    BY DEF Start
<1>3. WholeOrCut' /\ Together' /\ Grows
    BY <1>2 DEF EInv, WholeOrCut, Together, Grows
<1>4. pc[j] = "waiting" /\ launches[j] = <<>> /\ pc'[j] = "ready"
    BY <1>1 DEF Start, FInv, EInv, Fresh
<1>5. ASSUME NEW i \in Jobs PROVE (ScriptExplained(i) /\ LaunchesExplained(i) /\ Fresh(i))'
  <2>1. CASE i = j
      BY <1>2, <1>4, <2>1 DEF ScriptExplained, LaunchesExplained, Fresh
  <2>2. CASE i # j
    <3>1. serves'[i] = serves[i] /\ pc'[i] = pc[i]
        BY <1>1, <2>2 DEF Start, FInv
    <3>2. QED
        BY <1>2, <1>3, <3>1, JobStays DEF EInv, Fresh
  <2>3. QED
      BY <2>1, <2>2
<1>6. QED
    BY <1>1, <1>3, <1>5 DEF EInv

\* One more entry, if it is explained, keeps a job's entries explained.
LEMMA EntryExplained ==
    ASSUME EInv, Grows, NEW j \in Jobs, NEW read \in Reads, serves'[j] = serves[j],
           launches'[j] = Append(launches[j], read),
           \A c \in read : Explained(serves[j], c, disk', unfetched', cutOff')
    PROVE  LaunchesExplained(j)'
<1> DEFINE q == serves[j]
<1>1. launches[j] \in Seq(Reads)
    BY DEF EInv, FInv
<1>2. \A c : Explained(q, c, disk, unfetched, cutOff) => Explained(q, c, disk', unfetched', cutOff')
    BY StaysExplained
<1>3. SUFFICES ASSUME NEW k \in 1 .. Len(launches[j]) + 1, NEW c \in Append(launches[j], read)[k]
               PROVE  Explained(q, c, disk', unfetched', cutOff')
    BY <1>1 DEF LaunchesExplained
<1>4. CASE k \in 1 .. Len(launches[j])
  <2>1. c \in launches[j][k]
      BY <1>1, <1>3, <1>4
  <2>2. QED
      BY <1>2, <1>4, <2>1 DEF EInv, LaunchesExplained
<1>5. CASE k = Len(launches[j]) + 1
    BY <1>1, <1>3, <1>5
<1>6. QED
    BY <1>1, <1>4, <1>5

LEMMA ResolveExplained == ASSUME EInv, NEW j \in Jobs, Resolve(j) PROVE EInv'
<1>1. FInv /\ FInv'
    BY ResolveTypes DEF EInv
<1>2. PICK p \in Potentials : serves[j] = p
    BY <1>1 DEF FInv, Resolve
<1>3. PICK outcome \in [Missing(p, disk) -> Outcomes] : Fetch(p, outcome)
    BY <1>2 DEF Resolve
<1>4. Grows /\ WholeOrCut' /\ Together'
    BY <1>2, <1>3, FetchExplained
<1>5. UNCHANGED serves /\ pc[j] = "ready"
    BY DEF Resolve
<1>6. ASSUME NEW i \in Jobs, i # j
      PROVE  (ScriptExplained(i) /\ LaunchesExplained(i) /\ Fresh(i))'
  <2>1. pc'[i] = pc[i] /\ script'[i] = script[i] /\ launches'[i] = launches[i]
      BY <1>1, <1>6 DEF Resolve, Launched, FInv
  <2>2. QED
      BY <1>4, <1>5, <2>1, JobStays DEF EInv, Fresh
<1>7. CASE Resolved(p, disk, disk') = {} /\ Launched(j, {None}) /\ UNCHANGED <<pc, script>>
  <2>1. Explained(p, None, disk', unfetched', cutOff')
      BY <1>3, <1>7, ResolutionExplained
  <2>2. launches'[j] = Append(launches[j], {None}) /\ {None} \in Reads
      BY <1>1, <1>7 DEF Launched, FInv, Reads
  <2>3. LaunchesExplained(j)'
      BY <1>2, <1>4, <1>5, <2>1, <2>2, EntryExplained
  <2>4. (ScriptExplained(j) /\ Fresh(j))'
      BY <1>5, <1>7 DEF ScriptExplained, Fresh
  <2>5. QED
      BY <1>1, <1>4, <1>6, <2>3, <2>4 DEF EInv
<1>8. CASE /\ \E f \in Resolved(p, disk, disk') : \E names \in PairConfigs(p, f, disk') :
                  script' = [script EXCEPT ![j] = names]
           /\ pc' = [pc EXCEPT ![j] = "launching"]
           /\ UNCHANGED launches
  <2>1. PICK f \in Resolved(p, disk, disk') : \E names \in PairConfigs(p, f, disk') :
                  script' = [script EXCEPT ![j] = names]
      BY <1>8
  <2>2. PICK names \in PairConfigs(p, f, disk') : script' = [script EXCEPT ![j] = names]
      BY <2>1
  <2>3. script'[j] = names /\ pc'[j] = "launching"
      BY <1>1, <1>8, <2>2 DEF FInv
  <2>4. \A g \in names : (g # None => g \in Present(disk'))
                       /\ Explained(p, Reading(disk', g), disk', unfetched', cutOff')
      BY <1>3, <2>1, <2>2, ResolutionExplained
  <2>5. ScriptExplained(j)'
      BY <1>2, <1>5, <2>3, <2>4 DEF ScriptExplained
  <2>6. LaunchesExplained(j)'
      BY <1>4, <1>5, <1>8, JobStays
  <2>7. Fresh(j)'
      BY <2>3 DEF Fresh
  <2>8. QED
      BY <1>1, <1>4, <1>6, <2>5, <2>6, <2>7 DEF EInv
<1>9. QED
    BY <1>2, <1>7, <1>8 DEF Resolve

LEMMA LaunchExplained == ASSUME EInv, NEW j \in Jobs, Launch(j) PROVE EInv'
<1> DEFINE read == {Reading(disk, f) : f \in script[j]}
<1>1. FInv /\ FInv'
    BY LaunchTypes DEF EInv
<1>2. UNCHANGED <<disk, serves, script, unfetched, cutOff>> /\ Launched(j, read)
    BY DEF Launch
<1>3. pc[j] = "launching" /\ pc' \in {pc, [pc EXCEPT ![j] = "ready"]}
    BY DEF Launch
<1>4. WholeOrCut' /\ Together' /\ Grows
    BY <1>2 DEF EInv, WholeOrCut, Together, Grows
<1>5. \A c \in read : Explained(serves[j], c, disk, unfetched, cutOff)
    BY <1>3 DEF EInv, ScriptExplained
<1>6. launches'[j] = Append(launches[j], read) /\ launches'[j] \in Seq(Reads)
    BY <1>1, <1>2 DEF Launched, FInv
<1>7. read \in Reads
    BY <1>1, <1>3, ReadTypes
<1> HIDE DEF read
<1>8. LaunchesExplained(j)'
    BY <1>2, <1>4, <1>5, <1>6, <1>7, EntryExplained
<1>9. pc'[j] = pc[j] \/ pc'[j] = "ready"
    BY <1>1, <1>3 DEF FInv
<1>10. ScriptExplained(j)' /\ Fresh(j)'
  <2>1. CASE pc'[j] = pc[j]
      BY <1>2, <1>3, <1>4, <2>1, JobStays DEF Fresh
  <2>2. CASE pc'[j] = "ready"
      BY <2>2 DEF ScriptExplained, Fresh
  <2>3. QED
      BY <1>9, <2>1, <2>2
<1>11. ASSUME NEW i \in Jobs, i # j
       PROVE  (ScriptExplained(i) /\ LaunchesExplained(i) /\ Fresh(i))'
  <2>1. pc'[i] = pc[i] /\ launches'[i] = launches[i]
      BY <1>1, <1>2, <1>3, <1>11 DEF Launched, FInv
  <2>2. QED
      BY <1>2, <1>4, <2>1, JobStays DEF EInv, Fresh
<1>12. QED
    BY <1>1, <1>4, <1>8, <1>10, <1>11 DEF EInv

LEMMA CrashExplained == ASSUME EInv, Crash PROVE EInv'
<1>1. FInv /\ FInv'
    BY CrashTypes DEF EInv
<1>2. UNCHANGED <<serves, script, launches>>
    BY DEF Crash
<1>3. Grows /\ WholeOrCut' /\ Together'
  <2>1. CASE UNCHANGED <<disk, failures, unfetched, cutOff>>
      BY <2>1 DEF EInv, WholeOrCut, Together, Grows
  <2>2. CASE \E j \in Jobs : /\ pc[j] = "ready"
                             /\ \E outcome \in [Missing(serves[j], disk) -> Outcomes] :
                                    Fetch(serves[j], outcome)
    <3>1. PICK j \in Jobs : /\ pc[j] = "ready"
                           /\ \E outcome \in [Missing(serves[j], disk) -> Outcomes] :
                                  Fetch(serves[j], outcome)
        BY <2>2
    <3>2. PICK p \in Potentials : serves[j] = p
        BY <1>1, <3>1 DEF FInv
    <3>3. PICK outcome \in [Missing(p, disk) -> Outcomes] : Fetch(p, outcome)
        BY <3>1, <3>2
    <3>4. QED
        BY <3>2, <3>3, FetchExplained
  <2>3. QED
      BY <2>1, <2>2 DEF Crash
<1>4. ASSUME NEW i \in Jobs
      PROVE  (ScriptExplained(i) /\ LaunchesExplained(i) /\ Fresh(i))'
  <2>1. pc'[i] = (IF pc[i] = "waiting" THEN "waiting" ELSE "killed")
      BY DEF Crash
  <2>2. LaunchesExplained(i)'
      BY <1>2, <1>3, JobStays
  <2>3. ScriptExplained(i)'
      BY <2>1 DEF ScriptExplained
  <2>4. Fresh(i)'
      BY <1>2, <2>1 DEF EInv, Fresh
  <2>5. QED
      BY <2>2, <2>3, <2>4
<1>5. QED
    BY <1>1, <1>3, <1>4 DEF EInv

LEMMA EverExplained == Spec => []EInv
<1>1. Init => EInv
    BY InitExplained
<1>2. EInv /\ [Next]_vars => EInv'
  <2> SUFFICES ASSUME EInv, [Next]_vars PROVE EInv'
      OBVIOUS
  <2>1. CASE UNCHANGED vars
      BY <2>1 DEF vars, EInv, FInv, WholeOrCut, Together, ScriptExplained, LaunchesExplained, Fresh
  <2>2. CASE Next
      BY <2>2, StartExplained, ResolveExplained, LaunchExplained, CrashExplained DEF Next
  <2>3. QED
      BY <2>1, <2>2
<1>3. QED
    BY <1>1, <1>2, PTL DEF Spec

\* What a LAMMPS process reads is a whole file of its potential, or there is a
\* reason: a download was refused or cut off, or another potential's file goes
\* by one of its names, or its metadata does not lead to all of its files.
THEOREM ReadsExplained == Spec => []ReadExplained
<1>1. EInv => ReadExplained
    BY DEF EInv, LaunchesExplained, Explained, Foreign, ReadExplained
<1>2. QED
    BY <1>1, EverExplained, PTL

-----------------------------------------------------------------------------
(* Why the processes of a job read the same.  Once a potential is resolved  *)
(* without one of the reasons, nothing is downloaded for it any more, and   *)
(* what other potentials bring does not go by its names; so from then on    *)
(* there is one answer, which is what every later process of it reads.      *)

Excused(p, d, u) == Foreign(p, d, u) \/ Wavers(p)
Own(p, d) == OwnNames(p) \cap Present(d)
Settled(p, d) == OnDisk(p, d) # {} \/ Elements(Meta[p].urls) \subseteq Present(d)
Names(p, d) ==
    CASE Meta[p].reads = "pot_file" -> IF OnDisk(p, d) # {} THEN OnDisk(p, d) ELSE Downloaded(p, d)
      [] Meta[p].reads = "coeff" ->
            {IF g \in Present(d) THEN g ELSE None : g \in Elements(Meta[p].coeff)}
      [] Meta[p].reads = "library" -> {Meta[p].urls[1], Meta[p].urls[2]}
Output(p, d) == {Reading(d, f) : f \in Names(p, d)}
SettledFiles(j) ==
    pc[j] = "launching" \/ launches[j] # <<>> =>
        LET p == serves[j] IN
        /\ p \in Potentials
        /\ ~Excused(p, disk, unfetched) =>
              /\ Settled(p, disk)
              /\ pc[j] = "launching" => {Reading(disk, f) : f \in script[j]} = Output(p, disk)
              /\ \A k \in 1 .. Len(launches[j]) : launches[j][k] = Output(p, disk)

MInv == EInv /\ \A j \in Jobs : SettledFiles(j)

\* The file that a search through a list finds is one, and the same in two
\* directories that have the same of the list.
LEMMA FirstOne ==
    ASSUME NEW s \in Seq(Files), NEW d, NEW f \in FirstPresent(s, d), NEW g \in FirstPresent(s, d)
    PROVE  f = g
<1>1. PICK i \in 1 .. Len(s) : f = s[i] /\ s[i] \in Present(d)
                               /\ \A h \in 1 .. i - 1 : s[h] \notin Present(d)
    BY DEF FirstPresent
<1>2. PICK k \in 1 .. Len(s) : g = s[k] /\ s[k] \in Present(d)
                               /\ \A h \in 1 .. k - 1 : s[h] \notin Present(d)
    BY DEF FirstPresent
<1>3. Len(s) \in Nat
    OBVIOUS
<1>4. ~(i < k) /\ ~(k < i)
    BY <1>1, <1>2, <1>3
<1>5. i = k
    BY <1>3, <1>4
<1>6. QED
    BY <1>1, <1>2, <1>5

LEMMA FirstSame ==
    ASSUME NEW s \in Seq(Files), NEW d, NEW e,
           \A f \in Elements(s) : f \in Present(d) <=> f \in Present(e)
    PROVE  FirstPresent(s, d) = FirstPresent(s, e)
<1>1. \A i \in 1 .. Len(s) : s[i] \in Present(d) <=> s[i] \in Present(e)
    BY DEF Elements
<1>2. ASSUME NEW i \in 1 .. Len(s), NEW h \in 1 .. i - 1 PROVE h \in 1 .. Len(s)
    OBVIOUS
<1>3. QED
    BY <1>1, <1>2 DEF FirstPresent

LEMMA FirstLists ==
    ASSUME NEW s \in Seq(Files), NEW d
    PROVE  FirstPresent(s, d) \subseteq Elements(s) \cap Present(d)
BY DEF FirstPresent, Elements

\* If the first of a list is there it is found.
LEMMA FirstFound ==
    ASSUME NEW s \in Seq(Files), s # <<>>, NEW d, s[1] \in Present(d)
    PROVE  FirstPresent(s, d) = {s[1]}
<1>1. s[1] \in FirstPresent(s, d)
    BY DEF FirstPresent
<1>2. QED
    BY <1>1, FirstOne

\* Something is found if any of the list is there.
LEMMA FirstExists ==
    ASSUME NEW s \in Seq(Files), NEW d, NEW f \in Elements(s) \cap Present(d)
    PROVE  FirstPresent(s, d) # {}
<1> DEFINE T == {i \in 1 .. Len(s) : s[i] \in Present(d)}
           Less == {ss \in Nat \X Nat : ss[1] < ss[2]}
<1>1. IsWellFoundedOn(Less, Nat)
    BY NatLessThanWellFounded DEF OpToRel
<1>2. T \subseteq Nat /\ T # {}
    BY DEF Elements
<1> HIDE DEF T, Less
<1>3. PICK i \in T : \A h \in T : ~(<<h, i>> \in Less)
    BY <1>1, <1>2, WFMin
<1>4. i \in 1 .. Len(s) /\ s[i] \in Present(d)
    BY <1>3 DEF T
<1>5. \A h \in 1 .. i - 1 : s[h] \notin Present(d)
  <2> SUFFICES ASSUME NEW h \in 1 .. i - 1, s[h] \in Present(d) PROVE FALSE
      OBVIOUS
  <2>1. h \in T
      BY <1>4 DEF T
  <2>2. <<h, i>> \in Less
      BY <1>4 DEF Less
  <2>3. QED
      BY <1>3, <2>1, <2>2
<1>6. s[i] \in FirstPresent(s, d)
    BY <1>4, <1>5 DEF FirstPresent
<1>7. QED
    BY <1>6

LEMMA OnDiskOne ==
    ASSUME NEW p \in Potentials, NEW d, NEW f \in OnDisk(p, d) PROVE OnDisk(p, d) = {f}
BY MetaFields, FirstOne DEF OnDisk

LEMMA DownloadedOne ==
    ASSUME NEW p \in Potentials, NEW d, NEW f \in Downloaded(p, d) PROVE Downloaded(p, d) = {f}
BY DEF Downloaded

\* The answer depends on the files of the potential's names alone.
LEMMA OwnSame ==
    ASSUME NEW p \in Potentials, NEW d, NEW e, Own(p, d) = Own(p, e)
    PROVE  /\ OnDisk(p, d) = OnDisk(p, e) /\ Downloaded(p, d) = Downloaded(p, e)
           /\ Settled(p, d) <=> Settled(p, e)
           /\ Names(p, d) = Names(p, e)
<1> DEFINE m == Meta[p]
<1>1. None \notin Present(d) /\ None \notin Present(e)
    BY NoneAssumption DEF Present
<1>2. /\ \A f \in Elements(m.coeff) : f \in Present(d) <=> f \in Present(e)
      /\ \A f \in Elements(m.urls) : f \in Present(d) <=> f \in Present(e)
      /\ m.pot_file \in Present(d) <=> m.pot_file \in Present(e)
    BY <1>1 DEF Own, OwnNames
<1>3. FirstPresent(m.coeff, d) = FirstPresent(m.coeff, e)
    BY <1>2, MetaFields, FirstSame
<1>4. m.urls # <<>> => m.urls[1] \in Elements(m.urls)
    BY MetaFields DEF Elements
<1>5. OnDisk(p, d) = OnDisk(p, e)
    BY <1>2, <1>3 DEF OnDisk
<1>6. Downloaded(p, d) = Downloaded(p, e)
    BY <1>2, <1>4 DEF Downloaded
<1>7. Settled(p, d) <=> Settled(p, e)
    BY <1>2, <1>5 DEF Settled
<1>8. {IF g \in Present(d) THEN g ELSE None : g \in Elements(m.coeff)}
        = {IF g \in Present(e) THEN g ELSE None : g \in Elements(m.coeff)}
    BY <1>2
<1>9. Names(p, d) = Names(p, e)
    BY <1>5, <1>6, <1>8 DEF Names
<1>10. QED
    BY <1>5, <1>6, <1>7, <1>9

\* A potential without pair_coeff and an absolute pot_file finds nothing on disk.
LEMMA LibraryOnDisk ==
    ASSUME NEW p \in Potentials, Meta[p].reads = "library", ~Borrows(p), NEW d
    PROVE  /\ OnDisk(p, d) = {}
           /\ {Meta[p].urls[1], Meta[p].urls[2]} \subseteq Elements(Meta[p].urls)
<1>1. Meta[p].coeff = <<>> /\ ~Meta[p].absolute /\ Len(Meta[p].urls) >= 2
    BY CoeffAssumption, MetaFields DEF Borrows
<1>2. FirstPresent(<<>>, d) = {}
    BY DEF FirstPresent
<1>3. QED
    BY <1>1, <1>2, MetaFields DEF OnDisk, Elements

LEMMA NamesThere ==
    ASSUME NEW p \in Potentials, NEW d, Settled(p, d), ~Borrows(p), NEW f \in Names(p, d), f # None
    PROVE  f \in Present(d)
<1>1. OnDisk(p, d) \subseteq Present(d)
    BY FirstIn DEF OnDisk
<1>2. Downloaded(p, d) \subseteq Present(d)
    BY DEF Downloaded
<1>3. CASE Meta[p].reads = "pot_file"
    BY <1>1, <1>2, <1>3 DEF Names
<1>4. CASE Meta[p].reads = "coeff"
  <2>1. f \in {IF g \in Present(d) THEN g ELSE None : g \in Elements(Meta[p].coeff)}
      BY <1>4 DEF Names
  <2>2. QED
      BY <2>1
<1>5. CASE Meta[p].reads = "library"
  <2>1. f \in {Meta[p].urls[1], Meta[p].urls[2]}
      BY <1>5 DEF Names
  <2>2. QED
      BY <1>5, <2>1, LibraryOnDisk DEF Settled
<1>6. QED
    BY <1>3, <1>4, <1>5, MetaFields

LEMMA OutputStays ==
    ASSUME Grows, NEW p \in Potentials, ~Borrows(p), Settled(p, disk),
           Own(p, disk') = Own(p, disk)
    PROVE  Settled(p, disk') /\ Output(p, disk') = Output(p, disk)
<1>1. Settled(p, disk') /\ Names(p, disk') = Names(p, disk)
    BY OwnSame
<1>2. ASSUME NEW f \in Names(p, disk) PROVE Reading(disk', f) = Reading(disk, f)
  <2>1. f # None => disk'[f] = disk[f]
      BY NamesThere DEF Grows
  <2>2. QED
      BY <2>1 DEF Reading
<1>3. QED
    BY <1>1, <1>2 DEF Output

\* A file that a resolution brings was missing, and is of the potential resolved.
LEMMA NewFile ==
    ASSUME NEW q, NEW outcome \in [Missing(q, disk) -> Outcomes], Fetch(q, outcome),
           NEW f \in Present(disk'), f \notin Present(disk)
    PROVE  f \in Missing(q, disk) /\ disk'[f].of = q
<1>1. f \in Files /\ disk'[f] # disk[f]
    BY DEF Present
<1>2. disk'[f] = IF f \notin DOMAIN outcome \/ outcome[f] = "none" THEN disk[f]
                 ELSE [of |-> q, whole |-> outcome[f] = "ok"]
    BY <1>1 DEF Fetch, Download
<1>3. f \in DOMAIN outcome /\ disk'[f] = [of |-> q, whole |-> outcome[f] = "ok"]
    BY <1>1, <1>2
<1>4. QED
    BY <1>3

\* No resolution changes the answer for a settled potential, unless it gives a
\* reason.
LEMMA FetchKeeps ==
    ASSUME EInv, NEW q \in Potentials, NEW outcome \in [Missing(q, disk) -> Outcomes],
           Fetch(q, outcome),
           NEW p \in Potentials, Settled(p, disk), ~Shadowed(p, disk')
    PROVE  Own(p, disk') = Own(p, disk)
<1>1. Present(disk) \subseteq Present(disk')
    BY FetchTypes DEF EInv
<1>2. Missing(p, disk) = {}
    BY DEF Settled, Missing
<1>3. ASSUME NEW f \in Own(p, disk'), f \notin Present(disk) PROVE FALSE
  <2>1. f \in Present(disk') /\ f \in OwnNames(p)
      BY <1>3 DEF Own
  <2>2. f \in Missing(q, disk) /\ disk'[f].of = q
      BY <1>3, <2>1, NewFile
  <2>3. q = p
      BY <2>1, <2>2 DEF Shadowed
  <2>4. QED
      BY <1>2, <2>2, <2>3
<1>4. QED
    BY <1>1, <1>3 DEF Own

\* After the downloads of a potential that does not waver, looking on disk leads
\* to the file that looking after the downloads does.
LEMMA SearchesAgree ==
    ASSUME NEW p \in Potentials, Meta[p].reads = "pot_file", ~Wavers(p), ~Borrows(p),
           NEW before, NEW after, OnDisk(p, before) = {}, OnDisk(p, after) # {},
           Elements(Meta[p].urls) \subseteq Present(after),
           \A f \in Present(after) : f \notin Present(before) => f \in Elements(Meta[p].urls)
    PROVE  OnDisk(p, after) = Downloaded(p, after)
<1> DEFINE m == Meta[p]
           own == IF m.pot_file = None THEN m.urls[1] ELSE m.pot_file
<1>1. m.coeff \in Seq(Files) /\ m.urls \in Seq(Files) /\ None \notin Present(after)
    BY MetaFields, NoneAssumption DEF Present
<1>2. m.urls # <<>> /\ m.urls[1] \in Elements(m.urls)
    BY <1>1 DEF Borrows, Elements
<1>3. m.urls[1] \in Present(after)
    BY <1>2
<1>4. CASE m.absolute /\ m.pot_file \in Present(after)
    BY <1>2, <1>4 DEF OnDisk, Downloaded
<1>5. CASE ~(m.absolute /\ m.pot_file \in Present(after))
  <2>1. OnDisk(p, after) = FirstPresent(m.coeff, after)
      BY <1>5 DEF OnDisk
  <2>2. m.coeff # <<>>
      BY <2>1 DEF FirstPresent
  <2>3. /\ m.coeff[1] = own
        /\ own \in Elements(m.urls) \/ \A f \in Elements(m.coeff) \cap Elements(m.urls) : f = m.urls[1]
      BY <1>2, <2>2 DEF Wavers
  <2>4. CASE own \in Present(after)
    <3>1. FirstPresent(m.coeff, after) = {own}
        BY <1>1, <2>2, <2>3, <2>4, FirstFound
    <3>2. Downloaded(p, after) = {own}
        BY <1>1, <1>2, <1>3, <2>4 DEF Downloaded
    <3>3. QED
        BY <2>1, <3>1, <3>2
  <2>5. CASE own \notin Present(after)
    <3>1. m.pot_file \notin Present(after)
        BY <1>1, <2>5
    <3>2. Downloaded(p, after) = {m.urls[1]}
        BY <1>2, <1>3, <3>1 DEF Downloaded
    <3>3. PICK g \in FirstPresent(m.coeff, after) : TRUE
        BY <2>1
    <3>4. g \in Elements(m.coeff) \cap Present(after)
        BY <1>1, FirstLists
    <3>5. g \notin Present(before)
      <4>1. FirstPresent(m.coeff, before) = {}
          BY DEF OnDisk
      <4>2. QED
          BY <1>1, <3>4, <4>1, FirstExists
    <3>6. g = m.urls[1]
        BY <2>3, <2>5, <3>4, <3>5
    <3>7. FirstPresent(m.coeff, after) = {g}
        BY <1>1, <3>3, FirstOne
    <3>8. QED
        BY <2>1, <3>2, <3>6, <3>7
  <2>6. QED
      BY <2>4, <2>5
<1>6. QED
    BY <1>4, <1>5

\* A resolution without a reason settles its potential, and the script names the
\* files of the answer.
LEMMA Settling ==
    ASSUME EInv, NEW p \in Potentials, NEW outcome \in [Missing(p, disk) -> Outcomes],
           Fetch(p, outcome), ~Excused(p, disk', unfetched')
    PROVE  /\ Resolved(p, disk, disk') # {} /\ Settled(p, disk')
           /\ \A f \in Resolved(p, disk, disk') : \A names \in PairConfigs(p, f, disk') :
                 names = Names(p, disk')
<1> DEFINE m == Meta[p]
           file == IF OnDisk(p, disk') # {} THEN OnDisk(p, disk') ELSE Downloaded(p, disk')
<1>1. /\ p \notin unfetched' /\ ~Borrows(p) /\ ~Shadowed(p, disk') /\ ~Wavers(p)
    BY DEF Excused, Foreign
<1>2. Missing(p, disk) \subseteq Present(disk') /\ Present(disk) \subseteq Present(disk')
    BY <1>1, FetchExplained DEF Grows
<1>3. m.urls # <<>> /\ m.urls[1] \in Elements(m.urls)
    BY <1>1, MetaFields DEF Borrows, Elements
<1>4. m.reads = "library" => OnDisk(p, disk) = {}
    BY <1>1, LibraryOnDisk
<1>5. OnDisk(p, disk) = {} => Elements(m.urls) \subseteq Present(disk')
    BY <1>2 DEF Missing
<1>6. /\ Settled(p, disk') /\ Resolved(p, disk, disk') # {}
      /\ m.reads = "pot_file" => Resolved(p, disk, disk') = file
  <2>1. CASE OnDisk(p, disk) # {}
    <3>1. Own(p, disk') = Own(p, disk)
        BY <1>1, <2>1, FetchKeeps DEF Settled
    <3>2. OnDisk(p, disk') = OnDisk(p, disk)
        BY <3>1, OwnSame
    <3>3. Resolved(p, disk, disk') = OnDisk(p, disk)
        BY <2>1 DEF Resolved
    <3>4. QED
        BY <2>1, <3>2, <3>3 DEF Settled
  <2>2. CASE OnDisk(p, disk) = {}
    <3>1. Elements(m.urls) \subseteq Present(disk')
        BY <1>5, <2>2
    <3>2. Downloaded(p, disk') # {}
        BY <1>3, <3>1 DEF Downloaded
    <3>3. Resolved(p, disk, disk') = Downloaded(p, disk')
        BY <2>2, <3>2 DEF Resolved
    <3>4. ASSUME NEW f \in Present(disk'), f \notin Present(disk) PROVE f \in Elements(m.urls)
        BY <3>4, NewFile DEF Missing
    <3>5. m.reads = "pot_file" /\ OnDisk(p, disk') # {} => OnDisk(p, disk') = Downloaded(p, disk')
        BY <1>1, <2>2, <3>1, <3>4, SearchesAgree
    <3>6. QED
        BY <3>1, <3>2, <3>3, <3>5 DEF Settled
  <2>3. QED
      BY <2>1, <2>2
<1>7. ASSUME NEW f \in Resolved(p, disk, disk'), NEW names \in PairConfigs(p, f, disk')
      PROVE  names = Names(p, disk')
  <2>1. CASE m.reads = "pot_file"
    <3>1. names = {f}
        BY <2>1 DEF PairConfigs
    <3>2. f \in file
        BY <1>6, <2>1
    <3>3. file = {f}
        BY <3>2, OnDiskOne, DownloadedOne
    <3>4. Names(p, disk') = file
        BY <2>1 DEF Names
    <3>5. QED
        BY <3>1, <3>3, <3>4
  <2>2. CASE m.reads = "coeff"
    <3>1. names = {IF g \in Present(disk') THEN g ELSE None : g \in Elements(m.coeff)}
        BY <2>2 DEF PairConfigs
    <3>2. QED
        BY <2>2, <3>1 DEF Names
  <2>3. CASE m.reads = "library"
    <3>1. Len(m.urls) >= 2 /\ {m.urls[1], m.urls[2]} \subseteq Present(disk')
        BY <1>1, <1>4, <1>5, <2>3, LibraryOnDisk DEF Borrows
    <3>2. {m.urls[1]} \cap Present(disk') = {m.urls[1]}
        BY <3>1
    <3>3. names = {m.urls[1], m.urls[2]}
        BY <2>3, <3>1, <3>2 DEF PairConfigs
    <3>4. QED
        BY <2>3, <3>3 DEF Names
  <2>4. QED
      BY <2>1, <2>2, <2>3, MetaFields
<1>8. QED
    BY <1>6, <1>7

\* No step gives a settled potential another file without a reason.
Undisturbed ==
    \A p \in Potentials : Settled(p, disk) /\ ~Shadowed(p, disk') => Own(p, disk') = Own(p, disk)

LEMMA ExcusedStays ==
    ASSUME Grows, NEW p, Excused(p, disk, unfetched) PROVE Excused(p, disk', unfetched')
<1>1. Shadowed(p, disk) => Shadowed(p, disk')
    BY DEF Grows, Shadowed
<1>2. QED
    BY <1>1 DEF Excused, Foreign, Grows

LEMMA AnswerStays ==
    ASSUME Grows, Undisturbed, NEW p \in Potentials, ~Excused(p, disk', unfetched'),
           Settled(p, disk)
    PROVE  Settled(p, disk') /\ Output(p, disk') = Output(p, disk)
<1>1. ~Borrows(p) /\ ~Shadowed(p, disk')
    BY DEF Excused, Foreign
<1>2. Own(p, disk') = Own(p, disk)
    BY <1>1 DEF Undisturbed
<1>3. QED
    BY <1>1, <1>2, OutputStays

\* What a job has read, and what its script names, stays the answer.
LEMMA SettledStays ==
    ASSUME EInv, Grows, Undisturbed, NEW j \in Jobs, SettledFiles(j),
           serves'[j] = serves[j], launches'[j] = launches[j], script'[j] = script[j],
           pc'[j] = "launching" => pc[j] = "launching"
    PROVE  SettledFiles(j)'
<1> DEFINE p == serves[j]
<1> SUFFICES ASSUME pc'[j] = "launching" \/ launches[j] # <<>>
             PROVE  /\ p \in Potentials
                    /\ ~Excused(p, disk', unfetched') =>
                          /\ Settled(p, disk')
                          /\ pc'[j] = "launching" =>
                                {Reading(disk', f) : f \in script[j]} = Output(p, disk')
                          /\ \A k \in 1 .. Len(launches[j]) : launches[j][k] = Output(p, disk')
    BY DEF SettledFiles
<1>1. /\ p \in Potentials
      /\ ~Excused(p, disk, unfetched) =>
            /\ Settled(p, disk)
            /\ pc[j] = "launching" => {Reading(disk, f) : f \in script[j]} = Output(p, disk)
            /\ \A k \in 1 .. Len(launches[j]) : launches[j][k] = Output(p, disk)
    BY DEF SettledFiles
<1>2. ASSUME ~Excused(p, disk', unfetched')
      PROVE  /\ Settled(p, disk')
             /\ pc'[j] = "launching" => {Reading(disk', f) : f \in script[j]} = Output(p, disk')
             /\ \A k \in 1 .. Len(launches[j]) : launches[j][k] = Output(p, disk')
  <2>1. ~Excused(p, disk, unfetched)
      BY <1>2, ExcusedStays
  <2>2. Settled(p, disk') /\ Output(p, disk') = Output(p, disk)
      BY <1>1, <1>2, <2>1, AnswerStays
  <2>3. ASSUME pc[j] = "launching", NEW f \in script[j] PROVE Reading(disk', f) = Reading(disk, f)
      BY <2>3 DEF EInv, ScriptExplained, Reading, Grows
  <2>4. pc[j] = "launching" =>
            {Reading(disk', f) : f \in script[j]} = {Reading(disk, f) : f \in script[j]}
      BY <2>3
  <2>5. QED
      BY <1>1, <2>1, <2>2, <2>4
<1>3. QED
    BY <1>1, <1>2

LEMMA SameDisk ==
    ASSUME UNCHANGED <<disk, unfetched, cutOff>> PROVE Grows /\ Undisturbed
<1>1. Grows
    BY DEF Grows
<1>2. Undisturbed
    BY DEF Undisturbed, Own
<1>3. QED
    BY <1>1, <1>2

LEMMA FetchUndisturbed ==
    ASSUME EInv, NEW q \in Potentials, NEW outcome \in [Missing(q, disk) -> Outcomes],
           Fetch(q, outcome)
    PROVE  Grows /\ Undisturbed
<1>1. Grows
    BY FetchExplained
<1>2. Undisturbed
    BY FetchKeeps DEF Undisturbed
<1>3. QED
    BY <1>1, <1>2

LEMMA InitMixed == ASSUME Init PROVE \A j \in Jobs : SettledFiles(j)
BY DEF Init, SettledFiles

LEMMA StartMixed ==
    ASSUME MInv, NEW j \in Jobs, Start(j), NEW i \in Jobs PROVE SettledFiles(i)'
<1>1. FInv /\ EInv /\ SettledFiles(i)
    BY DEF MInv, EInv
<1>2. UNCHANGED <<disk, script, launches, unfetched, cutOff>>
    BY DEF Start
<1>3. CASE i = j
  <2>1. pc[j] = "waiting" /\ pc'[j] = "ready"
      BY <1>1 DEF Start, FInv
  <2>2. launches'[j] = <<>>
      BY <1>1, <1>2, <2>1 DEF EInv, Fresh
  <2>3. QED
      BY <1>3, <2>1, <2>2 DEF SettledFiles
<1>4. CASE i # j
  <2>1. serves'[i] = serves[i] /\ pc'[i] = pc[i]
      BY <1>1, <1>4 DEF Start, FInv
  <2>2. Grows /\ Undisturbed
      BY <1>2, SameDisk
  <2>3. launches'[i] = launches[i] /\ script'[i] = script[i]
      BY <1>2
  <2>4. QED
      BY <1>1, <2>1, <2>2, <2>3, SettledStays
<1>5. QED
    BY <1>3, <1>4

LEMMA ResolveMixed ==
    ASSUME MInv, NEW j \in Jobs, Resolve(j), NEW i \in Jobs PROVE SettledFiles(i)'
<1>1. FInv /\ EInv /\ SettledFiles(i)
    BY DEF MInv, EInv
<1>2. PICK p \in Potentials : serves[j] = p
    BY <1>1 DEF FInv, Resolve
<1>3. PICK outcome \in [Missing(p, disk) -> Outcomes] : Fetch(p, outcome)
    BY <1>2 DEF Resolve
<1>4. Grows /\ Undisturbed
    BY <1>1, <1>2, <1>3, FetchUndisturbed
<1>5. UNCHANGED serves /\ pc[j] = "ready"
    BY DEF Resolve
<1>6. CASE i # j
  <2>1. pc'[i] = pc[i] /\ script'[i] = script[i] /\ launches'[i] = launches[i]
      BY <1>1, <1>6 DEF Resolve, Launched, FInv
  <2>2. QED
      BY <1>1, <1>4, <1>5, <2>1, SettledStays
<1>7. CASE i = j /\ Resolved(p, disk, disk') = {}
  <2>1. Excused(p, disk', unfetched')
      BY <1>1, <1>3, <1>7, Settling
  <2>2. QED
      BY <1>2, <1>5, <1>7, <2>1 DEF SettledFiles
<1>8. CASE /\ i = j
           /\ \E f \in Resolved(p, disk, disk') : \E names \in PairConfigs(p, f, disk') :
                  script' = [script EXCEPT ![j] = names]
           /\ pc' = [pc EXCEPT ![j] = "launching"]
           /\ UNCHANGED launches
  <2>1. PICK f \in Resolved(p, disk, disk') : \E names \in PairConfigs(p, f, disk') :
                  script' = [script EXCEPT ![j] = names]
      BY <1>8
  <2>2. PICK names \in PairConfigs(p, f, disk') : script' = [script EXCEPT ![j] = names]
      BY <2>1
  <2>3. script'[j] = names
      BY <1>1, <2>2 DEF FInv
  <2>4. ASSUME ~Excused(p, disk', unfetched')
        PROVE  /\ Settled(p, disk')
               /\ {Reading(disk', g) : g \in script'[j]} = Output(p, disk')
               /\ \A k \in 1 .. Len(launches[j]) : launches[j][k] = Output(p, disk')
    <3>1. Settled(p, disk') /\ names = Names(p, disk')
        BY <1>1, <1>3, <2>1, <2>2, <2>4, Settling
    <3>2. {Reading(disk', g) : g \in script'[j]} = Output(p, disk')
        BY <2>3, <3>1 DEF Output
    <3>3. ASSUME NEW k \in 1 .. Len(launches[j]) PROVE launches[j][k] = Output(p, disk')
      <4>1. launches[j] # <<>>
          OBVIOUS
      <4>2. ~Excused(p, disk, unfetched)
          BY <1>4, <2>4, ExcusedStays
      <4>3. Settled(p, disk) /\ launches[j][k] = Output(p, disk)
          BY <1>1, <1>2, <1>8, <4>1, <4>2 DEF SettledFiles
      <4>4. Output(p, disk') = Output(p, disk)
          BY <1>2, <1>4, <2>4, <4>3, AnswerStays
      <4>5. QED
          BY <4>3, <4>4
    <3>4. QED
        BY <3>1, <3>2, <3>3
  <2>5. QED
      BY <1>2, <1>5, <1>8, <2>4 DEF SettledFiles
<1>9. QED
    BY <1>2, <1>6, <1>7, <1>8 DEF Resolve

LEMMA LaunchMixed ==
    ASSUME MInv, NEW j \in Jobs, Launch(j), NEW i \in Jobs PROVE SettledFiles(i)'
<1> DEFINE read == {Reading(disk, f) : f \in script[j]}
           p == serves[j]
<1>1. FInv /\ FInv' /\ EInv /\ SettledFiles(i)
    BY LaunchTypes DEF MInv, EInv
<1>2. UNCHANGED <<disk, serves, script, unfetched, cutOff>> /\ Launched(j, read)
    BY DEF Launch
<1>3. pc[j] = "launching" /\ pc' \in {pc, [pc EXCEPT ![j] = "ready"]}
    BY DEF Launch
<1>4. CASE i # j
  <2>1. pc'[i] = pc[i] /\ launches'[i] = launches[i]
      BY <1>1, <1>2, <1>3, <1>4 DEF Launched, FInv
  <2>2. Grows /\ Undisturbed
      BY <1>2, SameDisk
  <2>3. serves'[i] = serves[i] /\ script'[i] = script[i]
      BY <1>2
  <2>4. QED
      BY <1>1, <2>1, <2>2, <2>3, SettledStays
<1>5. CASE i = j
  <2>1. launches'[j] = Append(launches[j], read) /\ launches[j] \in Seq(Reads)
      BY <1>1, <1>2 DEF Launched, FInv
  <2>2. /\ p \in Potentials
        /\ ~Excused(p, disk, unfetched) =>
              /\ Settled(p, disk) /\ read = Output(p, disk)
              /\ \A k \in 1 .. Len(launches[j]) : launches[j][k] = Output(p, disk)
      BY <1>1, <1>3, <1>5 DEF SettledFiles
  <2>3. read \in Reads
      BY <1>1, ReadTypes
  <2> HIDE DEF read
  <2>4. ASSUME ~Excused(p, disk, unfetched), NEW k \in 1 .. Len(launches'[j])
        PROVE  launches'[j][k] = Output(p, disk)
    <3>1. k \in 1 .. Len(launches[j]) + 1
        BY <2>1, <2>3, <2>4
    <3>2. CASE k \in 1 .. Len(launches[j])
        BY <2>1, <2>2, <2>3, <2>4, <3>2
    <3>3. CASE k = Len(launches[j]) + 1
        BY <2>1, <2>2, <2>3, <2>4, <3>3
    <3>4. QED
        BY <2>1, <3>1, <3>2, <3>3
  <2>5. QED
      BY <1>2, <1>5, <2>2, <2>4 DEF SettledFiles, read
<1>6. QED
    BY <1>4, <1>5

LEMMA CrashMixed == ASSUME MInv, Crash, NEW i \in Jobs PROVE SettledFiles(i)'
<1>1. FInv /\ EInv /\ SettledFiles(i)
    BY DEF MInv, EInv
<1>2. serves'[i] = serves[i] /\ script'[i] = script[i] /\ launches'[i] = launches[i]
    BY DEF Crash
<1>3. Grows /\ Undisturbed
  <2>1. CASE UNCHANGED <<disk, failures, unfetched, cutOff>>
      BY <2>1, SameDisk
  <2>2. CASE \E j \in Jobs : /\ pc[j] = "ready"
                             /\ \E outcome \in [Missing(serves[j], disk) -> Outcomes] :
                                    Fetch(serves[j], outcome)
    <3>1. PICK j \in Jobs : /\ pc[j] = "ready"
                           /\ \E outcome \in [Missing(serves[j], disk) -> Outcomes] :
                                  Fetch(serves[j], outcome)
        BY <2>2
    <3>2. PICK p \in Potentials : serves[j] = p
        BY <1>1, <3>1 DEF FInv
    <3>3. PICK outcome \in [Missing(p, disk) -> Outcomes] : Fetch(p, outcome)
        BY <3>1, <3>2
    <3>4. QED
        BY <1>1, <3>3, FetchUndisturbed
  <2>3. QED
      BY <2>1, <2>2 DEF Crash
<1>4. pc'[i] # "launching"
    BY DEF Crash
<1>5. QED
    BY <1>1, <1>2, <1>3, <1>4, SettledStays

\* Two processes of one job compute with different files only for one of the
\* named reasons: a download was refused, the metadata leaves a file to guess or
\* names it differently before and after the downloads, or another potential's
\* file goes by one of its names.
THEOREM SameFiles == Spec => []MixedExplained
<1>1. Init => \A j \in Jobs : SettledFiles(j)
    BY InitMixed
<1>2. EInv /\ EInv' /\ (\A j \in Jobs : SettledFiles(j)) /\ [Next]_vars
        => (\A j \in Jobs : SettledFiles(j))'
  <2> SUFFICES ASSUME MInv, [Next]_vars, NEW i \in Jobs PROVE SettledFiles(i)'
      BY DEF MInv
  <2>1. CASE UNCHANGED vars
      BY <2>1 DEF vars, MInv, SettledFiles
  <2>2. CASE Next
      BY <2>2, StartMixed, ResolveMixed, LaunchMixed, CrashMixed DEF Next
  <2>3. QED
      BY <2>1, <2>2
<1>3. EInv /\ (\A j \in Jobs : SettledFiles(j)) => MixedExplained
  <2> SUFFICES ASSUME EInv, \A j \in Jobs : SettledFiles(j), NEW j \in Jobs,
                      NEW h \in 1 .. Len(launches[j]), NEW k \in 1 .. Len(launches[j]),
                      launches[j][h] # launches[j][k]
               PROVE  Excused(serves[j], disk, unfetched)
      BY DEF MixedExplained, Excused, Foreign
  <2>1. launches[j] # <<>>
      OBVIOUS
  <2>2. QED
      BY <2>1 DEF SettledFiles
<1>4. QED
    BY <1>1, <1>2, <1>3, EverExplained, PTL DEF Spec

=============================================================================
