--------------------------- MODULE PotentialFiles ---------------------------
(***************************************************************************)
(* The directory of potential files, shared by all jobs, and how a         *)
(* property gets to the files its LAMMPS processes read.                   *)
(*                                                                         *)
(* _resolve_pot_file and its downloads are synchronous: they block the     *)
(* event loop, so no other job runs during one, but the server can die and *)
(* a write can fail halfway.  LAMMPS opens the files later, once per       *)
(* process, while other jobs go on.  Each property resolves anew.          *)
(***************************************************************************)
EXTENDS Naturals, Sequences, FiniteSets

CONSTANTS
    None,
    Potentials,
    Files,         \* names of files in potential_dir
    Meta,          \* what _resolve_pot_file reads of each potential's metadata
    Libraries,     \* the names library-*.meam
    Preloaded,     \* the directory at the start: the potential each file is of
    Jobs,
    MaxLaunches,   \* bound: LAMMPS processes of a job
    MaxFailures,   \* bound: downloads refused or cut off
    MaxCrashes     \* bound: deaths of the server process

\* pot_file names a file in the directory by an absolute path or by its name
\* alone; coeff are the file names in pair_coeff, urls the names at the ends of
\* file_url, named those made of the potential's name and an extension, alike
\* those that contain its elements.  reads is how _get_pair_config uses them.
MetaRecord ==
    [pot_file : Files \cup {None}, absolute : BOOLEAN,
     coeff : Seq(Files), urls : Seq(Files), named : Seq(Files), alike : SUBSET Files,
     reads : {"pot_file", "coeff", "library"}]

Content == [of : Potentials, whole : BOOLEAN]

ASSUME NoneAssumption == None \notin Files \cup Potentials \cup Content
ASSUME MetaAssumption == Meta \in [Potentials -> MetaRecord]
ASSUME CoeffAssumption ==
    \A p \in Potentials :
        /\ Meta[p].reads = "coeff" => Meta[p].coeff # <<>>
        /\ Meta[p].reads = "library" => Meta[p].coeff = <<>>
ASSUME PreloadedAssumption == Preloaded \in [Files -> Potentials \cup {None}]
ASSUME BoundsAssumption ==
    MaxLaunches \in Nat /\ MaxFailures \in Nat /\ MaxCrashes \in Nat

VARIABLES
    disk,      \* content of each file, None where there is none
    serves,    \* the potential each job verifies
    pc,        \* where each job is
    script,    \* the files the current property's input script names
    launches,  \* what each LAMMPS process of a job read, in order
    failures, crashes,
    unfetched, \* history: potentials one of whose downloads failed
    cutOff     \* history: potentials one of whose downloads was written in part

vars == <<disk, serves, pc, script, launches, failures, crashes, unfetched, cutOff>>

Elements(s) == {s[k] : k \in 1 .. Len(s)}
Present(d) == {f \in Files : d[f] # None}

\* The first file of a list that is there, as a set of one or none.
FirstPresent(s, d) ==
    {s[k] : k \in {i \in 1 .. Len(s) : s[i] \in Present(d)
                        /\ \A h \in 1 .. i - 1 : s[h] \notin Present(d)}}

-----------------------------------------------------------------------------
(* _resolve_pot_file.                                                      *)

\* Strategies 1 and 2: an absolute pot_file, a file named in pair_coeff.
OnDisk(p, d) ==
    LET m == Meta[p] IN
    IF m.absolute /\ m.pot_file \in Present(d) THEN {m.pot_file} ELSE FirstPresent(m.coeff, d)

\* Slip: every file is downloaded, those on disk are replaced.
MissingAll(p, d) == IF OnDisk(p, d) # {} THEN {} ELSE Elements(Meta[p].urls)

\* Strategy 3 downloads only if these find nothing, and only what is missing.
Missing(p, d) ==
    IF OnDisk(p, d) # {} THEN {} ELSE Elements(Meta[p].urls) \ Present(d)

\* A download ends with the file, without one (refused, or never made), or with
\* a part of it.
Outcomes == {"ok", "none", "cut off"}

\* Slip: the content of a refused download is kept as the file.
DownloadKeepsErrors(p, d, outcome) ==
    [f \in Files |-> IF f \notin DOMAIN outcome THEN d[f]
                     ELSE [of |-> p, whole |-> outcome[f] = "ok"]]

Download(p, d, outcome) ==
    [f \in Files |-> IF f \notin DOMAIN outcome \/ outcome[f] = "none" THEN d[f]
                     ELSE [of |-> p, whole |-> outcome[f] = "ok"]]

\* The end of strategy 3: pot_file, else the file of the first URL.
Downloaded(p, d) ==
    LET m == Meta[p] IN
    IF m.urls = <<>> THEN {}
    ELSE IF m.pot_file \in Present(d) THEN {m.pot_file}
    ELSE {m.urls[1]} \cap Present(d)

\* Slip: a file alike is preferred to the downloaded one.
ResolvedAlikeFirst(p, before, after) ==
    LET alike == Meta[p].alike \cap Present(after) IN
    IF OnDisk(p, before) # {} THEN OnDisk(p, before)
    ELSE IF alike # {} THEN alike ELSE Downloaded(p, after)

\* What the strategies can answer, in their order, with the directory before
\* and after the downloads: the fourth looks for the potential's name, the last
\* takes any file alike (os.listdir has no order).
Resolved(p, before, after) ==
    LET named == FirstPresent(Meta[p].named, after) IN
    IF OnDisk(p, before) # {} THEN OnDisk(p, before)
    ELSE IF Downloaded(p, after) # {} THEN Downloaded(p, after)
    ELSE IF named # {} THEN named
    ELSE Meta[p].alike \cap Present(after)

\* Slip: any library in the directory will do.
PairConfigsAnyLibrary(p, f, d) ==
    LET m == Meta[p]
        specific == IF Len(m.urls) >= 2 /\ m.urls[2] \in Present(d) THEN m.urls[2] ELSE f
        libraries == Libraries \cap Present(d)
    IN
    CASE m.reads = "pot_file" -> {{f}}
      [] m.reads = "coeff" -> {{IF g \in Present(d) THEN g ELSE None : g \in Elements(m.coeff)}}
      [] m.reads = "library" ->
            IF libraries = {} THEN {{f}} ELSE {{l, specific} : l \in libraries}

\* _get_pair_config: the files the input script can name, for a pot_file.  A
\* name in pair_coeff that is not in the directory stays a bare name, which
\* LAMMPS does not find where it runs (None).
PairConfigs(p, f, d) ==
    LET m == Meta[p]
        two == Len(m.urls) >= 2
        own == IF two THEN {m.urls[1]} \cap Present(d) ELSE {}
        libraries == IF own # {} THEN own ELSE Libraries \cap Present(d)
        specific == IF two /\ m.urls[2] \in Present(d) THEN m.urls[2] ELSE f
    IN
    CASE m.reads = "pot_file" -> {{f}}
      [] m.reads = "coeff" -> {{IF g \in Present(d) THEN g ELSE None : g \in Elements(m.coeff)}}
      [] m.reads = "library" ->
            IF libraries = {} THEN {{f}} ELSE {{l, specific} : l \in libraries}

-----------------------------------------------------------------------------
Init ==
    /\ disk = [f \in Files |-> IF Preloaded[f] = None THEN None
                                ELSE [of |-> Preloaded[f], whole |-> TRUE]]
    /\ serves = [j \in Jobs |-> None]
    /\ pc = [j \in Jobs |-> "waiting"]
    /\ script = [j \in Jobs |-> {}]
    /\ launches = [j \in Jobs |-> <<>>]
    /\ failures = 0 /\ crashes = 0
    /\ unfetched = {} /\ cutOff = {}

Start(j) ==
    /\ pc[j] = "waiting"
    /\ pc' = [pc EXCEPT ![j] = "ready"]
    /\ \E p \in Potentials : serves' = [serves EXCEPT ![j] = p]
    /\ UNCHANGED <<disk, script, launches, failures, crashes, unfetched, cutOff>>

\* The downloads of a resolution, and what they leave behind.
Fetch(p, outcome) ==
    LET failed == {f \in DOMAIN outcome : outcome[f] # "ok"} IN
    /\ disk' = Download(p, disk, outcome)
    /\ failures + Cardinality(failed) <= MaxFailures
    /\ failures' = failures + Cardinality(failed)
    /\ unfetched' = IF \E f \in failed : outcome[f] = "none" THEN unfetched \cup {p} ELSE unfetched
    /\ cutOff' = IF \E f \in failed : outcome[f] = "cut off" THEN cutOff \cup {p} ELSE cutOff

Launched(j, read) == launches' = [launches EXCEPT ![j] = Append(@, read)]

\* The head of run_property.  With no file the property fails.
Resolve(j) ==
    LET p == serves[j] IN
    /\ pc[j] = "ready" /\ Len(launches[j]) < MaxLaunches
    /\ \E outcome \in [Missing(p, disk) -> Outcomes] : Fetch(p, outcome)
    /\ \/ /\ Resolved(p, disk, disk') = {}
          /\ Launched(j, {None}) /\ UNCHANGED <<pc, script>>
       \/ /\ \E f \in Resolved(p, disk, disk') : \E names \in PairConfigs(p, f, disk') :
                script' = [script EXCEPT ![j] = names]
          /\ pc' = [pc EXCEPT ![j] = "launching"]
          /\ UNCHANGED launches
    /\ UNCHANGED <<serves, crashes>>

Reading(d, f) == IF f = None THEN None ELSE d[f]

\* A LAMMPS process reads the files of its script.  The property starts another
\* one with the same pair_coeff, or it is over.
Launch(j) ==
    /\ pc[j] = "launching" /\ Len(launches[j]) < MaxLaunches
    /\ Launched(j, {Reading(disk, f) : f \in script[j]})
    /\ pc' \in {pc, [pc EXCEPT ![j] = "ready"]}
    /\ UNCHANGED <<disk, serves, script, failures, crashes, unfetched, cutOff>>

\* The server dies, perhaps in the middle of a resolution: the downloads before
\* the k-th are done, it may be written in part, those after it are not made.
Crash ==
    /\ crashes < MaxCrashes /\ crashes' = crashes + 1
    /\ pc' = [j \in Jobs |-> IF pc[j] = "waiting" THEN "waiting" ELSE "killed"]
    /\ \/ UNCHANGED <<disk, failures, unfetched, cutOff>>
       \/ \E j \in Jobs :
            LET p == serves[j] IN
            /\ pc[j] = "ready"
            /\ \E k \in 1 .. Len(Meta[p].urls) :
                \E outcome \in [Missing(p, disk) -> Outcomes] :
                    /\ \A i \in k + 1 .. Len(Meta[p].urls) :
                          Meta[p].urls[i] \in DOMAIN outcome => outcome[Meta[p].urls[i]] = "none"
                    /\ Fetch(p, outcome)
    /\ UNCHANGED <<serves, script, launches>>

Next == Crash \/ \E j \in Jobs : Start(j) \/ Resolve(j) \/ Launch(j)

Spec == Init /\ [][Next]_vars

-----------------------------------------------------------------------------
(* Properties                                                              *)

\* The names a potential calls its own, and whether another's content is there.
OwnNames(p) ==
    LET m == Meta[p] IN
    (Elements(m.coeff) \cup Elements(m.urls) \cup Elements(m.named) \cup {m.pot_file}) \ {None}
Shadowed(p, d) == \E f \in OwnNames(p) \cap Present(d) : d[f].of # p

\* Files the metadata does not name can stand in for a potential's own: it has
\* no URL, or no second one for its library, or its library is not fetched
\* since another file of it may be there.
Borrows(p) ==
    LET m == Meta[p] IN
    m.urls = <<>> \/ (m.reads = "library" /\ (Len(m.urls) < 2 \/ m.absolute))

\* A file in pair_coeff has no URL, or is not fetched since another one that
\* is found first was brought into the directory by other means.
Lacks(p) ==
    LET m == Meta[p] IN
    m.reads = "coeff" /\ (m.absolute \/ \E f \in Elements(m.coeff) :
                             f \notin Elements(m.urls) \/ Preloaded[f] # None)

\* pair_coeff, which is looked at when the files are there, leads to another
\* file than pot_file or the first URL, which are looked at after the downloads:
\* it names another one first, or after one without a URL one that is fetched.
Wavers(p) ==
    LET m == Meta[p]
        own == IF m.pot_file = None THEN m.urls[1] ELSE m.pot_file
    IN
    /\ m.reads = "pot_file" /\ m.coeff # <<>> /\ m.urls # <<>>
    /\ \/ m.coeff[1] # own
       \/ /\ own \notin Elements(m.urls)
          /\ \E f \in Elements(m.coeff) \cap Elements(m.urls) : f # m.urls[1]

\* Types; a property that has been resolved has a script.
TypeOK ==
    /\ disk \in [Files -> Content \cup {None}]
    /\ serves \in [Jobs -> Potentials \cup {None}]
    /\ pc \in [Jobs -> {"waiting", "ready", "launching", "killed"}]
    /\ script \in [Jobs -> SUBSET (Files \cup {None})]
    /\ \A j \in Jobs : pc[j] = "launching" => script[j] # {}
    /\ \A j \in Jobs : Len(launches[j]) <= MaxLaunches
    /\ \A j \in Jobs : \A k \in 1 .. Len(launches[j]) : launches[j][k] \subseteq Content \cup {None}
    /\ failures \in 0 .. MaxFailures /\ crashes \in 0 .. MaxCrashes
    /\ unfetched \subseteq Potentials /\ cutOff \subseteq Potentials

\* A file in the directory never changes: the processes of a property all read
\* what it was resolved to, whatever other jobs download meanwhile.
SteadyFiles == [][\A f \in Present(disk) : disk'[f] = disk[f]]_disk

\* A property whose potential's first file has been downloaded and borrows none,
\* and whose names nobody else's files hold, computes with this potential's
\* files alone.
OwnPreferred ==
    [][\A j \in Jobs :
        LET p == serves[j] IN
        (/\ pc[j] = "ready" /\ pc'[j] = "launching"
         /\ ~Borrows(p) /\ Meta[p].urls[1] \in Present(disk') /\ ~Shadowed(p, disk'))
        => \A f \in script'[j] \ {None} : disk'[f].of = p]_vars

\* What a LAMMPS process reads is a whole file of its potential, or there is a
\* reason: a download was refused or cut off, or another potential's file goes
\* by one of its names, or its metadata does not lead to all of its files.
ReadExplained ==
    \A j \in Jobs : \A k \in 1 .. Len(launches[j]) : \A c \in launches[j][k] :
        LET p == serves[j]
            foreign == p \in unfetched \/ Borrows(p) \/ Shadowed(p, disk)
        IN
        /\ c = None => foreign \/ Lacks(p)
        /\ c # None => (~c.whole => c.of \in cutOff) /\ (c.of # p => foreign)

\* Two processes of one job compute with different files only for one of these
\* reasons: the properties of a template are otherwise graded for one and the
\* same potential.
MixedExplained ==
    \A j \in Jobs : \A h, k \in 1 .. Len(launches[j]) :
        LET p == serves[j] IN
        launches[j][h] # launches[j][k] =>
            p \in unfetched \/ Borrows(p) \/ Shadowed(p, disk) \/ Wavers(p)

=============================================================================
