--------------------------- MODULE LammpsScripts ---------------------------
(***************************************************************************)
(* The LAMMPS input scripts that a property runs, command by command, and  *)
(* the arithmetic on what they print.  LAMMPS is an abstract machine: an   *)
(* ideal crystal in a box, whose atoms are where minimize would put them,  *)
(* and equal-style variables, which are formulas evaluated when they are   *)
(* used.  Energies are counted in halves, strains in units of eps, conv is *)
(* 1, and None stands for nan, too.  Masses and cell sizes are left out.   *)
(***************************************************************************)
EXTENDS ReferenceNames, Sequences, FiniteSets

CONSTANTS
    Crystals,       \* what a potential makes of the lattice
    Rows,           \* rows of "potentials" that jobs verify
    Sites,          \* sites of the perfect crystal
    Sizes,          \* numbers of elements
    Deviations,     \* of the references from the crystal, in percent, or None
    MaxNan          \* bound: processes of a property that print nan

Property == {"lattice_constant", "cohesive_energy", "elastic_constants",
             "bulk_modulus", "vacancy_formation_energy", "surface_energy"}
Constant == Property \cup {"C11", "C12", "C44"}

\* guess is where the lattice starts, ecoh the half energies per atom by type,
\* stress the half slope of the energy under strain.
Crystal == [a : Nat, guess : Nat, ecoh : Seq(Int), stress : Int, C11 : Int, C12 : Int,
            C44 : Int, vacancy : Int, surface : Int, area : Nat, volume : Nat]
Row == [style : {"eam/alloy", "meam", "deepmd"}, subtype : {"eam", "meam", "deepmd"}]

\* The crystal a process works on: the boundary in z, the atoms by type, the
\* lattice constant, the strains in x, y and xy, the atoms taken out, a cut above.
Box == [z : {"p", "s"}, types : Seq(Int), a : Int, strain : [1 .. 3 -> Int], vacancies : Int,
        cut : BOOLEAN, plugin : BOOLEAN, nan : BOOLEAN]

ASSUME NoBoxAssumption == None \notin Box
ASSUME CrystalsAssumption ==
    Crystals \subseteq Crystal /\ \A c \in Crystals : c.area > 0 /\ c.volume > 0
ASSUME RowsAssumption == Rows \subseteq Row
ASSUME SitesAssumption == Sites \in Nat /\ Sites > 1
ASSUME SizesAssumption ==
    Sizes \subseteq Nat \ {0} /\ \A n \in Sizes, c \in Crystals : n <= Len(c.ecoh)
ASSUME DeviationsAssumption == Deviations \subseteq Int \cup {None}
ASSUME BoundAssumption == MaxNan \in Nat

VARIABLES
    task,       \* property, crystal, metadata, number of elements, deviation
    box,        \* the Box of the running process, or None
    formulas,   \* its equal-style variables
    script,     \* its commands
    position,   \* how many of them it has read
    lines,      \* the RESULT lines it has printed
    outputs,    \* the parsed output of each process that ended
    bad,        \* history: the processes that printed nan
    status,     \* of run_property: "running", "failed" or "done"
    values      \* of the constants computed

vars == <<task, box, formulas, script, position, lines, outputs, bad, status, values>>

-----------------------------------------------------------------------------
(* Scripts: sequences of commands.                                         *)

\* The columns a runner is made from.  The runner asks for "type".
get_potential(r) == [style |-> r.style, subtype |-> r.subtype]
is_dp(meta) == "type" \in DOMAIN meta /\ meta.type = "deepmd"
plugin_load_line(meta) == IF is_dp(meta) THEN <<<<"plugin">>>> ELSE <<>>

\* All atoms are of type 1.
create(n) == <<<<"create_atoms", n>>>>

\* Then every type but the last hands the share 1/n of its atoms to the next.
multi_element_box_block(n) == create(n) \o [i \in 1 .. n - 1 |-> <<"set_type", i, n>>]

\* Every script: the boundary in z, the atoms, the pair style.
Cell(z, atoms, meta) ==
    <<<<"boundary", z>>>> \o atoms \o plugin_load_line(meta) \o <<<<"pair_style", meta.style>>>>
Variable(name, formula) == <<"variable", name, formula>>
Show(name) == <<"print", name>>

LATTICE ==
    <<Variable("natom", <<"count">>), Variable("ecoh", <<"per", "natom">>), Variable("a", <<"a">>),
      Show("a"), Show("ecoh")>>
generate_lattice_input(n, meta) ==
    Cell("p", multi_element_box_block(n), meta) \o <<<<"box_relax">>>> \o LATTICE

\* Slip: a box is strained at both ends.
StrainBothEnds(s) == LET change(k) == IF s[k] = 0 THEN <<>> ELSE <<<<"change_box", k, 2 * s[k]>>>>
                     IN  change(1) \o change(2) \o change(3)

\* The strains in x, y and xy that are not 0.
Strain(s) == LET change(k) == IF s[k] = 0 THEN <<>> ELSE <<<<"change_box", k, s[k]>>>>
             IN  change(1) \o change(2) \o change(3)

\* Without strain this is generate_basic_input with the lines run_property adds.
STRAINED == <<Variable("e", <<"pe">>), Variable("v", <<"vol">>), Show("e"), Show("v")>>
generate_strained_input(n, meta, s) == Cell("p", create(n), meta) \o Strain(s) \o STRAINED

VACANCY ==
    <<Variable("e_perfect", <<"pe">>), Variable("natom", <<"count">>), Show("e_perfect"), Show("natom"),
      <<"delete", "atom">>,
      Variable("e_vacancy", <<"pe">>), Variable("natom2", <<"count">>), Show("e_vacancy"), Show("natom2"),
      Variable("evf", <<"excess", "e_vacancy", "natom2", "natom", "e_perfect">>), Show("evf")>>
generate_vacancy_input(n, meta) == Cell("p", multi_element_box_block(n), meta) \o VACANCY

SURFACE ==
    <<Variable("e_bulk", <<"pe">>), Variable("n_bulk", <<"count">>), Variable("area", <<"area">>),
      Show("e_bulk"), Show("n_bulk"), Show("area"), <<"delete", "top">>,
      Variable("e_slab", <<"pe">>), Variable("n_slab", <<"count">>), Show("e_slab"), Show("n_slab")>>
generate_surface_energy_input(n, meta) == Cell("s", multi_element_box_block(n), meta) \o SURFACE

\* The seven cells of the elastic constants, in the order they are run.
Strains == <<<<0, 0, 0>>, <<1, 0, 0>>, <<-1, 0, 0>>, <<0, 1, 0>>, <<1, 1, 0>>, <<0, 0, 1>>, <<0, 0, -1>>>>

Runs(property) == IF property \in {"elastic_constants", "bulk_modulus"} THEN Len(Strains) ELSE 1

Script(t, k) ==
    CASE t.property \in {"lattice_constant", "cohesive_energy"} -> generate_lattice_input(t.n, t.meta)
      [] t.property \in {"elastic_constants", "bulk_modulus"}   -> generate_strained_input(t.n, t.meta, Strains[k])
      [] t.property = "vacancy_formation_energy"                -> generate_vacancy_input(t.n, t.meta)
      [] t.property = "surface_energy"                          -> generate_surface_energy_input(t.n, t.meta)

-----------------------------------------------------------------------------
(* The machine.                                                            *)

NewBox(t, nan) ==
    [z |-> "p", types |-> <<>>, a |-> t.crystal.guess, strain |-> <<0, 0, 0>>,
     vacancies |-> 0, cut |-> FALSE, plugin |-> FALSE, nan |-> nan]

\* The sums of the first elements of a sequence, and of all.
Sums(s) == LET sum[k \in 0 .. Len(s)] == IF k = 0 THEN 0 ELSE sum[k - 1] + s[k] IN sum
Total(s) == Sums(s)[Len(s)]

Atoms(b) == Total(b.types)

\* Two surfaces where the box ends or the crystal was cut.
Surfaces(b) == IF b.z = "s" \/ b.cut THEN 2 ELSE 0

\* Half energies: of the atoms, of a lattice constant out of place, of strain,
\* vacancies and surfaces.
Energy(c, b) ==
    LET x == b.strain[1]
        y == b.strain[2]
        g == b.strain[3]
    IN  IF b.nan THEN None
        ELSE Total([i \in DOMAIN b.types |-> b.types[i] * c.ecoh[i]])
             + Atoms(b) * (b.a - c.a) * (b.a - c.a)
             + c.volume * (2 * c.stress * (x + y) + c.C11 * (x * x + y * y)
                           + 2 * c.C12 * x * y + c.C44 * g * g)
             + 2 * c.vacancy * b.vacancies + 2 * c.surface * c.area * Surfaces(b)

\* A formula over the present state of the machine; v_ names are formulas again.
Basic(c, b, f) ==
    CASE f[1] = "pe"    -> Energy(c, b)
      [] f[1] = "count" -> Atoms(b)
      [] f[1] = "a"     -> b.a
      [] f[1] = "area"  -> c.area
      [] f[1] = "vol"   -> c.volume
Eval(c, b, fs, f) ==
    LET v(name) == Basic(c, b, fs[name])
    IN  IF f[1] \notin {"per", "excess"} THEN Basic(c, b, f)
        ELSE IF b.nan THEN None
        ELSE IF f[1] = "per" THEN (Energy(c, b) \div v(f[2])) \div 2
        ELSE (v(f[2]) * v(f[4]) - v(f[3]) * v(f[5])) \div (2 * v(f[4]))

\* A share of the atoms of a type goes to the next.
Shared(types, i, n) == LET moved == types[i] \div n
                       IN  [types EXCEPT ![i] = @ - moved, ![i + 1] = @ + moved]

\* What a command makes of the box.
After(c, b, cmd) ==
    CASE cmd[1] = "boundary"     -> [b EXCEPT !.z = cmd[2]]
      [] cmd[1] = "create_atoms" -> [b EXCEPT !.types = [i \in 1 .. cmd[2] |-> IF i = 1 THEN Sites ELSE 0]]
      [] cmd[1] = "set_type"     -> [b EXCEPT !.types = Shared(@, cmd[2], cmd[3])]
      [] cmd[1] = "plugin"       -> [b EXCEPT !.plugin = TRUE]
      [] cmd[1] = "box_relax"    -> [b EXCEPT !.a = c.a]
      [] cmd[1] = "change_box"   -> [b EXCEPT !.strain[cmd[2]] = @ + cmd[3]]
      [] cmd = <<"delete", "atom">> -> [b EXCEPT !.types[1] = @ - 1, !.vacancies = @ + 1]
      [] cmd = <<"delete", "top">>  -> [b EXCEPT !.types = [i \in DOMAIN @ |-> @[i] \div 2], !.cut = TRUE]
      [] OTHER -> b

\* deepmd is a pair style of the plugin.
Unknown(b, cmd) == cmd = <<"pair_style", "deepmd">> /\ ~b.plugin

-----------------------------------------------------------------------------
(* What run_property makes of the outputs.                                 *)

\* Of each name the last line with a number.  nan is none, -nan is Unparsable.
parse_lammps_output(ls) ==
    LET of(name) == {k \in DOMAIN ls : ls[k][1] = name /\ ls[k][2] # None}
    IN  [name \in {ls[k][1] : k \in {j \in DOMAIN ls : ls[j][2] # None}} |->
            ls[CHOOSE k \in of(name) : \A j \in of(name) : j <= k][2]]

Get(out, name, default) == IF name \in DOMAIN out THEN out[name] ELSE default

\* Slip: the mixed difference takes off the compressed cell.
ElasticMixed(outs) ==
    LET E == [k \in DOMAIN outs |-> Get(outs[k], "e", 0)]
        V == 2 * Get(outs[1], "v", 1)
    IN  [C11 |-> (E[2] - 2 * E[1] + E[3]) \div V,
         C12 |-> (E[5] - E[3] - E[4] + E[1]) \div V,
         C44 |-> (E[6] - 2 * E[1] + E[7]) \div V]

\* Slip: an output without an energy counts as unstrained.
ElasticFromE0(outs) ==
    LET E == [k \in DOMAIN outs |-> Get(outs[k], "e", Get(outs[1], "e", 0))]
        V == 2 * Get(outs[1], "v", 1)
    IN  [C11 |-> (E[2] - 2 * E[1] + E[3]) \div V,
         C12 |-> (E[5] - E[2] - E[4] + E[1]) \div V,
         C44 |-> (E[6] - 2 * E[1] + E[7]) \div V]

\* Second differences of the energy; an energy without a line counts as 0.
Elastic(outs) ==
    LET E == [k \in DOMAIN outs |-> Get(outs[k], "e", 0)]
        V == 2 * Get(outs[1], "v", 1)
    IN  [C11 |-> (E[2] - 2 * E[1] + E[3]) \div V,
         C12 |-> (E[5] - E[2] - E[4] + E[1]) \div V,
         C44 |-> (E[6] - 2 * E[1] + E[7]) \div V]

\* Nothing is returned for 0.
Surface(out) ==
    LET n_bulk == Get(out, "n_bulk", 1)
        area == Get(out, "area", 1)
        excess == Get(out, "e_slab", 0) * n_bulk - Get(out, "n_slab", 1) * Get(out, "e_bulk", 0)
    IN  IF area > 0 /\ n_bulk > 0 /\ excess # 0 THEN excess \div (4 * area * n_bulk) ELSE None

Computed(t, outs) ==
    CASE t.property = "lattice_constant"  -> [lattice_constant |-> Get(outs[1], "a", None)]
      [] t.property = "cohesive_energy"   -> [cohesive_energy |-> Get(outs[1], "ecoh", None)]
      [] t.property = "elastic_constants" -> Elastic(outs)
      [] t.property = "bulk_modulus"      ->
            [bulk_modulus |-> (Elastic(outs).C11 + 2 * Elastic(outs).C12) \div 3]
      [] t.property = "vacancy_formation_energy" ->
            [vacancy_formation_energy |-> Get(outs[1], "evf", None)]
      [] t.property = "surface_energy"    -> [surface_energy |-> Surface(outs[1])]

-----------------------------------------------------------------------------
(* The values the crystal has: references deviate from them.               *)

CrystalsOwn(c, name) ==
    CASE name = "lattice_constant"         -> c.a
      [] name = "cohesive_energy"          -> c.ecoh[1] \div 2
      [] name = "bulk_modulus"             -> (c.C11 + 2 * c.C12) \div 3
      [] name = "vacancy_formation_energy" -> c.vacancy
      [] name = "surface_energy"           -> c.surface
      [] OTHER                             -> c[name]

\* The bulk modulus is not graded.
Reference(t, name) ==
    IF t.deviation = None \/ name = "bulk_modulus" THEN None
    ELSE (CrystalsOwn(t.crystal, name) * (100 + t.deviation)) \div 100

\* The cells are strained by eps = 0.001, and their energies rise with eps ** 2:
\* that, and what it would be by the references, is little beside the energy of
\* the atoms.
ASSUME StrainsAreSmall ==
    \A c \in Crystals, d \in Deviations, name \in {"C11", "C12", "C44"} :
        LET r == Reference([crystal |-> c, deviation |-> d], name)
        IN  r # None =>
              Size(Sites * (c.ecoh[1] + (c.guess - c.a) * (c.guess - c.a)))
                >= c.volume * (8 * Size(c.stress) + 4 * (Size(c.C11) + Size(c.C12) + Size(c.C44))
                               + 4 * Size(r) + 2)

Grade(name) ==
    IF values[name] = None THEN None ELSE run_grade(values[name], Reference(task, name))

-----------------------------------------------------------------------------
Init ==
    /\ task \in [property : Property, crystal : Crystals, meta : {get_potential(r) : r \in Rows},
                 n : Sizes, deviation : Deviations]
    /\ box = None /\ formulas = <<>> /\ script = <<>> /\ position = 0 /\ lines = <<>>
    /\ outputs = <<>> /\ bad = {}
    /\ status = "running" /\ values = <<>>

\* The next process of the property; its energies may be nan.
Launch ==
    /\ status = "running" /\ box = None /\ Len(outputs) < Runs(task.property)
    /\ script' = Script(task, Len(outputs) + 1) /\ position' = 0
    /\ \E nan \in BOOLEAN :
          /\ nan => Cardinality(bad) < MaxNan
          /\ box' = NewBox(task, nan)
          /\ bad' = IF nan THEN bad \cup {Len(outputs) + 1} ELSE bad
    /\ formulas' = <<>> /\ lines' = <<>>
    /\ UNCHANGED <<task, outputs, status, values>>

\* The process reads a command.
Read ==
    /\ box # None /\ position < Len(script) /\ ~Unknown(box, script[position + 1])
    /\ LET cmd == script[position + 1]
       IN  /\ box' = After(task.crystal, box, cmd)
           /\ formulas' = IF cmd[1] # "variable" THEN formulas
                          ELSE [name \in DOMAIN formulas \cup {cmd[2]} |->
                                   IF name = cmd[2] THEN cmd[3] ELSE formulas[name]]
           /\ lines' = IF cmd[1] # "print" THEN lines
                       ELSE Append(lines, <<cmd[2], Eval(task.crystal, box, formulas, formulas[cmd[2]])>>)
    /\ position' = position + 1
    /\ UNCHANGED <<task, script, outputs, bad, status, values>>

\* It does not know one: _run_lammps raises, and run_property with it.
Reject ==
    /\ box # None /\ position < Len(script) /\ Unknown(box, script[position + 1])
    /\ status' = "failed" /\ box' = None
    /\ UNCHANGED <<task, formulas, script, position, lines, outputs, bad, values>>

\* It ends, and its output is parsed.
Exit ==
    /\ box # None /\ position = Len(script)
    /\ outputs' = Append(outputs, parse_lammps_output(lines))
    /\ box' = None
    /\ UNCHANGED <<task, formulas, script, position, lines, bad, status, values>>

\* A -nan starts like a number but is none: float raises, and run_property with it.
Unparsable ==
    /\ box # None /\ position = Len(script) /\ \E k \in DOMAIN lines : lines[k][2] = None
    /\ status' = "failed" /\ box' = None
    /\ UNCHANGED <<task, formulas, script, position, lines, outputs, bad, values>>

\* run_property returns.
Return ==
    /\ status = "running" /\ box = None /\ Len(outputs) = Runs(task.property)
    /\ values' = Computed(task, outputs) /\ status' = "done"
    /\ UNCHANGED <<task, box, formulas, script, position, lines, outputs, bad>>

Next == Launch \/ Read \/ Reject \/ Exit \/ Unparsable \/ Return
Spec == Init /\ [][Next]_vars

-----------------------------------------------------------------------------
(* Properties                                                              *)

\* Types; the machine is known well enough while it runs.
TypeOK ==
    /\ status \in {"running", "failed", "done"}
    /\ box \in Box \cup {None}
    /\ box # None => /\ \A i \in DOMAIN box.types : box.types[i] \in 0 .. Sites
                     /\ \A k \in 1 .. 3 : box.strain[k] \in -1 .. 1
    /\ \A k \in DOMAIN lines : lines[k][2] \in Int \cup {None}
    /\ Len(outputs) <= Runs(task.property) /\ bad \subseteq 1 .. Runs(task.property)
    /\ values = <<>> \/ \A name \in DOMAIN values : name \in Constant /\ values[name] \in Int \cup {None}

\* Of an element, processes that print numbers lead to the crystal's own values:
\* the lattice constant and the cohesive energy wherever the lattice starts, and
\* the elastic constants whatever the stress at that start.
ValuesAreCrystals ==
    status = "done" /\ bad = {} /\ task.n = 1
      /\ task.property \notin {"vacancy_formation_energy", "surface_energy"}
        => \A name \in DOMAIN values : values[name] = CrystalsOwn(task.crystal, name)

\* The cells a constant is computed from, and the sign each one has in it.
Uses ==
    [C11 |-> [k \in {1, 2, 3} |-> IF k = 1 THEN -1 ELSE 1],
     C12 |-> [k \in {1, 2, 4, 5} |-> IF k \in {1, 5} THEN 1 ELSE -1],
     C44 |-> [k \in {1, 6, 7} |-> IF k = 1 THEN -1 ELSE 1]]

\* An elastic constant computed from an output without an energy shows: it gets
\* no letter but F.  Only two missing energies that take each other's place in
\* C12 can hide.
NanShows ==
    status = "done" /\ task.property = "elastic_constants"
        => \A name \in DOMAIN values :
              LET lost == bad \cap DOMAIN Uses[name]
                  hidden == /\ name = "C12" /\ Cardinality(lost) = 2
                            /\ \E j, k \in lost : Uses[name][j] # Uses[name][k]
              IN  lost = {} \/ hidden \/ Grade(name) \in {"F", None}

\* The comment of the vacancy script (lammps_runner.py:468): "Vacancy formation
\* energy: Evf = E(N-1) - (N-1)/N * E(N)".
VacancyIsFormation ==
    status = "done" /\ bad = {} /\ task.n = 1 /\ task.property = "vacancy_formation_energy"
        => values.vacancy_formation_energy = task.crystal.vacancy

\* The docstring of the surface script (lammps_runner.py:486-488): "E_surface =
\* (E_slab - N_slab/N_bulk * E_bulk) / (2 * A)", "Factor 2 for two free surfaces",
\* with the "Bulk energy reference" of line 529.
SurfaceIsWhole ==
    status = "done" /\ bad = {} /\ task.n = 1 /\ task.property = "surface_energy"
        => values.surface_energy = task.crystal.surface

=============================================================================
