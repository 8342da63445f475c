-------------------------- MODULE MCLammpsScripts --------------------------
(* Instances of LammpsScripts for TLC.                                     *)
EXTENDS LammpsScripts

\* One crystal relaxed where it starts, one under tension and one under
\* compression there, with constants in every order; several elements.
SomeCrystals ==
    {[a |-> 30, guess |-> 30, ecoh |-> <<-20000, -18000, -24000>>, stress |-> 0,
      C11 |-> 120, C12 |-> 90, C44 |-> 60, vacancy |-> 30, surface |-> 8, area |-> 9, volume |-> 10],
     [a |-> 31, guess |-> 34, ecoh |-> <<-30000, -12000, -14000>>, stress |-> 5,
      C11 |-> 75, C12 |-> 51, C44 |-> 73, vacancy |-> 20, surface |-> 6, area |-> 4, volume |-> 7],
     [a |-> 33, guess |-> 28, ecoh |-> <<-16000, -16000, -16000>>, stress |-> -40,
      C11 |-> 60, C12 |-> 75, C44 |-> -15, vacancy |-> 12, surface |-> 10, area |-> 5, volume |-> 8]}

SomeRows == {[style |-> "eam/alloy", subtype |-> "eam"], [style |-> "deepmd", subtype |-> "deepmd"]}
SomeDeviations == {None, 0, 10}

=============================================================================
