-------------------------- MODULE MCPotentialFiles --------------------------
(* Instances of PotentialFiles for TLC.  Names and metadata follow         *)
(* potentials of the repository's uploads.                                 *)
EXTENDS PotentialFiles, TLC

CONSTANTS j1, j2

TwoJobs == {j1, j2}

\* The names of W-Ta's and W-Ta-He's files both contain W, one contains the
\* other's elements; W itself was registered without a file.  The rest are MEAM
\* potentials: ZrH, UZr and FeZr have their files named by pair_coeff, USi has
\* not, and U has no library of its own.  The library of FeZr was put into the
\* directory by hand, and so was a file of UZr that goes by the name of ZrH's
\* library.  Mo and Nb have two files, of which pair_coeff names the second; Nb's
\* also names one that was never there.
SomePotentials == {"W", "W-Ta", "W-Ta-He", "ZrH", "UZr", "FeZr", "USi", "U", "Mo", "Nb"}
SomeFiles == {"W-Ta_FS.eam.fs", "W-Ta-He_FS.eam.fs", "library.meam", "ZrH.meam",
              "UZr_library.meam", "UZr_specific.meam", "library-FeZr.meam", "FeZr.meam",
              "library-USi.meam", "USi.meam", "U.meam",
              "Mo_1.eam.alloy", "Mo_2.eam.alloy",
              "Nb_1.eam.alloy", "Nb_2.eam.alloy", "Nb.eam.alloy"}
SomeLibraries == {"library-USi.meam", "library-FeZr.meam"}

Registered == [pot_file |-> None, absolute |-> FALSE, coeff |-> <<>>, urls |-> <<>>,
               named |-> <<>>, alike |-> {}, reads |-> "pot_file"]

SomeMeta ==
    "W" :> [Registered EXCEPT !.alike = {"W-Ta_FS.eam.fs", "W-Ta-He_FS.eam.fs"}]
    @@ "W-Ta" :> [Registered EXCEPT !.pot_file = "W-Ta_FS.eam.fs", !.urls = <<"W-Ta_FS.eam.fs">>,
                                    !.alike = {"W-Ta_FS.eam.fs", "W-Ta-He_FS.eam.fs"}]
    @@ "W-Ta-He" :> [Registered EXCEPT !.pot_file = "W-Ta-He_FS.eam.fs", !.absolute = TRUE,
                                       !.urls = <<"W-Ta-He_FS.eam.fs">>]
    @@ "ZrH" :> [Registered EXCEPT !.coeff = <<"library.meam", "ZrH.meam">>, !.reads = "coeff",
                                   !.urls = <<"library.meam", "ZrH.meam">>]
    @@ "UZr" :> [Registered EXCEPT !.coeff = <<"UZr_library.meam", "UZr_specific.meam">>,
                                   !.urls = <<"UZr_library.meam", "UZr_specific.meam">>,
                                   !.reads = "coeff"]
    @@ "FeZr" :> [Registered EXCEPT !.coeff = <<"library-FeZr.meam", "FeZr.meam">>,
                                    !.urls = <<"library-FeZr.meam", "FeZr.meam">>,
                                    !.reads = "coeff"]
    @@ "Mo" :> [Registered EXCEPT !.coeff = <<"Mo_2.eam.alloy">>,
                                  !.urls = <<"Mo_1.eam.alloy", "Mo_2.eam.alloy">>]
    @@ "Nb" :> [Registered EXCEPT !.pot_file = "Nb.eam.alloy",
                                  !.coeff = <<"Nb.eam.alloy", "Nb_2.eam.alloy">>,
                                  !.urls = <<"Nb_1.eam.alloy", "Nb_2.eam.alloy">>]
    @@ "USi" :> [Registered EXCEPT !.urls = <<"library-USi.meam", "USi.meam">>,
                                   !.named = <<"USi.meam">>, !.reads = "library"]
    @@ "U" :> [Registered EXCEPT !.urls = <<"U.meam">>, !.reads = "library"]

SomeThere == [f \in SomeFiles |->
    CASE f = "library-FeZr.meam" -> "FeZr"
      [] f = "library.meam" -> "UZr"
      [] OTHER -> None]

=============================================================================
