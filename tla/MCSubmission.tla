---------------------------- MODULE MCSubmission ----------------------------
(***************************************************************************)
(* Instances of Submission: a catalogue with an alloy inside another's     *)
(* name, a type the script leaves out and an id the local table lacks;     *)
(* operators with a token in the header, the cookie, both or neither.      *)
(***************************************************************************)
EXTENDS Submission

Listed(id, type, elements, system) ==
    [id |-> id, type |-> type, elements |-> elements, system_name |-> system]
MCCatalogues ==
    {<<Listed("fecrni", "EAM", <<"Fe", "Cr", "Ni">>, "Fe-Cr-Ni"), Listed("u", "MTP", <<"U">>, "U"),
       Listed("si", "TERSOFF", <<"Si">>, "Si")>>,
     <<Listed("lost", "MEAM", <<"Zr", "Sn">>, "Zr-Sn"), Listed("u", "MTP", <<"U">>, "U")>>}
MCKnown == {"fecrni", "u", "si"}

MCCredentials ==
    {[bearer |-> "avc_token", cookie |-> None], [bearer |-> None, cookie |-> "avc_token"],
     [bearer |-> "", cookie |-> "avc_token"], Nobody}

Found(id, priority, type) ==
    [id |-> id, priority |-> priority, type |-> type, potential_type |-> None]
MCDiscoveries == {<<>>, <<Found("u", "P2", "mtp"), Found("si", "P1", "eam"), Found("fecrni", "P3", "eam")>>}
Schedule(enabled, dry, concurrent) ==
    [enabled |-> enabled, dry_run |-> dry, max_concurrent |-> concurrent,
     priority_filter |-> {"P2", "P3"}, potential_types |-> {"eam", "eam/fs", "mtp"}]
MCSchedules == {Schedule(FALSE, TRUE, 1), Schedule(TRUE, TRUE, 1), Schedule(TRUE, FALSE, 2)}

=============================================================================
