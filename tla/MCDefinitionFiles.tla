-------------------------- MODULE MCDefinitionFiles --------------------------
(* Two directories that both hold some of the names, and two paths: in one a
   file is found in the first directory and includes a broken one, in the other
   a file without instructions has its place, and there are no masters. *)
EXTENDS DefinitionFiles

CONSTANTS d1, d2

MCHolds == [d \in Dir |-> IF d = d1 THEN {"boot.def", "local.def", "master.def", "empty.def"}
                          ELSE {"boot.def", "inc.def", "local.def", "bad.def"}]
MCIncludes == [f \in DefFile |-> IF f[2] = "boot.def" THEN <<"inc.def">>
                                  ELSE IF f = <<d1, "local.def">> THEN <<"bad.def">> ELSE <<>>]
MCKeys ==
    { [kind |-> "concept", alternatives |-> <<"local.def">>, master |-> "master.def"],
      [kind |-> "concept", alternatives |-> <<"inc.def">>, master |-> "master.def"],
      [kind |-> "hash", alternatives |-> <<"absent.def", "inc.def">>, master |-> "master.def"] }
MCEnvPath == <<d1, d2>>
MCPaths == {<<d2>>}
MCEmpty == {<<d1, "empty.def">>, <<d2, "local.def">>}
MCBroken == {<<d2, "bad.def">>}
MCTemplates == {"empty.def"}
=============================================================================
