-------------------------- MODULE MCSectionRebuild --------------------------
(* Instances of SectionRebuild and KeysIterator for TLC. *)
EXTENDS KeysIterator

TemplateList == <<"template", "list">>
Filters == {{<<1, "a">>}}
=============================================================================
