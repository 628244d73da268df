-------------------------- MODULE MCBuildPipeline --------------------------
(* Two programs; edits of a method body, of a virtual method and of what is*)
(* called at start; a few events of all kinds.                             *)
EXTENDS BuildPipeline

MCEdits == {{"NovaOutput.c"},
            {"NovaOutput.h", "NovaOutput.c", "VTableDeclarations.h", "VTableDeclarations.c"},
            {"MainFunction.c"}}

=============================================================================
