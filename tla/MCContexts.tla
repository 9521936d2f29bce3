----------------------------- MODULE MCContexts -----------------------------
(***************************************************************************)
(* The default contexts of two threads, with one context besides Context{}  *)
(* and a modification that leaves Context{} as it is; and the versions of   *)
(* the configurations of contexts.  The two share no state here, so a       *)
(* behaviour uses one of them, which Init chooses.                          *)
(***************************************************************************)
EXTENDS ContextRefinement, ContextVersion, TLC

CONSTANTS t1, t2, init, c

VARIABLE part

allVars == <<part, vars, versionVars>>

MCThread == {t1, t2}
MCStat == {"Arbitrary", "FermiDirac"}
MCCtx == {init, c}
MCScopes == { [s \in {"FermiDirac"} |-> c] }
MCModify == { [x \in MCCtx |-> init] }

AllInit == part \in {"defaults", "versions"} /\ Init /\ VersionInit
UseDefaults == part = "defaults" /\ Next /\ UNCHANGED <<part, versionVars>>
UseVersions == part = "versions" /\ VersionNext /\ UNCHANGED <<part, vars>>

\* where the bounds of the versions stop it
AtBound ==
  part = "versions" /\ last = MaxVersions /\ UNCHANGED <<part, vars, versionVars>>

AllNext == UseDefaults \/ UseVersions \/ AtBound
AllSpec == AllInit /\ [][AllNext]_allVars
=============================================================================
