------------------------- MODULE ContextRefinement -------------------------
(***************************************************************************)
(* The generation, the published copies and the per-thread caches of       *)
(* DefaultContext implement the register of ContextRegister, for the       *)
(* modifications that leave Context{} as it is.  (For the others a reset   *)
(* between the two locks of set_scoped_modified_default_context shows, see *)
(* ScopedContextsAreModified.)                                             *)
(***************************************************************************)
EXTENDS DefaultContext

ASSUME ModifyKeepsInitial == \A f \in Modify : f[Initial] = Initial

\* Every call of every thread takes effect at one moment between its start and
\* its end: a snapshot "reflects every change of the process-wide context
\* completed before the call" (context.hpp), and a pinned thread's contexts are
\* those in effect at one moment of pin_default_contexts.
ImplementsContextRegister == Register!Spec
=============================================================================
