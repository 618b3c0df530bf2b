------------------------------ MODULE MCKernel ------------------------------
(* Small instances of EffectKernel: the effects and what their operations   *)
(* declare are chosen here, the bounds in the .cfg files.                   *)
EXTENDS EffectKernel

CONSTANTS key, cas, none, domA, domB

\* What the adapters declare: a record write or a workflow start has a key, a
\* push or an activation a native precondition, opening a pull request nothing.
MCIdempotency == [e \in Effects |-> CASE e = key -> "NATIVE_KEY"
                                      [] e = cas -> "NATIVE_PRECONDITION"
                                      [] OTHER   -> "NONE"]

\* All effects on one target, or the key on a target of its own.
OneDomain  == [e \in Effects |-> domA]
TwoDomains == [e \in Effects |-> IF e = key THEN domB ELSE domA]
=============================================================================
