---------------------------- MODULE MCEvaluation ----------------------------
\* Evaluation with the fingerprints and keys of MCKeyLifecycle.
EXTENDS Evaluation, MCKeyLifecycle
=============================================================================
