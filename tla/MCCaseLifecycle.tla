--------------------------- MODULE MCCaseLifecycle ---------------------------
(***************************************************************************)
(* CaseLifecycle on a small instance for TLC.                              *)
(***************************************************************************)
EXTENDS CaseLifecycle, TLC

\* Advisors, requests and workers are interchangeable.
Symmetry == Permutations(Advisors) \cup Permutations(Requests) \cup Permutations(Workers)
==============================================================================
