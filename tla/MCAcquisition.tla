--------------------------- MODULE MCAcquisition ---------------------------
(***************************************************************************)
(* Acquisition with all the configurations that make a difference.         *)
(***************************************************************************)
EXTENDS Acquisition

AllFilters == {"none", "url", "widget", "auto"}
AllTraces  == {"off", "on_failure", "always"}

=============================================================================
