---------------------------- MODULE MCRunRecords ----------------------------
(* Values for model checking RunRecords with TLC. *)
EXTENDS RunRecords

(* PIPELINE_STAGES and ACQUISITION_STEPS, cut to the ones with behaviour of their own. *)
SomeStages == <<"acquisition", "quality", "dedup", "load">>
SomeSteps  == <<"login">>
=============================================================================
