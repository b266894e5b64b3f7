---------------------------- MODULE MCEvaluation ----------------------------
(* Instances of TrialEvaluation for TLC.                                     *)
EXTENDS TrialEvaluation
TwoReviews == <<"domain", "rubric">>
=============================================================================
