----------------------------- MODULE EvaluateMC -----------------------------
(***************************************************************************)
(* Three jobs on two workers: one job waits while the others are judged,   *)
(* and an encoding error, a broken policy or the end of the context meets  *)
(* it in every place.                                                      *)
(***************************************************************************)
EXTENDS Evaluate

(* Nothing, a shared value, one job or two jobs that cannot be encoded; a  *)
(* policy that fails on two jobs and on the controller; a disabled job     *)
(* that is skipped or not, and a snapshot in which all of them are skipped.*)
MCInputs ==
  [disabled: {{}}, opaque: {{}, {0}, {2}, {1, 2}},
   broken: {{}, {<<0, 1>>, <<2, 1>>, <<3, 1>>}}, skip: {TRUE}]
  \cup [disabled: {{2}, {1, 2, 3}}, opaque: {{}, {2}},
        broken: {{<<1, 1>>}}, skip: BOOLEAN]
=============================================================================
