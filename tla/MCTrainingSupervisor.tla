------------------------ MODULE MCTrainingSupervisor ------------------------
(* Instances of TrainingSupervisor for TLC.                                   *)
EXTENDS TrainingSupervisor

=============================================================================
