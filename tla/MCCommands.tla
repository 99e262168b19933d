-------------------------------- MODULE MCCommands --------------------------------
(* Two processes, two states of the model, interchangeable, and two of the data. *)
EXTENDS Commands, TLC

Processes == Permutations(Process) \cup Permutations(Exported)
=============================================================================
