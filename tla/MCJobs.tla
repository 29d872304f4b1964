-------------------------------- MODULE MCJobs --------------------------------
(* Values of the constants of Jobs for TLC. *)
EXTENDS Jobs, TLC

\* Files are not interchangeable where InputLists names them.
Symmetry == Permutations(Users) \union Permutations(Jobs)
              \union Permutations(Outputs)

\* Every set of uploads, and none.
AllInputs == SUBSET Files
\* Jobs over all the uploads there are.
FullInputs == {Files}

AllFaults == UploadFaults \union JobFaults
\* What goes wrong around a job, uploads being in order.
TaskFaults == JobFaults \union {"crash"}
=============================================================================
