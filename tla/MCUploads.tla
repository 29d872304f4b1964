------------------------------ MODULE MCUploads ------------------------------
(* Values of the constants of Uploads for TLC. *)
EXTENDS Uploads, TLC

Symmetry == Permutations(Users) \union Permutations(Files)
              \union Permutations(Requests)

AllFaults == UploadFaults
=============================================================================
