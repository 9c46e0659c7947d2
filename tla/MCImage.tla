------------------------------ MODULE MCImage ------------------------------
(***************************************************************************)
(* Instances of ImageSystem for TLC.                                       *)
(***************************************************************************)
EXTENDS ImageSystem, TLC

(* Everything a request can ask for; a file has no thumbnail.              *)
AllForms == {f \in Signatures : f.kind = "file" => ~f.thumbnail}

(* Requests are interchangeable.                                           *)
Symmetry == Permutations(Uploads) \cup Permutations(Patchers)

=============================================================================
