------------------------------ MODULE InPlace ------------------------------
(***************************************************************************)
(* A file that is written in place (df.to_parquet, Path.write_bytes): it   *)
(* is truncated when a process opens it and whole when it closes it,       *)
(* unless another process wrote it meanwhile; then it may stay torn.       *)
(***************************************************************************)

(* Who shares its file with another writer, once p has opened the one that *)
(* others are writing.                                                     *)
Truncate(clashing, p, others) ==
    (clashing \ {p}) \cup (IF others = {} THEN {} ELSE others \cup {p})

(* What the file may hold when p has closed it. *)
Complete(clashing, p, torn) == {p} \cup (IF p \in clashing THEN {torn} ELSE {})
=============================================================================
