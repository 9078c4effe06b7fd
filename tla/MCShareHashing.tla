--------------------------- MODULE MCShareHashing ---------------------------
(* Instances of ShareHashing: two files, of one chunk and of two. *)
EXTENDS ShareHashing, TLC

CONSTANTS song, film

files == {song, film}
sizes == song :> 1 @@ film :> 3
=============================================================================
