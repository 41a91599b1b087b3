--------------------------- MODULE MCFileTransfer ---------------------------
(* Instances of FileTransfer for TLC: a directory with a file of two       *)
(* blocks and a subdirectory with an empty file.                           *)
EXTENDS FileTransfer, TLC

OneDirectory == <<"d">>
Tree         == ("d" :> <<"f", "e">>) @@ ("e" :> <<"g">>)
Sizes        == [f |-> 2, g |-> 0]
=============================================================================
