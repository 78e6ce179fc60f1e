---------------------------- MODULE MCRecordTools ----------------------------
(* RecordTools with an empty and a one-column record; the column may hold an id.                      *)
EXTENDS RecordTools

SmallData == {<<>>, <<0>>}
=============================================================================
