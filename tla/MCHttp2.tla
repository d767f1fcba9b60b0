------------------------------- MODULE MCHttp2 -------------------------------
(* Two streams, two fields of the same name of which the second fills the   *)
(* table.                                                                   *)
EXTENDS Http2

CONSTANTS f1, f2, n1

MCNameOf == [f \in Fields |-> n1]
MCSizeOf == [f \in Fields |-> IF f = f1 THEN 1 ELSE 2]
MCAnnounced == {[id |-> "HEADER_TABLE_SIZE", value |-> 1],
                [id |-> "HEADER_TABLE_SIZE", value |-> 4],
                [id |-> "MAX_FRAME_SIZE", value |-> 2],
                [id |-> "INITIAL_WINDOW_SIZE", value |-> 0]}
=============================================================================
