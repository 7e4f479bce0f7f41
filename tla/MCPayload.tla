----------------------------- MODULE MCPayload -----------------------------
(* Two releases that agree on the first of two pieces; two downloads in a  *)
(* row, of one release or of both.                                         *)
EXTENDS Payload

MCPieces == {1, 2}
MCShared == {1}
=============================================================================
