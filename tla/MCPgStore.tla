----------------------------- MODULE MCPgStore -----------------------------
(* Two versions of the key p1 of MCKeys, which all connections work on. *)
EXTENDS PgStore, MCKeys

MCSubmitted == {[fp |-> "p1", parts |-> {"u"}], [fp |-> "p1", parts |-> {"j", "s"}]}
=============================================================================
