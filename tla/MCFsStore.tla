----------------------------- MODULE MCFsStore -----------------------------
(* Two processes and the keys p1 and p2 of MCKeys, whose short ids collide. *)
EXTENDS FsStore, MCKeys, TLC

MCSubmitted == {[fp |-> "p1", parts |-> {"u"}], [fp |-> "p1", parts |-> {"j", "s"}],
                [fp |-> "p2", parts |-> {"u", "s"}]}
ProcSymmetry == Permutations(Proc)
=============================================================================
