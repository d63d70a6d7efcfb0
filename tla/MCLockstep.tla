----------------------------- MODULE MCLockstep -----------------------------
(***************************************************************************)
(* Two scenes.  "decode" has every way an instruction word can be decoded:  *)
(* all opcodes, all branch conditions and base registers, RD of R0 and R7, *)
(* all function codes, zero and other offsets, under every status word.    *)
(* "operands" has every arithmetic function and every kind of load and     *)
(* store on the words where sign, carry, overflow and byte extension       *)
(* change.                                                                 *)
(***************************************************************************)
EXTENDS Lockstep

Words(ops, ras, fns) ==
    { 8192 * op + 1024 * ra + 128 * rd + 80 + fn :
        op \in ops, ra \in ras, rd \in {0, 7}, fn \in fns }

Decodable == Words(0 .. 1, 0 .. 7, 0 .. 15)
              \union {w - 80 : w \in Words(2 .. 7, 0 .. 7, {0, 1, 8})}

Edge == {0, 1, 127, 255, 32767, 32768, 65408, 65535}

(* R1 op R2 -> R3, then the loads, stores and LDA of R3 through R1. *)
Operate ==
    { 8192 + 1024 + 3 * 128 + 2 * 16 + fn : fn \in (0 .. 15) \ {3, 11} }
    \union { 8192 * op + 1024 + 3 * 128 + ofs : op \in 2 .. 7, ofs \in {0, 63, 64} }

MCScenes ==
    [ decode |->
        [ opcodes |-> Decodable, data |-> {33023},     \* 80FF
          regfiles |-> { [r \in 0 .. 7 |-> 4369 * r + 2] }, flags |-> Flags ],
      operands |->
        [ opcodes |-> Operate, data |-> {127, 128, 33023, 65535},
          regfiles |-> { [r \in 0 .. 7 |-> IF r = 2 THEN b ELSE a] : a, b \in Edge },
          flags |-> {f \in Flags : ~f.n /\ ~f.z /\ ~f.v} ] ]
=============================================================================
