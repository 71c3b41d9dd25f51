------------------------- MODULE MCKqWeightProvider -------------------------
(***************************************************************************)
(* Seven tensors, all ways of being requested.  Five payload units, two    *)
(* tensors and two counts per counter are each exhausted within a history  *)
(* of four events; traces hold one or two entries.                         *)
(***************************************************************************)
EXTENDS KqWeightProvider

Tensor(role, rank) ==
    [name |-> role, role |-> role, experts |-> {}, parts |-> {"whole"}, rank |-> rank]

MCSemantic == {[name |-> "stack", role |-> "expert_stack", experts |-> {0, 1},
                parts |-> {"gate", "up"}, rank |-> 3],
               Tensor("gdn_qkv", 2), Tensor("gdn_out", 2), Tensor("gdn_a_log", 1),
               Tensor("gdn_conv", 2), Tensor("lm_head", 2), Tensor("ple_table", 2)}

MCBytes(kind, s) == IF kind = "linear" THEN 2 ELSE 1

MCTraceCapacity ==
    [fixed |-> [route |-> 2, expert |-> 1, ple |-> 1],
     extended |-> [route |-> 3, expert |-> 2, ple |-> 1]]
=============================================================================
