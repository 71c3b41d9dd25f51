------------------------------ MODULE MCKqMoe ------------------------------
(***************************************************************************)
(* Four experts, two of them selected, from all routers with three levels  *)
(* of probability: every pattern of ties at the boundary.  A call of up to *)
(* three tokens may fail anywhere; a token makes 11 requests, the budget   *)
(* allows 30, so that it runs out while the third is computed.             *)
(***************************************************************************)
EXTENDS KqMoe

Plain(name) == [name |-> name, role |-> name, experts |-> {},
                parts |-> {"whole"}, rank |-> 2]
Stack(name, parts) == [name |-> name, role |-> name, experts |-> ExpertIds,
                       parts |-> parts, rank |-> 3]

MCSemantic == {Stack("gate_up", {"gate", "up"}), Stack("routed_down", {"whole"}), Plain("router"),
               Plain("shared_gate"), Plain("shared_up"), Plain("shared_down"),
               Plain("shared_gate_weight")}

MCBytes(kind, s) == 1

MCTraceCapacity ==
    [x \in {"fixed", "extended"} |-> [route |-> 6, expert |-> 6, ple |-> 1]]
=============================================================================
