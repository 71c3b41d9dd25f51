------------------------------- MODULE KqMoe -------------------------------
(***************************************************************************)
(* One layer's mixture of experts (src/kq_moe_qwen38.c) on the quantized   *)
(* path: route each token, record the route, run the selected experts in   *)
(* ascending order and the shared expert, every matrix a request to the    *)
(* weight provider that may fail.                                          *)
(***************************************************************************)
EXTENDS KqWeightProvider, Functions

CONSTANTS ExpertCount,   \* d->expert_count
          TopK,          \* d->top_k
          Probability,   \* router probabilities: numbers, ties included
          MaxTokens,     \* bound on the tokens of a call
          MaxCalls       \* bound on the calls

ASSUME MoeAssumption ==
    /\ ExpertCount \in Nat /\ TopK \in 1..ExpertCount
    /\ NoExpert \notin 0..(ExpertCount - 1)
    /\ Probability \subseteq Nat /\ MaxTokens \in Nat

VARIABLES pc,            \* where the call is
          tokens, token, \* the call's token count; the token in progress
          probs,         \* router_probabilities
          selected,      \* selected_ids
          expert,        \* the loop variable over experts
          sum,           \* routed_sum: the experts added, with the weight used
          output,        \* the tokens written so far
          before,        \* the provider's accounts and history at the call
          calls

moe == <<pc, tokens, token, probs, selected, expert, sum, output, before, calls>>

ExpertIds == 0..(ExpertCount - 1)

MoeInit == /\ Init
           /\ pc = "idle" /\ tokens = 0 /\ token = 0
           /\ probs = << >> /\ selected = << >> /\ expert = 0
           /\ sum = << >> /\ output = << >>
           /\ before = [experts |-> 0, events |-> 0]
           /\ calls = 0

Better(prob, a, b) == prob[a] > prob[b] \/ (prob[a] = prob[b] /\ a < b)

\* Mutant: keeps the lowest id among equals.
WorstKeepsLow(prob, ids) ==
    CHOOSE i \in DOMAIN ids : \A j \in DOMAIN ids \ {i} : Better(prob, ids[j], ids[i])

\* The position that is evicted: the lowest probability and, among equals, the
\* lowest id.
Worst(prob, ids) ==
    CHOOSE i \in DOMAIN ids : \A j \in DOMAIN ids \ {i} :
        prob[ids[i]] < prob[ids[j]] \/ (prob[ids[i]] = prob[ids[j]] /\ ids[i] < ids[j])

\* kq_moe_select_top_k: the first k ids seed the set, a later id replaces the
\* worst only if strictly better, and the result is sorted.
SelectTopK(prob) ==
    LET scan[n \in TopK..ExpertCount] ==
          IF n = TopK THEN [i \in 1..TopK |-> i - 1]
          ELSE LET ids == scan[n - 1]  w == Worst(prob, ids)
               IN  IF prob[n - 1] > prob[ids[w]] THEN [ids EXCEPT ![w] = n - 1] ELSE ids
        kept == Range(scan[ExpertCount])
    IN  [rank \in 1..TopK |->
           CHOOSE e \in kept : Cardinality({d \in kept : Better(prob, d, e)}) = rank - 1]

Begin(n) == /\ pc = "idle" /\ calls < MaxCalls
            /\ pc' = "router" /\ tokens' = n /\ token' = 0
            /\ output' = << >>
            /\ before' = [experts |-> metrics.expert, events |-> Len(history)]
            /\ calls' = calls + 1
            /\ UNCHANGED <<vars, probs, selected, expert, sum>>

Tensor(name) == CHOOSE s \in Semantic : s.name = name

\* The router's matrix, softmax and the choice of experts.
Router == /\ pc = "router"
          /\ Linear(Tensor("router"), "whole", NoExpert)
          /\ \E p \in [ExpertIds -> Probability] :
               /\ probs' = p
               /\ selected' = SelectTopK(p)
          /\ pc' = "record"
          /\ UNCHANGED <<tokens, token, expert, sum, output, before, calls>>

Record == /\ pc = "record"
          /\ RecordRoute(0, selected)
          /\ status' = "ok"
          /\ expert' = 0 /\ sum' = << >>
          /\ probs' = << >>
          /\ pc' = "expert"
          /\ UNCHANGED <<tokens, token, selected, output, before, calls>>

IsSelected(e) == \E i \in DOMAIN selected : selected[i] = e

\* Mutant: experts are visited in the order of the route.
NextInRouteOrder ==
    /\ pc = "expert"
    /\ IF Len(sum) < TopK
       THEN /\ expert' = selected[Len(sum) + 1]
            /\ pc' = "gate"
       ELSE /\ UNCHANGED expert
            /\ pc' = "shared"
    /\ UNCHANGED <<vars, tokens, token, probs, selected, sum, output, before, calls>>

\* for (expert = 0; ...): those not selected are passed over.
NextExpert == /\ pc = "expert"
              /\ IF \E e \in ExpertIds : e >= expert /\ IsSelected(e)
                 THEN /\ expert' = CHOOSE e \in ExpertIds :
                                     /\ e >= expert /\ IsSelected(e)
                                     /\ \A d \in expert..(e - 1) : ~IsSelected(d)
                      /\ pc' = "gate"
                 ELSE /\ UNCHANGED expert
                      /\ pc' = "shared"
              /\ UNCHANGED <<vars, tokens, token, probs, selected, sum, output, before, calls>>

\* kq_moe_expert: gate, up and down of one expert.
Gate == /\ pc = "gate"
        /\ Linear(Tensor("gate_up"), "gate", expert)
        /\ pc' = "up"
        /\ UNCHANGED <<tokens, token, probs, selected, expert, sum, output, before, calls>>

Up == /\ pc = "up"
      /\ Linear(Tensor("gate_up"), "up", expert)
      /\ pc' = "down"
      /\ UNCHANGED <<tokens, token, probs, selected, expert, sum, output, before, calls>>

\* Mutant: the weight is taken by the order of visit.
DownByRank == /\ pc = "down"
              /\ Linear(Tensor("routed_down"), "whole", expert)
              /\ sum' = Append(sum, <<expert, Len(sum) + 1>>)
              /\ expert' = expert + 1
              /\ pc' = "expert"
              /\ UNCHANGED <<tokens, token, probs, selected, output, before, calls>>

\* The output is scaled by the weight at the expert's position in the route
\* (kq_moe_find_selected) and added to the sum.
Down == /\ pc = "down"
        /\ Linear(Tensor("routed_down"), "whole", expert)
        /\ sum' = Append(sum, <<expert, CHOOSE i \in DOMAIN selected : selected[i] = expert>>)
        /\ expert' = expert + 1
        /\ pc' = "expert"
        /\ UNCHANGED <<tokens, token, probs, selected, output, before, calls>>

SharedNames == <<"shared_gate", "shared_up", "shared_down", "shared_gate_weight">>

\* The four matrices of the shared expert, in order.
Shared == /\ pc \in {"shared", "shared_up", "shared_down", "shared_gate_weight"}
          /\ LET name == IF pc = "shared" THEN "shared_gate" ELSE pc
                 i == CHOOSE j \in 1..4 : SharedNames[j] = name
             IN  /\ Linear(Tensor(name), "whole", NoExpert)
                 /\ pc' = IF i = 4 THEN "write" ELSE SharedNames[i + 1]
          /\ UNCHANGED <<tokens, token, probs, selected, expert, sum, output, before, calls>>

\* routed_sum + gated_shared goes to the caller's output, token by token.
Write == /\ pc = "write"
         /\ output' = Append(output, [route |-> selected, sum |-> sum])
         /\ token' = token + 1
         /\ pc' = IF token + 1 = tokens THEN "done" ELSE "router"
         /\ UNCHANGED <<vars, tokens, probs, selected, expert, sum, before, calls>>

\* A request, or the arithmetic between two, fails: the call ends there.
FailCall == /\ pc \notin {"idle", "done", "failed", "expert"}
            /\ Refuse
            /\ pc' = "failed"
            /\ UNCHANGED <<tokens, token, probs, selected, expert, sum, output, before, calls>>

Leave == /\ pc \in {"done", "failed"}
         /\ pc' = "idle"
         /\ UNCHANGED <<vars, tokens, token, probs, selected, expert, sum, output, before, calls>>

MoeNext == \/ \E n \in 1..MaxTokens : Begin(n)
           \/ Router \/ Record \/ NextExpert \/ Gate \/ Up \/ Down
           \/ Shared \/ Write \/ FailCall \/ Leave

MoeSpec == MoeInit /\ [][MoeNext]_<<vars, moe>>
-----------------------------------------------------------------------------
\* The documented selection, as a set (docs/MOE-OPERATOR-CONTRACT.md): every id
\* above the k-th largest value v, and of those equal to v the highest among
\* the ones that came while fewer than k ids had reached v.
Above(p, v) == {e \in ExpertIds : p[e] > v}
Reached(p, v) == {e \in ExpertIds : p[e] >= v}

KthValue(p) == CHOOSE v \in Probability :
                 /\ Cardinality(Above(p, v)) < TopK
                 /\ Cardinality(Reached(p, v)) >= TopK
                 /\ \E e \in ExpertIds : p[e] = v

Members(p) ==
    LET v       == KthValue(p)
        entered == {e \in ExpertIds :
                      p[e] = v /\ Cardinality({d \in Reached(p, v) : d < e}) < TopK}
        places  == TopK - Cardinality(Above(p, v))
    IN  Above(p, v) \cup {e \in entered : Cardinality({d \in entered : d > e}) < places}

\* The route is the documented one, ties included: its members, each once, by
\* descending probability and then by ascending id (kq_moe_select_top_k).
RouteAsDocumented ==
    pc = "record" =>
        /\ {selected[i] : i \in 1..TopK} = Members(probs)
        /\ Len(selected) = TopK
        /\ \A i \in 1..(TopK - 1) : Better(probs, selected[i], selected[i + 1])

\* Every token written is the sum over exactly the experts of its own route,
\* in ascending order, each with the weight of its own place in that route.
OutputOfRoute ==
    \A t \in DOMAIN output :
        LET o == output[t]
        IN  /\ {o.sum[i][1] : i \in DOMAIN o.sum} = {o.route[i] : i \in DOMAIN o.route}
            /\ \A i \in DOMAIN o.sum : o.route[o.sum[i][2]] = o.sum[i][1]
            /\ \A i \in 1..(Len(o.sum) - 1) : o.sum[i][1] < o.sum[i + 1][1]

\* What the provider's traces and accounts record of a call that succeeds
\* agrees: for each token k routed ids, the same k ids, ascending, accessed, and
\* three requests for each of them, which the executor's last accounting check
\* relies on (kq_model_exec.c:892).
Block(at, t) == {i \in at : (Place(at, i) - 1) \div TopK = t}
Named(block) == {history[i].expert : i \in block}

TracesAgree ==
    pc = "done" =>
        LET routed   == Events("route", history, before.events + 1)
            accessed == Events("expert", history, before.events + 1)
        IN  /\ Cardinality(routed) = TopK * tokens
            /\ Cardinality(accessed) = TopK * tokens
            /\ \A t \in 0..(tokens - 1) :
                 /\ Named(Block(accessed, t)) = Named(Block(routed, t))
                 /\ \A i, j \in Block(accessed, t) :
                      i < j => history[i].expert < history[j].expert
            /\ metrics.expert - before.experts = 3 * TopK * tokens
=============================================================================
