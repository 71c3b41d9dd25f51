-------------------------- MODULE KqWeightProvider --------------------------
(***************************************************************************)
(* The weight provider (src/kq_weight_provider.c): requests for parts of   *)
(* semantic tensors, the accounts it keeps of them against a budget, and   *)
(* its diagnostic traces.  A request that fails, at whatever point, is     *)
(* charged nothing.                                                        *)
(***************************************************************************)
EXTENDS KqRowOrder, Sequences, FiniteSets

CONSTANTS Semantic,      \* tensors: records [name, role, experts, parts, rank]
          NoExpert,      \* KQ_WEIGHT_PROVIDER_NO_EXPERT
          Bytes(_, _),   \* payload of one request of a kind for a tensor
          Budget,        \* payload_budget_bytes
          MaxSemantics,  \* KQ_WEIGHT_PROVIDER_MAX_SEMANTICS
          MaxCount,      \* the largest value of a request counter
          TraceCapacity, \* [fixed, extended -> [route, expert, ple -> Nat]]
          Layer,         \* the layers routes are recorded for: below 48
          Routable,      \* the expert ids a route may name: below 512
          MaxEvents,     \* bound on the recorded history
          MaxUncounted   \* bound on what failing requests decode

ASSUME ProviderAssumption ==
    /\ \A s \in Semantic, k \in {"linear", "row", "vector", "ple"} : Bytes(k, s) \in Nat
    /\ Budget \in Nat \ {0} /\ MaxSemantics \in Nat \ {0} /\ MaxCount \in Nat
    /\ \A x \in {"fixed", "extended"}, t \in {"route", "expert", "ple"} :
         TraceCapacity[x][t] \in Nat \ {0}
    /\ MaxEvents \in Nat /\ MaxUncounted \in Nat

VARIABLES metrics,       \* bytes touched and the request counters
          touched,       \* the tensors touched
          tracing,       \* which of the two traces is in use
          traces,        \* [fixed, extended -> [route, expert, ple -> Seq]]
          armed,         \* the injected-failure flag
          status,        \* what the last call returned
          out,           \* the rows the last request delivered
          uncounted,     \* payload decoded by requests that then failed
          history,       \* every served request and recorded route
          start          \* the history when extended tracing was enabled

vars == <<metrics, touched, tracing, traces, armed, status, out,
          uncounted, history, start>>

Kinds == {"linear", "row", "vector", "ple"}

NoTrace == [t \in {"route", "expert", "ple"} |-> << >>]

Init == /\ metrics = [k \in Kinds \cup {"bytes", "expert"} |-> 0]
        /\ touched = {}
        /\ tracing = "fixed"
        /\ traces = [x \in {"fixed", "extended"} |-> NoTrace]
        /\ armed = FALSE
        /\ status = "ok"
        /\ out = << >>
        /\ uncounted = 0 /\ history = << >> /\ start = 0

\* Mutant: a full trace keeps the latest.
Wrapped(trace, entry, capacity) ==
    IF Len(trace) < capacity THEN Append(trace, entry)
    ELSE Append(Tail(trace), entry)

\* A full trace silently drops what follows.
Noted(trace, entry, capacity) ==
    IF Len(trace) < capacity THEN Append(trace, entry) ELSE trace

Note(t, entry) ==
    traces' = [traces EXCEPT ![tracing][t] =
                 Noted(@, entry, TraceCapacity[tracing][t])]

\* Mutant: the counter of requests to experts is forgotten.
ChargedOneKind(kinds, kind, s) ==
    /\ metrics.bytes + Bytes(kind, s) <= Budget
    /\ s \notin touched => Cardinality(touched) < MaxSemantics
    /\ touched' = touched \cup {s}
    /\ metrics' = [k \in DOMAIN metrics |->
                     IF k = "bytes" THEN metrics[k] + Bytes(kind, s)
                     ELSE IF k = kind THEN metrics[k] + 1 ELSE metrics[k]]

\* account: bytes, counters and the touched set move together, within bounds.
Charge(kinds, kind, s) ==
    /\ metrics.bytes + Bytes(kind, s) <= Budget
    /\ \A k \in kinds : metrics[k] < MaxCount
    /\ s \notin touched => Cardinality(touched) < MaxSemantics
    /\ touched' = touched \cup {s}
    /\ metrics' = [k \in DOMAIN metrics |->
                     IF k = "bytes" THEN metrics[k] + Bytes(kind, s)
                     ELSE IF k \in kinds THEN metrics[k] + 1 ELSE metrics[k]]

\* Each canonical row meets what is stored at the physical row it maps to.
Delivered(role) == [i \in 0..(Rows(role) - 1) |-> StoredRow(role, PhysicalRow(role, i))]

Serve(kinds, kind, s, e, part) ==
    /\ ~armed
    /\ Len(history) < MaxEvents
    /\ Charge(kinds, kind, s)
    /\ history' = Append(history, [kind |-> kind, tensor |-> s, expert |-> e, part |-> part])
    /\ status' = "ok"
    /\ UNCHANGED <<tracing, armed, uncounted, start>>

\* Which requests a tensor admits: only the embedding and output tables serve
\* single rows, only vectors and convolution kernels are materialised whole.
Offers(s, kind) ==
    CASE kind = "linear" -> TRUE
      [] kind = "row"    -> s.role \in {"token_embedding", "lm_head"}
      [] kind = "vector" -> /\ s.experts = {}
                            /\ s.rank = 1 \/ s.role \in {"gdn_conv", "ple_conv"}
      [] kind = "ple"    -> s.role = "ple_table"

\* kq_weight_provider_linear_f32: a whole matrix, or one expert of a stack.
Linear(s, part, e) ==
    /\ part \in s.parts
    /\ IF e = NoExpert THEN s.experts = {} ELSE e \in s.experts
    /\ Serve(IF e = NoExpert THEN {"linear"} ELSE {"linear", "expert"},
             "linear", s, e, part)
    /\ out' = Delivered(s.role)
    /\ IF e # NoExpert /\ part = "gate"
       THEN Note("expert", <<s.name, e>>) ELSE UNCHANGED traces

\* kq_weight_provider_row_f32: one row of a table.
Row(s) == /\ Offers(s, "row")
          /\ Serve({"row"}, "row", s, NoExpert, "whole")
          /\ out' = << >>
          /\ UNCHANGED traces

\* kq_weight_provider_vector_f32: a whole vector or convolution kernel.
Vector(s) == /\ Offers(s, "vector")
             /\ Serve({"vector"}, "vector", s, NoExpert, "whole")
             /\ out' = Delivered(s.role)
             /\ UNCHANGED traces

\* ple_lookup: one row of one member of the fused table.
PleRow(s) == /\ Offers(s, "ple")
             /\ Serve({"ple"}, "ple", s, NoExpert, "whole")
             /\ out' = << >>
             /\ Note("ple", s.name)

\* A request is refused or fails before it is accounted; the checks of its
\* arguments come before an injected failure is consumed, the others after.
Refuse == /\ status' = "failed"
          /\ armed' \in {armed, FALSE}
          /\ UNCHANGED <<metrics, touched, tracing, traces, out, uncounted, history, start>>

\* A block of the payload is decoded and its numbers are refused: the request
\* fails between the decoding and the accounting.
DecodeFail(kind, s) ==
    /\ ~armed /\ Offers(s, kind)
    /\ metrics.bytes + Bytes(kind, s) <= Budget
    /\ uncounted < MaxUncounted
    /\ uncounted' = uncounted + 1
    /\ status' = "failed"
    /\ UNCHANGED <<metrics, touched, tracing, traces, armed, out, history, start>>

\* kq_weight_provider_record_route: the ids are checked one by one, and those
\* before an invalid one stay recorded.
RecordRoute(layer, ids) ==
    LET bad  == {i \in 1..Len(ids) : ids[i] \notin Routable}
        good == IF bad = {} THEN ids
                ELSE SubSeq(ids, 1, (CHOOSE i \in bad : \A j \in bad : i <= j) - 1)
        room == TraceCapacity[tracing].route - Len(traces[tracing].route)
        kept == IF Len(good) <= room THEN good ELSE SubSeq(good, 1, room)
    IN  /\ Len(history) + Len(ids) <= MaxEvents
        /\ traces' = [traces EXCEPT ![tracing].route =
                        @ \o [i \in 1..Len(kept) |-> <<layer, kept[i]>>]]
        /\ history' = history \o [i \in 1..Len(good) |->
                        [kind |-> "route", tensor |-> layer, expert |-> good[i], part |-> "route"]]
        /\ status' = IF bad = {} THEN "ok" ELSE "failed"
        /\ UNCHANGED <<metrics, touched, tracing, armed, out, uncounted, start>>

\* Once: the fixed traces are left as they are, and no longer shown.
EnableExtendedTrace ==
    /\ tracing = "fixed"
    /\ tracing' = "extended"
    /\ status' = "ok"
    /\ start' = Len(history)
    /\ UNCHANGED <<metrics, touched, traces, armed, out, uncounted, history>>

FailNextRequest == /\ ~armed
                   /\ armed' = TRUE
                   /\ UNCHANGED <<metrics, touched, tracing, traces, status, out,
                                  uncounted, history, start>>

Next == \/ \E s \in Semantic : \E part \in s.parts, e \in s.experts \cup {NoExpert} :
             Linear(s, part, e)
        \/ \E s \in Semantic : Row(s) \/ Vector(s) \/ PleRow(s)
        \/ \E s \in Semantic, kind \in Kinds : DecodeFail(kind, s)
        \/ \E layer \in Layer, ids \in [1..2 -> Routable \cup {NoExpert}] :
             RecordRoute(layer, ids)
        \/ Refuse \/ EnableExtendedTrace \/ FailNextRequest

Spec == Init /\ [][Next]_vars
-----------------------------------------------------------------------------
\* The requests of the history, and those of one kind.
Served == {i \in DOMAIN history : history[i].kind # "route"}
Of(kind) == {i \in DOMAIN history : history[i].kind = kind}

SumOf(costs) ==
    LET sum[n \in 0..Len(costs)] == IF n = 0 THEN 0 ELSE sum[n - 1] + costs[n]
    IN  sum[Len(costs)]

Cost(h) == IF h.kind = "route" THEN 0 ELSE Bytes(h.kind, h.tensor)
TotalBytes == SumOf([i \in DOMAIN history |-> Cost(history[i])])

\* The events of a history the traces t have an entry for, and the entry.
Notes(t, h) == CASE t = "route"  -> h.kind = "route"
                 [] t = "expert" -> h.kind = "linear" /\ h.expert # NoExpert /\ h.part = "gate"
                 [] t = "ple"    -> h.kind = "ple"

Entry(t, h) == CASE t = "route"  -> <<h.tensor, h.expert>>
                 [] t = "expert" -> <<h.tensor.name, h.expert>>
                 [] t = "ple"    -> h.tensor.name

\* Where they are, from one event to another, and the place of one among them.
Events(t, events, from) == {i \in from..Len(events) : Notes(t, events[i])}
Place(at, i) == Cardinality({j \in at : j <= i})

\* A trace of those events that drops the ones it has no room for.
Holds(trace, capacity, t, events, from) ==
    LET at == Events(t, events, from)
    IN  /\ Len(trace) = IF Cardinality(at) <= capacity THEN Cardinality(at) ELSE capacity
        /\ \A i \in at : Place(at, i) <= capacity =>
                           trace[Place(at, i)] = Entry(t, events[i])

\* Type correctness, the bounds of the arrays included.
TypeOK == /\ metrics \in [Kinds \cup {"bytes", "expert"} -> Nat]
          /\ \A k \in Kinds \cup {"expert"} : metrics[k] <= MaxCount
          /\ touched \subseteq Semantic /\ Cardinality(touched) <= MaxSemantics
          /\ tracing \in {"fixed", "extended"}
          /\ \A x \in {"fixed", "extended"}, t \in {"route", "expert", "ple"} :
               Len(traces[x][t]) <= TraceCapacity[x][t]
          /\ armed \in BOOLEAN /\ status \in {"ok", "failed"}

\* The accounts are those of the requests that were served, whatever failed in
\* between: bytes within the budget, one count per request of each kind, and
\* every tensor of a served request, no other, among those touched (account).
AccountsServed ==
    /\ metrics.bytes = TotalBytes
    /\ metrics.bytes <= Budget
    /\ \A k \in Kinds : metrics[k] = Cardinality(Of(k))
    /\ metrics.expert = Cardinality({i \in Of("linear") : history[i].expert # NoExpert})
    /\ touched = {history[i].tensor : i \in Served}

\* A trace is the beginning of what happened since it was enabled, in order:
\* full traces drop the later entries, never the earlier ones, and enabling
\* the extended traces leaves the fixed ones as they were (the copy_* calls).
TracesTruthful ==
    \A t \in {"route", "expert", "ple"} :
        LET fixed    == TraceCapacity["fixed"][t]
            extended == TraceCapacity["extended"][t]
        IN  IF tracing = "fixed"
            THEN Holds(traces["fixed"][t], fixed, t, history, 1)
            ELSE /\ Holds(traces["fixed"][t], fixed, t, SubSeq(history, 1, start), 1)
                 /\ Holds(traces["extended"][t], extended, t, history, start + 1)

\* Whatever order the converter stored the heads in, the caller gets every
\* canonical row, each once and in canonical order (physical_row_for).
CanonicalOrder == \A i \in DOMAIN out : out[i] = i

\* "The provider counts logical packed bytes and quantized blocks immediately
\* before each decode/row-dot" (docs/TARGET-WEIGHT-PROVIDER-CONTRACT.md:63-64):
\* no payload is decoded that is not counted.
CountedBeforeDecode == uncounted = 0
=============================================================================
