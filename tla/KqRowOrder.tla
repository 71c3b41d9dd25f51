----------------------------- MODULE KqRowOrder -----------------------------
(***************************************************************************)
(* The head permutation of the GDN tensors (src/kq_weight_provider.c,      *)
(* grouped_to_tiled).  Canonical value heads are ordered by key group and  *)
(* then by repeat; the converter stored them by repeat and then by group.  *)
(***************************************************************************)
EXTENDS Integers

CONSTANTS KeyHeads,      \* KQ_GDN_KEY_HEADS
          Repeat,        \* KQ_GDN_VALUE_REPEAT
          HeadWidth      \* KQ_GDN_HEAD_WIDTH

ASSUME RowOrderAssumption ==
    KeyHeads \in Nat \ {0} /\ Repeat \in Nat \ {0} /\ HeadWidth \in Nat \ {0}

\* Mutant: groups and repeats are exchanged.
GroupedSwapped(canonical, width) ==
    LET repeat == canonical \div (KeyHeads * width)
        within == canonical % (KeyHeads * width)
    IN  ((within \div width) * Repeat + repeat) * width + (within % width)

\* Where a canonical row is stored, width features to a head.
GroupedToTiled(canonical, width) ==
    LET group   == canonical \div (Repeat * width)
        within  == canonical % (Repeat * width)
        repeat  == within \div width
        feature == within % width
    IN  (repeat * KeyHeads + group) * width + feature

\* What the converter put there: the same index read the other way round.
TiledToGrouped(stored, width) ==
    LET repeat  == stored \div (KeyHeads * width)
        within  == stored % (KeyHeads * width)
        group   == within \div width
        feature == within % width
    IN  (group * Repeat + repeat) * width + feature

Values(width) == Repeat * KeyHeads * width

\* Queries and keys come first and are not permuted.
QueryKeys == 2 * KeyHeads * HeadWidth

\* Rows (for the output projection: columns) of a tensor, by semantic role.
Rows(role) == CASE role \in {"gdn_alpha", "gdn_beta", "gdn_a_log", "gdn_dt_bias"} -> Values(1)
                [] role \in {"gdn_gate", "gdn_out"} -> Values(HeadWidth)
                [] role \in {"gdn_qkv", "gdn_conv"} -> QueryKeys + Values(HeadWidth)
                [] OTHER -> 2

PhysicalRow(role, row) ==
    CASE role \in {"gdn_alpha", "gdn_beta", "gdn_a_log", "gdn_dt_bias"} ->
            GroupedToTiled(row, 1)
      [] role \in {"gdn_gate", "gdn_out"} -> GroupedToTiled(row, HeadWidth)
      [] role \in {"gdn_qkv", "gdn_conv"} ->
            IF row < QueryKeys THEN row
            ELSE QueryKeys + GroupedToTiled(row - QueryKeys, HeadWidth)
      [] OTHER -> row

\* The canonical row the converter stored at a physical one.
StoredRow(role, row) ==
    CASE role \in {"gdn_alpha", "gdn_beta", "gdn_a_log", "gdn_dt_bias"} ->
            TiledToGrouped(row, 1)
      [] role \in {"gdn_gate", "gdn_out"} -> TiledToGrouped(row, HeadWidth)
      [] role \in {"gdn_qkv", "gdn_conv"} ->
            IF row < QueryKeys THEN row
            ELSE QueryKeys + TiledToGrouped(row - QueryKeys, HeadWidth)
      [] OTHER -> row
=============================================================================
