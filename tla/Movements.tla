----------------------------- MODULE Movements -----------------------------
(***************************************************************************)
(* What a transaction moved: the balances of src/src/balance.c and the     *)
(* transfers of src/src/transfer.c.  An extractor answers with rows, or    *)
(* fails the block.  The rows never outnumber the instructions they are    *)
(* allocated for, so the capacity checks are left out.                     *)
(***************************************************************************)
EXTENDS Wire

CONSTANT MaxDelta   \* INT64_MAX

Extracted(ok, rows) == [ok |-> ok, rows |-> IF ok THEN rows ELSE <<>>]
FirstOf(a, b) == IF a = Unknown THEN b ELSE a

-----------------------------------------------------------------------------
(* BALANCES *)

(* idx_sol_balance_extract with signed_delta *)
SolBalances(tx) ==
    LET moved == SelectSeq([i \in DOMAIN tx.pre |-> i], LAMBDA i : tx.pre[i] # tx.post[i])
        delta(i) == tx.post[i] - tx.pre[i]
    IN  Extracted(\A k \in DOMAIN moved : delta(moved[k]) \in -MaxDelta .. MaxDelta,
                  [k \in DOMAIN moved |->
                     [account |-> tx.accounts[moved[k]], lamports |-> tx.post[moved[k]],
                      delta |-> delta(moved[k])]])

SameHolding(a, b) == a.index = b.index /\ a.mint = b.mint
IsUnique(list) == \A i, j \in DOMAIN list : SameHolding(list[i], list[j]) => i = j
Holds(list, entry) == \E i \in DOMAIN list : SameHolding(list[i], entry)
(* find_holding; a list the join reaches names a holding once *)
Holding(list, entry) == list[CHOOSE i \in DOMAIN list : SameHolding(list[i], entry)]
Before(pre, entry) == IF Holds(pre, entry) THEN Holding(pre, entry).amount ELSE 0

Holder(tx, entry, amount, previous, closed) ==
    [account |-> tx.accounts[entry.index], mint |-> entry.mint, decimals |-> entry.decimals,
     owner |-> entry.owner, amount |-> amount, previous |-> previous, closed |-> closed]

(* Mistake: what the post list does not mention is forgotten. *)
PostSideOnly(tx) ==
    LET changed == SelectSeq(tx.post_tokens, LAMBDA b : Before(tx.pre_tokens, b) # b.amount)
    IN  Extracted(IsUnique(tx.pre_tokens) /\ IsUnique(tx.post_tokens),
                  [i \in DOMAIN changed |->
                     Holder(tx, changed[i], changed[i].amount, Before(tx.pre_tokens, changed[i]), FALSE)])

(* idx_token_balance_extract *)
TokenBalances(tx) ==
    LET pre == tx.pre_tokens
        post == tx.post_tokens
        changed == SelectSeq(post, LAMBDA b : Before(pre, b) # b.amount)
        gone == SelectSeq(pre, LAMBDA b : b.amount # 0 /\ ~Holds(post, b))
    IN  Extracted(IsUnique(pre) /\ IsUnique(post),
                  [i \in DOMAIN changed |->
                     Holder(tx, changed[i], changed[i].amount, Before(pre, changed[i]), FALSE)]
                  \o [i \in DOMAIN gone |-> Holder(tx, gone[i], 0, gone[i].amount, TRUE)])

(* find_token_balance of transfer.c and token_balance_of of swap.c *)
NoBalance == [index |-> Unknown, mint |-> Unknown, decimals |-> Unknown, owner |-> Unknown, amount |-> 0]
TokenBalanceOf(tx, key) ==
    LET of == SelectSeq(tx.post_tokens \o tx.pre_tokens, LAMBDA b : tx.accounts[b.index] = key)
    IN  IF of = <<>> THEN NoBalance ELSE of[1]

-----------------------------------------------------------------------------
(* TRANSFERS *)

(* Mistake: the destination is looked at first. *)
ResolvedFromDestination(tx, row) ==
    LET source == IF row.kind # "mint" THEN TokenBalanceOf(tx, row.source) ELSE NoBalance
        destination == IF row.kind # "burn" THEN TokenBalanceOf(tx, row.destination) ELSE NoBalance
        either == destination
    IN  [row EXCEPT !.mint = FirstOf(@, either.mint), !.decimals = FirstOf(@, either.decimals),
                    !.source_owner = source.owner, !.destination_owner = destination.owner]

(* resolve_from_balances *)
ResolveFromBalances(tx, row) ==
    LET source == IF row.kind # "mint" THEN TokenBalanceOf(tx, row.source) ELSE NoBalance
        destination == IF row.kind # "burn" THEN TokenBalanceOf(tx, row.destination) ELSE NoBalance
        either == IF source # NoBalance THEN source ELSE destination
    IN  [row EXCEPT !.mint = FirstOf(@, either.mint), !.decimals = FirstOf(@, either.decimals),
                    !.source_owner = source.owner, !.destination_owner = destination.owner]

(* builder_commit *)
Commit(tx, row) ==
    IF row.amount = 0 THEN <<>>
    ELSE <<IF row.kind = "sol" THEN row ELSE ResolveFromBalances(tx, row)>>

(* builder_row, and the operands and numbers of the layout: the mint is one *)
(* end of a mint or a burn.                                                 *)
RowOf(tx, w, kind, layout) ==
    LET operand(name) == Operand(tx, w.ix, layout, name)
    IN  [kind |-> kind, at |-> <<w.top, w.inner>>,
         source |-> operand(IF kind = "mint" THEN "mint" ELSE "source"),
         destination |-> operand(IF kind = "burn" THEN "mint" ELSE "destination"),
         authority |-> operand("authority"), mint |-> operand("mint"),
         decimals |-> Field(w.ix, layout, "decimals"), amount |-> Field(w.ix, layout, "amount"),
         fee |-> FirstOf(Field(w.ix, layout, "fee"), 0),
         source_owner |-> Unknown, destination_owner |-> Unknown]

SystemMoves == {"Transfer", "TransferWithSeed", "CreateAccount", "CreateAccountWithSeed",
                "WithdrawNonceAccount"}

(* extract_system *)
ExtractSystem(tx, w) ==
    LET status == Status(SystemLayouts, w.ix)
        disc == w.ix.data.disc
    IN  IF status = "ok" /\ disc \in SystemMoves
        THEN Extracted(TRUE, Commit(tx, RowOf(tx, w, "sol", SystemLayouts[disc])))
        ELSE Extracted(status # "error", <<>>)

(* fill_from_token *)
KindOf(disc) ==
    CASE disc \in {"Transfer", "TransferChecked"} -> "token"
      [] disc \in {"MintTo", "MintToChecked"} -> "mint"
      [] disc \in {"Burn", "BurnChecked"} -> "burn"
      [] OTHER -> Unknown

(* extract_token *)
ExtractToken(tx, w) ==
    LET status == Status(TokenLayouts, w.ix)
        kind == KindOf(w.ix.data.disc)
    IN  IF status = "ok" /\ kind # Unknown
        THEN Extracted(TRUE, Commit(tx, RowOf(tx, w, kind, TokenLayouts[w.ix.data.disc])))
        ELSE Extracted(status # "error", <<>>)

(* extract_token_2022: a base instruction, or the transfer that takes a fee. *)
ExtractToken2022(tx, w) ==
    IF w.ix.data.disc \notin DOMAIN Token2022Layouts THEN ExtractToken(tx, w)
    ELSE IF Status(Token2022Layouts, w.ix) = "ok" /\ IsTransferWithFee(w.ix)
    THEN IF Fits(TransferWithFee, w.ix)
         THEN Extracted(TRUE, Commit(tx, RowOf(tx, w, "token", TransferWithFee)))
         ELSE Extracted(FALSE, <<>>)
    ELSE Extracted(Status(Token2022Layouts, w.ix) # "error", <<>>)

(* extract_instruction *)
ExtractInstruction(tx, w) ==
    CASE Program(tx, w.ix) = "system" -> ExtractSystem(tx, w)
      [] Program(tx, w.ix) = "token" -> ExtractToken(tx, w)
      [] Program(tx, w.ix) = "token2022" -> ExtractToken2022(tx, w)
      [] OTHER -> Extracted(TRUE, <<>>)

(* Mistake: a rejected transaction is read as well. *)
TransfersOfRejected(tx) ==
    LET walk == Walk(tx)
        each == [i \in DOMAIN walk |-> ExtractInstruction(tx, walk[i])]
    IN  Extracted(\A i \in DOMAIN each : each[i].ok, Concat([i \in DOMAIN each |-> each[i].rows]))

(* idx_transfer_extract *)
Transfers(tx) ==
    LET walk == Walk(tx)
        each == [i \in DOMAIN walk |-> ExtractInstruction(tx, walk[i])]
    IN  IF ~tx.has_meta \/ ~tx.success THEN Extracted(TRUE, <<>>)
        ELSE Extracted(\A i \in DOMAIN each : each[i].ok,
                       Concat([i \in DOMAIN each |-> each[i].rows]))
=============================================================================
