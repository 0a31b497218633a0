-------------------------------- MODULE Wire --------------------------------
(***************************************************************************)
(* From the document of a transaction to the model of it: src/src/block.c, *)
(* the vote filter and the decoders of the system and token programs.      *)
(*                                                                         *)
(* Numbers, keys and strings of the document are taken as read; an index   *)
(* counts from 1.  The data of an instruction is its discriminant, "" when *)
(* there are no bytes, and the numbers and the keys behind it, in their    *)
(* order.  Where a caller tells errors apart it is only NOT_FOUND, which   *)
(* every walk skips, from all others, which fail the block.                *)
(***************************************************************************)
EXTENDS Integers, SequencesExt

CONSTANT Unknown   \* a has_ flag that is off, a field that is absent

Concat(lists) ==
    LET upto[n \in 0 .. Len(lists)] == IF n = 0 THEN <<>> ELSE upto[n - 1] \o lists[n]
    IN  upto[Len(lists)]

-----------------------------------------------------------------------------
(* THE TRANSACTION *)

(* Addresses of lookup tables are in meta, and only for a versioned one. *)
HasLoaded(entry) == entry.version # "legacy" /\ entry.has_meta

(* resolve_accounts: the static keys, the writable, then the readonly ones. *)
ResolveAccounts(entry) ==
    entry.static \o (IF HasLoaded(entry) THEN entry.writable \o entry.readonly ELSE <<>>)

HeaderFits(entry) ==
    /\ entry.sigs <= Len(entry.static)
    /\ entry.ro_signed <= entry.sigs
    /\ entry.ro_unsigned <= Len(entry.static) - entry.sigs

(* take_index of every operand, and of the program *)
IndicesFit(ix, count) == ix.program <= count /\ \A i \in DOMAIN ix.accounts : ix.accounts[i] <= count

(* decode_balances: both or neither, one entry for every account. *)
BalancesFit(entry, count) ==
    \/ entry.pre = Unknown /\ entry.post = Unknown
    \/ /\ entry.pre # Unknown /\ entry.post # Unknown
       /\ Len(entry.pre) = count /\ Len(entry.post) = count

TokenBalancesFit(list, count) == \A i \in DOMAIN list : list[i].index <= count /\ list[i].decimals <= 255

WellFormed(entry) ==
    LET count == Len(ResolveAccounts(entry))
    IN  /\ entry.version \in {"legacy", "v0"}
        /\ HeaderFits(entry)
        /\ \A i \in DOMAIN entry.ixs : IndicesFit(entry.ixs[i], count)
        /\ entry.has_meta =>
             /\ \A g \in DOMAIN entry.inner :
                  \A j \in DOMAIN entry.inner[g].ixs : IndicesFit(entry.inner[g].ixs[j], count)
             /\ BalancesFit(entry, count)
             /\ TokenBalancesFit(entry.pre_tokens, count)
             /\ TokenBalancesFit(entry.post_tokens, count)

(* decode_transaction, of a document that passes every check. *)
Decoded(entry) ==
    LET meta(list) == IF entry.has_meta THEN list ELSE <<>>
    IN  [accounts |-> ResolveAccounts(entry),
         ixs |-> entry.ixs, inner |-> meta(entry.inner),
         has_meta |-> entry.has_meta, success |-> ~entry.has_meta \/ ~entry.err,
         pre |-> IF entry.pre = Unknown THEN <<>> ELSE meta(entry.pre),
         post |-> IF entry.post = Unknown THEN <<>> ELSE meta(entry.post),
         pre_tokens |-> meta(entry.pre_tokens), post_tokens |-> meta(entry.post_tokens),
         logs |-> meta(entry.logs)]

Program(tx, ix) == tx.accounts[ix.program]
(* idx_instruction_account *)
Account(tx, ix, position) == tx.accounts[ix.accounts[position]]

(* inner_group of src/src/transfer.c and of src/src/swap.c: the first group *)
(* of a top-level instruction.                                              *)
InnerGroup(tx, i) ==
    LET of == SelectSeq(tx.inner, LAMBDA g : g.index = i)
    IN  IF of = <<>> THEN <<>> ELSE of[1].ixs

(* The instructions in the order both extractors walk them, each with its *)
(* path: inner is 0 for the top-level instruction itself.                 *)
Walk(tx) ==
    LET At(ix, i, j) == [ix |-> ix, top |-> i, inner |-> j]
        Of(i) == LET group == InnerGroup(tx, i)
                 IN  <<At(tx.ixs[i], i, 0)>> \o [j \in DOMAIN group |-> At(group[j], i, j)]
    IN  Concat([i \in DOMAIN tx.ixs |-> Of(i)])

(* idx_vote_filter_should_drop *)
IsVote(tx) == tx.ixs # <<>> /\ \A i \in DOMAIN tx.ixs : Program(tx, tx.ixs[i]) = "vote"

-----------------------------------------------------------------------------
(* THE PROGRAMS: the operands and the fields an instruction must have.  The *)
(* fields a transfer is read from have the names of its row; "option" is a  *)
(* COption, whose tag is 0 or 1, "types" a number of bytes for whole 16-bit *)
(* values.                                                                  *)

Layout(accounts, fields) == [accounts |-> accounts, fields |-> fields]

SystemLayouts ==
    [CreateAccount |-> Layout(<<"source", "destination">>, <<"amount", "space", "owner">>),
     Assign |-> Layout(<<"account">>, <<"owner">>),
     Transfer |-> Layout(<<"source", "destination">>, <<"amount">>),
     CreateAccountWithSeed |->
        Layout(<<"source", "destination">>, <<"base", "seed", "amount", "space", "owner">>),
     AdvanceNonceAccount |-> Layout(<<"nonce", "sysvar", "nonce_authority">>, <<>>),
     WithdrawNonceAccount |->
        Layout(<<"source", "destination", "sysvar", "rent", "authority">>, <<"amount">>),
     InitializeNonceAccount |-> Layout(<<"nonce">>, <<"new_authority">>),
     AuthorizeNonceAccount |-> Layout(<<"nonce", "nonce_authority">>, <<"new_authority">>),
     Allocate |-> Layout(<<"account">>, <<"space">>),
     AllocateWithSeed |-> Layout(<<"account", "base">>, <<"base", "seed", "space", "owner">>),
     AssignWithSeed |-> Layout(<<"account", "base">>, <<"base", "seed", "owner">>),
     TransferWithSeed |->
        Layout(<<"source", "authority", "destination">>, <<"amount", "seed", "owner">>),
     UpgradeNonceAccount |-> Layout(<<"nonce">>, <<>>)]

TokenLayouts ==
    [InitializeMint |-> Layout(<<"mint">>, <<"decimals", "mint_authority", "option">>),
     InitializeMint2 |-> Layout(<<"mint">>, <<"decimals", "mint_authority", "option">>),
     InitializeAccount |-> Layout(<<"account", "mint", "owner">>, <<>>),
     InitializeAccount2 |-> Layout(<<"account", "mint">>, <<"owner">>),
     InitializeAccount3 |-> Layout(<<"account", "mint">>, <<"owner">>),
     InitializeMultisig |-> Layout(<<"multisig">>, <<"required">>),
     InitializeMultisig2 |-> Layout(<<"multisig">>, <<"required">>),
     Transfer |-> Layout(<<"source", "destination", "authority">>, <<"amount">>),
     TransferChecked |->
        Layout(<<"source", "mint", "destination", "authority">>, <<"amount", "decimals">>),
     Approve |-> Layout(<<"account", "delegate", "owner">>, <<"allowed">>),
     ApproveChecked |-> Layout(<<"account", "mint", "delegate", "owner">>, <<"allowed", "decimals">>),
     Revoke |-> Layout(<<"account", "owner">>, <<>>),
     SetAuthority |-> Layout(<<"account", "current">>, <<"type", "option">>),
     MintTo |-> Layout(<<"mint", "destination", "authority">>, <<"amount">>),
     MintToChecked |-> Layout(<<"mint", "destination", "authority">>, <<"amount", "decimals">>),
     Burn |-> Layout(<<"source", "mint", "authority">>, <<"amount">>),
     BurnChecked |-> Layout(<<"source", "mint", "authority">>, <<"amount", "decimals">>),
     CloseAccount |-> Layout(<<"account", "to", "owner">>, <<>>),
     FreezeAccount |-> Layout(<<"account", "mint", "freezer">>, <<>>),
     ThawAccount |-> Layout(<<"account", "mint", "freezer">>, <<>>),
     SyncNative |-> Layout(<<"account">>, <<>>),
     InitializeImmutableOwner |-> Layout(<<"account">>, <<>>),
     GetAccountDataSize |-> Layout(<<"mint">>, <<>>),
     AmountToUiAmount |-> Layout(<<"mint">>, <<"ui">>),
     UiAmountToAmount |-> Layout(<<"mint">>, <<>>)]

(* The groups of extensions have a second discriminant; the bytes behind it *)
(* stay bytes.                                                              *)
Token2022Layouts ==
    [InitializeMintCloseAuthority |-> Layout(<<"mint">>, <<"option">>),
     InitializePermanentDelegate |-> Layout(<<"mint">>, <<"delegate">>),
     InitializeNonTransferableMint |-> Layout(<<"mint">>, <<>>),
     CreateNativeMint |-> Layout(<<"payer", "mint">>, <<>>),
     WithdrawExcessLamports |-> Layout(<<"account", "to", "owner">>, <<>>),
     Reallocate |-> Layout(<<"account", "payer", "system", "owner">>, <<"types">>),
     OtherExtension |-> Layout(<<>>, <<"sub">>),
     TransferFeeExtension |-> Layout(<<>>, <<"sub">>)]

(* idx_token_2022_transfer_with_fee_decode *)
TransferWithFee ==
    Layout(<<"source", "mint", "destination", "authority">>, <<"sub", "amount", "decimals", "fee">>)
IsTransferWithFee(ix) == ix.data.disc = "TransferFeeExtension" /\ ix.data.args[1] = 1

(* require_account, and the reads of the cursor *)
Fits(layout, ix) ==
    /\ Len(ix.accounts) >= Len(layout.accounts)
    /\ Len(ix.data.args) >= Len(layout.fields)
    /\ \A i \in DOMAIN layout.fields :
         /\ layout.fields[i] = "option" => ix.data.args[i] \in {0, 1}
         /\ layout.fields[i] = "types" => ix.data.args[i] % 2 = 0

(* The status of a decoder: OK, NOT_FOUND or an error. *)
Status(layouts, ix) ==
    IF ix.data.disc = "" THEN "error"
    ELSE IF ix.data.disc \notin DOMAIN layouts THEN "not_found"
    ELSE IF Fits(layouts[ix.data.disc], ix) THEN "ok" ELSE "error"

(* What an instruction says of one field of a row: an operand or a number. *)
Names(layout, name) == \E i \in DOMAIN layout.accounts : layout.accounts[i] = name
States(layout, name) == \E i \in DOMAIN layout.fields : layout.fields[i] = name
Operand(tx, ix, layout, name) ==
    IF Names(layout, name)
    THEN Account(tx, ix, CHOOSE i \in DOMAIN layout.accounts : layout.accounts[i] = name)
    ELSE Unknown
Field(ix, layout, name) ==
    IF States(layout, name)
    THEN ix.data.args[CHOOSE i \in DOMAIN layout.fields : layout.fields[i] = name]
    ELSE Unknown
=============================================================================
