------------------------------- MODULE Swaps -------------------------------
(***************************************************************************)
(* The swaps of a transaction and their prices: the venue decoders         *)
(* (src/src/venue*.c), the normalisation of src/src/swap.c and             *)
(* src/src/price.c.                                                        *)
(*                                                                         *)
(* A price is kept as the fraction it is computed from: the two amounts    *)
(* and the power of ten between their scales.                              *)
(***************************************************************************)
EXTENDS Movements

CONSTANTS
    QuoteMints,      \* the configured quote mints, the first has the highest priority
    MaxRouteMints    \* MAX_ROUTE_MINTS

Wsol == "wsol"
WsolDecimals == 9

-----------------------------------------------------------------------------
(* THE VENUE DECODERS: [status, swap] *)

Venues == [v4 |-> "raydium_amm_v4", clmm |-> "raydium_clmm", cpmm |-> "raydium_cpmm",
           curve |-> "pump_curve", amm |-> "pump_amm", jupiter |-> "jupiter"]
VenueOf(program) == IF program \in DOMAIN Venues THEN Venues[program] ELSE "none"
IsPool(venue) == venue \notin {"jupiter", "none"}

NoSide == [mint |-> Unknown, account |-> Unknown, amount |-> Unknown]
NoSwap == [venue |-> "none", pool |-> Unknown, user |-> Unknown, in |-> NoSide, out |-> NoSide,
           vaults |-> <<>>]
Skip == [status |-> "not_found", swap |-> NoSwap]
Failed == [status |-> "error", swap |-> NoSwap]
Swap(swap) == [status |-> "ok", swap |-> swap]

OfMint(mint, amount) == [NoSide EXCEPT !.mint = mint, !.amount = amount]
OfAccount(account, amount) == [NoSide EXCEPT !.account = account, !.amount = amount]

(* The keys and the numbers a decoder reads of an event. *)
HasFields(ix, keys, args) == Len(ix.data.keys) >= keys /\ Len(ix.data.args) >= args

(* decode_trade_event: mint, user; lamports, tokens, is_buy *)
DecodeTradeEvent(ix) ==
    IF ~HasFields(ix, 2, 3) THEN Failed
    ELSE LET sol == OfMint(Wsol, ix.data.args[1])
             token == OfMint(ix.data.keys[1], ix.data.args[2])
             buy == ix.data.args[3] # 0
         IN  Swap([NoSwap EXCEPT !.venue = "pump_curve", !.user = ix.data.keys[2],
                                 !.in = IF buy THEN sol ELSE token,
                                 !.out = IF buy THEN token ELSE sol])

(* decode_amm_event: pool, user, the user's base and quote accounts; base, quote *)
DecodeAmmEvent(ix, buy) ==
    IF ~HasFields(ix, 4, 2) THEN Failed
    ELSE LET base == OfAccount(ix.data.keys[3], ix.data.args[1])
             quote == OfAccount(ix.data.keys[4], ix.data.args[2])
         IN  Swap([NoSwap EXCEPT !.venue = "pump_amm", !.pool = ix.data.keys[1],
                                 !.user = ix.data.keys[2],
                                 !.in = IF buy THEN quote ELSE base,
                                 !.out = IF buy THEN base ELSE quote])

(* idx_venue_pump_decode *)
DecodePump(ix, venue) ==
    CASE venue = "pump_curve" /\ ix.data.disc = "TradeEvent" -> DecodeTradeEvent(ix)
      [] venue = "pump_amm" /\ ix.data.disc = "BuyEvent" -> DecodeAmmEvent(ix, TRUE)
      [] venue = "pump_amm" /\ ix.data.disc = "SellEvent" -> DecodeAmmEvent(ix, FALSE)
      [] OTHER -> Skip

(* idx_venue_pump_amm_accounts, which does not ask for the program *)
NamesAmmAccounts(ix) ==
    ix.data.disc \in {"Buy", "Sell", "BuyExactQuoteIn"} /\ Len(ix.accounts) >= 9

(* decode_amm_v4: 17 accounts, or 18 with the vaults one further on; the *)
(* trader's three are the last.                                          *)
DecodeAmmV4(tx, ix) ==
    LET count == Len(ix.accounts)
        vault == IF count = 17 THEN 5 ELSE 6
        account(i) == Account(tx, ix, i)
        base_in == ix.data.disc = "SwapBaseIn"
    IN  IF ix.data.disc = "" THEN Failed
        ELSE IF ix.data.disc \notin {"SwapBaseIn", "SwapBaseOut"} \/ count \notin {17, 18} THEN Skip
        ELSE IF ~HasFields(ix, 0, 2) THEN Failed
        ELSE Swap([venue |-> "raydium_amm_v4", pool |-> account(2), user |-> account(count),
                   in |-> OfAccount(account(count - 2), IF base_in THEN ix.data.args[1] ELSE Unknown),
                   out |-> OfAccount(account(count - 1), IF base_in THEN Unknown ELSE ix.data.args[2]),
                   vaults |-> <<account(vault), account(vault + 1)>>])

(* decode_clmm; SwapV2 names the mints *)
DecodeClmm(tx, ix) ==
    LET v2 == ix.data.disc = "SwapV2"
        account(i) == Account(tx, ix, i)
        fixed(input) == IF (ix.data.args[3] # 0) = input THEN ix.data.args[1] ELSE Unknown
        side(i, mint, input) ==
            [mint |-> IF v2 THEN account(mint) ELSE Unknown, account |-> account(i),
             amount |-> fixed(input)]
    IN  IF \/ ix.data.disc \notin {"Swap", "SwapV2"}
           \/ Len(ix.accounts) < (IF v2 THEN 13 ELSE 7)
        THEN Skip
        ELSE IF ~HasFields(ix, 0, 3) THEN Failed
        ELSE Swap([venue |-> "raydium_clmm", pool |-> account(3), user |-> account(1),
                   in |-> side(4, 12, TRUE), out |-> side(5, 13, FALSE),
                   vaults |-> <<account(6), account(7)>>])

(* idx_venue_jupiter_decode *)
DecodeJupiter(ix) ==
    IF ix.data.disc # "SwapEvent" THEN Skip
    ELSE IF ~HasFields(ix, 2, 2) THEN Failed
    ELSE Swap([NoSwap EXCEPT !.venue = "jupiter",
                             !.in = OfMint(ix.data.keys[1], ix.data.args[1]),
                             !.out = OfMint(ix.data.keys[2], ix.data.args[2])])

(* idx_swap_decode and idx_venue_raydium_decode, which has nothing for CPMM *)
SwapDecode(tx, ix) ==
    LET venue == VenueOf(Program(tx, ix))
    IN  CASE venue \in {"pump_curve", "pump_amm"} -> DecodePump(ix, venue)
          [] venue = "raydium_amm_v4" -> DecodeAmmV4(tx, ix)
          [] venue = "raydium_clmm" -> DecodeClmm(tx, ix)
          [] venue = "jupiter" -> DecodeJupiter(ix)
          [] OTHER -> Skip

(* idx_venue_creation_decode and idx_venue_metadata_decode: the event of the *)
(* curve, both of which ignore one they cannot read.                         *)
IsCreation(tx, ix) ==
    Program(tx, ix) = "curve" /\ ix.data.disc = "CreateEvent" /\ HasFields(ix, 2, 0)

-----------------------------------------------------------------------------
(* RESOLUTION AGAINST META *)

(* decimals_of_mint *)
DecimalsOfMint(tx, mint) ==
    LET of == SelectSeq(tx.post_tokens \o tx.pre_tokens, LAMBDA b : b.mint = mint)
    IN  CASE mint = Wsol -> WsolDecimals
          [] mint # Wsol /\ of # <<>> -> of[1].decimals
          [] OTHER -> Unknown

(* vault_delta, the magnitude *)
VaultDelta(tx, vault) ==
    LET amount(list) == LET of == SelectSeq(list, LAMBDA b : tx.accounts[b.index] = vault)
                        IN  IF of = <<>> THEN 0 ELSE of[1].amount
        change == amount(tx.post_tokens) - amount(tx.pre_tokens)
    IN  IF TokenBalanceOf(tx, vault) = NoBalance THEN Unknown
        ELSE IF change >= 0 THEN change ELSE -change

(* amount_from_vault_of_mint *)
AmountFromVaultOfMint(tx, vaults, mint) ==
    LET of == SelectSeq(vaults, LAMBDA v : TokenBalanceOf(tx, v).mint = mint)
    IN  IF mint = Unknown \/ of = <<>> THEN Unknown ELSE VaultDelta(tx, of[1])

(* set_side_mint, resolve_side_from_account, resolve_both_mints *)
SideOf(mint, decimals, amount) == [mint |-> mint, decimals |-> decimals, amount |-> amount]
MintSide(tx, mint, amount) == SideOf(mint, DecimalsOfMint(tx, mint), amount)
AccountSide(tx, account, amount) ==
    SideOf(TokenBalanceOf(tx, account).mint, TokenBalanceOf(tx, account).decimals, amount)
Resolve(tx, side) ==
    IF side.mint # Unknown THEN MintSide(tx, side.mint, side.amount)
    ELSE AccountSide(tx, side.account, side.amount)

(* collect_raylogs: the lines that are swaps, in their order. *)
RayLogs(tx) == SelectSeq(tx.logs, LAMBDA l : l.type = "swap")

-----------------------------------------------------------------------------
(* THE ROWS *)

(* What the walk carries: rows, the next ray_log, and the route so far. *)
Builder == [rows |-> <<>>, next |-> 1, net |-> <<>>, overflow |-> FALSE, route |-> 0]

PoolRow(sw, w, source, pool, in, out) ==
    [kind |-> "pool", venue |-> sw.venue, source |-> source, at |-> <<w.top, w.inner>>,
     pool |-> pool, user |-> sw.user, in |-> in, out |-> out]

(* normalize_pump_curve: the mint that is not WSOL is the pool. *)
NormalizePumpCurve(tx, sw, w) ==
    PoolRow(sw, w, "event", IF sw.in.mint = Wsol THEN sw.out.mint ELSE sw.in.mint,
            MintSide(tx, sw.in.mint, sw.in.amount), MintSide(tx, sw.out.mint, sw.out.amount))

(* find_pump_amm_accounts: top-level instructions first, then the inner ones *)
AmmInstructions(tx, pool) ==
    LET inner == Concat([g \in DOMAIN tx.inner |-> tx.inner[g].ixs])
    IN  SelectSeq(tx.ixs \o inner, LAMBDA ix : NamesAmmAccounts(ix) /\ Account(tx, ix, 1) = pool)

(* normalize_pump_amm *)
NormalizePumpAmm(tx, sw, w) ==
    LET found == AmmInstructions(tx, sw.pool)
        base_in == sw.in.account = Account(tx, found[1], 6)
        base == Account(tx, found[1], 4)
        quote == Account(tx, found[1], 5)
    IN  IF found = <<>>
        THEN PoolRow(sw, w, "event", sw.pool, AccountSide(tx, sw.in.account, sw.in.amount),
                     AccountSide(tx, sw.out.account, sw.out.amount))
        ELSE PoolRow(sw, w, "event", sw.pool,
                     MintSide(tx, IF base_in THEN base ELSE quote, sw.in.amount),
                     MintSide(tx, IF base_in THEN quote ELSE base, sw.out.amount))

(* Mistake: the next ray_log is taken without the cross-check. *)
TrustsAny(sw, log) == TRUE

(* The cross-check of normalize_raydium_amm. *)
Trusts(sw, log) ==
    LET fixed == IF sw.in.amount # Unknown THEN sw.in.amount ELSE sw.out.amount
    IN  fixed = 0 \/ (IF sw.in.amount # Unknown THEN log.in ELSE log.out) = fixed

(* normalize_raydium_amm; the fixed amount, and the delta of the vault that *)
(* holds the other mint, when no ray_log is left or it does not agree.      *)
NormalizeRaydiumAmm(tx, sw, w, next) ==
    LET in == Resolve(tx, sw.in)
        out == Resolve(tx, sw.out)
        logs == RayLogs(tx)
        delta(side) ==
            [side EXCEPT !.amount = FirstOf(@, AmountFromVaultOfMint(tx, sw.vaults, side.mint))]
    IN  IF next \in DOMAIN logs /\ Trusts(sw, logs[next])
        THEN PoolRow(sw, w, "raylog", sw.pool, [in EXCEPT !.amount = logs[next].in],
                     [out EXCEPT !.amount = logs[next].out])
        ELSE PoolRow(sw, w, "delta", sw.pool, delta(in), delta(out))

(* normalize_raydium_clmm: the vaults come in the order of the swap. *)
NormalizeRaydiumClmm(tx, sw, w) ==
    LET delta(side, vault) == [side EXCEPT !.amount = FirstOf(@, VaultDelta(tx, vault))]
    IN  PoolRow(sw, w, "delta", sw.pool, delta(Resolve(tx, sw.in), sw.vaults[1]),
                delta(Resolve(tx, sw.out), sw.vaults[2]))

(* Mistake: a mint the route passed through gets an entry for every leg. *)
AddSideAgain(b, mint, in, out) ==
    IF Len(b.net) >= MaxRouteMints THEN [b EXCEPT !.overflow = TRUE]
    ELSE [b EXCEPT !.net = Append(@, [mint |-> mint, in |-> in, out |-> out])]

(* add_route_leg, one side of it. *)
AddSide(b, mint, in, out) ==
    IF \E i \in DOMAIN b.net : b.net[i].mint = mint
    THEN [b EXCEPT !.net = [i \in DOMAIN @ |->
            IF @[i].mint = mint THEN [@[i] EXCEPT !.in = @ + in, !.out = @ + out] ELSE @[i]]]
    ELSE IF Len(b.net) >= MaxRouteMints THEN [b EXCEPT !.overflow = TRUE]
    ELSE [b EXCEPT !.net = Append(@, [mint |-> mint, in |-> in, out |-> out])]

(* Once the table was full the sums do not matter any more. *)
AddRouteLeg(b, sw) ==
    AddSide(AddSide(b, sw.in.mint, sw.in.amount, 0), sw.out.mint, 0, sw.out.amount)

(* The largest net of the mints of one direction, the first of equals. *)
LargestNet(net) ==
    CHOOSE i \in DOMAIN net :
        \A j \in DOMAIN net : net[j] < net[i] \/ (net[j] = net[i] /\ i <= j)

(* flush_route *)
FlushRoute(b, tx) ==
    LET paid == [k \in DOMAIN b.net |-> b.net[k].in - b.net[k].out]
        got == [k \in DOMAIN b.net |-> -paid[k]]
        i == LargestNet(paid)
        o == LargestNet(got)
    IN  IF \/ b.route = 0 \/ b.overflow
           \/ \A k \in DOMAIN b.net : paid[k] <= 0
           \/ \A k \in DOMAIN b.net : got[k] <= 0
        THEN b.rows
        ELSE Append(b.rows,
                [kind |-> "aggregated", venue |-> "jupiter", source |-> "event",
                 at |-> <<b.route, 0>>, pool |-> Unknown, user |-> tx.accounts[1],
                 in |-> MintSide(tx, b.net[i].mint, paid[i]),
                 out |-> MintSide(tx, b.net[o].mint, got[o])])

(* normalize_instruction; a ray_log is used up whether it is trusted or not. *)
NormalizeInstruction(tx, b, w, sw) ==
    CASE sw.venue = "jupiter" ->
            AddRouteLeg([b EXCEPT !.route = IF @ = 0 THEN w.top ELSE @], sw)
      [] sw.venue = "pump_curve" -> [b EXCEPT !.rows = Append(@, NormalizePumpCurve(tx, sw, w))]
      [] sw.venue = "pump_amm" -> [b EXCEPT !.rows = Append(@, NormalizePumpAmm(tx, sw, w))]
      [] sw.venue = "raydium_clmm" -> [b EXCEPT !.rows = Append(@, NormalizeRaydiumClmm(tx, sw, w))]
      [] sw.venue = "raydium_amm_v4" ->
            [b EXCEPT !.rows = Append(@, NormalizeRaydiumAmm(tx, sw, w, b.next)), !.next = @ + 1]

(* idx_swap_normalize *)
NormalizeSwaps(tx) ==
    LET walk == Walk(tx)
        decoded == [i \in DOMAIN walk |-> SwapDecode(tx, walk[i].ix)]
        after[i \in 0 .. Len(walk)] ==
            IF i = 0 THEN Builder
            ELSE IF decoded[i].status # "ok" THEN after[i - 1]
            ELSE NormalizeInstruction(tx, after[i - 1], walk[i], decoded[i].swap)
    IN  IF ~tx.has_meta \/ ~tx.success THEN Extracted(TRUE, <<>>)
        ELSE IF \E i \in DOMAIN decoded : decoded[i].status = "error" THEN Extracted(FALSE, <<>>)
        ELSE Extracted(TRUE, FlushRoute(after[Len(walk)], tx))

-----------------------------------------------------------------------------
(* PRICES *)

(* quote_rank; 0 for -1 *)
QuoteRank(mint) ==
    IF \E i \in DOMAIN QuoteMints : QuoteMints[i] = mint
    THEN CHOOSE i \in DOMAIN QuoteMints : QuoteMints[i] = mint
    ELSE 0

(* Mistake: the input is the quote whenever it can be one. *)
InputFirst(row) == QuoteRank(row.in.mint) # 0

QuoteIsInput(row) ==
    LET in == QuoteRank(row.in.mint)
        out == QuoteRank(row.out.mint)
    IN  in # 0 /\ (out = 0 \/ in <= out)

(* idx_price_of_swap, as far as there is a number in it. *)
HasPrice(row) ==
    LET base == IF QuoteIsInput(row) THEN row.out ELSE row.in
    IN  /\ QuoteRank(row.in.mint) # 0 \/ QuoteRank(row.out.mint) # 0
        /\ base.mint # Unknown
        /\ Unknown \notin {row.in.amount, row.out.amount, row.in.decimals, row.out.decimals}
        /\ base.amount # 0

PriceOfSwap(row) ==
    LET quote == IF QuoteIsInput(row) THEN row.in ELSE row.out
        base == IF QuoteIsInput(row) THEN row.out ELSE row.in
    IN  [quote |-> quote.mint, base |-> base.mint, quote_amount |-> quote.amount,
         base_amount |-> base.amount, scale |-> base.decimals - quote.decimals]
=============================================================================
