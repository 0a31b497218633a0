----------------------------- MODULE Dimensions -----------------------------
(***************************************************************************)
(* The registries of pools and tokens, src/src/pool.c and src/src/token.c, *)
(* and what the confirmed tier does with a record it already has           *)
(* (put_pool and put_token of src/src/pg_store.c).                         *)
(*                                                                         *)
(* mint_b of a pool is never known before mint_a, so a pool keeps its two  *)
(* sides as a sequence of at most two.  An amount of swaps, a slot or a    *)
(* name is whatever the caller passes; Unknown is a has_ flag that is off. *)
(***************************************************************************)
EXTENDS Naturals, SequencesExt

CONSTANT Unknown

Known(table, k) == k \in DOMAIN table
With(table, k, record) == [x \in DOMAIN table \cup {k} |-> IF x = k THEN record ELSE table[x]]
FirstKnown(old, new) == IF old = Unknown THEN new ELSE old
Least(a, b) == IF b < a THEN b ELSE a
Greatest(a, b) == IF b > a THEN b ELSE a

(* find_pool and the record a swap creates; find_or_create of a token. *)
NewPool(slot) ==
    [sides |-> <<>>, seen |-> slot, swaps |-> 0, created |-> Unknown, creator |-> Unknown]
PoolAt(pools, p, slot) == IF Known(pools, p) THEN pools[p] ELSE NewPool(slot)
NewToken(slot) == [decimals |-> Unknown, name |-> Unknown, named |-> FALSE, seen |-> slot]
TokenAt(tokens, m, slot) == IF Known(tokens, m) THEN tokens[m] ELSE NewToken(slot)

-----------------------------------------------------------------------------
(* THE POOL REGISTRY *)

(* Mistake: the sides of a later swap are taken to come in the pool's order. *)
RememberByPosition(sides, side) ==
    IF side.mint = Unknown THEN sides
    ELSE IF Len(sides) < 2 THEN Append(sides, side)
    ELSE [sides EXCEPT ![1].decimals = FirstKnown(@, side.decimals)]

(* remember_mint *)
RememberMint(sides, side) ==
    IF side.mint = Unknown THEN sides
    ELSE IF \E i \in DOMAIN sides : sides[i].mint = side.mint
    THEN [i \in DOMAIN sides |->
            IF sides[i].mint = side.mint
            THEN [sides[i] EXCEPT !.decimals = FirstKnown(@, side.decimals)]
            ELSE sides[i]]
    ELSE IF Len(sides) < 2 THEN Append(sides, side)
    ELSE sides

(* Mistake: every swap sets first_seen_slot. *)
ObserveSwapAnew(pools, row, slot) ==
    LET pool == PoolAt(pools, row.pool, slot)
    IN  With(pools, row.pool,
             [pool EXCEPT !.sides = RememberMint(RememberMint(@, row.in), row.out),
                          !.swaps = @ + 1, !.seen = slot])

(* idx_pool_registry_observe_swap; a row of a route, or one whose pool is not *)
(* resolved, has no pool.                                                     *)
ObserveSwap(pools, row, slot) ==
    IF row.pool = Unknown THEN pools
    ELSE LET pool == PoolAt(pools, row.pool, slot)
         IN  With(pools, row.pool,
                  [pool EXCEPT !.sides = RememberMint(RememberMint(@, row.in), row.out),
                               !.swaps = @ + 1])

(* idx_pool_registry_observe_creation: no record for a pool no swap revealed, *)
(* and the first creation is kept.                                            *)
ObserveCreation(pools, creation, slot) ==
    IF \/ ~Known(pools, creation.pool)
       \/ pools[creation.pool].created # Unknown
    THEN pools
    ELSE With(pools, creation.pool,
              [pools[creation.pool] EXCEPT !.created = slot, !.creator = creation.creator])

-----------------------------------------------------------------------------
(* THE TOKEN REGISTRY *)

(* idx_token_registry_observe_balance *)
ObserveBalance(tokens, mint, decimals, slot) ==
    With(tokens, mint, [TokenAt(tokens, mint, slot) EXCEPT !.decimals = FirstKnown(@, decimals)])

(* idx_token_registry_observe_metadata: the first metadata stays, even when it *)
(* has no name in it.                                                          *)
ObserveMetadata(tokens, meta, slot) ==
    LET token == TokenAt(tokens, meta.mint, slot)
    IN  IF meta.mint = Unknown THEN tokens
        ELSE With(tokens, meta.mint,
                  IF token.named THEN token
                  ELSE [token EXCEPT !.name = meta.name, !.named = TRUE])

-----------------------------------------------------------------------------
(* THE CONFIRMED TIER: put_pool and put_token on a row that exists *)

Side(pool, i) ==
    IF i \in DOMAIN pool.sides THEN pool.sides[i]
    ELSE [mint |-> Unknown, decimals |-> Unknown]

PutPool(old, new) ==
    [sides |-> [i \in 1 .. Greatest(Len(old.sides), Len(new.sides)) |->
                  [mint |-> FirstKnown(Side(old, i).mint, Side(new, i).mint),
                   decimals |-> FirstKnown(Side(old, i).decimals, Side(new, i).decimals)]],
     seen |-> Least(old.seen, new.seen), swaps |-> Greatest(old.swaps, new.swaps),
     created |-> FirstKnown(old.created, new.created),
     creator |-> FirstKnown(old.creator, new.creator)]

(* has_metadata is not a column. *)
TokenRow(token) == [decimals |-> token.decimals, name |-> token.name, seen |-> token.seen]

PutToken(old, new) ==
    [decimals |-> FirstKnown(old.decimals, new.decimals),
     name |-> FirstKnown(old.name, new.name), seen |-> Least(old.seen, new.seen)]
=============================================================================
