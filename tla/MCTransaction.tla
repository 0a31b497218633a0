--------------------------- MODULE MCTransaction ---------------------------
(* A wallet with token accounts for WSOL, USDC and two tokens; two Raydium    *)
(* v4 pools over (WSOL, A), a CLMM pool over (WSOL, USDC), the bonding curve  *)
(* of A, a PumpSwap pool over (A, WSOL), and a venue that is not indexed,     *)
(* which the legs of a route go through.                                      *)
EXTENDS Transaction

User(mint) == "u_" \o mint
Vault(pool, mint) == pool \o "_" \o mint

MCStatic == <<"wallet", "u_wsol", "u_a", "u_b", "u_usdc", "nonce", "system", "token", "token2022", "vote",
              "v4", "clmm", "curve", "amm", "jupiter", "other">>
MCLoadedWritable == <<"p", "q", "c", "s", "p_wsol", "p_a", "q_wsol", "q_a", "c_wsol", "c_usdc",
                      "s_a", "s_wsol", "curve_a", "curve_sol">>
MCLoadedReadonly == <<"x_wsol", "x_a", "x_b", "x_usdc", "wsol", "a", "b", "usdc">>

Scale == [wsol |-> 9, a |-> 6, b |-> 2, usdc |-> 6]
Acc(mint, owner, amount) ==
    [mint |-> mint, owner |-> owner, decimals |-> Scale[mint], amount |-> amount]
MCTokenAccounts ==
    [u_wsol |-> Acc("wsol", "wallet", 8), u_a |-> Acc("a", "wallet", 8), u_b |-> Acc("b", "wallet", 1),
     u_usdc |-> Acc("usdc", "wallet", 0),
     p_wsol |-> Acc("wsol", "p", 8), p_a |-> Acc("a", "p", 8),
     q_wsol |-> Acc("wsol", "q", 8), q_a |-> Acc("a", "q", 8),
     c_wsol |-> Acc("wsol", "c", 8), c_usdc |-> Acc("usdc", "c", 8),
     s_a |-> Acc("a", "s", 8), s_wsol |-> Acc("wsol", "s", 8), curve_a |-> Acc("a", "curve", 8),
     x_wsol |-> Acc("wsol", Unknown, 8), x_a |-> Acc("a", Unknown, 8), x_b |-> Acc("b", Unknown, 8),
     x_usdc |-> Acc("usdc", Unknown, 8)]
MCLamports == [wallet |-> 9, nonce |-> 2, curve_sol |-> 9]
MCOutcomes ==
    {[err |-> FALSE, has_meta |-> TRUE, time |-> FALSE, version |-> "legacy"],
     [err |-> TRUE, has_meta |-> TRUE, time |-> TRUE, version |-> "v0"],
     [err |-> FALSE, has_meta |-> FALSE, time |-> TRUE, version |-> "legacy"]}
MCQuotes == <<"usdc", "wsol">>

-----------------------------------------------------------------------------
Data(disc, args) == [disc |-> disc, args |-> args, keys |-> <<>>]
Event(disc, args, keys) == [disc |-> disc, args |-> args, keys |-> keys]
Ix(program, accounts, data) == [program |-> program, accounts |-> accounts, data |-> data]
Nothing == [ixs |-> <<>>, logs |-> <<>>, moves |-> <<>>, trades |-> <<>>, legs |-> <<>>,
            closes |-> {}, creates |-> {}, valid |-> TRUE]
Move(p, kind, source, destination, mint, amount) ==
    [at |-> p, kind |-> kind, source |-> source, destination |-> destination, mint |-> mint,
     amount |-> amount, fee |-> 0, quiet |-> FALSE]

(* An instruction that moves what it says, or that moves nothing. *)
Simple(ix, moves) == [Nothing EXCEPT !.ixs = <<ix>>, !.moves = moves]

System ==
    << Simple(Ix("system", <<"wallet", "nonce">>, Data("Transfer", <<1>>)),
              <<Move(1, "sol", "wallet", "nonce", Unknown, 1)>>),
       Simple(Ix("system", <<"wallet", "nonce">>, Data("Transfer", <<0>>)), <<>>),
       Simple(Ix("system", <<"nonce", "wallet", "curve_sol">>, Data("TransferWithSeed", <<1, 0, 0>>)),
              <<Move(1, "sol", "nonce", "curve_sol", Unknown, 1)>>),
       Simple(Ix("system", <<"wallet", "nonce">>, Data("CreateAccountWithSeed", <<0, 0, 2, 1, 0>>)),
              <<Move(1, "sol", "wallet", "nonce", Unknown, 2)>>),
       Simple(Ix("system", <<"nonce", "wallet", "other", "other", "wallet">>,
                 Data("WithdrawNonceAccount", <<1>>)),
              <<Move(1, "sol", "nonce", "wallet", Unknown, 1)>>) >>

TransferTo(source, destination, amount) ==
    Ix("token", <<source, destination, "wallet">>, Data("Transfer", <<amount>>))

Token ==
    << Simple(TransferTo("u_a", "p_a", 1), <<Move(1, "token", "u_a", "p_a", "a", 1)>>),
       Simple(TransferTo("u_wsol", "x_wsol", 1), <<Move(1, "token", "u_wsol", "x_wsol", "wsol", 1)>>),
       Simple(Ix("token", <<"u_a", "a", "x_a", "wallet">>, Data("TransferChecked", <<2, 6>>)),
              <<Move(1, "token", "u_a", "x_a", "a", 2)>>),
       Simple(Ix("token2022", <<"u_b", "b", "x_b", "wallet">>, Data("TransferFeeExtension", <<1, 1, 2, 1>>)),
              <<[Move(1, "token", "u_b", "x_b", "b", 1) EXCEPT !.fee = 1]>>),
       Simple(Ix("token2022", <<"b">>, Data("OtherExtension", <<1>>)), <<>>),
       Simple(Ix("token", <<"usdc", "u_usdc", "wallet">>, Data("MintToChecked", <<2, 6>>)),
              <<Move(1, "mint", "usdc", "u_usdc", "usdc", 2)>>),
       Simple(Ix("token2022", <<"u_b", "b", "wallet">>, Data("Burn", <<1>>)),
              <<Move(1, "burn", "u_b", "b", "b", 1)>>),
       [Nothing EXCEPT !.ixs = <<Ix("token", <<"u_b", "wallet", "wallet">>, Data("CloseAccount", <<>>))>>,
                       !.closes = {"u_b"}] >>

-----------------------------------------------------------------------------
Sold(mint, amount) == [mint |-> mint, amount |-> amount]
Trade(at, nth, venue, pool, in, out, fixed, vaults) ==
    [at |-> at, nth |-> nth, venue |-> venue, pool |-> pool, in |-> in, out |-> out,
     fixed |-> fixed, vaults |-> vaults, decoded |-> TRUE]

(* A pool's program takes the input and pays the output through the token program. *)
Paying(pool, in, out) ==
    << TransferTo(User(in.mint), Vault(pool, in.mint), in.amount),
       TransferTo(Vault(pool, out.mint), User(out.mint), out.amount) >>
Paid(pool, in, out) ==
    << Move(2, "token", User(in.mint), Vault(pool, in.mint), in.mint, in.amount),
       Move(3, "token", Vault(pool, out.mint), User(out.mint), out.mint, out.amount) >>

(* Raydium v4, coin A and pc WSOL; 17 accounts for the pool p, 18 for q. *)
V4Accounts(pool, in, out) ==
    LET vaults == <<Vault(pool, "a"), Vault(pool, "wsol")>>
        pad(n) == [i \in 1 .. n |-> "other"]
    IN  <<"token", pool, "other", "other">> \o (IF pool = "p" THEN vaults ELSE <<"other">> \o vaults)
          \o pad(8) \o <<User(in.mint), User(out.mint), "wallet">>
V4(pool, in, out, fixed) ==
    LET data == IF fixed = "in" THEN Data("SwapBaseIn", <<in.amount, 0>>)
                ELSE Data("SwapBaseOut", <<9, out.amount>>)
    IN  [Nothing EXCEPT
            !.ixs = <<Ix("v4", V4Accounts(pool, in, out), data)>> \o Paying(pool, in, out),
            !.logs = <<[type |-> "swap", in |-> in.amount, out |-> out.amount]>>,
            !.moves = Paid(pool, in, out),
            !.trades = <<Trade(1, 0, "raydium_amm_v4", pool, in, out, fixed,
                               {Vault(pool, "a"), Vault(pool, "wsol")})>>]
(* A layout that is not decoded; the program logs all the same. *)
Odd(call) == [call EXCEPT !.ixs[1].accounts = Tail(Tail(@)), !.trades[1].decoded = FALSE]

Clmm(in, out, fixed, v2) ==
    LET base == <<"wallet", "other", "c", User(in.mint), User(out.mint),
                  Vault("c", in.mint), Vault("c", out.mint)>>
        mints == IF v2 THEN <<"other", "other", "other", "other", in.mint, out.mint>> ELSE <<>>
        amount == IF fixed = "in" THEN in.amount ELSE out.amount
        data == Data(IF v2 THEN "SwapV2" ELSE "Swap", <<amount, 0, IF fixed = "in" THEN 1 ELSE 0>>)
    IN  [Nothing EXCEPT
            !.ixs = <<Ix("clmm", base \o mints, data)>> \o Paying("c", in, out),
            !.moves = Paid("c", in, out),
            !.trades = <<Trade(1, 0, "raydium_clmm", "c", in, out, fixed, {"c_wsol", "c_usdc"})>>]

Curve(buy) ==
    LET sol == Sold("wsol", 2)
        token == Sold("a", 3)
    IN  [Nothing EXCEPT
            !.ixs = <<Ix("curve", <<"wallet">>, Data("Trade", <<>>)),
                      IF buy THEN TransferTo("curve_a", "u_a", 3) ELSE TransferTo("u_a", "curve_a", 3),
                      Ix("curve", <<"curve">>,
                         Event("TradeEvent", <<2, 3, IF buy THEN 1 ELSE 0>>, <<"a", "wallet">>))>>,
            !.moves = << IF buy THEN Move(2, "token", "curve_a", "u_a", "a", 3)
                         ELSE Move(2, "token", "u_a", "curve_a", "a", 3),
                         [Move(3, "sol", IF buy THEN "wallet" ELSE "curve_sol",
                               IF buy THEN "curve_sol" ELSE "wallet", Unknown, 2)
                           EXCEPT !.quiet = TRUE] >>,
            !.trades = <<Trade(3, 0, "pump_curve", "a", IF buy THEN sol ELSE token,
                               IF buy THEN token ELSE sol, "both", {"curve_a"})>>]
Create ==
    [Nothing EXCEPT !.ixs = <<Ix("curve", <<"wallet">>, Data("Create", <<>>)),
                              Ix("curve", <<"curve">>, Event("CreateEvent", <<>>, <<"a", "wallet">>))>>,
                    !.creates = {"a"}]

Amm(buy, disc) ==
    LET in == IF buy THEN Sold("wsol", 2) ELSE Sold("a", 3)
        out == IF buy THEN Sold("a", 3) ELSE Sold("wsol", 2)
    IN  [Nothing EXCEPT
            !.ixs = <<Ix("amm", <<"s", "wallet", "other", "a", "wsol", "u_a", "u_wsol", "s_a", "s_wsol">>,
                         Data(disc, <<>>))>> \o Paying("s", in, out)
                    \o <<Ix("amm", <<"other">>,
                            Event(IF buy THEN "BuyEvent" ELSE "SellEvent", <<3, 2>>,
                                  <<"s", "wallet", "u_a", "u_wsol">>))>>,
            !.moves = Paid("s", in, out),
            !.trades = <<Trade(4, 0, "pump_amm", "s", in, out, "both", {"s_a", "s_wsol"})>>]

Leg(in, out) ==
    [Nothing EXCEPT
        !.ixs = <<Ix("jupiter", <<"wallet">>, Data("Route", <<>>))>> \o Paying("x", in, out)
                \o <<Ix("jupiter", <<"jupiter">>,
                        Event("SwapEvent", <<in.amount, out.amount>>, <<in.mint, out.mint>>))>>,
        !.moves = Paid("x", in, out), !.legs = <<[at |-> 4, in |-> in, out |-> out]>>]

MCCalls ==
    System \o Token \o
    << V4("p", Sold("wsol", 1), Sold("a", 3), "in"), V4("p", Sold("wsol", 2), Sold("a", 3), "in"),
       V4("p", Sold("wsol", 1), Sold("a", 3), "out"), V4("p", Sold("a", 2), Sold("wsol", 1), "in"),
       V4("q", Sold("wsol", 1), Sold("a", 2), "in"), V4("q", Sold("a", 3), Sold("wsol", 2), "out"),
       Odd(V4("q", Sold("wsol", 1), Sold("a", 2), "in")), Odd(V4("q", Sold("wsol", 2), Sold("a", 2), "in")),
       Clmm(Sold("wsol", 1), Sold("usdc", 2), "in", FALSE), Clmm(Sold("wsol", 1), Sold("usdc", 2), "out", TRUE),
       Clmm(Sold("usdc", 1), Sold("wsol", 2), "in", TRUE), 
       Curve(TRUE), Curve(FALSE), Create,
       Amm(TRUE, "Buy"), Amm(TRUE, "BuyExactQuoteIn"), Amm(FALSE, "Sell"), Amm(FALSE, "Unseen"),
       Leg(Sold("wsol", 2), Sold("a", 3)), Leg(Sold("a", 3), Sold("usdc", 2)),
       Leg(Sold("a", 3), Sold("wsol", 2)), Leg(Sold("a", 2), Sold("b", 4)),
       Leg(Sold("usdc", 1), Sold("wsol", 3)),
       Simple(Ix("vote", <<"wallet">>, Data("Vote", <<>>)), <<>>),
       [Simple(Ix("token", <<"u_a">>, Data("Transfer", <<1>>)), <<>>) EXCEPT !.valid = FALSE],
       [Simple(Ix("v4", <<"u_a">>, Data("", <<>>)), <<>>) EXCEPT !.valid = FALSE] >>
=============================================================================
