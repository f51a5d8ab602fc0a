----------------------------- MODULE MCDigests -----------------------------
(* A Friday and the Saturday after it, in ticks of six hours.             *)
EXTENDS Digests, TLC

MCBeatAt == "set_open" :> 1 @@ "gap_list" :> 3
MCBehind == "set_open" :> 0 @@ "gap_list" :> 2
MCOpenAt == "PTT" :> {1, 2} @@ "NVDA" :> {3, 0}

Level(p, t, s) == [price |-> p, level_type |-> t, source |-> s, owner |-> Nobody]
MCLevels ==
  "PTT" :> {Level(190, "support", "auto_pivot"), Level(191, "support", "manual_import"),
            Level(192, "support", "auto_pivot"), Level(200, "resistance", "manual_import"),
            Level(230, "resistance", "auto_pivot")}
  @@ "NVDA" :> {Level(197, "support", "manual_import"), Level(199, "support", "auto_pivot")}

Books(a, b) == "ann" :> a @@ "bob" :> b
MCDesk ==
  {[linked |-> {"ann", "bob"}, watch |-> Books({}, {"PTT", "NVDA"}),
    held |-> Books({"PTT", "NVDA"}, {"PTT"}), minimum |-> Books(NoMinimum, 2),
    levels |-> MCLevels]}

Equity(p, c) == [type |-> "equity", price |-> p, change |-> c]
By(p, n) == "PTT" :> p @@ "NVDA" :> n
MCSnapshot ==
  {[quote |-> By(Equity(193, 1), Equity(195, -3)), fund |-> By(NoQuote, NoQuote)],
   [quote |-> By(NoQuote, NoQuote), fund |-> By(196, NoQuote)]}
=============================================================================
