-------------------------- MODULE MCPipelineHealth --------------------------
(* The thresholds, gaps and TTLs keep the order they have in the code.      *)
EXTENDS PipelineHealth, TLC

MCSection == <<"quotes", "history">>
By(q, h) == "quotes" :> q @@ "history" :> h

MCThreshold == By(2, 1)
MCTtl == By(1, 9)
MCGap == By(2, 1)
=============================================================================
