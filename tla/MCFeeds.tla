------------------------------ MODULE MCFeeds ------------------------------
(***************************************************************************)
(* A small instance of each of the components of Feeds, and what happens   *)
(* fairly in it.                                                           *)
(***************************************************************************)
EXTENDS Feeds, TLC

MCToken == <<"u1", "u2">>

\* A ticker that is also a fund house, and one that only begins like one, which is
\* also typed with a blank behind it.
Plain == [crypto |-> FALSE, odd |-> FALSE, thai |-> FALSE, bk |-> FALSE,
          collides |-> FALSE, prefix |-> FALSE]
MCShape == "SCB" :> [Plain EXCEPT !.collides = TRUE, !.prefix = TRUE]
             @@ "MEGA.BK" :> [Plain EXCEPT !.thai = TRUE, !.bk = TRUE, !.prefix = TRUE]
             @@ "MEGA.BK " :> [Plain EXCEPT !.odd = TRUE, !.prefix = TRUE]
MCStripped == "SCB" :> "SCB" @@ "MEGA.BK" :> "MEGA.BK" @@ "MEGA.BK " :> "MEGA.BK"
MCTold == "SCB" :> {[priced |-> TRUE, exchange |-> "thai", fund |-> FALSE]}
              @@ "MEGA.BK" :> {[priced |-> FALSE, exchange |-> "other", fund |-> TRUE]}
              @@ "MEGA.BK " :> {}
MCListed == "MEGA.BK" :> "SET"

\* Two highs within a percent of each other and a low between them; no history.
Bar(h, l, c) == [high |-> h, low |-> l, close |-> c]
Pivoted == <<Bar(210, 200, 205), Bar(240, 230, 235), Bar(190, 180, 185),
             Bar(241, 230, 235), Bar(215, 205, 210)>>
Young == <<Bar(110, 100, 105), Bar(120, 110, 115)>>

MCSymbols == {[plain |-> TRUE, fund |-> FALSE], [plain |-> TRUE, fund |-> TRUE],
              [plain |-> FALSE, fund |-> FALSE]}

\* The symbol's project, found by its name, and another one that is found by the
\* name without its suffix; both begin with that.
MCHouse == "own" :> "h1" @@ "near" :> "h2"
MCTries == <<{"own"}, {"near"}, {"own", "near"}>>

MCHistories == {Pivoted, Young}
MCImports == {{}, {"support"}}

-----------------------------------------------------------------------------
(* Fairness.  A behaviour is about one part, so that one conjunct can serve *)
(* an action of each.                                                      *)

\* What happens by itself once it can: a handler whose client is gone wakes up,
\* a dispatch goes on; beat starts a run every minute and a scan every quarter
\* of an hour, and a run ends; the dedupe key expires, a page polls, a fetch
\* ends.
Prompt ==
  /\ \A w \in Socket : WF_feedsVars(At("broadcast", Notice(w)))
  /\ WF_feedsVars(At("broadcast", Loop))
  /\ \A w \in {1, 2} : /\ WF_feedsVars(At("rotation", R!Start(w)))
                       /\ WF_feedsVars(At("rotation", R!Finish(w) \/ R!Fail(w)))
  /\ WF_feedsVars(At("registry", Registry!Scan))
  /\ WF_feedsVars(At("fetch", Fetches!DedupeExpires))
  /\ WF_feedsVars(At("fetch", page = "asked" /\ Fetches!Miss))
  /\ WF_feedsVars(At("fetch", Fetches!Look))
  /\ \A f \in Fetches!Fetcher : WF_feedsVars(At("fetch", Fetches!Ends(f)))

\* What happens if it can again and again: of the messages taken some are a
\* data_ready (the prefetcher sends one every half hour); a task that is sent
\* again and again is taken once and does not fail every time in the database
\* or at Yahoo; a page that polls hits a cache that is filled again and again.
Persistent ==
  /\ SF_feedsVars(\/ At("broadcast", Take([kind |-> "ready", user |-> Null]))
                  \/ At("registry", \E w \in Registrar, s \in {"MEGA.BK", "MEGA.BK "}, n \in {0, 1} :
                                      Registry!Register(w, s, n))
                  \/ At("fetch", Fetches!TakeTask))
  /\ SF_feedsVars(\/ At("registry", \E w \in Registrar : Registry!Insert(w) /\ stocks' # stocks)
                  \/ At("fetch", \E f \in Fetches!Fetcher : Fetches!Priced(f)))
  /\ SF_feedsVars(At("fetch", \E f \in Fetches!Fetcher : Fetches!Store(f)))
  /\ SF_feedsVars(At("fetch", page = "asked" /\ Fetches!Hit))

FairSpec == FeedsSpec /\ Prompt /\ Persistent
=============================================================================
