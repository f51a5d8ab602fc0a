------------------------------ MODULE FundNav ------------------------------
(***************************************************************************)
(* The NAV of one Thai fund in the key fund:{symbol}: fetch_thai_fund_navs *)
(* looks the user's symbol up in a cached map of the SEC's projects, asks  *)
(* for the days before this one, newest first, picks a share class, and    *)
(* turns to Finnomena when that brings nothing.                            *)
(*                                                                         *)
(* A NAV is its project, its class and the day it is kept under.  The      *)
(* earlier NAV that _find_prev_nav adds is left out: no reader gets it.    *)
(***************************************************************************)
EXTENDS Integers, Sequences, SequencesExt, FiniteSets

CONSTANTS
  Project,   \* the SEC's registered funds
  Own,       \* the one the symbol means
  House,     \* project -> the company that lists it
  Tries,     \* the steps of _resolve_proj_id: the projects each of them matches
  Class,     \* share classes of Own
  Asked,     \* the class the symbol names
  Alike,     \* classes that end with the symbol's suffix
  LookBack,  \* days asked for: 5
  LastDay,   \* bound: days 0 .. LastDay
  Null

Day == 0 .. LastDay

FundNavAssumption ==
  /\ Own \in Project /\ DOMAIN House = Project
  /\ Tries \in Seq(SUBSET Project)
  /\ Asked \in Class /\ Alike \subseteq Class
  /\ LookBack \in Nat \ {0} /\ LastDay \in Nat
  /\ Null \notin Int

\* The symbol names its fund: the first step that matches a registered project
\* at all matches that one alone (a symbol found by its prefix only does not).
NamedAssumption ==
  \E k \in DOMAIN Tries : Tries[k] = {Own} /\ \A j \in 1 .. k - 1 : Tries[j] = {}

VARIABLES
  day,     \* today in Bangkok
  navs,    \* day -> the classes of Own whose NAV the SEC has published
  listed,  \* the cached map: the projects in it, or Null
  kept     \* the key fund:{symbol}, or Null

navVars == <<day, navs, listed, kept>>

-----------------------------------------------------------------------------
(* What a run finds.                                                       *)

\* _build_proj_id_map: a company whose list cannot be read is passed over.
MapOf(H) == {p \in Project : House[p] \in H}
Companies == {House[p] : p \in Project}

\* _resolve_proj_id: the first step that matches one project of the map.
Matching(m) == {i \in DOMAIN Tries : Cardinality(Tries[i] \cap m) = 1}
\* [mutant] the loose steps come first.
ResolveLoosely(m) ==
  IF Matching(m) = {} THEN Null ELSE CHOOSE p \in Tries[Max(Matching(m))] : p \in m
Resolve(m) ==
  IF Matching(m) = {} THEN Null ELSE CHOOSE p \in Tries[Min(Matching(m))] : p \in m

\* The classes the SEC answers for a day; other projects have one.
Answer(p, d) == IF p = Own THEN navs[d] ELSE {"other"}

\* _fetch_nav_sec: the class of the symbol's own name; among several the one
\* with its suffix; else the first, in an order the SEC does not promise.
Choice(S) ==
  IF Asked \in S THEN {Asked}
  ELSE IF Cardinality(S) > 1 /\ S \cap Alike # {} THEN S \cap Alike ELSE S

Asking == {d \in Day : day - LookBack <= d /\ d < day}

\* The days a project can be read for when the requests of some days fail, or
\* what they bring has no value.
Readable(p, failing) == IF p = Null THEN {} ELSE {d \in Asking \ failing : Answer(p, d) # {}}

\* [mutant] oldest first.
FirstFoundOldest(D) == CHOOSE d \in D : \A e \in D : d <= e
FirstFound(D) == CHOOSE d \in D : \A e \in D : e <= d

\* The payload, dated by the clock when its source does not say (in UTC, so before
\* seven in Bangkok with the day before, which is a day a source may say as well),
\* and what the run that stored it did not get to see.
Nav(p, c, d, source, m, failing) ==
  [project |-> p, class |-> c, date |-> IF d = Null THEN day ELSE d,
   source |-> source, map |-> m,
   blind |-> \E e \in failing : e > d]

FromSec(m, failing) ==
  LET p == Resolve(m)
      d == FirstFound(Readable(p, failing))
  IN {Nav(p, c, d, "sec", m, failing) : c \in Choice(Answer(p, d))}

\* _fetch_nav_finnomena: the last NAV it has, of today or earlier or undated, under
\* the symbol's own name.
FromFinnomena(m) ==
  {Nav(Own, Asked, d, "finnomena", m, {}) : d \in {Null} \cup {d \in Day : d <= day}}

-----------------------------------------------------------------------------
(* Actions.                                                                *)

NextDay ==
  /\ day < LastDay
  /\ day' = day + 1
  /\ UNCHANGED <<navs, listed, kept>>

\* The SEC publishes a day's NAVs, early or late; a holiday has none.
Publish(d, S) ==
  /\ d < day
  /\ navs[d] = {} /\ S # {}
  /\ navs' = [navs EXCEPT ![d] = S]
  /\ UNCHANGED <<day, listed, kept>>

\* The map of a run: the cached one; or one built now, whole or not (empty when
\* the companies cannot be listed or no keys are configured), and cached unless
\* listing them or Redis failed.
Map(m, cached) ==
  \/ listed # Null /\ m = listed /\ cached = listed
  \/ /\ listed = Null
     /\ m \in {MapOf(H) : H \in SUBSET Companies}
     /\ cached \in {m, Null}

fetch_thai_fund_navs(m, cached, failing) ==
  /\ Map(m, cached)
  /\ listed' = cached
  /\ IF Readable(Resolve(m), failing) # {} THEN kept' \in FromSec(m, failing)
     ELSE kept' \in {kept} \cup FromFinnomena(m)
  /\ UNCHANGED <<day, navs>>

\* 24 hours, or a restart of Redis.
MapExpires ==
  /\ listed # Null
  /\ listed' = Null
  /\ UNCHANGED <<day, navs, kept>>

NavExpires ==
  /\ kept # Null
  /\ kept' = Null
  /\ UNCHANGED <<day, navs, listed>>

Init ==
  /\ day = 0
  /\ navs = [d \in Day |-> {}]
  /\ listed = Null
  /\ kept = Null

Next ==
  \/ NextDay
  \/ \E d \in Day, S \in SUBSET Class : Publish(d, S)
  \/ \E m \in SUBSET Project, failing \in SUBSET Asking :
       \E cached \in {m, Null} : fetch_thai_fund_navs(m, cached, failing)
  \/ MapExpires \/ NavExpires

Spec == Init /\ [][Next]_navVars

-----------------------------------------------------------------------------
\* Types of the days, the map and the key.
TypeOK ==
  /\ day \in Day
  /\ navs \in [Day -> SUBSET Class]
  /\ listed \in {Null} \cup SUBSET Project
  /\ kept = Null \/ /\ kept.project \in Project /\ kept.class \in Class \cup {"other"}
                    /\ kept.date \in Day /\ kept.date <= day
                    /\ kept.map \subseteq Project

\* Another fund's NAV stands under the symbol only when the map of that run,
\* which a failing company may have left short for a day, lacked the symbol's
\* own; and another class only on a day its own was not published
\* (fetch_thai_fund_navs, "pick the right class").
OwnNav ==
  kept # Null =>
    /\ kept.project # Own => Own \notin kept.map
    /\ kept.project = Own /\ kept.class # Asked => Asked \notin navs[kept.date]

\* Between two NAVs the SEC gave for a fund there is no going back, whatever it
\* publishes late and whenever map and key expire, unless the request for a newer
\* day failed.  Finnomena may be ahead of the SEC or behind it, and what it gives
\* undated is kept as today's.
FromOneSource == {kept.source, kept'.source} = {"sec"} /\ kept'.project = kept.project
GoesForward ==
  [][ kept # Null /\ kept' # Null /\ FromOneSource =>
        kept'.date >= kept.date \/ kept'.blind ]_navVars
=============================================================================
