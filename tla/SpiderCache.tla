---------------------------- MODULE SpiderCache ----------------------------
(***************************************************************************)
(* The screen spider of DevilkingService and the sniper that relies on it. *)
(* Accessibility events reach the service on the main thread; each starts  *)
(* a crawl on a background thread that reads the screen node by node into  *)
(* a map of its own and then replaces the shared map, activeMatrixCache,   *)
(* by clear and putAll.  Nothing orders the crawls.  A strike, on the main *)
(* thread, iterates over the shared map meanwhile, and scans the windows   *)
(* when it finds nothing there.                                            *)
(*                                                                         *)
(* ConcurrentHashMap promises no more than its single operations: clear,   *)
(* putAll and iteration go entry by entry, in any order.  A node stands    *)
(* for its label; two nodes with one label are left out, and so are nodes  *)
(* of no size and windows other than the active one.                       *)
(***************************************************************************)
EXTENDS Naturals, FiniteSets

CONSTANTS Labels,       \* the labels nodes may have
          Clickable,    \* those of nodes the spider maps (clickable, editable, buttons)
          OwnLines,     \* those that begin or read like the terminal's own output
          Places,       \* where on the screen a node may be
          Targets,      \* what strikes look for: the labels that contain the text
          Crawls,       \* bound: crawls under way at the same time
          MaxEvents     \* bound: events on their way to the service

ASSUME ClickableAssumption == Clickable \subseteq Labels /\ OwnLines \subseteq Labels
ASSUME EventsAssumption    == MaxEvents \in Nat
ASSUME TargetAssumption    == \A t \in Targets : t \subseteq Labels

Nowhere == "nowhere"
ASSUME PlaceAssumption == Nowhere \notin Places

VARIABLES
  screen,       \* external: where each label is, or Nowhere
  events,       \* external: accessibility events sent and not yet handled
  enabled,      \* isHijackEnabled
  bound,        \* there is a service object
  cache,        \* activeMatrixCache: where it has each label, Nowhere if it has not
  crawl,        \* the coroutines of serviceScope
  strike,       \* the strike under way on the main thread
  faithful      \* history: the last crawl to start had the cache to itself, and
                \* every event since was followed by a crawl

svars == <<screen, events, enabled, bound, cache, crawl, strike, faithful>>

Screens == [Labels -> Places \union {Nowhere}]
Blank   == [l \in Labels |-> Nowhere]

Idle    == [pc |-> "idle", todo |-> {}, map |-> Blank]
\* A strike: what it looks for, what is left to look at, the best node so far,
\* and (history) the labels looked for that have not moved since it began.
NoStrike == [pc |-> "idle", target |-> {}, todo |-> {}, best |-> Nowhere,
             from |-> "none", steady |-> {}]

SInit ==
  /\ screen \in Screens /\ events = 0 /\ enabled \in BOOLEAN
  /\ bound = FALSE /\ cache = Blank /\ crawl = [c \in Crawls |-> Idle]
  /\ strike = NoStrike /\ faithful = FALSE

-----------------------------------------------------------------------------
(* The screen, and the life of the service.                                *)

\* Some app moves, shows or hides a node, and the system sends an event.
ScreenChanges(l, p) ==
  /\ screen[l] # p
  /\ screen' = [screen EXCEPT ![l] = p]
  /\ IF bound THEN events < MaxEvents /\ events' = events + 1 ELSE UNCHANGED events
  /\ strike' = [strike EXCEPT !.steady = @ \ {l}]
  /\ UNCHANGED <<enabled, bound, cache, crawl, faithful>>

\* 'hijack on', 'hijack off' and the switch of the settings.
SetHijack(on) ==
  /\ strike.pc = "idle" /\ enabled # on
  /\ enabled' = on
  /\ UNCHANGED <<screen, events, bound, cache, crawl, strike, faithful>>

OnServiceConnected ==
  /\ ~bound
  /\ bound' = TRUE /\ enabled' \in BOOLEAN
  /\ UNCHANGED <<screen, events, cache, crawl, strike, faithful>>

\* serviceScope.cancel, and the object goes with its cache.  A crawl that was
\* running goes on, on a cache nobody reads.
OnDestroy ==
  /\ bound /\ strike.pc = "idle"
  /\ bound' = FALSE /\ events' = 0
  /\ cache' = Blank /\ crawl' = [c \in Crawls |-> Idle] /\ faithful' = FALSE
  /\ UNCHANGED <<screen, enabled, strike>>

-----------------------------------------------------------------------------
(* The spider.                                                             *)

\* onAccessibilityEvent, on the main thread.
OnAccessibilityEvent ==
  /\ bound /\ events > 0 /\ strike.pc = "idle"
  /\ events' = events - 1
  /\ IF enabled
     THEN /\ \E c \in Crawls : /\ crawl[c].pc = "idle"
                               /\ crawl' = [crawl EXCEPT ![c].pc = "launched"]
          /\ UNCHANGED faithful
     ELSE faithful' = FALSE /\ UNCHANGED crawl
  /\ UNCHANGED <<screen, enabled, bound, cache, strike>>

Running(c) == crawl[c].pc \notin {"idle", "launched"}

\* The coroutine starts; rootInActiveWindow may be null.
BeginCrawl(c) ==
  /\ crawl[c].pc = "launched"
  /\ \/ /\ crawl' = [crawl EXCEPT ![c] = [pc |-> "read", todo |-> Labels, map |-> Blank]]
        /\ faithful' = \A d \in Crawls : ~Running(d)
     \/ crawl' = [crawl EXCEPT ![c] = Idle] /\ faithful' = FALSE
  /\ UNCHANGED <<screen, events, enabled, bound, cache, strike>>

\* crawlMatrix comes to the node with label l, if it is there and is clickable.
ReadNode(c, l) ==
  /\ crawl[c].pc = "read" /\ l \in crawl[c].todo
  /\ crawl' = [crawl EXCEPT ![c].todo = @ \ {l},
                            ![c].map[l] = IF l \in Clickable THEN screen[l] ELSE Nowhere]
  /\ UNCHANGED <<screen, events, enabled, bound, cache, strike, faithful>>

\* The next statement of the coroutine, over the entries S of the shared map.
Proceed(c, pc, next, S) ==
  /\ crawl[c].pc = pc /\ crawl[c].todo = {}
  /\ crawl' = [crawl EXCEPT ![c].pc = next, ![c].todo = S]
  /\ UNCHANGED <<screen, events, enabled, bound, cache, strike, faithful>>

\* Mutant: the map is not cleared.
EndReadNoClear(c) == Proceed(c, "read", "put", {l \in Labels : crawl[c].map[l] # Nowhere})

EndRead(c)  == Proceed(c, "read", "clear", Labels)
EndClear(c) == Proceed(c, "clear", "put", {l \in Labels : crawl[c].map[l] # Nowhere})

ClearEntry(c, l) ==
  /\ crawl[c].pc = "clear" /\ l \in crawl[c].todo
  /\ crawl' = [crawl EXCEPT ![c].todo = @ \ {l}]
  /\ cache' = [cache EXCEPT ![l] = Nowhere]
  /\ UNCHANGED <<screen, events, enabled, bound, strike, faithful>>

PutEntry(c, l) ==
  /\ crawl[c].pc = "put" /\ l \in crawl[c].todo
  /\ crawl' = [crawl EXCEPT ![c].todo = @ \ {l}]
  /\ cache' = [cache EXCEPT ![l] = crawl[c].map[l]]
  /\ UNCHANGED <<screen, events, enabled, bound, strike, faithful>>

EndCrawl(c) ==
  /\ crawl[c].pc = "put" /\ crawl[c].todo = {}
  /\ crawl' = [crawl EXCEPT ![c] = Idle]
  /\ UNCHANGED <<screen, events, enabled, bound, cache, strike, faithful>>

-----------------------------------------------------------------------------
(* The sniper.                                                             *)

BeginStrike(t) ==
  /\ bound /\ strike.pc = "idle"
  /\ strike' = [NoStrike EXCEPT !.pc = "cache", !.target = t, !.todo = Labels,
                                !.steady = {l \in t : screen[l] # Nowhere}]
  /\ UNCHANGED <<screen, events, enabled, bound, cache, crawl, faithful>>

Tap(p, from) == strike' = [strike EXCEPT !.pc = "hit", !.best = p, !.from = from]

\* The iteration over the shared map comes to l; the first match is tapped.
LookInCache(l) ==
  /\ strike.pc = "cache" /\ l \in strike.todo
  /\ IF l \in strike.target /\ cache[l] # Nowhere
     THEN Tap(cache[l], "cache")
     ELSE strike' = [strike EXCEPT !.todo = @ \ {l}]
  /\ UNCHANGED <<screen, events, enabled, bound, cache, crawl, faithful>>

\* Mutant: there is no deep scan.
EndOfCacheFails ==
  /\ strike.pc = "cache" /\ strike.todo = {}
  /\ strike' = [strike EXCEPT !.pc = "miss"]
  /\ UNCHANGED <<screen, events, enabled, bound, cache, crawl, faithful>>

EndOfCache ==
  /\ strike.pc = "cache" /\ strike.todo = {}
  /\ strike' = [strike EXCEPT !.pc = "scan", !.todo = Labels]
  /\ UNCHANGED <<screen, events, enabled, bound, cache, crawl, faithful>>

\* scanNodesForSniper comes to l: the first match is the best, until one that
\* can be clicked is met.  Unlike the map, the scan passes over the lines of the
\* terminal, on which the command of the strike itself is echoed.
ScanNode(l) ==
  /\ strike.pc = "scan" /\ l \in strike.todo
  /\ LET better == /\ l \in strike.target \ OwnLines /\ screen[l] # Nowhere
                   /\ strike.best = Nowhere \/ l \in Clickable
     IN  strike' = [strike EXCEPT !.todo = @ \ {l},
                                  !.best = IF better THEN screen[l] ELSE @]
  /\ UNCHANGED <<screen, events, enabled, bound, cache, crawl, faithful>>

EndOfScan ==
  /\ strike.pc = "scan" /\ strike.todo = {}
  /\ IF strike.best # Nowhere THEN Tap(strike.best, "scan")
     ELSE strike' = [strike EXCEPT !.pc = "miss"]
  /\ UNCHANGED <<screen, events, enabled, bound, cache, crawl, faithful>>

EndStrike ==
  /\ strike.pc \in {"hit", "miss"}
  /\ strike' = NoStrike
  /\ UNCHANGED <<screen, events, enabled, bound, cache, crawl, faithful>>

-----------------------------------------------------------------------------
CrawlStep(c) ==
  \/ BeginCrawl(c) \/ EndRead(c) \/ EndClear(c) \/ EndCrawl(c)
  \/ \E l \in Labels : ReadNode(c, l) \/ ClearEntry(c, l) \/ PutEntry(c, l)

StrikeStep ==
  \/ EndOfCache \/ EndOfScan \/ EndStrike
  \/ \E l \in Labels : LookInCache(l) \/ ScanNode(l)

SNext ==
  \/ \E l \in Labels, p \in Places \union {Nowhere} : ScreenChanges(l, p)
  \/ \E on \in BOOLEAN : SetHijack(on)
  \/ OnServiceConnected \/ OnDestroy \/ OnAccessibilityEvent
  \/ \E c \in Crawls : CrawlStep(c)
  \/ \E t \in Targets : BeginStrike(t)
  \/ StrikeStep

SSpec == SInit /\ [][SNext]_svars
-----------------------------------------------------------------------------
(* Properties.                                                             *)

\* The maps give places of the screen; crawls and strikes are at one of their
\* statements.
STypeOK ==
  /\ screen \in Screens /\ cache \in Screens /\ events \in 0 .. MaxEvents
  /\ enabled \in BOOLEAN /\ bound \in BOOLEAN /\ faithful \in BOOLEAN
  /\ \A c \in Crawls : /\ crawl[c].pc \in {"idle", "launched", "read", "clear", "put"}
                       /\ crawl[c].todo \subseteq Labels /\ crawl[c].map \in Screens
  /\ strike.pc \in {"idle", "cache", "scan", "hit", "miss"}
  /\ strike.todo \subseteq Labels /\ strike.steady \subseteq strike.target

\* What the spider is for (DevilkingService.kt:151): once every event has been
\* handled and every crawl is over, the cache is the screen, provided the last
\* crawl had the cache to itself.
Mapped == [l \in Labels |-> IF l \in Clickable THEN screen[l] ELSE Nowhere]
QuietCacheIsScreen ==
  bound /\ faithful /\ events = 0 /\ (\A c \in Crawls : crawl[c] = Idle) =>
    cache = Mapped

\* A label that is on the screen and stays where it is while a strike looks for
\* it is not missed, whatever crawls do to the cache at that moment: the deep
\* scan makes up for a cache that is being cleared (DevilkingService.kt:365).
\* All that it may miss are lines of the terminal, which it passes over (376); a
\* strike finds one of those in the map, or, if a crawl has just cleared it, not.
NothingSteadyIsMissed == strike.pc = "miss" => strike.steady \subseteq OwnLines
=============================================================================
