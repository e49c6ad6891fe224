------------------------- MODULE SpiderCacheProofs -------------------------
(***************************************************************************)
(* What SpiderCache says of the shared map and of strikes, for any screen, *)
(* any number of crawls and any number of events under way.                *)
(*                                                                         *)
(* QuietCacheIsScreen speaks of the moment when everything is over.  What  *)
(* makes it inductive is what a crawl that has the map to itself knows     *)
(* while it runs, provided nothing is pending that will start another one: *)
(* the labels it has read are where it saw them, those it has cleared are  *)
(* gone, those it has put are there.                                       *)
(***************************************************************************)
EXTENDS SpiderCache, TLAPS

Somewhere == Places \union {Nowhere}

CrawlStates  == [pc : {"idle", "launched", "read", "clear", "put"},
                 todo : SUBSET Labels, map : Screens]
StrikeStates == [pc : {"idle", "cache", "scan", "hit", "miss"},
                 target : SUBSET Labels, todo : SUBSET Labels, best : Somewhere,
                 from : {"none", "cache", "scan"}, steady : SUBSET Labels]

STypeInv ==
  /\ screen \in Screens /\ cache \in Screens /\ events \in 0 .. MaxEvents
  /\ enabled \in BOOLEAN /\ bound \in BOOLEAN /\ faithful \in BOOLEAN
  /\ crawl \in [Crawls -> CrawlStates]
  /\ strike \in StrikeStates

\* Without a service there are neither events nor crawls, nor a cache to trust.
UnboundInv == bound \/ (~faithful /\ events = 0 /\ \A c \in Crawls : crawl[c].pc = "idle")

\* A crawl is still to start on account of something that happened.
Pending == events > 0 \/ \E c \in Crawls : crawl[c].pc = "launched"

\* What a crawl knows that runs alone with nothing pending.
Want(l) == IF l \in Clickable THEN screen[l] ELSE Nowhere
Knows(c) ==
  /\ crawl[c].pc = "read"  => \A l \in Labels \ crawl[c].todo : crawl[c].map[l] = Want(l)
  /\ crawl[c].pc = "clear" => /\ \A l \in Labels : crawl[c].map[l] = Want(l)
                              /\ \A l \in Labels \ crawl[c].todo : cache[l] = Nowhere
  /\ crawl[c].pc = "put"   => /\ \A l \in Labels : crawl[c].map[l] = Want(l)
                              /\ \A l \in Labels \ crawl[c].todo : cache[l] = Want(l)

AloneInv ==
  faithful => \A c, d \in Crawls : Running(c) /\ Running(d) => c = d

KnowledgeInv ==
  faithful /\ ~Pending =>
    /\ \A c \in Crawls : Knows(c)
    /\ (\A c \in Crawls : ~Running(c)) => \A l \in Labels : cache[l] = Want(l)

CacheInv == UnboundInv /\ AloneInv /\ KnowledgeInv

\* A strike: what has stayed is looked for and on the screen, and the deep scan
\* has something in hand as soon as it has come past a node that stayed and is no
\* line of the terminal.
StrikeInv ==
  /\ strike.steady \subseteq strike.target
  /\ \A l \in strike.steady : screen[l] # Nowhere
  /\ strike.pc = "scan" /\ strike.best = Nowhere =>
       strike.steady \subseteq strike.todo \union OwnLines
  /\ strike.pc = "miss" => strike.steady \subseteq OwnLines

SInv == STypeInv /\ CacheInv /\ StrikeInv
-----------------------------------------------------------------------------
\* The constants of the states have their types.
LEMMA StartTypes ==
  /\ Blank \in Screens /\ Idle \in CrawlStates /\ NoStrike \in StrikeStates
  /\ [pc |-> "read", todo |-> Labels, map |-> Blank] \in CrawlStates
<1>1. Blank \in Screens  BY DEF Blank, Screens
<1> QED  BY <1>1 DEF Idle, NoStrike, CrawlStates, StrikeStates, Somewhere

\* Every step keeps the types.
LEMMA STypeStep == ASSUME STypeInv, [SNext]_svars PROVE STypeInv'
<1> USE EventsAssumption DEF STypeInv, Screens, Somewhere
<1>1. ASSUME NEW l \in Labels, NEW p \in Places \union {Nowhere}, ScreenChanges(l, p)
      PROVE  STypeInv'
  <2>1. events' \in 0 .. MaxEvents  BY <1>1 DEF ScreenChanges
  <2>2. strike' \in StrikeStates  BY <1>1 DEF ScreenChanges, StrikeStates
  <2> QED  BY <1>1, <2>1, <2>2 DEF ScreenChanges
<1>2. ASSUME NEW on \in BOOLEAN, SetHijack(on) PROVE STypeInv'
  BY <1>2 DEF SetHijack
<1>3. CASE OnServiceConnected  BY <1>3 DEF OnServiceConnected
<1>4. CASE OnDestroy
  <2>1. cache' \in Screens /\ crawl' \in [Crawls -> CrawlStates]
    BY <1>4, StartTypes DEF OnDestroy
  <2>2. events' \in 0 .. MaxEvents  BY <1>4 DEF OnDestroy
  <2>3. bound' \in BOOLEAN /\ faithful' \in BOOLEAN  BY <1>4 DEF OnDestroy
  <2> QED  BY <1>4, <2>1, <2>2, <2>3 DEF OnDestroy
<1>5. CASE OnAccessibilityEvent
  <2>1. events' \in 0 .. MaxEvents  BY <1>5 DEF OnAccessibilityEvent
  <2>2. crawl' \in [Crawls -> CrawlStates]
    <3>1. CASE ~enabled  BY <1>5, <3>1 DEF OnAccessibilityEvent
    <3>2. CASE enabled
      <4>1. PICK c \in Crawls : crawl' = [crawl EXCEPT ![c].pc = "launched"]
        BY <1>5, <3>2 DEF OnAccessibilityEvent
      <4>2. [crawl[c] EXCEPT !.pc = "launched"] \in CrawlStates  BY DEF CrawlStates
      <4> QED  BY <4>1, <4>2
    <3> QED  BY <3>1, <3>2
  <2>3. faithful' \in BOOLEAN  BY <1>5 DEF OnAccessibilityEvent
  <2> QED  BY <1>5, <2>1, <2>2, <2>3 DEF OnAccessibilityEvent
<1>6. ASSUME NEW c \in Crawls, CrawlStep(c) PROVE STypeInv'
  <2>1. CASE BeginCrawl(c)
    <3>1. crawl' \in [Crawls -> CrawlStates]
      BY <2>1, StartTypes DEF BeginCrawl
    <3>2. faithful' \in BOOLEAN  BY <2>1 DEF BeginCrawl
    <3> QED  BY <2>1, <3>1, <3>2 DEF BeginCrawl
  <2>2. CASE EndRead(c)  BY <2>2 DEF EndRead, Proceed, CrawlStates
  <2>3. CASE EndClear(c)
    <3>1. {l \in Labels : crawl[c].map[l] # Nowhere} \in SUBSET Labels  OBVIOUS
    <3> QED  BY <2>3, <3>1 DEF EndClear, Proceed, CrawlStates
  <2>4. CASE EndCrawl(c)  BY <2>4 DEF EndCrawl, CrawlStates, Idle, Blank
  <2>5. ASSUME NEW l \in Labels, ReadNode(c, l) PROVE STypeInv'
    <3>1. screen[l] \in Places \union {Nowhere} /\ crawl[c] \in CrawlStates  OBVIOUS
    <3> DEFINE p == IF l \in Clickable THEN screen[l] ELSE Nowhere
               r == [crawl[c] EXCEPT !.todo = @ \ {l}, !.map[l] = p]
    <3>2. crawl' = [crawl EXCEPT ![c] = r]
      BY <2>5 DEF ReadNode
    <3>3. r \in CrawlStates
      <4>1. p \in Places \union {Nowhere}  BY <3>1
      <4> HIDE DEF p
      <4> QED  BY <3>1, <4>1 DEF CrawlStates
    <3> HIDE DEF r
    <3>4. crawl' \in [Crawls -> CrawlStates]  BY <3>2, <3>3
    <3> QED  BY <2>5, <3>4 DEF ReadNode
  <2>6. ASSUME NEW l \in Labels, ClearEntry(c, l) PROVE STypeInv'
    BY <2>6 DEF ClearEntry, CrawlStates
  <2>7. ASSUME NEW l \in Labels, PutEntry(c, l) PROVE STypeInv'
    <3>1. crawl[c].map[l] \in Places \union {Nowhere}  BY DEF CrawlStates
    <3>2. crawl' \in [Crawls -> CrawlStates]  BY <2>7 DEF PutEntry, CrawlStates
    <3> QED  BY <2>7, <3>1, <3>2 DEF PutEntry
  <2> QED  BY <1>6, <2>1, <2>2, <2>3, <2>4, <2>5, <2>6, <2>7 DEF CrawlStep
<1>7. ASSUME NEW t \in Targets, BeginStrike(t) PROVE STypeInv'
  <2>1. {l \in t : screen[l] # Nowhere} \in SUBSET Labels  BY TargetAssumption
  <2>2. t \in SUBSET Labels  BY TargetAssumption
  <2> QED  BY <1>7, <2>1, <2>2 DEF BeginStrike, NoStrike, StrikeStates
<1>8. CASE StrikeStep
  <2>1. CASE EndOfCache  BY <2>1 DEF EndOfCache, StrikeStates
  <2>2. CASE EndOfScan
    <3>1. /\ [strike EXCEPT !.pc = "hit", !.best = strike.best, !.from = "scan"] \in StrikeStates
          /\ [strike EXCEPT !.pc = "miss"] \in StrikeStates
      BY DEF StrikeStates
    <3>2. strike' \in StrikeStates  BY <2>2, <3>1 DEF EndOfScan, Tap
    <3> QED  BY <2>2, <3>2 DEF EndOfScan
  <2>3. CASE EndStrike  BY <2>3 DEF EndStrike, NoStrike, StrikeStates
  <2>4. ASSUME NEW l \in Labels, LookInCache(l) PROVE STypeInv'
    <3>1. cache[l] \in Places \union {Nowhere}  OBVIOUS
    <3>2. [strike EXCEPT !.pc = "hit", !.best = cache[l], !.from = "cache"] \in StrikeStates
      BY <3>1 DEF StrikeStates
    <3>3. [strike EXCEPT !.todo = @ \ {l}] \in StrikeStates  BY DEF StrikeStates
    <3>4. strike' \in StrikeStates  BY <2>4, <3>2, <3>3 DEF LookInCache, Tap
    <3> QED  BY <2>4, <3>4 DEF LookInCache
  <2>5. ASSUME NEW l \in Labels, ScanNode(l) PROVE STypeInv'
    <3>1. screen[l] \in Places \union {Nowhere}  OBVIOUS
    <3>2. strike' \in StrikeStates  BY <2>5, <3>1 DEF ScanNode, StrikeStates
    <3> QED  BY <2>5, <3>2 DEF ScanNode
  <2> QED  BY <1>8, <2>1, <2>2, <2>3, <2>4, <2>5 DEF StrikeStep
<1>9. CASE UNCHANGED svars  BY <1>9 DEF svars
<1> QED  BY <1>1, <1>2, <1>3, <1>4, <1>5, <1>6, <1>7, <1>8, <1>9 DEF SNext

\* Every step keeps what is known of the cache.
LEMMA CacheStep ==
  ASSUME STypeInv, STypeInv', CacheInv, [SNext]_svars PROVE CacheInv'
<1> USE DEF CacheInv
\* A step that leaves the crawls, the cache and the screen alone.
<1>f. ASSUME UNCHANGED <<screen, events, bound, cache, crawl, faithful>> PROVE CacheInv'
  BY <1>f DEF UnboundInv, AloneInv, KnowledgeInv, Running, Pending, Knows, Want
<1>1. ASSUME NEW l \in Labels, NEW p \in Places \union {Nowhere}, ScreenChanges(l, p)
      PROVE  CacheInv'
  <2>1. UnboundInv' /\ AloneInv'
    BY <1>1 DEF ScreenChanges, STypeInv, UnboundInv, AloneInv, Running
  <2>2. faithful' => Pending'
    BY <1>1 DEF ScreenChanges, STypeInv, UnboundInv, Pending
  <2> QED  BY <2>1, <2>2 DEF KnowledgeInv
<1>2. ASSUME NEW on \in BOOLEAN, SetHijack(on) PROVE CacheInv'
  BY <1>2, <1>f DEF SetHijack
<1>3. CASE OnServiceConnected
  BY <1>3 DEF OnServiceConnected, UnboundInv, AloneInv, KnowledgeInv
<1>4. CASE OnDestroy
  BY <1>4 DEF OnDestroy, UnboundInv, AloneInv, KnowledgeInv, Idle
<1>5. CASE OnAccessibilityEvent
  <2>1. CASE ~enabled
    BY <1>5, <2>1 DEF OnAccessibilityEvent, UnboundInv, AloneInv, KnowledgeInv
  <2>2. CASE enabled
    <3>1. PICK c \in Crawls : crawl[c].pc = "idle" /\ crawl' = [crawl EXCEPT ![c].pc = "launched"]
      BY <1>5, <2>2 DEF OnAccessibilityEvent
    <3>2. \A d \in Crawls : Running(d)' <=> Running(d)
      BY <3>1 DEF Running, STypeInv, CrawlStates
    <3>3. Pending'  BY <3>1 DEF Pending, STypeInv, CrawlStates
    <3>4. faithful' = faithful /\ bound' /\ bound  BY <1>5, <2>2 DEF OnAccessibilityEvent
    <3> QED  BY <3>2, <3>3, <3>4 DEF UnboundInv, AloneInv, KnowledgeInv
  <2> QED  BY <2>1, <2>2
<1>6. ASSUME NEW c \in Crawls, CrawlStep(c) PROVE CacheInv'
  <2> USE DEF STypeInv, CrawlStates
  <2>0. UnboundInv'
    BY <1>6 DEF CrawlStep, UnboundInv, BeginCrawl, EndRead, EndClear, EndCrawl, Proceed,
                ReadNode, ClearEntry, PutEntry
  <2>1. CASE BeginCrawl(c)
    <3>1. CASE crawl' = [crawl EXCEPT ![c] = Idle] /\ faithful' = FALSE
      BY <2>0, <3>1 DEF AloneInv, KnowledgeInv
    <3>2. CASE /\ crawl' = [crawl EXCEPT ![c] = [pc |-> "read", todo |-> Labels, map |-> Blank]]
               /\ faithful' = \A d \in Crawls : ~Running(d)
      <4>1. crawl'[c].pc = "read" /\ crawl'[c].todo = Labels  BY <3>2
      <4>2. \A d \in Crawls \ {c} : crawl'[d] = crawl[d]  BY <3>2
      <4>3. AloneInv'  BY <3>2, <4>2 DEF AloneInv, Running
      <4>4. Running(c)'  BY <4>1 DEF Running
      <4>5. Knows(c)'  BY <4>1 DEF Knows
      <4>6. faithful' => \A d \in Crawls \ {c} : Knows(d)'
        BY <3>2, <4>2 DEF Running, Knows
      <4> QED  BY <2>0, <4>3, <4>4, <4>5, <4>6 DEF KnowledgeInv
    <3> QED  BY <2>1, <3>1, <3>2 DEF BeginCrawl
  \* The statements of a crawl that runs: it is the only one to write, and no
  \* other knows anything.
  <2>a. ASSUME Running(c), crawl'[c].pc \notin {"launched"},
               \A d \in Crawls \ {c} : crawl'[d] = crawl[d],
               UNCHANGED <<screen, events, faithful>>,
               faithful /\ ~Pending /\ Knows(c) => Knows(c)',
               crawl'[c].pc = "idle" => (faithful /\ ~Pending /\ Knows(c) =>
                                            \A l \in Labels : (cache[l] = Want(l))')
        PROVE  CacheInv'
    <3>1. AloneInv'  BY <2>a DEF AloneInv, Running
    <3>2. Pending' => Pending  BY <2>a DEF Pending
    <3>2a. Pending => Pending'  BY <2>a DEF Pending, Running
    <3>3. faithful => \A d \in Crawls \ {c} : ~Running(d)  BY <2>a DEF AloneInv
    <3>4. faithful => \A d \in Crawls \ {c} : Knows(d)'  BY <2>a, <3>3 DEF Running, Knows
    <3>5. (\A d \in Crawls : ~Running(d)') /\ ~Pending' => crawl'[c].pc = "idle"
      BY <2>a DEF Running, Pending
    <3> QED  BY <2>0, <2>a, <3>1, <3>2, <3>2a, <3>4, <3>5 DEF KnowledgeInv
  <2>2. CASE EndRead(c)
    <3>1. crawl'[c].pc = "clear" /\ crawl'[c].todo = Labels /\ crawl'[c].map = crawl[c].map
      BY <2>2 DEF EndRead, Proceed
    <3>2. crawl[c].pc = "read" /\ crawl[c].todo = {}  BY <2>2 DEF EndRead, Proceed
    <3>3. Knows(c) => Knows(c)'  BY <2>2, <3>1, <3>2 DEF Knows, Want, EndRead, Proceed
    <3> QED  BY <2>2, <2>a, <3>1, <3>2, <3>3 DEF EndRead, Proceed, Running
  <2>3. CASE EndClear(c)
    <3>1. /\ crawl'[c].pc = "put" /\ crawl'[c].map = crawl[c].map
          /\ crawl'[c].todo = {l \in Labels : crawl[c].map[l] # Nowhere}
      BY <2>3 DEF EndClear, Proceed
    <3>2. crawl[c].pc = "clear" /\ crawl[c].todo = {}  BY <2>3 DEF EndClear, Proceed
    <3>3. Knows(c) => Knows(c)'  BY <2>3, <3>1, <3>2 DEF Knows, Want, EndClear, Proceed
    <3> QED  BY <2>3, <2>a, <3>1, <3>2, <3>3 DEF EndClear, Proceed, Running
  <2>4. CASE EndCrawl(c)
    <3>1. crawl'[c].pc = "idle"  BY <2>4 DEF EndCrawl, Idle
    <3>2. Knows(c) => \A l \in Labels : (cache[l] = Want(l))'
      BY <2>4 DEF EndCrawl, Knows, Want
    <3>3. Knows(c)'  BY <3>1 DEF Knows
    <3> QED  BY <2>4, <2>a, <3>1, <3>2, <3>3 DEF EndCrawl, Running
  <2>5. ASSUME NEW l \in Labels, ReadNode(c, l) PROVE CacheInv'
    <3>1. /\ crawl[c].pc = "read" /\ crawl'[c].pc = "read"
          /\ crawl'[c].todo = crawl[c].todo \ {l}
          /\ crawl'[c].map = [crawl[c].map EXCEPT ![l] = Want(l)]
      BY <2>5 DEF ReadNode, Want
    <3>2. Knows(c) => Knows(c)'  BY <2>5, <3>1 DEF Knows, Want, ReadNode, Screens
    <3> QED  BY <2>5, <2>a, <3>1, <3>2 DEF ReadNode, Running
  <2>6. ASSUME NEW l \in Labels, ClearEntry(c, l) PROVE CacheInv'
    <3>1. /\ crawl[c].pc = "clear" /\ crawl'[c].pc = "clear"
          /\ crawl'[c].todo = crawl[c].todo \ {l}
          /\ crawl'[c].map = crawl[c].map
      BY <2>6 DEF ClearEntry
    <3>2. Knows(c) => Knows(c)'  BY <2>6, <3>1 DEF Knows, Want, ClearEntry, Screens
    <3> QED  BY <2>6, <2>a, <3>1, <3>2 DEF ClearEntry, Running
  <2>7. ASSUME NEW l \in Labels, PutEntry(c, l) PROVE CacheInv'
    <3>1. /\ crawl[c].pc = "put" /\ crawl'[c].pc = "put"
          /\ crawl'[c].todo = crawl[c].todo \ {l}
          /\ crawl'[c].map = crawl[c].map
      BY <2>7 DEF PutEntry
    <3>2. Knows(c) => Knows(c)'  BY <2>7, <3>1 DEF Knows, Want, PutEntry, Screens
    <3> QED  BY <2>7, <2>a, <3>1, <3>2 DEF PutEntry, Running
  <2> QED  BY <1>6, <2>1, <2>2, <2>3, <2>4, <2>5, <2>6, <2>7 DEF CrawlStep
<1>7. ASSUME NEW t \in Targets, BeginStrike(t) PROVE CacheInv'
  BY <1>7, <1>f DEF BeginStrike
<1>8. CASE StrikeStep
  BY <1>8, <1>f DEF StrikeStep, EndOfCache, EndOfScan, EndStrike, LookInCache, ScanNode
<1>9. CASE UNCHANGED svars  BY <1>9, <1>f DEF svars
<1> QED  BY <1>1, <1>2, <1>3, <1>4, <1>5, <1>6, <1>7, <1>8, <1>9 DEF SNext

\* Every step keeps what is known of the strike.
LEMMA StrikeStepKeeps ==
  ASSUME STypeInv, StrikeInv, [SNext]_svars PROVE StrikeInv'
<1> USE DEF StrikeInv
<1>f. ASSUME UNCHANGED <<screen, strike>> PROVE StrikeInv'  BY <1>f
<1> USE DEF STypeInv, StrikeStates
<1>1. ASSUME NEW l \in Labels, NEW p \in Places \union {Nowhere}, ScreenChanges(l, p)
      PROVE  StrikeInv'
  BY <1>1 DEF ScreenChanges, Screens
<1>2. ASSUME NEW on \in BOOLEAN, SetHijack(on) PROVE StrikeInv'
  BY <1>2, <1>f DEF SetHijack
<1>3. CASE OnServiceConnected \/ OnDestroy \/ OnAccessibilityEvent
  BY <1>3, <1>f DEF OnServiceConnected, OnDestroy, OnAccessibilityEvent
<1>4. ASSUME NEW c \in Crawls, CrawlStep(c) PROVE StrikeInv'
  BY <1>4, <1>f DEF CrawlStep, BeginCrawl, EndRead, EndClear, EndCrawl, Proceed, ReadNode,
                    ClearEntry, PutEntry
<1>5. ASSUME NEW t \in Targets, BeginStrike(t) PROVE StrikeInv'
  BY <1>5 DEF BeginStrike, NoStrike
<1>6. CASE StrikeStep
  <2>1. CASE EndOfCache  BY <2>1 DEF EndOfCache
  <2>2. CASE EndOfScan  BY <2>2 DEF EndOfScan, Tap
  <2>3. CASE EndStrike  BY <2>3 DEF EndStrike, NoStrike
  <2>4. ASSUME NEW l \in Labels, LookInCache(l) PROVE StrikeInv'
    BY <2>4 DEF LookInCache, Tap
  <2>5. ASSUME NEW l \in Labels, ScanNode(l) PROVE StrikeInv'
    BY <2>5 DEF ScanNode
  <2> QED  BY <1>6, <2>1, <2>2, <2>3, <2>4, <2>5 DEF StrikeStep
<1>7. CASE UNCHANGED svars  BY <1>7, <1>f DEF svars
<1> QED  BY <1>1, <1>2, <1>3, <1>4, <1>5, <1>6, <1>7 DEF SNext

-----------------------------------------------------------------------------
\* The inductive invariant holds: crawls, the cache and strikes stay as
\* DevilkingService.kt:151 and 365 need them.
THEOREM SpiderInvariant == SSpec => []SInv
<1>1. SInit => SInv
  <2>1. SInit => STypeInv
    <3> SUFFICES ASSUME SInit PROVE STypeInv  OBVIOUS
    <3>1. events \in 0 .. MaxEvents  BY EventsAssumption DEF SInit
    <3>2. bound \in BOOLEAN /\ faithful \in BOOLEAN  BY DEF SInit
    <3>3. cache \in Screens /\ crawl \in [Crawls -> CrawlStates] /\ strike \in StrikeStates
      BY StartTypes DEF SInit
    <3> QED  BY <3>1, <3>2, <3>3 DEF SInit, STypeInv
  <2>2. SInit => CacheInv
    BY DEF SInit, CacheInv, UnboundInv, AloneInv, KnowledgeInv, Idle
  <2>3. SInit => StrikeInv  BY DEF SInit, StrikeInv, NoStrike
  <2> QED  BY <2>1, <2>2, <2>3 DEF SInv
<1>2. SInv /\ [SNext]_svars => SInv'
  BY STypeStep, CacheStep, StrikeStepKeeps DEF SInv
<1> QED  BY <1>1, <1>2, PTL DEF SSpec

\* The maps give places of the screen, and crawls and strikes are at one of
\* their statements.
THEOREM SpiderTypeCorrect == SSpec => []STypeOK
<1>1. SInv => STypeOK
  BY DEF SInv, STypeInv, StrikeInv, STypeOK, CrawlStates, StrikeStates
<1> QED  BY <1>1, SpiderInvariant, PTL

\* However many crawls ran into each other before, once every event has been
\* handled and every crawl is over the cache is the screen, provided the last
\* crawl had the cache to itself (DevilkingService.kt:151).
THEOREM CacheCorrect == SSpec => []QuietCacheIsScreen
<1>1. SInv => QuietCacheIsScreen
  <2> SUFFICES ASSUME SInv, bound, faithful, events = 0, \A c \in Crawls : crawl[c] = Idle
               PROVE  cache = Mapped
    BY DEF QuietCacheIsScreen
  <2>1. ~Pending /\ \A c \in Crawls : ~Running(c)
    BY DEF Pending, Running, Idle
  <2>2. \A l \in Labels : cache[l] = Want(l)
    BY <2>1 DEF SInv, CacheInv, KnowledgeInv
  <2> QED  BY <2>2 DEF SInv, STypeInv, Screens, Mapped, Want
<1> QED  BY <1>1, SpiderInvariant, PTL

\* A strike does not miss a node that is on the screen and stays, whatever
\* crawls do to the cache meanwhile (DevilkingService.kt:365), unless it is one of
\* the terminal's own lines, which the scan passes over (376).
THEOREM StrikeCorrect == SSpec => []NothingSteadyIsMissed
<1>1. SInv => NothingSteadyIsMissed  BY DEF SInv, StrikeInv, NothingSteadyIsMissed
<1> QED  BY <1>1, SpiderInvariant, PTL
=============================================================================
