----------------------------- MODULE RegexRouter -----------------------------
(***************************************************************************)
(* RegexRouter: the reflexes that answer before any model is asked.  The   *)
(* memory matrix is a file, read for every lookup and rewritten in place   *)
(* for every "learn"; macros live in SharedPreferences; commands go to     *)
(* SystemExecutor, behind its whitelist.                                   *)
(*                                                                         *)
(* Routing runs on the main thread.  The two halves of a rewrite (truncate *)
(* and write) are separate steps because the process can die between them. *)
(* A phrase is what the lookup can tell about it: its length and its       *)
(* distance to other phrases (FuzzyDistance computes that distance).       *)
(***************************************************************************)
EXTENDS Integers, SequencesExt, FiniteSetsExt

CONSTANTS
    Phrases,        \* what can be said or learned
    Length(_),      \* of a phrase
    Distance(_, _), \* calculateFuzzyDistance
    FastPaths,      \* phrases that route answers before it looks at memory
    Master,         \* the reflexes of matrix.init: a sequence of items
    Answers,        \* what can be learned or bound to a macro
    MaxItems,       \* bound: items in the memory matrix
    MaxMacros       \* bound: macros

ASSUME RouterAssumption ==
    /\ Phrases # {} /\ FastPaths \subseteq Phrases
    /\ MaxItems \in Nat /\ MaxMacros \in Nat
    /\ \A p, q \in Phrases : Distance(p, q) \in Nat /\ (Distance(p, q) = 0 <=> p = q)

\* An answer that holds a "[CMD:" is a command for the executor, any other is
\* said.  A command is its verb and whether words follow the verb.
Command(verb, more) == [kind |-> "cmd", verb |-> verb, more |-> more]
Say(text)           == [kind |-> "text", verb |-> text, more |-> FALSE]
None                == [kind |-> "null", verb |-> "", more |-> FALSE]

Item(p, a) == [phrase |-> p, answer |-> a]
Items      == [phrase : Phrases, answer : Answers \union {Master[k].answer : k \in 1..Len(Master)}]

ASSUME MasterAssumption == Master \in Seq(Items)

VARIABLES
    memory,     \* memory.json: "absent", "json" or "torn" (truncated)
    items,      \* its reflexes, in file order; each variation is an item
    writing,    \* the handler whose writeText is not done: "learn", "init", "no"
    draft,      \* the items it writes
    macros,     \* DEVILKING_MACROS: a macro for each phrase, or None
    reply,      \* what the last command said, and about which phrase and answer
    learned     \* history: the items reported as learned since matrix.init

file  == <<memory, items, writing, draft>>
rvars == <<file, macros, reply, learned>>

Reply(what, p, a) == [what |-> what, phrase |-> p, answer |-> a]

RInit ==
    /\ memory = "absent" /\ items = <<>>
    /\ writing = "no" /\ draft = <<>>
    /\ macros = [p \in Phrases |-> None]
    /\ reply = Reply("none", CHOOSE p \in Phrases : TRUE, None)
    /\ learned = {}
-----------------------------------------------------------------------------
(* checkMemoryMatrixFuzzy.                                                 *)

AllowedTypos(p) ==
    CASE Length(p) <= 4  -> 1
      [] Length(p) <= 8  -> 2
      [] Length(p) <= 15 -> 3
      [] OTHER           -> 4

Unmatched == [exact |-> FALSE, distance |-> -1, answer |-> None]

\* Mutant: of equally near reflexes the last one wins.
CompareLastWins(input, best, item) ==
    LET d == Distance(input, item.phrase)
    IN  IF best.exact THEN best
        ELSE IF input = item.phrase THEN [exact |-> TRUE, distance |-> 0, answer |-> item.answer]
        ELSE IF d <= AllowedTypos(item.phrase) /\ (best.distance = -1 \/ d <= best.distance)
             THEN [exact |-> FALSE, distance |-> d, answer |-> item.answer]
             ELSE best

\* One turn of the loops.  An exact match returns at once; distance -1 stands
\* for Int.MAX_VALUE.
Compare(input, best, item) ==
    LET d == Distance(input, item.phrase)
    IN  IF best.exact THEN best
        ELSE IF input = item.phrase THEN [exact |-> TRUE, distance |-> 0, answer |-> item.answer]
        ELSE IF d <= AllowedTypos(item.phrase) /\ (best.distance = -1 \/ d < best.distance)
             THEN [exact |-> FALSE, distance |-> d, answer |-> item.answer]
             ELSE best

\* A file that does not parse, or is not there, answers nothing.
Lookup(input) ==
    IF memory = "json"
    THEN FoldLeft(LAMBDA best, item : Compare(input, best, item), Unmatched, items).answer
    ELSE None
-----------------------------------------------------------------------------
(* SystemExecutor.executeCommand: the whitelist.                           *)

PrefixVerbs == {"open", "call", "2x", "snipe", "tap", "type", "macro"}
ExactVerbs  == {"settings", "scan screen", "clear", "home", "recents", "lock",
                "volume up", "volume down", "hijack on", "hijack off"}

Safe(cmd) ==
    \/ cmd.verb \in {"flashlight", "scroll"}
    \/ cmd.verb \in PrefixVerbs /\ cmd.more
    \/ cmd.verb \in ExactVerbs /\ ~cmd.more

Execute(p, cmd) == Reply(IF Safe(cmd) THEN "run" ELSE "blocked", p, cmd)
-----------------------------------------------------------------------------
(* route, for everything but "learn" and "matrix.init".                    *)

Route(p) ==
    /\ writing = "no"
    /\ reply' =
         IF p \in FastPaths THEN Reply("fast", p, None)
         ELSE LET a == Lookup(p)
              IN  IF a.kind = "cmd" THEN Execute(p, a)
                  ELSE IF a.kind = "text" THEN Reply("said", p, a)
                  ELSE IF macros[p] # None THEN Execute(p, macros[p])
                  ELSE Reply("null", p, None)
    /\ UNCHANGED <<file, macros, learned>>

\* writeText: the file is truncated, then written.
BeginWrite(handler, new) ==
    /\ memory' = "torn"
    /\ items' = <<>>
    /\ writing' = handler
    /\ draft' = new

\* Mutant: a file that does not parse is started over.
AddMemoryStartingOver(p, a) ==
    /\ writing = "no"
    /\ Len(items) < MaxItems
    /\ BeginWrite("learn", Append(items, Item(p, a)))
    /\ reply' = Reply("none", p, a)
    /\ UNCHANGED <<macros, learned>>

\* "learn": appends to what is there; refuses a file that does not parse.
AddMemory(p, a) ==
    /\ writing = "no"
    /\ Len(items) < MaxItems
    /\ IF memory = "torn"
       THEN /\ reply' = Reply("memory error", p, a)
            /\ UNCHANGED file
       ELSE /\ BeginWrite("learn", Append(items, Item(p, a)))
            /\ reply' = Reply("none", p, a)
    /\ UNCHANGED <<macros, learned>>

\* "matrix.init": replaces the file with the master reflexes.
MatrixInit ==
    /\ writing = "no"
    /\ BeginWrite("init", Master)
    /\ learned' = {}
    /\ reply' = [reply EXCEPT !.what = "none"]
    /\ UNCHANGED macros

\* The write completes and the handler answers.
EndWrite ==
    /\ writing # "no"
    /\ memory' = "json"
    /\ items' = draft
    /\ writing' = "no" /\ draft' = <<>>
    /\ IF writing = "init"
       THEN reply' = [reply EXCEPT !.what = "armed"] /\ UNCHANGED learned
       ELSE /\ reply' = [reply EXCEPT !.what = "learned"]
            /\ learned' = learned \union {Last(draft)}
    /\ UNCHANGED macros

\* SettingsActivity: a macro is saved under its trigger, lowercased.
ForgeMacro(p, a) ==
    /\ writing = "no"
    /\ macros' = [macros EXCEPT ![p] = a]
    /\ Cardinality({q \in Phrases : macros'[q] # None}) <= MaxMacros
    /\ reply' = Reply("macro locked", p, a)
    /\ UNCHANGED <<file, learned>>

\* The process dies, in a write or not; macros not yet flushed may be lost.
Die ==
    /\ writing' = "no" /\ draft' = <<>>
    /\ macros' \in {macros, [p \in Phrases |-> None]}
    /\ reply' = [reply EXCEPT !.what = "none"]
    /\ UNCHANGED <<memory, items, learned>>

RNext ==
    \/ \E p \in Phrases : Route(p)
    \/ \E p \in Phrases, a \in Answers : AddMemory(p, a) \/ ForgeMacro(p, a)
    \/ MatrixInit \/ EndWrite \/ Die

RSpec == RInit /\ [][RNext]_rvars
-----------------------------------------------------------------------------
(* Properties.                                                             *)

\* The values the variables may have.
RTypeOK ==
    /\ memory \in {"absent", "json", "torn"} /\ (memory # "json" => items = <<>>)
    /\ items \in Seq(Items) /\ draft \in Seq(Items)
    /\ writing \in {"no", "learn", "init"}
    /\ macros \in [Phrases -> Answers \union {None}]
    /\ reply.phrase \in Phrases
    /\ learned \subseteq Items

\* The items a phrase is near enough to.
Near(input) ==
    {k \in 1..Len(items) : Distance(input, items[k].phrase) <= AllowedTypos(items[k].phrase)}

\* The lookup, which stops at an exact match and otherwise goes through the
\* whole file, answers with the first of the nearest reflexes in reach, and
\* with nothing when none is in reach (RegexRouter.kt:251, 262), for every
\* phrase and every matrix that learning, resets and restarts can leave.
LookupIsNearest ==
    memory = "json" =>
        \A p \in Phrases :
            IF Near(p) = {} THEN Lookup(p) = None
            ELSE LET least == Min({Distance(p, items[k].phrase) : k \in Near(p)})
                     first == Min({k \in Near(p) : Distance(p, items[k].phrase) = least})
                 IN  Lookup(p) = items[first].answer

\* What was reported as learned is in every readable matrix until it is reset:
\* a death in the middle of a rewrite may cost the file, but no later "learn"
\* turns that into a matrix that silently forgot (RegexRouter.kt:220, 231).
LearnedIsKept == memory = "json" => learned \subseteq ToSet(items)
=============================================================================
