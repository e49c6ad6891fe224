---------------------------- MODULE TerminalAgent ----------------------------
(***************************************************************************)
(* The command loop of MainActivity: processInput offers an input to the   *)
(* router, then to the registered tools, then to the autonomous agent,     *)
(* whose answer is cut at the bracket and, 800 ms later, processed as if   *)
(* it had been typed.  Skill scripts feed the same loop line by line.      *)
(*                                                                         *)
(* Everything but the thinking runs on the main thread.  Coroutines belong *)
(* to uiScope: once the activity is destroyed they are cancelled, which    *)
(* they notice where they suspend next, not while they are blocked.        *)
(***************************************************************************)
EXTENDS Naturals, SequencesExt, FiniteSets

CONSTANTS
    Reflexes,   \* inputs that regexRouter.route answers
    Typed,      \* what the user types or says; an input is a sequence of words
    Replies,    \* what generateResponse can return: see CutAt
    Scripts,    \* the .txt files of the vault: name -> sequence of inputs
    Agents, Skills  \* bound: coroutines of each kind that may run at a time

WiretapTools == {<<"wiretap", "on">>, <<"wiretap", "off">>}

\* setupCommandRegistry: the prefixes in order of registration.
Tools == << <<"help">>, <<"clear">>, <<"inject", "core">>, <<"inject", "vosk">>,
            <<"grant", "storage">>, <<"run">>, <<"wiretap", "on">>,
            <<"wiretap", "off">>, <<"dump", "vault">>, <<"teleport">>,
            <<"lock", "route">> >>

\* Prefixes that end with a space: inputs are trimmed, so text must follow.
NeedsText == {<<"run">>, <<"teleport">>, <<"lock", "route">>}

\* Lines of a script that runSkillScript handles itself.
ScriptOnly == {<<"delay">>, <<"snipe">>, <<"open">>}

\* Replies: [text, cut], where cut is what stands before the first "]", <<>> if
\* nothing does, <<"long">> if 50 characters or more do.
Caught == {<<>>, <<"long">>}

\* The error texts of LocalAICore and native-lib.cpp, which are replies too.
ErrorTexts == {"SIGNAL LOST", "CORE NOT INJECTED", "ENGINE CRASH",
               "CORE NOT IN RAM", "CONTEXT FAILURE"}

VARIABLES
    alive,      \* the activity is not destroyed: uiScope is active
    agent,      \* per coroutine of askAutonomousAgent / handleAgentResponse
    skill,      \* per coroutine of runSkillScript
    isWiretapEnabled,   \* static
    fired       \* history: the reply whose command was executed last

tvars == <<alive, agent, skill, isWiretapEnabled, fired>>

Asleep   == [at |-> "idle", reply |-> [text |-> "", cut |-> <<>>]]
NoScript == [name |-> "", line |-> 0]

TInit ==
    /\ alive = TRUE
    /\ agent = [a \in Agents |-> Asleep]
    /\ skill = [s \in Skills |-> NoScript]
    /\ isWiretapEnabled = FALSE
    /\ fired = ""
-----------------------------------------------------------------------------
(* CommandRegistry.process.                                                *)

Matching(input) == {k \in 1..Len(Tools) :
                       IF Tools[k] \in NeedsText THEN IsStrictPrefix(Tools[k], input)
                                                 ELSE IsPrefix(Tools[k], input)}

\* sortedByDescending the length of the prefix, then the first that matches.
MatchedTool(input) ==
    LET Before(k, m) == \/ Len(Tools[k]) > Len(Tools[m])
                        \/ Len(Tools[k]) = Len(Tools[m]) /\ k <= m
    IN  CHOOSE k \in Matching(input) : \A m \in Matching(input) : Before(k, m)

\* What a tool does to the state; the others print, clear the display or open
\* pickers and apps.  A script is launched, not waited for.
RunTool(input, prefix, skills) ==
    /\ isWiretapEnabled' = IF prefix \in WiretapTools THEN prefix = <<"wiretap", "on">>
                                                     ELSE isWiretapEnabled
    /\ IF alive /\ prefix = <<"run">> /\ Len(input) = 2 /\ input[2] \in DOMAIN Scripts
       THEN \E s \in Skills :
              /\ skills[s] = NoScript
              /\ skill' = [skills EXCEPT ![s] = [name |-> input[2], line |-> 1]]
       ELSE skill' = skills

\* Mutant: the agent is launched outside uiScope.
AskGlobalAgent(agents) ==
    \E a \in Agents : /\ agents[a] = Asleep
                      /\ agent' = [agents EXCEPT ![a].at = "thinking"]

\* askAutonomousAgent: a coroutine of uiScope, which starts none once cancelled.
AskAutonomousAgent(agents) ==
    IF alive
    THEN \E a \in Agents : /\ agents[a] = Asleep
                           /\ agent' = [agents EXCEPT ![a].at = "thinking"]
    ELSE agent' = agents

\* processInput; agents and skills are the coroutines as the caller leaves them.
ProcessInput(input, agents, skills) ==
    \/ /\ input \in Reflexes
       /\ agent' = agents /\ skill' = skills
       /\ UNCHANGED isWiretapEnabled
    \/ /\ input \notin Reflexes /\ Matching(input) # {}
       /\ RunTool(input, Tools[MatchedTool(input)], skills)
       /\ agent' = agents
    \/ /\ input \notin Reflexes /\ Matching(input) = {}
       /\ AskAutonomousAgent(agents)
       /\ skill' = skills
       /\ UNCHANGED isWiretapEnabled
-----------------------------------------------------------------------------
\* The keyboard, and voskListener: a result that was posted before onDestroy is
\* still processed after it.
Input(input) ==
    /\ ProcessInput(input, agent, skill)
    /\ UNCHANGED <<alive, fired>>

\* aiCore.generateResponse, on an IO thread: it answers, or throws, which ends
\* the coroutine with a message.
Think(a) ==
    /\ agent[a].at = "thinking"
    /\ \/ \E r \in Replies : agent' = [agent EXCEPT ![a] = [at |-> "answered", reply |-> r]]
       \/ agent' = [agent EXCEPT ![a] = Asleep]
    /\ UNCHANGED <<alive, skill, isWiretapEnabled, fired>>

\* withContext(Main) and handleAgentResponse: cancelled if the activity is gone.
HandleAgentResponse(a) ==
    /\ agent[a].at = "answered"
    /\ IF alive
       THEN agent' = IF agent[a].reply.cut \in Caught
                     THEN [agent EXCEPT ![a] = Asleep]
                     ELSE [agent EXCEPT ![a].at = "delay"]
       ELSE agent' = [agent EXCEPT ![a] = Asleep]
    /\ UNCHANGED <<alive, skill, isWiretapEnabled, fired>>

\* After delay(800): the command is processed, or the coroutine is cancelled.
Fire(a) ==
    /\ agent[a].at = "delay"
    /\ IF alive
       THEN /\ ProcessInput(agent[a].reply.cut, [agent EXCEPT ![a] = Asleep], skill)
            /\ fired' = agent[a].reply.text
       ELSE /\ agent' = [agent EXCEPT ![a] = Asleep]
            /\ UNCHANGED <<skill, isWiretapEnabled, fired>>
    /\ UNCHANGED alive

\* runSkillScript: the next line, 800 ms after the one before.
ScriptLine(s) ==
    /\ alive /\ skill[s] # NoScript
    /\ skill[s].line <= Len(Scripts[skill[s].name])
    /\ LET line == Scripts[skill[s].name][skill[s].line]
           next == [skill EXCEPT ![s].line = @ + 1]
       IN  IF line \in ScriptOnly
           THEN skill' = next /\ UNCHANGED <<agent, isWiretapEnabled>>
           ELSE ProcessInput(line, agent, next)
    /\ UNCHANGED <<alive, fired>>

\* The sequence is complete, an exception (a file that cannot be read, an app
\* that cannot be started) ends it early, or the activity is gone.
ScriptEnds(s) ==
    /\ skill[s] # NoScript
    /\ skill' = [skill EXCEPT ![s] = NoScript]
    /\ UNCHANGED <<alive, agent, isWiretapEnabled, fired>>

\* onDestroy cancels uiScope.
Destroy ==
    /\ alive
    /\ alive' = FALSE
    /\ UNCHANGED <<agent, skill, isWiretapEnabled, fired>>

CoroutineStep ==
    \/ \E a \in Agents : Think(a) \/ HandleAgentResponse(a) \/ Fire(a)
    \/ \E s \in Skills : ScriptLine(s) \/ ScriptEnds(s)

TNext ==
    \/ \E input \in Typed : Input(input)
    \/ CoroutineStep
    \/ Destroy

TSpec == TInit /\ [][TNext]_tvars

\* Coroutines that can go on do.
TFairSpec ==
    /\ TSpec
    /\ \A a \in Agents : WF_tvars(Think(a) \/ HandleAgentResponse(a) \/ Fire(a))
    /\ \A s \in Skills : WF_tvars(ScriptLine(s) \/ ScriptEnds(s))
-----------------------------------------------------------------------------
(* Properties.                                                             *)

Quiet == (\A a \in Agents : agent[a] = Asleep) /\ (\A s \in Skills : skill[s] = NoScript)

\* uiScope.cancel (MainActivity.kt:532) is enough: after onDestroy the terminal
\* falls silent for good, however deep in a chain of agents and scripts it was,
\* even though spoken inputs are still processed after it.
DestroyedTerminalGoesQuiet == ~alive ~> []Quiet

\* What MainActivity.kt:308 prints, "Signal lost or hallucination caught": an
\* error text of the core is caught, and never executed as a command.
SignalLostIsCaught == fired \notin ErrorTexts
=============================================================================
