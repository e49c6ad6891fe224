--------------------------- MODULE MCTerminalAgent ---------------------------
(***************************************************************************)
(* TerminalAgent for TLC: reflexes, tools, inputs nobody knows (a "run"    *)
(* without a name is one), two scripts of which one runs the other, and    *)
(* one reply of each kind.                                                 *)
(***************************************************************************)
EXTENDS TerminalAgent

MCReflexes == {<<"clear">>, <<"help">>}
MCTyped    == {<<"clear">>, <<"wiretap", "on">>, <<"run", "outer">>, <<"hello">>,
               <<"run">>}
MCScripts  == [outer |-> <<<<"hello">>, <<"run", "inner">>>>,
               inner |-> <<<<"open">>, <<"wiretap", "off">>>>]
MCReplies  == {[text |-> "tool", cut |-> <<"dump", "vault">>],
               [text |-> "hallucination", cut |-> <<"long">>],
               [text |-> "bracket", cut |-> <<>>],
               [text |-> "SIGNAL LOST", cut |-> <<"> [DEVILKING AI">>],
               [text |-> "CORE NOT INJECTED", cut |-> <<"> [!">>],
               [text |-> "ENGINE CRASH", cut |-> <<"> [!">>],
               [text |-> "CORE NOT IN RAM", cut |-> <<"ERROR:", "Core not in RAM.">>],
               [text |-> "CONTEXT FAILURE", cut |-> <<"ERROR:", "Context failure.">>]}
=============================================================================
