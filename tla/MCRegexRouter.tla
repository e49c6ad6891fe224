---------------------------- MODULE MCRegexRouter ----------------------------
(***************************************************************************)
(* RegexRouter for TLC: phrases are points on a line, so that they have    *)
(* near and far neighbours at distances around the typo budgets of their   *)
(* lengths.  MCMaster stands for the reflexes that matrix.init writes.     *)
(***************************************************************************)
EXTENDS RegexRouter

MCLength(p)      == IF p <= 2 THEN 4 ELSE 5
MCDistance(p, q) == IF p > q THEN p - q ELSE q - p

MCAnswers == {Say("hello"), Command("reboot", FALSE)}
MCMaster  == <<Item(1, Command("clear", FALSE))>>
=============================================================================
