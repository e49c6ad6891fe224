SPECIFICATION TSpec
CONSTANTS
    Reflexes <- MCReflexes
    Typed <- MCTyped
    Replies <- MCReplies
    Scripts <- MCScripts
    Agents = {a1}
    Skills = {s1, s2}
INVARIANT SignalLostIsCaught
