-------------------------- MODULE MCLauncherStores --------------------------
(* LauncherStores for TLC. *)
EXTENDS LauncherStores

\* "wifi" is seeded, as "package/class"; "chat" is not.
MCSeedRoutes == [n \in Names |-> IF n = "wifi" THEN <<"settings/wifi">> ELSE NoRoute]
MCRoutes     == {<<"messenger", "chats">>, <<"messenger">>}
MCArchives   == {[at |-> "top", parts |-> Parts], [at |-> "folder", parts |-> Parts],
                 [at |-> "top", parts |-> {"conf"}]}
=============================================================================
