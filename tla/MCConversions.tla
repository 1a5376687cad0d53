---------------------------- MODULE MCConversions ----------------------------
(***************************************************************************)
(* TaskSession and LlmAnswer on a small instance.  They share no state, so *)
(* answers are explored only before anything else happens.                 *)
(***************************************************************************)
EXTENDS TaskSession, LlmAnswer

MCChars == {"a", "b", Space, Newline, Semicolon, Equals}
MCNames == {<<"a">>, <<"a", "b">>}
MCValues == {<<>>, <<"a", Equals, "b">>, <<"a", Space, "b">>}
MCPads == {<<>>, <<Space>>}
MCJunk == {<<>>, <<Space>>, <<"a">>, <<Space, Equals, "a">>}
MCHosts == {NoHost, <<"vk", "com">>, <<"www", "vk", "com">>}

\* A catalog whose pinned entry is not the first, and two that could be pinned.
MCCatalog == <<
    [agent |-> "iphone",   windowsChrome |-> FALSE, viewports |-> {"390x844", "414x896"}],
    [agent |-> "chrome",   windowsChrome |-> TRUE,  viewports |-> {"1920x1080"}],
    [agent |-> "chromeold", windowsChrome |-> TRUE, viewports |-> {"1920x1080"}]>>
MCGeoLocale == [DE |-> "de-DE"]
MCFallback == {"ru-RU", "en-US"}
MCGeos == {"DE", "unknown"}

MCInit == SessionInit /\ LlmInit

MCNext ==
    \/ SessionNext /\ answer = <<>> /\ reply = "none" /\ UNCHANGED llmVars
    \/ LlmNext /\ text = <<>> /\ request = "paste" /\ UNCHANGED sessionVars

MCSpec == MCInit /\ [][MCNext]_<<sessionVars, llmVars>>
=============================================================================
