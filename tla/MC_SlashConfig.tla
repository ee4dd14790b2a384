------------------------------ MODULE MC_SlashConfig ------------------------------
(***************************************************************************)
(* Three channels, one of them named in command words, and one in a        *)
(* channel's name and a command word; two rows, the alias that covers one  *)
(* of them, custom bundles that shadow a row, include one another in a     *)
(* cycle and a diamond, or name what nobody defined; an MCP server that    *)
(* comes and goes, and no toolset of the host but the plugin's own, which  *)
(* has a tool of a row.                                                    *)
(***************************************************************************)
EXTENDS SlashConfig

MCChannels == {[room |-> "!r1", name |-> <<"posts">>], [room |-> "!r2", name |-> <<"tools", "post">>],
               [room |-> "!r3", name |-> <<"posts", "grant">>]}
MCRooms    == {"!r1", "!r2", "!r3"}
MCRows     == {"post", "directory"}
MCAliases  == {"messaging"}
MCBundles  == {"post", "directory", "messaging", "calendar", "loop"}
MCAutos    == {"mcp:linear", "toolset:filament"}
MCTools    == {"post_message", "quote", "search_members", "download_media",
               "get_media_download_url", "create_media_upload", "get_self", "issue"}
MCUngateable == {"get_self"}
MCMembers  == ("post" :> {"post_message", "quote"}) @@ ("directory" :> {"search_members"})
                @@ ("messaging" :> {"post_message", "search_members"})
MCDefault  == {"post", "directory"}
MCFeatures == {"advanced_tool_controls", "slash_commands", "compact_timeline"}
MCDefaultOn == {"compact_timeline"}
MCAlias    == "get_media_download_url" :> "download_media"
MCUngated  == {"create_media_upload"}
MCLive(linear) == ("mcp:linear" :> linear) @@ ("toolset:filament" :> {"quote"})
MCToolsets == {MCLive({}), MCLive({"issue"})}
MCServers  == "linear" :> "mcp:linear"
MCSources  == <<>>
MCVerbs    == [w \in {"on", "grant"} |-> "grant"] @@ [w \in {"off", "revoke"} |-> "revoke"]
MCFillers  == {"in", "for", "the"}
MCShape    == ("#posts" :> [slot |-> "channel", bare |-> "posts"])
                @@ ("!r1" :> [slot |-> "channel", bare |-> "!r1"])
                @@ ("bundle:loop" :> [slot |-> "target", bare |-> "loop"])
At(ratio, key, runs) == [p \in {<<run, key>> : run \in runs} |-> ratio]
MCNear ==
  At(889, <<"post">>, {<<"posts">>}) @@ At(889, <<"posts">>, {<<"post">>})
    @@ At(769, <<"calendar">>, {<<"clear">>})
    @@ At(941, <<"messaging">>, {<<"mesaging">>})
    @@ At(769, <<"posts">>, {<<"in", "posts">>, <<"on", "posts">>, <<"be", "posts">>,
                             <<"posts", "in">>, <<"posts", "on">>, <<"posts", "be">>})
    @@ At(952, <<"tools", "post">>, {<<"tools", "posts">>})
    @@ At(870, <<"tools", "post">>, {<<"on", "tools", "post">>, <<"tools", "on", "post">>,
                                     <<"tools", "post", "on">>})
    @@ At(833, <<"tools", "post">>, {<<"on", "tools", "posts">>, <<"tools", "on", "posts">>,
                                     <<"tools", "posts", "on">>})
    @@ At(778, <<"tools", "post">>, {<<"tools", "on">>})
    @@ At(769, <<"tools", "post">>, {<<"tools", "post", "posts">>, <<"post", "tools", "posts">>,
                                     <<"tools", "posts", "post">>, <<"posts", "tools", "post">>})
    @@ At(846, <<"posts", "grant">>, {<<"all", "posts", "grant">>, <<"posts", "all", "grant">>,
                                      <<"posts", "grant", "all">>})
    @@ At(815, <<"posts", "grant">>, {<<"wake", "posts", "grant">>, <<"posts", "wake", "grant">>,
                                      <<"posts", "grant", "wake">>})

ConfigMsg(words) == [command |-> "config", words |-> words, owner |-> TRUE]

\* A grant, a revocation, a name in command words, a typo, a custom target, a view,
\* and one of each other kind.
MCMessages ==
  {ConfigMsg(words) : words \in
     {<<"posts", "post", "on">>, <<"directory", "off", "in", "posts">>,
      <<"tools", "post", "posts", "on">>, <<"posts", "mesaging", "on">>,
      <<"#posts", "bundle:loop", "on">>, <<"posts">>,
      <<"posts", "wake", "all", "grant">>, <<"posts", "guidance", "be", "brief">>,
      <<"posts", "guidance", "clear">>, <<"feature", "advanced_tool_controls", "off">>,
      <<"feature", "compact_timeline", "off">>}}
    \cup {[command |-> "help", words |-> <<>>, owner |-> TRUE]}

Policy(custom, channel) == [custom |-> custom, channel |-> channel, default |-> MCDefault]

MCPolicies ==
  {\* a row's name taken by a bundle, and a bundle with a tool another one governs
   Policy(("post" :> {"post_message"}) @@ ("calendar" :> {"download_media", "directory"}),
          "!r1" :> {"post", "calendar"}),
   \* a cycle with a diamond in it, of which one arm is live
   Policy(("loop" :> {"calendar", "directory"}) @@ ("calendar" :> {"loop", "directory", "mcp:linear"}),
          "!r1" :> {"loop"}),
   \* an alias, and a toolset with a tool of a row
   Policy(<<>>, "!r1" :> {"messaging", "toolset:filament"}),
   \* not accepted
   Policy("loop" :> {"calendar"}, "!r1" :> {"loop"}),
   Policy(<<>>, "!r1" :> {"loop"})}

\* The commands are on.  The gate is on and nothing else is set yet, or it is off
\* again over a policy.
Files(caps, gate) ==
  [capability_policy |-> caps, feature_flags |-> {"slash_commands" :> TRUE @@ gate},
   wake_policy |-> {}, channel_instructions |-> {}]
MCFirstFiles ==
  {Files({}, "advanced_tool_controls" :> TRUE),
   Files({Policy("calendar" :> {"download_media"}, "!r1" :> {"post", "calendar"})},
         "advanced_tool_controls" :> FALSE)}

MCDocuments == {[section |-> "wake_policy", value |-> "!r1" :> "all"]}
=============================================================================
