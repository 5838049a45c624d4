---------------------------- MODULE MCFileBrowser ----------------------------
\* Two containers; the first holds a directory with an archive in it.
EXTENDS FileBrowser, TLC

CONSTANTS c1, c2

MCContainers == <<c1, c2>>
MCHome == (c1 :> <<>>) @@ (c2 :> <<>>)
MCInitFs ==
  (c1 :> ((<<>> :> Dir) @@ (<<"d">> :> Dir) @@ (<<"d", "z">> :> File(<<"x", "y", "y">>)))) @@
  (c2 :> (<<>> :> Dir))
MCNames == {"d"}
MCDestinations == {<<"z">>}
MCLocal == ("z" :> <<"p", "q">>) @@ ("u" :> <<>>)
MCPicks == {<<"u", "z">>}
MCStem == ("z" :> "e")
=============================================================================
