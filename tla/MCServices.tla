----------------------------- MODULE MCServices -----------------------------
(* Small instances of the services, and beside them the engine's               *)
(* configuration, whose merge of documents needs recursion.                    *)
EXTENDS Services, TLC

VARIABLES
  document, backups, replaced, form, cmd, onAir, cut, second, budget     \* EngineConfig

configVars == <<document, backups, replaced, form, cmd, onAir, cut, second, budget>>

-----------------------------------------------------------------------------
(* Two paths, one of them with a file.                                        *)
MCStored == "p" :> "A" @@ "q" :> Nobody

(* A root, a sibling whose name is longer and a mapped drive.  Local rows lie  *)
(* beside the root, in it, nowhere, or are a relative name.                    *)
RootA == <<"d", "media">>
RootB == <<"d", "media2">>
Mapped == <<"m", "share">>
MCNames == {<<"x">>, <<"v", "x">>, <<"tilde">>}
MCFolders == {"registry", "other"}
MCRoots == {RootA, RootB, Mapped}
MCSpelling == [f \in MCFolders |-> IF f = "registry" THEN RootA ELSE RootB]
MCTranscoderRoots == {RootA, <<"t", "pub">>}
MCExtra == [p \in {<<"media2", "media">>} |-> "2"]
MCHoldings == {[f \in MCFolders |-> IF f = "registry" THEN MCNames \ {n} ELSE MCNames \ m] :
                 n \in {<<"x">>}, m \in {{}, MCNames}}
MCLocalPaths == {RootB \o <<"v", "x">>, Mapped \o <<"x">>, <<"e", "media", "x">>, <<"x">>}
MCTrimIns == {-1, 0, 3}

(* Documents with elements that PlayOut does not know at every level, a        *)
(* channel without a card, and a document without a media path.                *)
Node(name, kids) == [name |-> name, val |-> "", kids |-> kids]
Leaf(name, val) == [name |-> name, val |-> val, kids |-> <<>>]
Document(consumers) ==
  Node("configuration",
       <<Node("paths", <<Leaf("media-path", "m1")>>),
         Node("channels", <<Node("channel", <<Leaf("video-mode", "pal"),
                                              Node("consumers", consumers)>>)>>),
         Leaf("html", "h")>>)
Card == Node("decklink", <<Leaf("device", "d1"), Leaf("subregion", "r")>>)
Screen == Leaf("screen", "1")
Config == INSTANCE EngineConfig WITH
  file <- document, left <- budget, Media <- {"m1", "m2"}, Devices <- {"d1", "d2"},
  Documents <- {Document(<<Card, Leaf("ndi", "n")>>), Document(<<Leaf("ndi", "n"), Screen>>),
                [Document(<<Screen>>) EXCEPT !.kids = Tail(@)]},
  MaxSaves <- 2, MaxFaults <- 1, MaxSeconds <- 2, Windows <- {}

-----------------------------------------------------------------------------
MCInit ==
  /\ part \in {"aliases", "store", "peaks", "paths", "readiness", "config", "osc"}
  /\ PartsInit
  /\ IF part = "config" THEN Config!Init
     ELSE /\ document \in Off /\ backups \in Off /\ replaced \in Off /\ form \in Off
          /\ cmd \in Off /\ onAir \in Off /\ cut \in Off /\ second \in Off
          /\ budget \in Off

MCNext ==
  \/ PartsNext /\ UNCHANGED configVars
  \/ part = "config" /\ Config!Next /\ UNCHANGED serviceVars
MCSpec == MCInit /\ [][MCNext]_<<serviceVars, configVars>>

-----------------------------------------------------------------------------
(* A command keeps every element PlayOut does not know, of what any overwrote  *)
(* there is a backup, and none restarts a channel on air (caspar_config.rs).   *)
ConfigOutlivesCommands ==
  [][part = "config" => Config!ConfigOutlivesCommands]_configVars
=============================================================================
