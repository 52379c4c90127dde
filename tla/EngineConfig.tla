---------------------------- MODULE EngineConfig ----------------------------
(* CasparCG's configuration file and the commands of PlayOut that rewrite it:*)
(* the configurator's two saves and the DeckLink wizard                      *)
(* (src-tauri/src/caspar_config.rs), the merge that keeps what PlayOut's     *)
(* typed model does not know (caspar_config_patch.rs) and the repair of the  *)
(* media path, which restarts the engine (media_root.rs).                    *)
(*                                                                           *)
(* A document is a tree of elements; an element without children is a leaf   *)
(* with a value. Comments are elements no model knows; attributes, text mixed*)
(* with elements and the layout are left out. The operator's editor, the     *)
(* disk and the channel are external.                                        *)
EXTENDS Integers, FiniteSets, SequencesExt

CONSTANTS Documents,   \* documents the operator may put there by hand
          Media,       \* values of a media path
          Devices,     \* DeckLink devices
          MaxSaves,    \* bound: commands issued
          MaxFaults,   \* bound: failing writes
          MaxSeconds,  \* bound: seconds the clock runs
          Windows      \* races and edits left open, see the README

VARIABLES file,        \* the document on disk, Absent or Broken
          backups,     \* backup files: by kind and second, what they hold
          replaced,    \* what PlayOut's commands have overwritten so far
          form,        \* the typed configuration a form of PlayOut shows
          cmd,         \* the commands in progress, by slot
          onAir,       \* whether something is on air
          cut,         \* whether a restart has cut what was on air
          second,      \* the clock
          left         \* what remains of the bounds

vars == <<file, backups, replaced, form, cmd, onAir, cut, second, left>>

Leaf(name, val) == [name |-> name, val |-> val, kids |-> <<>>]
Node(name, kids) == [name |-> name, val |-> "", kids |-> kids]
Absent == Leaf("absent", "")
Broken == Leaf("broken", "")
IsStruct(e) == e.kids # <<>>
Tags(e) == {e.kids[i].name : i \in DOMAIN e.kids}
Group(e, tag) == SelectSeq(e.kids, LAMBDA k : k.name = tag)

-----------------------------------------------------------------------------
(* The typed model and the merge.                                            *)

(* known_children, in the order the model writes them.                       *)
KnownChildren(parent) ==
  CASE parent = "configuration" -> <<"paths", "channels">>
    [] parent = "paths" -> <<"media-path">>
    [] parent = "channels" -> <<"channel">>
    [] parent = "channel" -> <<"video-mode", "consumers">>
    [] parent = "consumers" -> <<"screen", "decklink">>
    [] parent = "decklink" -> <<"device">>
    [] OTHER -> <<>>
Known(parent) == ToSet(KnownChildren(parent))
(* Structures the model writes in any case, and with what when the document  *)
(* does not have them.                                                       *)
AlwaysWritten == {"paths", "channels", "consumers"}
Missing(tag) == Node(tag, IF tag = "paths" THEN <<Leaf("media-path", "default")>> ELSE <<>>)

(* What the typed model makes of a document: known elements only, grouped.   *)
RECURSIVE Typed(_)
Typed(e) ==
  [e EXCEPT !.kids = FlattenSeq([i \in DOMAIN KnownChildren(e.name) |->
     LET tag == KnownChildren(e.name)[i]  group == Group(e, tag) IN
     IF group = <<>> /\ tag \in AlwaysWritten THEN <<Missing(tag)>>
     ELSE [j \in DOMAIN group |-> Typed(group[j])]])]
Parses(doc) == doc.name = "configuration"
DefaultChannel == Node("channel", <<Leaf("video-mode", "default"), Node("consumers", <<Leaf("screen", "1")>>)>>)
Default == Node("configuration", <<Node("paths", <<Leaf("media-path", "default")>>),
                                   Node("channels", <<DefaultChannel>>)>>)

(* Drop the elements of "tag" and put "group" where the first of them was.   *)
Replaced(kids, tag, group) ==
  LET at == SelectInSeq(kids, LAMBDA k : k.name = tag)
      rest(s) == SelectSeq(s, LAMBDA k : k.name # tag)
  IN IF at = 0 THEN kids \o group
     ELSE SubSeq(kids, 1, at - 1) \o group \o rest(SubSeq(kids, at, Len(kids)))

(* Mutant: what the model does not know is dropped as well.                  *)
Kept_OnlyNew(orig, new) == SelectSeq(orig.kids, LAMBDA k : k.name \in Tags(new))
Kept(orig, new) ==
  SelectSeq(orig.kids, LAMBDA k : k.name \in Tags(new) \/ k.name \notin Known(orig.name))

RECURSIVE Merge(_, _)
Merge(orig, new) ==
  LET merged[i \in 0..Len(KnownChildren(new.name))] ==
        IF i = 0 THEN Kept(orig, new)
        ELSE LET tag == KnownChildren(new.name)[i]
                 kids == merged[i - 1]
                 news == Group(new, tag)
                 olds == SelectSeq(kids, LAMBDA k : k.name = tag)
                 pairwise == /\ olds # <<>> /\ Len(olds) = Len(news)
                             /\ \A j \in DOMAIN olds : IsStruct(olds[j]) /\ IsStruct(news[j])
             IN IF tag \notin Tags(new) THEN kids
                ELSE IF pairwise
                THEN LET nth(j) == Cardinality({k \in 1..j : kids[k].name = tag}) IN
                     [j \in DOMAIN kids |-> IF kids[j].name = tag
                                            THEN Merge(kids[j], news[nth(j)]) ELSE kids[j]]
                ELSE Replaced(kids, tag, news)
  IN [orig EXCEPT !.kids = merged[Len(KnownChildren(new.name))]]

(* render_config_for_path: a document that is not there or cannot be patched *)
(* gives way to the model's own.                                             *)
RenderConfigForPath(config) == IF Parses(file) THEN Merge(file, config) ELSE config

(* rewrite_media_path: the one element, and nothing else; a document without *)
(* <paths> is refused.                                                       *)
Within(e, name, f(_)) ==
  [e EXCEPT !.kids = [i \in DOMAIN e.kids |-> IF e.kids[i].name = name THEN f(e.kids[i]) ELSE e.kids[i]]]
SetMediaPath(e, m) ==
  Within(e, "paths", LAMBDA p :
    IF "media-path" \in Tags(p)
    THEN Within(p, "media-path", LAMBDA k : [k EXCEPT !.val = m])
    ELSE [p EXCEPT !.kids = <<Leaf("media-path", m)>> \o @])
Rewritable(doc) == Parses(doc) /\ "paths" \in Tags(doc)

-----------------------------------------------------------------------------
(* What the forms of PlayOut can make of a configuration. Adding a channel   *)
(* or a second card is left to window "regroup", taking the last consumer    *)
(* PlayOut knows out of a channel to "emptied".                              *)
Channels(config) == Group(config.kids[2], "channel")
WithChannels(config, chans) == Within(config, "channels", LAMBDA c : [c EXCEPT !.kids = chans])
Decklink(d) == Node("decklink", <<Leaf("device", d)>>)
WithConsumers(chan, screens, decklinks) ==
  Within(chan, "consumers", LAMBDA c : [c EXCEPT !.kids = screens \o decklinks])
Consumers(chan, tag) == Group(Group(chan, "consumers")[1], tag)
SomeKnown(config) == \A i \in DOMAIN Channels(config) : Group(Channels(config)[i], "consumers")[1].kids # <<>>

ChannelEdits(chan) ==
  {WithConsumers(chan, screens, decklinks) :
     screens \in {<<>>, <<Leaf("screen", "1")>>},
     decklinks \in {<<>>} \cup {<<Decklink(d)>> : d \in Devices}
                   \cup (IF "regroup" \in Windows THEN {<<Decklink(d), Decklink(d)>> : d \in Devices} ELSE {})}
Edits(config) ==
  {c \in {SetMediaPath(config, m) : m \in Media}
         \cup (IF Channels(config) = <<>> THEN {}
               ELSE {WithChannels(config, [Channels(config) EXCEPT ![1] = chan]) : chan \in ChannelEdits(Channels(config)[1])})
         \cup (IF "regroup" \in Windows THEN {WithChannels(config, Append(Channels(config), DefaultChannel))} ELSE {}) :
   "emptied" \in Windows \/ SomeKnown(c)}

(* apply_caspar_decklink_config on the configuration it has read.            *)
Deckled(config, d, m) ==
  LET chans == IF Channels(config) = <<>> THEN <<DefaultChannel>> ELSE Channels(config)
      screens == IF Consumers(chans[1], "screen") = <<>> THEN <<Leaf("screen", "1")>> ELSE Consumers(chans[1], "screen")
  IN SetMediaPath(WithChannels(config, [chans EXCEPT ![1] = WithConsumers(@, screens, <<Decklink(d)>>)]), m)

-----------------------------------------------------------------------------
Slots == {1, 2}
Idle == [op |-> "none", step |-> "idle", xml |-> Absent, config |-> Absent]
Busy(op, step, xml, config) == [op |-> op, step |-> step, xml |-> xml, config |-> config]
NoForm == Absent

(* A command begins while no other is in progress, except in window "overlap".*)
Begins(s) ==
  /\ left.saves > 0 /\ cmd[s].step = "idle"
  /\ \A t \in Slots : cmd[t].step = "idle" \/ "overlap" \in Windows
  /\ s = 1 \/ cmd[1].step # "idle"
  /\ left' = [left EXCEPT !.saves = @ - 1]
Untouched == UNCHANGED <<file, backups, replaced, onAir, cut, second>>

LoadCasparConfig ==
  /\ file # Broken
  /\ form' = IF file = Absent THEN Default ELSE Typed(file)
  /\ UNCHANGED <<file, backups, replaced, cmd, onAir, cut, second, left>>

SaveCasparConfigRaw(s) ==
  /\ Begins(s)
  /\ \E doc \in Documents : Parses(doc) /\ cmd' = [cmd EXCEPT ![s] = Busy("raw", "backup", doc, Absent)]
  /\ Untouched /\ UNCHANGED form

SaveCasparConfigStructured(s) ==
  /\ form # NoForm /\ Begins(s)
  /\ \E c \in Edits(form) :
       cmd' = [cmd EXCEPT ![s] = Busy("structured", "backup", RenderConfigForPath(c), c)]
  /\ form' = NoForm
  /\ Untouched

(* The wizard reads the document, deploys the templates, and renders against *)
(* what is there by then.                                                    *)
ApplyCasparDecklinkConfig(s) ==
  /\ file # Broken /\ Begins(s)
  /\ \E d \in Devices, m \in Media :
       LET c == Deckled(IF file = Absent THEN Default ELSE Typed(file), d, m) IN
       cmd' = [cmd EXCEPT ![s] = Busy("decklink", "deploy", Absent, c)]
  /\ Untouched /\ UNCHANGED form
Deployed(s) ==
  /\ cmd[s].step = "deploy"
  /\ cmd' = [cmd EXCEPT ![s].step = "backup"]
  /\ Untouched /\ UNCHANGED <<form, left>>
Rendered(s) ==
  /\ cmd[s].step = "render"
  /\ cmd' = [cmd EXCEPT ![s].step = "write", ![s].xml = RenderConfigForPath(cmd[s].config)]
  /\ Untouched /\ UNCHANGED <<form, left>>

Refused == onAir
FixCasparMediaPath(s) ==
  /\ ~Refused /\ Begins(s)
  /\ cmd' = [cmd EXCEPT ![s] = Busy("fix", "reach", Absent, Absent)]
  /\ Untouched /\ UNCHANGED form
(* The media root was asked for; then the document is read and rewritten.    *)
WriteMediaPathFix(s) ==
  /\ cmd[s].step = "reach"
  /\ \/ cmd' = [cmd EXCEPT ![s] = Idle]
     \/ Rewritable(file) /\ \E m \in Media :
          cmd' = [cmd EXCEPT ![s].step = "backup", ![s].xml = SetMediaPath(file, m)]
  /\ Untouched /\ UNCHANGED <<form, left>>

(* The copy that is taken first: a file named by the second; one of the same *)
(* second is overwritten, which needs two saves in a second ("second").      *)
Kind(op) == IF op = "fix" THEN "fix" ELSE "save"
NextStep(op) == IF op = "decklink" THEN "render" ELSE "write"
BackedUp(op, key) == [backups EXCEPT ![key] = file]
BackupConfig(s) ==
  LET key == <<Kind(cmd[s].op), second>> IN
  /\ cmd[s].step = "backup"
  /\ \/ /\ file = Absent
        /\ cmd' = [cmd EXCEPT ![s].step = NextStep(cmd[s].op)] /\ UNCHANGED <<backups, left>>
     \/ /\ file # Absent /\ (backups[key] = Absent \/ "second" \in Windows)
        /\ backups' = BackedUp(cmd[s].op, key)
        /\ cmd' = [cmd EXCEPT ![s].step = NextStep(cmd[s].op)] /\ UNCHANGED left
     \/ /\ file # Absent /\ left.faults > 0
        /\ left' = [left EXCEPT !.faults = @ - 1]
        /\ cmd' = [cmd EXCEPT ![s] = Idle] /\ UNCHANGED backups
  /\ UNCHANGED <<file, replaced, form, onAir, cut, second>>

WriteConfigFile(s) ==
  /\ cmd[s].step = "write"
  /\ \/ /\ file' = cmd[s].xml
        /\ replaced' = replaced \cup ({file} \ {Absent})
        /\ cmd' = [cmd EXCEPT ![s] = IF @.op = "fix" THEN Busy("fix", "restart", Absent, Absent) ELSE Idle]
        /\ UNCHANGED left
     \/ /\ left.faults > 0 /\ left' = [left EXCEPT !.faults = @ - 1]
        /\ cmd' = [cmd EXCEPT ![s] = Idle] /\ UNCHANGED <<file, replaced>>
  /\ UNCHANGED <<backups, form, onAir, cut, second>>

Restart(s) ==
  /\ cmd[s].step = "restart"
  /\ cut' = (cut \/ onAir) /\ onAir' = FALSE
  /\ cmd' = [cmd EXCEPT ![s] = Idle]
  /\ UNCHANGED <<file, backups, replaced, form, second, left>>

(* The operator: the channel, an editor, the clock.                          *)
Take ==
  /\ "take" \in Windows \/ \A s \in Slots : cmd[s].op # "fix"
  /\ onAir' = ~onAir
  /\ UNCHANGED <<file, backups, replaced, form, cmd, cut, second, left>>
HandEdit ==
  /\ \A s \in Slots : cmd[s].step = "idle"
  /\ \E doc \in Documents \cup {Absent, Broken} : doc # file /\ file' = doc
  /\ form' = NoForm
  /\ UNCHANGED <<backups, replaced, cmd, onAir, cut, second, left>>
Tick ==
  /\ second < MaxSeconds /\ second' = second + 1
  /\ UNCHANGED <<file, backups, replaced, form, cmd, onAir, cut, left>>

Init ==
  /\ file \in Documents \cup {Absent}
  /\ backups = [k \in {"save", "fix"} \X (0..MaxSeconds) |-> Absent]
  /\ replaced = {} /\ form = NoForm /\ cmd = [s \in Slots |-> Idle]
  /\ onAir = FALSE /\ cut = FALSE /\ second = 0
  /\ left = [saves |-> MaxSaves, faults |-> MaxFaults]

Next ==
  \/ LoadCasparConfig \/ Take \/ HandEdit \/ Tick
  \/ \E s \in Slots :
       \/ SaveCasparConfigRaw(s) \/ SaveCasparConfigStructured(s) \/ ApplyCasparDecklinkConfig(s)
       \/ FixCasparMediaPath(s) \/ Deployed(s) \/ Rendered(s) \/ WriteMediaPathFix(s)
       \/ BackupConfig(s) \/ WriteConfigFile(s) \/ Restart(s)
Spec == Init /\ [][Next]_vars

-----------------------------------------------------------------------------
(* Properties.                                                               *)

(* Types: every document PlayOut is about to write is one it can read back.  *)
TypeOK ==
  /\ onAir \in BOOLEAN /\ cut \in BOOLEAN /\ second \in 0..MaxSeconds
  /\ left.saves \in 0..MaxSaves /\ left.faults \in 0..MaxFaults
  /\ form = NoForm \/ (Parses(form) /\ Typed(form) = form)
  /\ \A s \in Slots : cmd[s].step = "write" => Parses(cmd[s].xml)

(* Elements no model knows, with the path of known elements to them.         *)
RECURSIVE Strangers(_, _)
Strangers(e, path) ==
  UNION {IF k.name \in Known(e.name) THEN Strangers(k, Append(path, k.name)) ELSE {<<path, k>>} :
         k \in ToSet(e.kids)}
RECURSIVE HasPath(_, _)
HasPath(e, path) ==
  path = <<>> \/ \E k \in ToSet(e.kids) : k.name = Head(path) /\ HasPath(k, Tail(path))
Writes(s, ops) == cmd[s].step = "write" /\ cmd[s].op \in ops /\ file' = cmd[s].xml /\ cmd'[s] # cmd[s]

(* A structured save and the wizard keep every element PlayOut does not know *)
(* in every part of the document that is still there afterwards.  Of every   *)
(* document that any command overwrote there is a backup, and no command     *)
(* restarts the engine under a channel that is on air.                       *)
UnknownKept ==
  \A s \in Slots : Writes(s, {"structured", "decklink"}) =>
    \A x \in Strangers(file, <<>>) : HasPath(file', x[1]) => x \in Strangers(file', <<>>)
OverwrittenIsBackedUp == replaced \subseteq {backups[k] : k \in DOMAIN backups}
RestartedOffAir == ~cut
ConfigOutlivesCommands == UnknownKept /\ OverwrittenIsBackedUp' /\ RestartedOffAir'
=============================================================================
