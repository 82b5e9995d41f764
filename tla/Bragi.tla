-------------------------------- MODULE Bragi --------------------------------
(***************************************************************************)
(* bragi: the engine that mirrors PipeWire's graph (engine.rs, state.rs)   *)
(* and the picker that shows the mirror and commands the engine (tui.rs).  *)
(* PipeWire, with its session manager, is external: it answers requests in *)
(* order and changes on its own.                                           *)
(***************************************************************************)
EXTENDS Naturals, Sequences, FiniteSets, SequencesExt, FiniteSetsExt, Functions

CONSTANTS
  Kind,        \* of each node: "Sink", "Source", "Playback" or "Record"
  CardOf,      \* the card behind a node, Nothing for a stream or a virtual one
  Profiles,    \* what a card offers
  Registry, Metadata,   \* ids, as those of nodes and cards are
  Starts,      \* the nodes and cards that may be there at the start
  MaxVolume,   \* full volume, in steps of the volume keys
  Queries, Everything,
  Score,       \* the fuzzy score of a node for a query, 0 if it does not match
  MaxStimuli,  \* bound: changes of the world and keys that act
  Nothing

VARIABLES
  server,      \* what PipeWire has: [nodes, cards, links, default]
  bound,       \* what the engine hears of
  requests, events,   \* the two directions of the connection
  graph,       \* Graph.state: server's fields as mirrored, and complete
  routes,      \* DeviceEntry.routes: the cards whose routes are known
  meta,        \* whether the metadata object is bound
  pending,     \* Graph.pending
  syncs,       \* sequence numbers used
  cmds,        \* the channel to the engine
  published,   \* the last snapshot sent, all that a drain leaves
  ui,          \* State: [audio, drawn, query, results, at, chooser]
  stimuli

pipewire == <<server, bound>>
wire == <<requests, events>>
mirror == <<graph, routes, meta, pending, syncs, published>>
vars == <<pipewire, wire, mirror, cmds, ui, stimuli>>

Nodes == DOMAIN Kind
Cards == {CardOf[n] : n \in Nodes} \ {Nothing}
IsDevice(n) == Kind[n] \in {"Sink", "Source"}
DeviceFor(n) == IF Kind[n] = "Playback" THEN "Sink" ELSE "Source"
Put(f, x, e) == [o \in DOMAIN f \cup {x} |-> IF o = x THEN e ELSE f[o]]
Without(f, S) == [x \in DOMAIN f \ S |-> f[x]]
Touching(links, id) == {l \in links : id \in ToSet(l)}

-----------------------------------------------------------------------------
(* PipeWire. *)

Tell(id, es) == events' = IF id \in bound THEN events \o es ELSE events
Props(n, node) == [on |-> "props", id |-> n, node |-> node]

\* What a bind, and a request for a card's params, is answered.
Details(id) == IF id \in DOMAIN server.nodes THEN <<[on |-> "info", id |-> id], Props(id, server.nodes[id])>>
               ELSE IF id \in DOMAIN server.cards THEN <<[on |-> "params", id |-> id, active |-> server.cards[id]]>>
               ELSE IF id = Metadata THEN <<[on |-> "default", id |-> server.default]>>
               ELSE <<>>

Globals == SetToSeq({[on |-> "global", id |-> id] : id \in {Metadata} \cup DOMAIN server.nodes \cup DOMAIN server.cards})
        \o SetToSeq({[on |-> "link", id |-> l] : l \in server.links})

LinkEvents(old, new) == SetToSeq({[on |-> "unlink", id |-> l] : l \in old \ new})
                     \o SetToSeq({[on |-> "link", id |-> l] : l \in new \ old})

Serve == requests # <<>> /\ requests' = Tail(requests) /\ UNCHANGED <<mirror, cmds, ui, stimuli>> /\
  LET r == Head(requests) IN
  \/ /\ r.ask = "registry" /\ bound' = bound \cup {Registry} /\ events' = events \o Globals
     /\ UNCHANGED server
  \/ /\ r.ask = "bind" /\ events' = events \o Details(r.id)
     /\ bound' = bound \cup ({r.id} \cap ({Metadata} \cup DOMAIN server.nodes \cup DOMAIN server.cards))
     /\ UNCHANGED server
  \/ r.ask = "enum" /\ events' = events \o Details(r.id) /\ UNCHANGED pipewire
  \/ r.ask = "sync" /\ events' = Append(events, [on |-> "done", id |-> r.id]) /\ UNCHANGED pipewire
  \/ /\ r.ask = "write"
     /\ LET known == {r.id} \cap DOMAIN server.nodes
            node == [f \in {"volume", "mute"} |-> IF f \in DOMAIN r.set THEN r.set[f] ELSE server.nodes[r.id][f]]
        IN /\ server' = [server EXCEPT !.nodes = [n \in DOMAIN @ |-> IF n = r.id THEN node ELSE @[n]]]
           /\ Tell(r.id, IF known = {} THEN <<>> ELSE <<Props(r.id, node)>>)
     /\ UNCHANGED bound
  \/ /\ r.ask = "target" /\ {r.id, r.to} \subseteq DOMAIN server.nodes
     /\ LET pair == IF Kind[r.id] = "Playback" THEN <<r.id, r.to>> ELSE <<r.to, r.id>>
            links == (server.links \ Touching(server.links, r.id)) \cup {pair}
        IN server' = [server EXCEPT !.links = links] /\ Tell(Registry, LinkEvents(server.links, links))
     /\ UNCHANGED bound
  \/ /\ r.ask = "default" /\ r.id \in DOMAIN server.nodes
     /\ server' = [server EXCEPT !.default[Kind[r.id]] = r.id]
     /\ Tell(Metadata, <<[on |-> "default", id |-> server'.default]>>)
     /\ UNCHANGED bound
  \/ /\ r.ask = "profile" /\ r.id \in DOMAIN server.cards
     /\ server' = [server EXCEPT !.cards[r.id] = r.to] /\ Tell(r.id, <<[on |-> "changed", id |-> r.id]>>)
     /\ UNCHANGED bound
  \/ /\ r.ask \in {"target", "default", "profile"}
     /\ {r.id, r.to} \ (DOMAIN server.nodes \cup DOMAIN server.cards \cup Profiles) # {}
     /\ UNCHANGED <<pipewire, events>>

Stimulus == stimuli < MaxStimuli /\ stimuli' = stimuli + 1
World == Stimulus /\ UNCHANGED <<requests, mirror, cmds, ui>>

Plug == World /\ UNCHANGED bound /\ \E id \in Nodes \cup Cards :
  /\ id \notin DOMAIN server.nodes \cup DOMAIN server.cards
  /\ server' = IF id \in Nodes THEN [server EXCEPT !.nodes = Put(@, id, [volume |-> MaxVolume, mute |-> FALSE])]
               ELSE [server EXCEPT !.cards = Put(@, id, CHOOSE p \in Profiles : TRUE)]
  /\ Tell(Registry, <<[on |-> "global", id |-> id]>>)

Unplug == World /\ \E id \in DOMAIN server.nodes \cup DOMAIN server.cards :
  LET links == server.links \ Touching(server.links, id) IN
  /\ server' = [server EXCEPT !.nodes = Without(@, {id}), !.cards = Without(@, {id}), !.links = links]
  /\ Tell(Registry, LinkEvents(server.links, links) \o <<[on |-> "remove", id |-> id]>>)
  /\ bound' = bound \ {id}

\* Somebody else sets a volume, a profile.
Turn == World /\ UNCHANGED bound /\ \E n \in DOMAIN server.nodes, v \in 0..MaxVolume :
  /\ server.nodes[n].volume # v
  /\ server' = [server EXCEPT !.nodes[n].volume = v]
  /\ Tell(n, <<Props(n, server'.nodes[n])>>)

Switch == World /\ UNCHANGED bound /\ \E c \in DOMAIN server.cards, p \in Profiles :
  /\ server.cards[c] # p
  /\ server' = [server EXCEPT !.cards[c] = p]
  /\ Tell(c, <<[on |-> "changed", id |-> c]>>)

-----------------------------------------------------------------------------
(* The engine: one callback for each kind of event, and the commands. *)

Publish == published' = graph'
On(kind) == events # <<>> /\ Head(events).on = kind /\ events' = Tail(events)
Id == Head(events).id
Ask(rs) == requests' = requests \o rs
EngineOnly == UNCHANGED <<pipewire, cmds, ui, stimuli>>

\* on_node
OnNode ==
  /\ On("global") /\ Id \in Nodes /\ EngineOnly /\ UNCHANGED <<routes, meta>>
  /\ graph' = [graph EXCEPT !.nodes = Put(@, Id, [volume |-> Nothing, mute |-> FALSE, card |-> Nothing])]
  /\ Publish
  /\ LET bind == [ask |-> "bind", id |-> Id] IN
     IF graph.complete THEN Ask(<<bind>>) /\ UNCHANGED <<pending, syncs>>
     ELSE /\ Ask(<<bind, [ask |-> "sync", id |-> syncs + 1]>>)
          /\ syncs' = syncs + 1 /\ pending' = syncs + 1

\* on_device
OnDevice ==
  /\ On("global") /\ Id \in Cards /\ EngineOnly /\ UNCHANGED <<meta, pending, syncs>>
  /\ graph' = [graph EXCEPT !.cards = Put(@, Id, [profiles |-> {}, active |-> Nothing])]
  /\ Publish /\ routes' = routes \ {Id}
  /\ Ask(<<[ask |-> "bind", id |-> Id]>>)

\* on_metadata
OnMetadata ==
  /\ On("global") /\ Id = Metadata /\ EngineOnly /\ UNCHANGED <<graph, routes, pending, syncs, published>>
  /\ meta' = TRUE /\ Ask(<<[ask |-> "bind", id |-> Id]>>)

\* mutant: the first answer settles it
Done_AnyAnswer ==
  /\ On("done") /\ EngineOnly /\ UNCHANGED <<requests, routes, meta, pending, syncs>>
  /\ graph' = [graph EXCEPT !.complete = TRUE]
  /\ published' = IF graph' = graph THEN published ELSE graph'

\* done
Done ==
  /\ On("done") /\ EngineOnly /\ UNCHANGED <<requests, routes, meta, pending, syncs>>
  /\ graph' = [graph EXCEPT !.complete = @ \/ Id = pending]
  /\ published' = IF graph' = graph THEN published ELSE graph'

\* global_remove
Removed ==
  /\ On("remove") /\ EngineOnly /\ UNCHANGED <<requests, pending, syncs>>
  /\ graph' = [graph EXCEPT !.nodes = Without(@, {Id}), !.cards = Without(@, {Id})]
  /\ Publish /\ routes' = routes \ {Id} /\ meta' = (meta /\ Id # Metadata)

Unlinked ==
  /\ On("unlink") /\ EngineOnly /\ UNCHANGED <<requests, routes, meta, pending, syncs>>
  /\ graph' = [graph EXCEPT !.links = @ \ {Id}] /\ Publish

Linked ==
  /\ On("link") /\ EngineOnly /\ UNCHANGED <<requests, routes, meta, pending, syncs>>
  /\ graph' = [graph EXCEPT !.links = @ \cup {Id}] /\ Publish

\* property
Default ==
  /\ On("default") /\ EngineOnly /\ UNCHANGED <<requests, routes, meta, pending, syncs>>
  /\ graph' = [graph EXCEPT !.default = Id] /\ Publish

\* info of a node: where its route is
Info ==
  /\ On("info") /\ EngineOnly /\ UNCHANGED <<requests, routes, meta, pending, syncs>>
  /\ graph' = IF Id \notin DOMAIN graph.nodes \/ CardOf[Id] = Nothing THEN graph
              ELSE [graph EXCEPT !.nodes[Id].card = CardOf[Id]]
  /\ published' = IF graph' = graph THEN published ELSE graph'

\* param of a node
Measured ==
  /\ On("props") /\ EngineOnly /\ UNCHANGED <<requests, routes, meta, pending, syncs>>
  /\ graph' = IF Id \notin DOMAIN graph.nodes THEN graph
              ELSE [graph EXCEPT !.nodes[Id].volume = Head(events).node.volume, !.nodes[Id].mute = Head(events).node.mute]
  /\ published' = IF Id \notin DOMAIN graph.nodes THEN published ELSE graph'

\* mutant: changes are expected to be pushed
Changed_Waits ==
  /\ On("changed") /\ EngineOnly /\ UNCHANGED <<mirror, requests>>

\* info of a device: its params changed, so they are asked for again
Changed ==
  /\ On("changed") /\ EngineOnly /\ UNCHANGED mirror
  /\ Ask(IF Id \in DOMAIN graph.cards THEN <<[ask |-> "enum", id |-> Id]>> ELSE <<>>)

\* param of a device: Route, EnumProfile and Profile come in a row
Params ==
  /\ On("params") /\ EngineOnly /\ UNCHANGED <<requests, meta, pending, syncs>>
  /\ IF Id \in DOMAIN graph.cards
     THEN /\ graph' = [graph EXCEPT !.cards[Id] = [profiles |-> Profiles, active |-> Head(events).active]]
          /\ Publish /\ routes' = routes \cup {Id}
     ELSE UNCHANGED <<graph, published, routes>>

\* write_props: through the card's route if it is known
Write(n, set) ==
  LET card == graph.nodes[n].card IN
  <<[ask |-> "write", id |-> n, set |-> set, via |-> IF card \in routes THEN card ELSE Nothing]>>

\* handle_cmd
Execute ==
  /\ cmds # <<>> /\ cmds' = Tail(cmds) /\ UNCHANGED <<pipewire, events, mirror, ui, stimuli>>
  /\ LET c == Head(cmds)
         node == graph.nodes[c.id]
     IN Ask(
       IF c.cmd = "profile" THEN IF c.id \in DOMAIN graph.cards THEN <<[ask |-> "profile", id |-> c.id, to |-> c.to]>> ELSE <<>>
       ELSE IF c.id \notin DOMAIN graph.nodes THEN <<>>
       ELSE IF c.cmd = "volume" /\ node.volume # Nothing
            THEN Write(c.id, [volume |-> Min({MaxVolume, Max({1, node.volume + c.to}) - 1})])
       ELSE IF c.cmd = "mute" THEN Write(c.id, [mute |-> ~node.mute])
       ELSE IF c.cmd = "move" /\ meta /\ c.to \in DOMAIN graph.nodes THEN <<[ask |-> "target", id |-> c.id, to |-> c.to]>>
       ELSE IF c.cmd = "default" /\ meta THEN <<[ask |-> "default", id |-> c.id, to |-> c.id]>>
       ELSE <<>>)

Engine == \/ OnNode \/ OnDevice \/ OnMetadata \/ Done \/ Removed \/ Linked \/ Unlinked \/ Default
          \/ Info \/ Measured \/ Changed \/ Params \/ Execute

-----------------------------------------------------------------------------
(* The picker. A key acts on what the last frame showed. *)

\* target_of
Target(audio, n) ==
  LET peers == {d \in DOMAIN audio.nodes : IsDevice(d) /\
                  (IF Kind[n] = "Playback" THEN <<n, d>> ELSE <<d, n>>) \in audio.links}
  IN IF peers = {} THEN Nothing ELSE CHOOSE d \in peers : TRUE

Place(n) == CHOOSE i \in 1..4 : <<"Sink", "Source", "Playback", "Record">>[i] = Kind[n]

Listed(audio, q) == SetToSortSeq({n \in DOMAIN audio.nodes : q = Everything \/ Score[q][n] > 0},
  LAMBDA a, b : \/ q # Everything /\ Score[q][a] > Score[q][b]
                \/ /\ q = Everything \/ Score[q][a] = Score[q][b]
                   /\ Place(a) < Place(b) \/ (Place(a) = Place(b) /\ a < b))

Selected == IF ui.at = Nothing THEN Nothing ELSE ui.results[ui.at]

\* The updates are drained and the list is made again: the selection stays
\* on its node.
Frame ==
  /\ LET rows == Listed(published, ui.query)
         kept == {i \in DOMAIN rows : rows[i] = Selected}
     IN ui' = [ui EXCEPT !.audio = published, !.drawn = TRUE, !.results = rows,
                         !.at = IF rows = <<>> THEN Nothing ELSE IF kept = {} THEN 1 ELSE CHOOSE i \in kept : TRUE]
  /\ UNCHANGED <<pipewire, wire, mirror, cmds, stimuli>>

Key == ui.drawn /\ ui.results # <<>> /\ UNCHANGED <<pipewire, wire, mirror>>
Show(u) == ui' = [u EXCEPT !.drawn = FALSE]
Send(c) == cmds' = Append(cmds, c)

EditQuery == ui.drawn /\ ui.chooser = Nothing /\ \E q \in Queries :
  q # ui.query /\ Show([ui EXCEPT !.query = q]) /\ UNCHANGED <<pipewire, wire, mirror, cmds, stimuli>>

Move == Key /\ ui.chooser = Nothing /\ UNCHANGED <<cmds, stimuli>> /\ \E delta \in {0, 2} :
  Show([ui EXCEPT !.at = Min({Len(ui.results), Max({1, @ + delta - 1})})])

Chooser(kind, id, options, current) ==
  IF options = <<>> THEN Nothing
  ELSE [kind |-> kind, id |-> id, options |-> options,
        sel |-> IF Contains(options, current) THEN CHOOSE i \in DOMAIN options : options[i] = current ELSE 1]

\* Enter: a device becomes the default, a stream is asked where to go
\* (open_move_chooser).
Enter == Key /\ Stimulus /\ ui.chooser = Nothing /\
  IF IsDevice(Selected) THEN Show(ui) /\ Send([cmd |-> "default", id |-> Selected])
  ELSE /\ Show([ui EXCEPT !.chooser = Chooser("move", Selected,
                   SetToSeq({n \in DOMAIN ui.audio.nodes : Kind[n] = DeviceFor(Selected)}),
                   Target(ui.audio, Selected))])
       /\ UNCHANGED cmds

\* Alt-p: open_profile_chooser
AskProfile == Key /\ Stimulus /\ ui.chooser = Nothing /\ UNCHANGED cmds /\ IsDevice(Selected) /\
  LET card == ui.audio.nodes[Selected].card IN
  /\ card \in DOMAIN ui.audio.cards
  /\ Show([ui EXCEPT !.chooser =
       Chooser("profile", card, SetToSeq(ui.audio.cards[card].profiles), ui.audio.cards[card].active)])

\* Alt-left, Alt-right, Alt-m
Adjust == Key /\ Stimulus /\ ui.chooser = Nothing /\ Show(ui) /\
  \E c \in [cmd : {"volume"}, id : {Selected}, to : {0, 2}] \cup [cmd : {"mute"}, id : {Selected}] : Send(c)

\* handle_chooser_key
Choose == ui.drawn /\ ui.chooser # Nothing /\ UNCHANGED <<pipewire, wire, mirror>> /\
  LET ch == ui.chooser IN
  \/ /\ \E i \in DOMAIN ch.options \cap {ch.sel - 1, ch.sel + 1} : Show([ui EXCEPT !.chooser.sel = i])
     /\ UNCHANGED <<cmds, stimuli>>
  \/ Show([ui EXCEPT !.chooser = Nothing]) /\ UNCHANGED <<cmds, stimuli>>
  \/ /\ Stimulus /\ Show([ui EXCEPT !.chooser = Nothing])
     /\ Send([cmd |-> ch.kind, id |-> ch.id, to |-> ch.options[ch.sel]])

Init ==
  LET none == [nodes |-> <<>>, cards |-> <<>>, links |-> {}, default |-> [Sink |-> Nothing, Source |-> Nothing],
               complete |-> FALSE]
  IN /\ \E there \in Starts :
          server = [nodes |-> [n \in Nodes \cap there |-> [volume |-> MaxVolume, mute |-> FALSE]],
                    cards |-> [c \in Cards \cap there |-> CHOOSE p \in Profiles : TRUE],
                    links |-> {}, default |-> none.default]
     /\ bound = {} /\ events = <<>>
     /\ requests = <<[ask |-> "registry"], [ask |-> "sync", id |-> 1]>>
     /\ graph = none /\ published = none /\ routes = {} /\ meta = FALSE /\ pending = 1 /\ syncs = 1
     /\ cmds = <<>> /\ stimuli = 0
     /\ ui = [audio |-> none, drawn |-> FALSE, query |-> Everything, results |-> <<>>, at |-> Nothing, chooser |-> Nothing]

Next == \/ Serve \/ Plug \/ Unplug \/ Turn \/ Switch \/ Engine
        \/ Frame \/ EditQuery \/ Move \/ Enter \/ AskProfile \/ Adjust \/ Choose

Spec == Init /\ [][Next]_vars

-----------------------------------------------------------------------------
(***************************************************************************)
(* What dump waits for is worth waiting for: when the graph is declared    *)
(* complete, the first volume of each of its nodes has been heard, however *)
(* many came while the first round trips were under way.                   *)
(***************************************************************************)
CompleteIsWhole == ~graph.complete /\ graph'.complete =>
  \A n \in DOMAIN graph.nodes : graph.nodes[n].volume # Nothing

(***************************************************************************)
(* Writes are fire-and-forget and confirmed by their echo alone: once the  *)
(* echoes are in and the picker has drawn, it shows the nodes, volumes,    *)
(* links, defaults and profiles that PipeWire has, whoever changed them.   *)
(***************************************************************************)
ShownIsTrue ==
  requests = <<>> /\ events = <<>> /\ ui.audio = published =>
    /\ [n \in DOMAIN ui.audio.nodes |-> [volume |-> ui.audio.nodes[n].volume, mute |-> ui.audio.nodes[n].mute]]
         = server.nodes
    /\ [c \in DOMAIN ui.audio.cards |-> ui.audio.cards[c].active] = server.cards
    /\ <<ui.audio.links, ui.audio.default>> = <<server.links, server.default>>
=============================================================================
