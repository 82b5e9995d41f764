--------------------------- MODULE MCLevelupTools ---------------------------
(* Small instances of the tools, and what bounds each of them. *)
EXTENDS LevelupTools, TLC

CONSTANTS
  regular, text, video, hint, html, png,
  a, b, k,   \* contents, commands, paths, profiles, addresses
  j1, j2,    \* shells
  headset, keyboard,   \* devices that pair
  random,    \* heimdall's label of a made-up MAC address
  x          \* a query

-----------------------------------------------------------------------------
(* The clipboard daemon: a plain copy, a secret of a password manager's and *)
(* a video over the cap; one text is in the store from before.              *)

HuginClips == {[mimes |-> <<text>>, value |-> a], [mimes |-> <<hint, text>>, value |-> b],
               [mimes |-> <<video>>, value |-> a]}

HuginStored == <<[selection |-> regular, parts |-> <<[mime |-> text, blob |-> a, store |-> "Full"]>>]>>

(* valkyrie: browsers with helpers of the same name, a child that outlives  *)
(* its parent, and a scan in which two processes are each other's parent.   *)

Process(ppid, program, cpu, ports, mine) ==
  [ppid |-> ppid, program |-> program, cpu |-> cpu, ports |-> ports, mine |-> mine, rss |-> 1]

ValkyrieTables == {
  <<Process(0, a, 0, {}, FALSE), Process(1, b, 1, {80}, TRUE), Process(2, b, 2, {}, TRUE), Process(2, b, 0, {}, TRUE)>>,
  <<Process(0, a, 0, {}, FALSE), Process(1, b, 2, {}, TRUE), Process(2, b, 0, {80}, TRUE), Process(1, k, 0, {}, TRUE)>>,
  <<Process(0, a, 0, {}, FALSE), Process(1, k, 1, {}, TRUE)>>,
  2 :> Process(1, b, 0, {}, TRUE) @@ 3 :> Process(4, b, 1, {}, FALSE) @@ 4 :> Process(3, k, 1, {}, TRUE)}

ValkyriePorts == 80 :> 80
ValkyrieQueries == {Everything, 80, x}
ValkyrieSignals == {<<>>, <<"KILL">>}
ValkyrieScore == x :> (a :> 0 @@ b :> 2 @@ k :> 1)

MuninScore == x :> (a :> 2 @@ b :> 1 @@ k :> 0)

HuginMimes == a :> {text, html} @@ b :> {png}
HuginScore == x :> (a :> 1 @@ b :> 0)

(* sleipnir: directory a with b in it, file k in b, named plainly or by a   *)
(* path in a command's arguments.                                           *)

SleipnirParent == a :> Nothing @@ b :> a @@ k :> b
SleipnirTokens == {[plain |-> TRUE, path |-> k], [plain |-> FALSE, path |-> k]}
SleipnirScore == x :> (a :> 0 @@ b :> 2 @@ k :> 1)

(* bragi: a sink with a card, one without, and a stream.                    *)

BragiKind == 1 :> "Sink" @@ 2 :> "Sink" @@ 3 :> "Playback"
BragiCards == 1 :> 10 @@ 2 :> Nothing @@ 3 :> Nothing
BragiScore == x :> <<0, 2, 1>>

(* heimdall: a camera with a web page and a silent host of a made-up MAC.   *)

HeimdallHosts == 1 :> [ports |-> {80}, mac |-> a, name |-> x, services |-> {html}]
              @@ 2 :> [ports |-> {}, mac |-> b, name |-> Nothing, services |-> {}]
HeimdallVendors == a :> k @@ b :> Nothing
HeimdallMacs == a :> "Universal" @@ b :> random
HeimdallInterfaces == {[ip |-> 5, prefix |-> 2, loopback |-> FALSE, virtual |-> FALSE],
                       [ip |-> 9, prefix |-> 1, loopback |-> FALSE, virtual |-> FALSE]}
HeimdallScore == x :> (a :> 0 @@ b :> 0 @@ k :> 0 @@ html :> 1 @@ x :> 2 @@ random :> 0 @@ [ip \in 0..15 |-> 0])

(* gorm: one device that is paired, one that connects, and one that is only *)
(* heard while the first is off the list.                                   *)

Device(connected, paired, rssi) == [connected |-> connected, paired |-> paired, rssi |-> rssi, known |-> TRUE]

GormSnapshots == {
  1 :> Device(FALSE, TRUE, 0) @@ 2 :> Device(FALSE, FALSE, 1),
  1 :> Device(FALSE, TRUE, 0) @@ 2 :> Device(TRUE, TRUE, 1),
  2 :> Device(FALSE, FALSE, 2) @@ 3 :> Device(FALSE, FALSE, 1)}
GormScore == x :> <<0, 2, 1>>

-----------------------------------------------------------------------------
(* The clipboard daemon meets three things that applications or users copy. *)
HugindBounds ==
  Cardinality({o \in DOMAIN offers' : offers'[o].source = None}) + Len(tasks') <= 3

(* Three calls of gorm's agent meet one action at most, two calls meet two.  *)
PairingBounds == Len(callbacks') + Len(actions') <= 4

(* While the picker of sleipnir is open only the picker and the clock move,  *)
(* while a process of it runs the clock stands still, and only while there   *)
(* are no commands to mine and the file is old are directories visited.      *)
SleipnirBounds ==
  /\ v9 # Nothing => UNCHANGED <<v1, v2, v3, v4, v8>>
  /\ (\E j \in {j1, j2} : v8[j] # S!Idle) => UNCHANGED <<v1, v9>>
  /\ (\E d \in {a, b} : v10'[d] # 0) => v3' = <<>> /\ k \in DOMAIN v2' /\ v2'[k] = 0

(* bragi meets a key that acts only when its picture of PipeWire is whole,   *)
(* and the query changes only when nothing is under way.                     *)
BragiBounds ==
  /\ v13' # v13 /\ v1' = v1 => v12.audio.complete /\ v3 = <<>>
  /\ v12'.query # v12.query => v3 = <<>> /\ v4 = <<>> /\ v10 = <<>>

(* heimdall's query changes only when nothing waits and no scan runs.        *)
HeimdallBounds == query' # query => v5 = <<>> /\ v6 = <<>> /\ v7 = {}

MCNext ==
  /\ ToolsNext
  /\ tool = "hugind" => HugindBounds
  /\ tool = "pairing" => PairingBounds
  /\ tool = "sleipnir" => SleipnirBounds
  /\ tool = "bragi" => BragiBounds
  /\ tool = "heimdall" => HeimdallBounds

MCSpec == ToolsInit /\ [][MCNext]_run

Symmetry == Permutations({j1, j2}) \cup Permutations({headset, keyboard})
=============================================================================
