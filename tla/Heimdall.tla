------------------------------- MODULE Heimdall -------------------------------
(***************************************************************************)
(* heimdall: three threads that sight devices (discover/), the picker that *)
(* merges the sightings by address and drops the silent (tui.rs), and the  *)
(* port scans it starts (actions.rs). The picker does nothing of this      *)
(* while ssh has the terminal. The network is external.                    *)
(***************************************************************************)
EXTENDS Integers, Sequences, FiniteSets, SequencesExt, FiniteSetsExt, Functions

CONSTANTS
  Hosts,        \* [mac, name, services, ports] of each
  Vendor,       \* of each MAC address, Nothing if its prefix is not known
  MacKind,      \* of each MAC address: "Universal", or the label of a local or a group address
  Interfaces,   \* [ip, prefix, loopback, virtual]
  Width,        \* the bits of an address
  MinPrefix, MaxPrefix, MaxHosts,
  Drop,         \* DROP, in ticks
  Queries, Everything,
  Score,        \* the score of a word for a query, 0 if it does not match
  MaxClock, MaxQueue, MaxMoves,   \* bounds
  Nothing

VARIABLES
  clock,
  lan,      \* who holds an address
  cache,    \* the kernel's complete ARP entries: address to MAC
  moves,    \* changes of lan so far
  rx,       \* Engine.rx: the sightings not drained
  ports,    \* ports_rx: the finished scans not drained
  scans,    \* addresses being scanned
  devices,  \* the entries of the picker
  ssh,      \* whether ssh has the terminal
  query, results, at,   \* at: index into results, Nothing if it is empty
  heard     \* history: when each address was sighted last

network == <<clock, lan, cache, moves>>
view == <<query, results, at>>
vars == <<network, rx, ports, scans, devices, ssh, view, heard>>

Put(f, x, e) == [o \in DOMAIN f \cup {x} |-> IF o = x THEN e ELSE f[o]]

-----------------------------------------------------------------------------
(* The threads. *)

\* subnet::detect: mask_to_prefix, is_virtual, host_list
HostList(i) ==
  LET size == 2^(Width - i.prefix)
      net == (i.ip \div size) * size
  IN net + 1 .. Min({net + size - 2, net + MaxHosts})

Swept == UNION {HostList(i) : i \in {j \in Interfaces :
  ~j.loopback /\ ~j.virtual /\ j.prefix \in MinPrefix..MaxPrefix}}

\* arp::sweep: the probes make the kernel ask who is there
Sweep ==
  LET there == Swept \cap DOMAIN lan IN
  /\ cache' = [ip \in DOMAIN cache \cup there |->
                 IF ip \in there THEN Hosts[lan[ip]].mac ELSE cache[ip]]
  /\ UNCHANGED <<clock, lan, moves, rx, ports, scans, devices, ssh, view, heard>>

Seen(ip) == [ip |-> ip, mac |-> Nothing, vendor |-> Nothing, hostname |-> Nothing, service |-> Nothing]

Sight(s) ==
  /\ Len(rx) < MaxQueue
  /\ rx' = Append(rx, s) /\ heard' = Put(heard, s.ip, clock)
  /\ UNCHANGED <<network, ports, scans, devices, ssh, view>>

\* read_arp_cache
SightARP == \E ip \in DOMAIN cache :
  Sight([Seen(ip) EXCEPT !.mac = cache[ip], !.vendor = Vendor[cache[ip]]])

\* mdns::run
SightMDNS == \E ip \in DOMAIN lan : \E service \in Hosts[lan[ip]].services :
  Sight([Seen(ip) EXCEPT !.hostname = Hosts[lan[ip]].name, !.service = service])

\* ssdp::collect
SightSSDP == \E ip \in DOMAIN lan : \E service \in Hosts[lan[ip]].services :
  Sight([Seen(ip) EXCEPT !.service = service])

\* scan_ports: the answer comes from whoever holds the address
ScanEnds == Len(ports) < MaxQueue /\ \E ip \in scans :
  /\ scans' = scans \ {ip}
  /\ ports' = Append(ports, [ip |-> ip, open |-> IF ip \in DOMAIN lan THEN Hosts[lan[ip]].ports ELSE {}])
  /\ UNCHANGED <<network, rx, devices, ssh, view, heard>>

(* The network. *)

Tick ==
  /\ clock < MaxClock /\ clock' = clock + 1
  /\ UNCHANGED <<lan, cache, moves, rx, ports, scans, devices, ssh, view, heard>>

\* A host takes an address that is free, or leaves it.
Rehost ==
  /\ moves < MaxMoves /\ moves' = moves + 1
  /\ \/ \E h \in DOMAIN Hosts \ Range(lan), ip \in Swept \ DOMAIN lan : lan' = Put(lan, ip, h)
     \/ \E ip \in DOMAIN lan : lan' = [o \in DOMAIN lan \ {ip} |-> lan[o]]
  /\ UNCHANGED <<clock, cache, rx, ports, scans, devices, ssh, view, heard>>

\* The kernel forgets an address nobody answers at.
Forget == \E ip \in DOMAIN cache \ DOMAIN lan :
  /\ cache' = [o \in DOMAIN cache \ {ip} |-> cache[o]]
  /\ UNCHANGED <<clock, lan, moves, rx, ports, scans, devices, ssh, view, heard>>

-----------------------------------------------------------------------------
(* The picker. *)

NewDevice == [mac |-> Nothing, vendor |-> Nothing, hostname |-> Nothing, services |-> <<>>, ports |-> {}, at |-> 0]

Or(a, b) == IF a # Nothing THEN a ELSE b

\* merge, add_service
Merged(d, s) == [d EXCEPT
  !.at = clock, !.mac = Or(s.mac, @), !.vendor = Or(s.vendor, @), !.hostname = Or(@, s.hostname),
  !.services = IF s.service = Nothing \/ Contains(@, s.service) THEN @ ELSE Append(@, s.service)]

Merge(known, s) == Put(known, s.ip, Merged(IF s.ip \in DOMAIN known THEN known[s.ip] ELSE NewDevice, s))

Drained(known) ==
  LET after[i \in 0..Len(rx)] == IF i = 0 THEN known ELSE Merge(after[i - 1], rx[i])
  IN after[Len(rx)]

\* The results of scans, for the devices still known.
Scanned(known) == [ip \in DOMAIN known |->
  LET mine == {i \in DOMAIN ports : ports[i].ip = ip}
  IN IF mine = {} THEN known[ip] ELSE [known[ip] EXCEPT !.ports = ports[Max(mine)].open]]

Kept(known) == [ip \in {o \in DOMAIN known : clock - known[o].at < Drop} |-> known[ip]]

\* mac::classify, vendor_label
Label(d) ==
  IF d.vendor # Nothing THEN d.vendor
  ELSE IF d.mac # Nothing /\ MacKind[d.mac] # "Universal" THEN MacKind[d.mac] ELSE Nothing

\* haystack
Words(ip, d) == ({ip, d.mac, d.hostname, Label(d)} \cup ToSet(d.services)) \ {Nothing}

\* refresh: by address when browsing, else by score; the selection stays on
\* its address
Refresh(known) ==
  LET score(ip) == Max({0} \cup {Score[query][w] : w \in Words(ip, known[ip])})
      rows == SetToSortSeq({ip \in DOMAIN known : query = Everything \/ score(ip) > 0}, LAMBDA a, b :
        \/ query # Everything /\ score(a) > score(b)
        \/ (query = Everything \/ score(a) = score(b)) /\ a < b)
      kept == {i \in DOMAIN rows : at # Nothing /\ rows[i] = results[at]}
  IN /\ results' = rows
     /\ at' = IF rows = <<>> THEN Nothing ELSE IF kept = {} THEN 1 ELSE CHOOSE i \in kept : TRUE

\* mutant: the silent are dropped before what waited is merged
Frame_DropsFirst ==
  /\ ~ssh
  /\ devices' = Scanned(Drained(Kept(devices))) /\ rx' = <<>> /\ ports' = <<>>
  /\ Refresh(devices')
  /\ UNCHANGED <<network, scans, ssh, query, heard>>

\* An iteration of run_loop, up to the key.
Frame ==
  /\ ~ssh
  /\ devices' = Kept(Scanned(Drained(devices))) /\ rx' = <<>> /\ ports' = <<>>
  /\ Refresh(devices')
  /\ UNCHANGED <<network, scans, ssh, query, heard>>

Key == ~ssh /\ UNCHANGED <<network, rx, ports, devices, results, heard>>

EditQuery == Key /\ \E q \in Queries : query' = q /\ q # query /\ UNCHANGED <<scans, ssh, at>>

\* move_selection
Move == Key /\ results # <<>> /\ \E delta \in {0, 2} :
  /\ at' = Min({Len(results), Max({1, at + delta - 1})})
  /\ UNCHANGED <<scans, ssh, query>>

\* Tab. A second scan of an address replaces the ports all the same.
Scan == Key /\ at # Nothing /\ scans' = scans \cup {results[at]} /\ UNCHANGED <<ssh, query, at>>

\* C-s, until ssh ends
Ssh == Key /\ at # Nothing /\ ssh' = TRUE /\ UNCHANGED <<scans, query, at>>

SshEnds == ssh /\ ssh' = FALSE /\ UNCHANGED <<network, rx, ports, scans, devices, view, heard>>

Init ==
  /\ clock = 0 /\ cache = <<>> /\ moves = 0 /\ scans = {} /\ heard = <<>>
  /\ \E ip \in Swept, h \in DOMAIN Hosts : lan = (ip :> h)
  /\ rx = <<>> /\ ports = <<>> /\ devices = <<>> /\ ssh = FALSE
  /\ query = Everything /\ results = <<>> /\ at = Nothing

Next == \/ Sweep \/ SightARP \/ SightMDNS \/ SightSSDP \/ ScanEnds \/ Tick \/ Rehost \/ Forget
        \/ Frame \/ EditQuery \/ Move \/ Scan \/ Ssh \/ SshEnds

Spec == Init /\ [][Next]_vars

-----------------------------------------------------------------------------
(***************************************************************************)
(* Only a device that was silent for DROP loses its entry: one heard of    *)
(* since keeps its hostname and services, however long ssh kept the picker *)
(* from draining what was heard.                                           *)
(***************************************************************************)
OnlySilentDropped == \A ip \in DOMAIN devices : clock - heard[ip] < Drop =>
  /\ ip \in DOMAIN devices'
  /\ devices'[ip].hostname = devices[ip].hostname \/ devices[ip].hostname = Nothing
  /\ IsPrefix(devices[ip].services, devices'[ip].services)
=============================================================================
