--------------------------- MODULE HuginClipboard ---------------------------
(***************************************************************************)
(* hugind's wayland thread (hugin/src/wayland.rs) between the compositor   *)
(* and the daemon's other threads: it reads the selections applications    *)
(* set and hands them to the storage thread (captures), and sets copies    *)
(* of its own when the IPC side asks for one (cmds).                       *)
(*                                                                         *)
(* The compositor is external and as wlroots behaves: it serves a client's *)
(* requests in order, cancels the replaced source before it announces the  *)
(* new offer, and answers a read of a replaced offer with end of file.     *)
(* Contents are members of Values, Blank the empty one.                    *)
(***************************************************************************)
EXTENDS Naturals, Sequences, FiniteSets, SequencesExt

CONSTANTS
  Selections,
  Values, Secret,       \* contents, and the one a password manager marks
  TextMimes, BigMimes,  \* is_text_mime; the mimes whose data is over the cap
  Hint,                 \* PASSWORD_HINT_MIME
  Clips,                \* what applications copy: mimes and value
  Watched,              \* the selections whose offers are read (watch_primary)
  MaxOffers,            \* bound on the selections that applications set
  MaxCopies,            \* bound on the copies that users ask for
  None, Blank

ASSUME ClipboardAssumption ==
  /\ Secret \in Values /\ Blank \notin Values
  /\ Watched \subseteq Selections
  /\ MaxOffers \in Nat /\ MaxCopies \in Nat
  /\ None \notin Nat

VARIABLES
  offers,    \* every selection so far: who set it, what it offers
  current,   \* the offer each selection has now, None if it has none
  requests,  \* set_selection requests on their way to the compositor
  events,    \* the compositor's events on their way to the daemon
  copies,    \* the data sources the daemon created
  sources,   \* those of them it takes for its own still
  reading,   \* the offer handle_selection is reading
  cmds,      \* IPC to wayland thread: copies to set
  captures,  \* wayland thread to storage thread
  echoes,    \* history: the offers taken for an echo
  shutdown   \* the wayland loop has ended

clipboardVars == <<offers, current, requests, events, copies, sources, reading, cmds,
                   captures, echoes, shutdown>>

Os == 1..Len(offers)
Sources == 1..Len(copies)
IsOwn(o) == offers[o].source # None
IsLive(o) == current[offers[o].selection] = o

ClipboardInit ==
  /\ offers = <<>> /\ current = [sel \in Selections |-> None]
  /\ requests = <<>> /\ events = <<>>
  /\ copies = <<>> /\ sources = {}
  /\ reading = None
  /\ cmds = <<>> /\ captures = <<>>
  /\ echoes = {}
  /\ shutdown = FALSE

-----------------------------------------------------------------------------
(* The compositor and the applications.                                    *)

\* offer is what sel offers from now on.
Replace(sel, offer) ==
  LET old == current[sel]
      cancelled == IF old # None /\ IsOwn(old)
                   THEN <<[kind |-> "cancelled", source |-> offers[old].source]>> ELSE <<>>
  IN /\ offers' = offers \o offer
     /\ current' = [current EXCEPT ![sel] = IF offer = <<>> THEN None ELSE Len(offers')]
     /\ events' = events \o cancelled
                  \o <<[kind |-> "selection", selection |-> sel, offer |-> current'[sel]]>>

\* An application copies.
AppCopies(sel, clip) ==
  /\ Cardinality({o \in Os : ~IsOwn(o)}) < MaxOffers
  /\ Replace(sel, <<[selection |-> sel, mimes |-> clip.mimes, value |-> clip.value, source |-> None]>>)
  /\ UNCHANGED <<requests, copies, sources, reading, cmds, captures, echoes, shutdown>>

\* The application that owns the selection goes away.
AppGoes(sel) ==
  /\ current[sel] # None /\ ~IsOwn(current[sel])
  /\ Replace(sel, <<>>)
  /\ UNCHANGED <<requests, copies, sources, reading, cmds, captures, echoes, shutdown>>

\* The compositor takes the daemon's next set_selection.
SetOwn ==
  /\ requests # <<>>
  /\ LET s == Head(requests) IN
       Replace(copies[s].selection,
               <<[selection |-> copies[s].selection, mimes |-> SetToSeq({p.mime : p \in copies[s].parts}),
                  value |-> Blank, source |-> s]>>)
  /\ requests' = Tail(requests)
  /\ UNCHANGED <<copies, sources, reading, cmds, captures, echoes, shutdown>>

-----------------------------------------------------------------------------
(* The wayland thread: one command, one event or one read at a time.       *)

Idle == reading = None /\ ~shutdown

\* mutant: the source is not entered in the map
DoCopy_LateSource ==
  /\ Idle /\ cmds # <<>>
  /\ cmds' = Tail(cmds)
  /\ copies' = Append(copies, Head(cmds))
  /\ requests' = Append(requests, Len(copies'))
  /\ UNCHANGED <<offers, current, events, sources, reading, captures, echoes, shutdown>>

\* handle_cmd, do_copy
DoCopy ==
  /\ Idle /\ cmds # <<>>
  /\ cmds' = Tail(cmds)
  /\ copies' = Append(copies, Head(cmds))
  /\ sources' = sources \cup {Len(copies')}
  /\ requests' = Append(requests, Len(copies'))
  /\ UNCHANGED <<offers, current, events, reading, captures, echoes, shutdown>>

NextEvent(kind) == Idle /\ events # <<>> /\ Head(events).kind = kind

\* mutant: a cancelled source stays in the map
Cancelled_Keeps ==
  /\ NextEvent("cancelled")
  /\ events' = Tail(events)
  /\ UNCHANGED <<offers, current, requests, copies, sources, reading, cmds, captures, echoes, shutdown>>

Cancelled ==
  /\ NextEvent("cancelled")
  /\ sources' = sources \ {Head(events).source}
  /\ events' = Tail(events)
  /\ UNCHANGED <<offers, current, requests, copies, reading, cmds, captures, echoes, shutdown>>

IsEcho(sel) == \E s \in sources : copies[s].selection = sel

\* There is an offer, it is watched, not ours as far as we know, and of something.
IsRead(sel, o) == o # None /\ sel \in Watched /\ ~IsEcho(sel) /\ offers[o].mimes # <<>>

\* handle_selection on an offer that is not read.
IgnoreOffer ==
  /\ NextEvent("selection")
  /\ LET sel == Head(events).selection
         o == Head(events).offer
     IN /\ ~IsRead(sel, o)
        /\ echoes' = echoes \cup {e \in {o} : o # None /\ sel \in Watched /\ IsEcho(sel)}
  /\ events' = Tail(events)
  /\ UNCHANGED <<offers, current, requests, copies, sources, reading, cmds, captures, shutdown>>

\* handle_selection goes on to read: the password hint first, if there is one.
StartReading ==
  /\ NextEvent("selection")
  /\ LET sel == Head(events).selection
         o == Head(events).offer
     IN /\ IsRead(sel, o)
        /\ reading' = [offer |-> o, hint |-> Contains(offers[o].mimes, Hint),
                       left |-> offers[o].mimes, parts |-> <<>>, hint_failed |-> FALSE]
  /\ events' = Tail(events)
  /\ UNCHANGED <<offers, current, requests, copies, sources, cmds, captures, echoes, shutdown>>

\* The other end of the pipe writes and closes, unless it is this thread.
Readable(o) == IsLive(o) => ~IsOwn(o)

\* mutant: the hint's value does not count
ReadHint_IgnoresValue ==
  /\ reading # None /\ reading.hint /\ Readable(reading.offer)
  /\ reading' = [reading EXCEPT !.hint = FALSE]
  /\ UNCHANGED <<offers, current, requests, events, copies, sources, cmds, captures, echoes, shutdown>>

\* A marked secret is skipped; a hint that cannot be read marks nothing.
ReadHint ==
  /\ reading # None /\ reading.hint /\ Readable(reading.offer)
  /\ \/ /\ IsLive(reading.offer) /\ offers[reading.offer].value = Secret
        /\ reading' = None
     \/ /\ ~(IsLive(reading.offer) /\ offers[reading.offer].value = Secret)
        /\ reading' = [reading EXCEPT !.hint = FALSE]
     \/ reading' = [reading EXCEPT !.hint = FALSE, !.hint_failed = TRUE]
  /\ UNCHANGED <<offers, current, requests, events, copies, sources, cmds, captures, echoes, shutdown>>

\* read_offer: what is stored of a mime of offer o.
ReadOffer(o, mime) ==
  IF ~IsLive(o) THEN [mime |-> mime, blob |-> Blank, store |-> "Full"]
  ELSE IF mime \notin BigMimes THEN [mime |-> mime, blob |-> offers[o].value, store |-> "Full"]
  ELSE IF mime \in TextMimes THEN [mime |-> mime, blob |-> offers[o].value, store |-> "Truncated"]
  ELSE [mime |-> mime, blob |-> Blank, store |-> "Omitted"]

\* The next mime of the offer; one that cannot be read is left out.
ReadPart ==
  /\ reading # None /\ ~reading.hint /\ reading.left # <<>>
  /\ Readable(reading.offer)
  /\ \E parts \in {reading.parts, Append(reading.parts, ReadOffer(reading.offer, Head(reading.left)))} :
       reading' = [reading EXCEPT !.left = Tail(@), !.parts = parts]
  /\ UNCHANGED <<offers, current, requests, events, copies, sources, cmds, captures, echoes, shutdown>>

\* handle_selection ends; an offer of which nothing could be read is dropped.
Capture ==
  /\ reading # None /\ ~reading.hint /\ reading.left = <<>>
  /\ reading' = None
  /\ captures' = captures \o
       IF reading.parts = <<>> THEN <<>>
       ELSE <<[selection |-> offers[reading.offer].selection, parts |-> reading.parts,
               offer |-> reading.offer, hint_failed |-> reading.hint_failed]>>
  /\ UNCHANGED <<offers, current, requests, events, copies, sources, cmds, echoes, shutdown>>

\* The loop ends: a signal, or the connection broke.  Its channels close.
EndLoop ==
  /\ Idle
  /\ shutdown' = TRUE
  /\ cmds' = <<>>
  /\ UNCHANGED <<offers, current, requests, events, copies, sources, reading, captures, echoes>>

-----------------------------------------------------------------------------
Compositor ==
  \/ \E sel \in Selections, clip \in Clips : AppCopies(sel, clip)
  \/ \E sel \in Selections : AppGoes(sel)
  \/ SetOwn

Wayland == DoCopy \/ Cancelled \/ IgnoreOffer \/ StartReading \/ ReadHint \/ ReadPart \/ Capture

-----------------------------------------------------------------------------
(***************************************************************************)
(* The deadlock the comment in handle_selection is about: the thread never *)
(* reads an offer that it would itself have to serve.  That rests on the   *)
(* order of announcements, cancellations and copies in the two queues.     *)
(***************************************************************************)
NoSelfRead == reading # None => ~IsOwn(reading.offer)

(***************************************************************************)
(* An application's selection is taken for an echo of the daemon's own     *)
(* only when a copy of the daemon's has replaced it, or is about to: what  *)
(* stays on the clipboard is never dropped.                                *)
(***************************************************************************)
EchoOnlyIfReplaced == \A o \in echoes : ~IsOwn(o) =>
  \/ \E p \in (o + 1)..Len(offers) : IsOwn(p) /\ offers[p].selection = offers[o].selection
  \/ \E i \in 1..Len(requests) : copies[requests[i]].selection = offers[o].selection

(***************************************************************************)
(* A secret's data reaches the storage thread only if reading its hint     *)
(* failed; an offer replaced between hint and parts reads as blank.        *)
(***************************************************************************)
SecretsSkipped == \A i \in 1..Len(captures) :
  LET c == captures[i] IN
  (Contains(offers[c.offer].mimes, Hint) /\ offers[c.offer].value = Secret /\ ~c.hint_failed) =>
    \A j \in 1..Len(c.parts) : c.parts[j].blob = Blank
=============================================================================
