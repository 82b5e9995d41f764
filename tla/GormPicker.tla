------------------------------ MODULE GormPicker ------------------------------
(***************************************************************************)
(* gorm's device list (gorm/src/tui.rs): snapshots that replace the list   *)
(* under the user, the actions on the selected device, and the key that    *)
(* must be held to forget one. The pairing prompts, modelled in            *)
(* GormPairing, come and go here. BlueZ is external: from one snapshot to  *)
(* the next it may be in any of Snapshots. Times are left out: the meter   *)
(* may be full whenever the key was down long enough for it.               *)
(***************************************************************************)
EXTENDS Naturals, Sequences, FiniteSets, SequencesExt, FiniteSetsExt, Ordering

CONSTANTS
  Snapshots,   \* address to [connected, paired, known, rssi], rssi 0 if it is not heard
  Queries, Everything,
  Score,       \* the fuzzy score of a device for a query, 0 if it does not match
  MaxEdits,    \* bound on the edits of the query
  Nothing

VARIABLES
  enhanced,  \* kbd_enhanced: the terminal reports key releases
  bluez,     \* the last snapshot applied
  query, shown,   \* the query, and the one the results are for
  results, at,    \* at: index into results, Nothing if it is empty
  drawn,     \* the loop waits for a key
  prompt,    \* whether a prompt is up
  armed,     \* unpair_arm: "no", "armed", or "kept" once a repeat confirmed it
  consumed,  \* unpair_consumed
  key,       \* Alt-U: "up", "down", "repeating", or "silent" after another key
  aim,       \* history: the device the armed hold is for, and whether it was off the list since
  fired,     \* history: devices forgotten since the key went down, or paused
  sent,      \* history: the command this step sent
  edits

list == <<bluez, query, shown, results, at>>
hold == <<armed, consumed, key, fired>>
vars == <<enhanced, list, drawn, prompt, hold, aim, sent, edits>>

\* rank_tier
Tier(d) == IF d.connected THEN 0 ELSE IF d.paired THEN 1 ELSE IF d.known THEN 2 ELSE 3

\* rank_cmp; names are ordered as the addresses are
Ahead(snap, a, b) ==
  \/ Tier(snap[a]) < Tier(snap[b])
  \/ /\ Tier(snap[a]) = Tier(snap[b])
     /\ snap[a].rssi > snap[b].rssi \/ (snap[a].rssi = snap[b].rssi /\ a < b)

Ranked(snap, q) == InOrder({a \in DOMAIN snap : q = Everything \/ Score[q][a] > 0},
  LAMBDA a, b : \/ q # Everything /\ Score[q][a] > Score[q][b]
                \/ (q = Everything \/ Score[q][a] = Score[q][b]) /\ Ahead(snap, a, b))

Selected == IF at = Nothing THEN Nothing ELSE results[at]

\* mutant: the selection stays where it is on the screen
Follow_Index(rows) ==
  IF rows = <<>> THEN Nothing ELSE IF at # Nothing /\ at \in DOMAIN rows THEN at ELSE 1

\* The selection stays on its device, if that is still listed.
Follow(rows) ==
  IF rows = <<>> THEN Nothing
  ELSE IF Contains(rows, Selected) THEN CHOOSE i \in DOMAIN rows : rows[i] = Selected ELSE 1

-----------------------------------------------------------------------------
\* The facts are drained, the last snapshot among them counts, prompts come
\* and are dismissed; refresh; draw.
Frame == \E snap \in Snapshots :
  /\ bluez' = snap /\ prompt' \in BOOLEAN /\ drawn' = TRUE
  /\ results' = Ranked(bluez', query) /\ shown' = query /\ at' = Follow(results')
  /\ aim' = IF armed = "no" THEN Nothing
            ELSE IF shown # query THEN [addr |-> IF at' = Nothing THEN Nothing ELSE results'[at'], lost |-> FALSE]
            ELSE [aim EXCEPT !.lost = @ \/ ~Contains(results', aim.addr)]
  /\ sent' = Nothing
  /\ UNCHANGED <<enhanced, query, hold, edits>>

\* A key but Alt-U; Alt-U does not repeat after it.
Key ==
  /\ drawn /\ drawn' = FALSE
  /\ key' = (IF key = "up" THEN "up" ELSE "silent")
  /\ UNCHANGED <<enhanced, bluez, shown, results, armed, consumed, fired>>

\* Enter, Esc and the like while a prompt is up, and keys it ignores.
AnswerPrompt == Key /\ prompt /\ prompt' \in BOOLEAN /\ sent' = Nothing /\ UNCHANGED <<query, at, aim, edits>>

\* Enter, Alt-P, C-t, Alt-b: what they do depends on what the list shows.
Act ==
  /\ Key /\ ~prompt /\ at # Nothing
  /\ \E cmd \in {IF bluez[Selected].connected THEN "Disconnect" ELSE "Connect", "Pair", "SetTrusted", "SetBlocked"} :
       sent' = [cmd |-> cmd, addr |-> Selected, aim |-> Nothing]
  /\ UNCHANGED <<query, at, prompt, aim, edits>>

\* move_selection
Move ==
  /\ Key /\ ~prompt /\ results # <<>>
  /\ \E delta \in {0, 2} : at' = Min({Len(results), Max({1, at + delta - 1})})
  /\ aim' = IF armed = "no" THEN Nothing ELSE [addr |-> results[at'], lost |-> FALSE]
  /\ sent' = Nothing /\ UNCHANGED <<query, prompt, edits>>

EditQuery ==
  /\ Key /\ ~prompt /\ edits < MaxEdits /\ edits' = edits + 1
  /\ \E q \in Queries : query' = q
  /\ sent' = Nothing /\ UNCHANGED <<at, prompt, aim>>

-----------------------------------------------------------------------------
(* Hold to forget. *)

\* Alt-U, a press or a repeat; a prompt ignores it.
KeyDown ==
  /\ drawn /\ drawn' = FALSE
  /\ key # "silent"
  /\ key' = IF key = "up" THEN "down" ELSE "repeating"
  /\ fired' = IF key = "up" THEN 0 ELSE fired
  /\ IF prompt \/ consumed THEN UNCHANGED <<armed, aim>>
     ELSE IF armed = "no" THEN armed' = "armed" /\ aim' = [addr |-> Selected, lost |-> FALSE]
     ELSE armed' = "kept" /\ UNCHANGED aim
  /\ sent' = Nothing
  /\ UNCHANGED <<enhanced, list, prompt, consumed, edits>>

Disarm == armed' = "no" /\ consumed' = FALSE /\ aim' = Nothing

\* The release reaches the picker only if the terminal reports it and has the focus.
KeyUp ==
  /\ key # "up" /\ key' = "up"
  /\ \/ enhanced /\ drawn /\ drawn' = FALSE /\ Disarm
     \/ UNCHANGED <<drawn, armed, consumed, aim>>
  /\ sent' = Nothing
  /\ UNCHANGED <<enhanced, list, prompt, fired, edits>>

\* UNPAIR_RELEASE_GAP without a repeat that counts.
Gap ==
  /\ ~enhanced /\ ~(key = "repeating" /\ ~prompt)
  /\ Disarm /\ fired' = 0 /\ drawn' = FALSE
  /\ sent' = Nothing
  /\ UNCHANGED <<enhanced, list, prompt, key, edits>>

\* UNPAIR_HOLD has passed: what is selected now is forgotten.
Fire ==
  /\ armed = "kept" \/ (enhanced /\ armed = "armed")
  /\ armed' = "no" /\ consumed' = TRUE /\ aim' = Nothing
  /\ drawn' = FALSE
  /\ fired' = IF at = Nothing THEN fired ELSE fired + 1
  /\ sent' = IF at = Nothing THEN Nothing ELSE [cmd |-> "Unpair", addr |-> Selected, aim |-> aim]
  /\ UNCHANGED <<enhanced, list, prompt, key, edits>>

Init ==
  /\ enhanced \in BOOLEAN
  /\ bluez = <<>> /\ query = Everything /\ shown = Everything /\ results = <<>> /\ at = Nothing
  /\ drawn = FALSE /\ prompt = FALSE
  /\ armed = "no" /\ consumed = FALSE /\ key = "up" /\ aim = Nothing /\ fired = 0
  /\ sent = Nothing /\ edits = 0

Next == \/ Frame \/ AnswerPrompt \/ Act \/ Move \/ EditQuery
        \/ KeyDown \/ KeyUp \/ Gap \/ Fire

Spec == Init /\ [][Next]_vars

-----------------------------------------------------------------------------
(***************************************************************************)
(* One hold forgets one device at most, "so holding past the meter can't   *)
(* unpair a second device", and it is the one that was selected when the   *)
(* key went down, or the user moved to since, however the snapshots        *)
(* reorder the list meanwhile. Only if that device was off the list for a  *)
(* moment is it another one, the one the selection fell back to.           *)
(***************************************************************************)
ForgetsAimed ==
  /\ fired <= 1
  /\ sent # Nothing /\ sent.cmd = "Unpair" => sent.addr = sent.aim.addr \/ sent.aim.lost
=============================================================================
