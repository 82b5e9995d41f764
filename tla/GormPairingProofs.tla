--------------------------- MODULE GormPairingProofs ---------------------------
(***************************************************************************)
(* Theorems about GormPairing: any number of devices, requests of BlueZ    *)
(* and actions of the user, channels of any length.                        *)
(***************************************************************************)
EXTENDS GormPairing, SequenceTheorems, FiniteSetTheorems, TLAPS

States == {"called", "waiting", "gone"} \cup Replies
Request == [device : Devices, action : Nat \cup {Nothing}, state : States]
Action == [device : Devices, verb : Verbs, state : {"queued", "running", "done"}]
Fact == [kind : {"AgentPrompt"}, request : Nat] \cup [kind : {"ActionResult"}, action : Nat]
Cmd == [kind : {"AnswerPrompt"}, request : Nat, reply : Replies]
       \cup [kind : {"Action"}, action : Nat]

Fs == 1..Len(facts)
Cs == 1..Len(engine_cmds)
IsPrompt(i) == facts[i].kind = "AgentPrompt"
IsAnswer(i) == engine_cmds[i].kind = "AnswerPrompt"

-----------------------------------------------------------------------------
(* The inductive invariant.                                                *)

\* BlueZ has one request at the agent, and it is the last.
OnePending == \A r \in Rs : Pending(r) => r = Len(callbacks)

\* The sender of a waiting request is in the slot.
Stashed == \A r \in Rs : Waiting(r) => reply_slot = r

\* Only a request whose sender was stashed has a prompt or an answer.
Prompted ==
  /\ prompt # Nothing => callbacks[prompt].state # "called"
  /\ \A i \in Fs : IsPrompt(i) => callbacks[facts[i].request].state # "called"
  /\ \A i \in Cs : IsAnswer(i) => callbacks[engine_cmds[i].request].state # "called"
  /\ \A p \in answers : callbacks[p[1]].state # "called"

\* Requests pass through facts, the screen and engine_cmds in the order of BlueZ's
\* calls, and each is answered once at most.
InLine ==
  /\ \A i \in Fs : IsPrompt(i) =>
       /\ prompt # Nothing => prompt < facts[i].request
       /\ \A j \in Fs : IsPrompt(j) /\ i < j => facts[i].request < facts[j].request
       /\ \A j \in Cs : IsAnswer(j) => engine_cmds[j].request < facts[i].request
       /\ \A p \in answers : p[1] < facts[i].request
  /\ prompt # Nothing =>
       /\ \A j \in Cs : IsAnswer(j) => engine_cmds[j].request < prompt
       /\ \A p \in answers : p[1] < prompt
  /\ \A i \in Cs : IsAnswer(i) =>
       /\ \A j \in Cs : IsAnswer(j) /\ i < j => engine_cmds[i].request < engine_cmds[j].request
       /\ \A p \in answers : p[1] < engine_cmds[i].request

\* A settled request was settled by some answer.
Settled == \A r \in Rs : callbacks[r].state \in Replies => \E p \in answers : p[2] = r

\* An action that the engine has not taken yet is in engine_cmds once.
Queued ==
  /\ \A i \in Cs : ~IsAnswer(i) => actions[engine_cmds[i].action].state = "queued"
  /\ \A i, j \in Cs : ~IsAnswer(i) /\ ~IsAnswer(j) /\ engine_cmds[i].action = engine_cmds[j].action => i = j

\* The result of a Pair call comes after its request is settled.
Ended ==
  /\ \A i \in Fs : ~IsPrompt(i) => actions[facts[i].action].state = "done"
  /\ \A r \in Rs : Pending(r) /\ callbacks[r].action # Nothing =>
       actions[callbacks[r].action].state = "running"

Quiet == discovery => \A a \in As : actions[a].state # "running"

IInv == PairingTypeOK /\ OnePending /\ Stashed /\ Prompted /\ InLine /\ Settled /\ Queued /\ Ended
        /\ Quiet /\ StrayOnlyAfterGiveUp /\ NoSilentWait

-----------------------------------------------------------------------------
(* The channels, requests and actions.                                     *)

\* rx.recv: taking the head of a channel shifts what is behind it.
LEMMA Received ==
  ASSUME NEW S, NEW q \in Seq(S), q # <<>>
  PROVE  /\ Len(q) \in Nat \ {0} /\ Head(q) = q[1] /\ q[1] \in S
         /\ Tail(q) \in Seq(S) /\ Len(Tail(q)) = Len(q) - 1
         /\ \A i \in 1..Len(Tail(q)) : Tail(q)[i] = q[i + 1] /\ i + 1 \in 1..Len(q)
<1>1. Len(q) \in Nat \ {0} /\ Len(Tail(q)) = Len(q) - 1
  BY HeadTailProperties, EmptySeq, LenProperties
<1>2. \A i \in 1..Len(Tail(q)) : Tail(q)[i] = q[i + 1]
  BY HeadTailProperties
<1>3. QED BY <1>1, <1>2, HeadTailProperties, ElementOfSeq

\* tx.send: what is sent goes behind what a channel holds.
LEMMA Sent ==
  ASSUME NEW S, NEW q \in Seq(S), NEW e \in S
  PROVE  /\ Len(q) \in Nat
         /\ Append(q, e) \in Seq(S) /\ Len(Append(q, e)) = Len(q) + 1
         /\ \A i \in 1..Len(q) : Append(q, e)[i] = q[i]
         /\ Append(q, e)[Len(q) + 1] = e
  BY AppendProperties, LenProperties

\* One entry of a list is replaced.
LEMMA Replaced ==
  ASSUME NEW S, NEW q \in Seq(S), NEW i \in 1..Len(q), NEW e \in S
  PROVE  LET r == [q EXCEPT ![i] = e] IN
         r \in Seq(S) /\ Len(r) = Len(q) /\ r[i] = e /\ \A j \in 1..Len(q) : j # i => r[j] = q[j]
<1> DEFINE r == [q EXCEPT ![i] = e]
<1>1. Len(q) \in Nat /\ q \in [1..Len(q) -> S]
  BY LenProperties
<1>2. r \in [1..Len(q) -> S] /\ r[i] = e /\ \A j \in 1..Len(q) : j # i => r[j] = q[j]
  BY <1>1
<1>3. r \in Seq(S)
  BY <1>1, <1>2, SeqDef
<1>4. Len(r) = Len(q)
  BY <1>1, <1>2, <1>3, LenProperties
<1>5. QED BY <1>2, <1>3, <1>4

\* The lists and channels hold what they should, whole entries all.
LEMMA Lists ==
  ASSUME PairingTypeOK
  PROVE  /\ callbacks \in Seq(Request) /\ Len(callbacks) \in Nat /\ \A r \in Rs : callbacks[r] \in Request
         /\ actions \in Seq(Action) /\ Len(actions) \in Nat /\ \A a \in As : actions[a] \in Action
         /\ facts \in Seq(Fact) /\ Len(facts) \in Nat
         /\ engine_cmds \in Seq(Cmd) /\ Len(engine_cmds) \in Nat
<1>1. /\ callbacks \in Seq(Request) /\ actions \in Seq(Action)
      /\ facts \in Seq(Fact) /\ engine_cmds \in Seq(Cmd)
  BY DEF PairingTypeOK, Request, Action, Fact, Cmd, States
<1>2. QED BY <1>1, LenProperties, ElementOfSeq DEF Rs, As

\* A request changes its state and nothing else.
LEMMA Marked ==
  ASSUME PairingTypeOK, NEW r \in Rs, NEW s \in States, callbacks' = [callbacks EXCEPT ![r].state = s]
  PROVE  /\ callbacks' \in Seq(Request) /\ Len(callbacks') = Len(callbacks) /\ Rs' = Rs
         /\ callbacks'[r].state = s
         /\ \A p \in Rs : callbacks'[p].device = callbacks[p].device /\ callbacks'[p].action = callbacks[p].action
         /\ \A p \in Rs : p # r => callbacks'[p].state = callbacks[p].state
<1> DEFINE e == [callbacks[r] EXCEPT !.state = s]
<1>1. callbacks \in Seq(Request) /\ callbacks[r] \in Request
  BY Lists
<1>2. e \in Request /\ e.state = s /\ e.device = callbacks[r].device /\ e.action = callbacks[r].action
  BY <1>1 DEF Request
<1>3. callbacks' = [callbacks EXCEPT ![r] = e]
  OBVIOUS
<1> HIDE DEF e
<1>4. /\ callbacks' \in Seq(Request) /\ Len(callbacks') = Len(callbacks) /\ callbacks'[r] = e
      /\ \A p \in Rs : p # r => callbacks'[p] = callbacks[p]
  BY <1>1, <1>2, <1>3, Replaced DEF Rs
<1>5. QED BY <1>2, <1>4 DEF Rs

\* An action changes its state and nothing else.
LEMMA Moved ==
  ASSUME PairingTypeOK, NEW a \in As, NEW s \in {"running", "done"},
         actions' = [actions EXCEPT ![a].state = s]
  PROVE  /\ actions' \in Seq(Action) /\ Len(actions') = Len(actions) /\ As' = As
         /\ actions'[a].state = s
         /\ \A b \in As : actions'[b].device = actions[b].device
         /\ \A b \in As : b # a => actions'[b].state = actions[b].state
<1> DEFINE e == [actions[a] EXCEPT !.state = s]
<1>1. actions \in Seq(Action) /\ actions[a] \in Action
  BY Lists
<1>2. e \in Action /\ e.state = s /\ e.device = actions[a].device
  BY <1>1 DEF Action
<1>3. actions' = [actions EXCEPT ![a] = e]
  OBVIOUS
<1> HIDE DEF e
<1>4. /\ actions' \in Seq(Action) /\ Len(actions') = Len(actions) /\ actions'[a] = e
      /\ \A b \in As : b # a => actions'[b] = actions[b]
  BY <1>1, <1>2, <1>3, Replaced DEF As
<1>5. QED BY <1>2, <1>4 DEF As

\* A channel with one more message, and a channel with its first one taken.
FactAdded(e) ==
  /\ facts' \in Seq(Fact) /\ Len(facts') = Len(facts) + 1
  /\ Fs' = Fs \cup {Len(facts) + 1} /\ Len(facts) + 1 \notin Fs
  /\ \A i \in Fs : facts'[i] = facts[i]
  /\ facts'[Len(facts) + 1] = e

CmdAdded(e) ==
  /\ engine_cmds' \in Seq(Cmd) /\ Len(engine_cmds') = Len(engine_cmds) + 1
  /\ Cs' = Cs \cup {Len(engine_cmds) + 1} /\ Len(engine_cmds) + 1 \notin Cs
  /\ \A i \in Cs : engine_cmds'[i] = engine_cmds[i]
  /\ engine_cmds'[Len(engine_cmds) + 1] = e

FactTaken ==
  /\ facts' \in Seq(Fact) /\ 1 \in Fs /\ Head(facts) = facts[1]
  /\ \A i \in Fs' : i \in Nat /\ i + 1 \in Fs /\ facts'[i] = facts[i + 1]
  /\ \A i \in Fs : i # 1 => i - 1 \in Fs' /\ facts'[i - 1] = facts[i]

CmdTaken ==
  /\ engine_cmds' \in Seq(Cmd) /\ 1 \in Cs /\ Head(engine_cmds) = engine_cmds[1] /\ engine_cmds[1] \in Cmd
  /\ \A i \in Cs' : i \in Nat /\ i + 1 \in Cs /\ engine_cmds'[i] = engine_cmds[i + 1]
  /\ \A i \in Cs : i # 1 => i - 1 \in Cs' /\ engine_cmds'[i - 1] = engine_cmds[i]

\* facts_tx.send and cmd_tx.send; facts_rx.recv and cmd_rx.recv.
LEMMA Channels ==
  ASSUME PairingTypeOK
  PROVE  /\ \A e \in Fact : facts' = Append(facts, e) => FactAdded(e)
         /\ \A e \in Cmd : engine_cmds' = Append(engine_cmds, e) => CmdAdded(e)
         /\ facts # <<>> /\ facts' = Tail(facts) => FactTaken
         /\ engine_cmds # <<>> /\ engine_cmds' = Tail(engine_cmds) => CmdTaken
<1>1. facts \in Seq(Fact) /\ Len(facts) \in Nat /\ engine_cmds \in Seq(Cmd) /\ Len(engine_cmds) \in Nat
  BY Lists
<1>2. ASSUME NEW e \in Fact, facts' = Append(facts, e) PROVE FactAdded(e)
  <2>1. /\ facts' \in Seq(Fact) /\ Len(facts') = Len(facts) + 1
        /\ \A i \in 1..Len(facts) : facts'[i] = facts[i]
        /\ facts'[Len(facts) + 1] = e
    BY <1>1, <1>2, Sent
  <2>2. QED BY <1>1, <2>1 DEF FactAdded, Fs
<1>3. ASSUME NEW e \in Cmd, engine_cmds' = Append(engine_cmds, e) PROVE CmdAdded(e)
  <2>1. /\ engine_cmds' \in Seq(Cmd) /\ Len(engine_cmds') = Len(engine_cmds) + 1
        /\ \A i \in 1..Len(engine_cmds) : engine_cmds'[i] = engine_cmds[i]
        /\ engine_cmds'[Len(engine_cmds) + 1] = e
    BY <1>1, <1>3, Sent
  <2>2. QED BY <1>1, <2>1 DEF CmdAdded, Cs
<1>4. ASSUME facts # <<>>, facts' = Tail(facts) PROVE FactTaken
  <2>1. /\ Len(facts) \in Nat \ {0} /\ Head(facts) = facts[1]
        /\ facts' \in Seq(Fact) /\ Len(facts') = Len(facts) - 1
        /\ \A i \in 1..Len(facts') : facts'[i] = facts[i + 1] /\ i + 1 \in 1..Len(facts)
    BY <1>1, <1>4, Received
  <2>2. QED BY <2>1 DEF FactTaken, Fs
<1>5. ASSUME engine_cmds # <<>>, engine_cmds' = Tail(engine_cmds) PROVE CmdTaken
  <2>1. /\ Len(engine_cmds) \in Nat \ {0} /\ Head(engine_cmds) = engine_cmds[1] /\ engine_cmds[1] \in Cmd
        /\ engine_cmds' \in Seq(Cmd) /\ Len(engine_cmds') = Len(engine_cmds) - 1
        /\ \A i \in 1..Len(engine_cmds') : engine_cmds'[i] = engine_cmds[i + 1] /\ i + 1 \in 1..Len(engine_cmds)
    BY <1>1, <1>5, Received
  <2>2. QED BY <2>1 DEF CmdTaken, Cs
<1>6. QED BY <1>2, <1>3, <1>4, <1>5

\* PairingTypeOK, with the names of this module.
Types ==
  /\ callbacks \in Seq(Request) /\ actions \in Seq(Action) /\ facts \in Seq(Fact) /\ engine_cmds \in Seq(Cmd)
  /\ \A r \in Rs : callbacks[r].action \in As \cup {Nothing}
  /\ \A i \in Fs : IF IsPrompt(i) THEN facts[i].request \in Rs ELSE facts[i].action \in As
  /\ \A i \in Cs : IF IsAnswer(i) THEN engine_cmds[i].request \in Rs ELSE engine_cmds[i].action \in As
  /\ reply_slot \in Rs \cup {Nothing}
  /\ prompt \in Rs \cup {Nothing}
  /\ discovery \in BOOLEAN
  /\ answers \subseteq Rs \X Rs
  /\ dismissed \subseteq Rs \X As

\* The types are PairingTypeOK.
LEMMA Typed == (PairingTypeOK <=> Types) /\ (PairingTypeOK' <=> Types')
  BY DEF PairingTypeOK, Types, Request, Action, Fact, Cmd, States, Fs, Cs, IsPrompt, IsAnswer

-----------------------------------------------------------------------------
(* The user and the TUI.                                                   *)

\* Enter or Alt-P: a new action is queued.
LEMMA DispatchStep ==
  ASSUME IInv, NEW d \in Devices, NEW verb \in Verbs, Dispatch(d, verb)
  PROVE  IInv'
<1> DEFINE new == [device |-> d, verb |-> verb, state |-> "queued"]
           cmd == [kind |-> "Action", action |-> Len(actions')]
<1>1. PairingTypeOK /\ Len(actions) \in Nat /\ actions \in Seq(Action)
  BY Lists DEF IInv
<1>2. /\ actions' \in Seq(Action) /\ Len(actions') = Len(actions) + 1
      /\ actions'[Len(actions')] = new /\ \A a \in As : actions'[a] = actions[a]
  BY <1>1, Sent DEF Dispatch, Action, As
<1>3. As' = As \cup {Len(actions')} /\ Len(actions') \notin As /\ As \subseteq As'
  BY <1>1, <1>2 DEF As
<1>4. CmdAdded(cmd)
  <2>1. cmd \in Cmd
    BY <1>1, <1>2 DEF Cmd
  <2>2. QED BY <1>1, <2>1, Channels DEF Dispatch
<1>5. cmd.kind = "Action" /\ cmd.action = Len(actions') /\ new.state = "queued"
  OBVIOUS
<1> HIDE DEF new, cmd
<1>6. UNCHANGED <<callbacks, reply_slot, facts, prompt, discovery, answers, dismissed>>
  BY DEF Dispatch
<1>7. PairingTypeOK'
  <2>1. \A i \in Cs' : IF IsAnswer(i)' THEN engine_cmds'[i].request \in Rs' ELSE engine_cmds'[i].action \in As'
    BY <1>1, <1>3, <1>4, <1>5, <1>6, Typed DEF Types, CmdAdded, IsAnswer, Rs
  <2>2. QED BY <1>1, <1>2, <1>3, <1>4, <1>6, <2>1, Typed DEF Types, CmdAdded, Rs, Fs, IsPrompt
<1>8. OnePending' /\ Stashed' /\ Settled' /\ StrayOnlyAfterGiveUp'
  BY <1>6 DEF IInv, OnePending, Stashed, Settled, StrayOnlyAfterGiveUp, Pending, Waiting, Rs
<1>9. Prompted'
  BY <1>4, <1>5, <1>6 DEF IInv, Prompted, CmdAdded, IsAnswer, IsPrompt, Fs
<1>10. InLine'
  BY <1>4, <1>5, <1>6 DEF IInv, InLine, CmdAdded, IsAnswer, IsPrompt, Fs
<1>11. Queued'
  <2>1. \A i \in Cs : ~IsAnswer(i) => engine_cmds[i].action \in As
    BY <1>1, Typed DEF Types
  <2>2. \A i \in Cs : engine_cmds'[i] = engine_cmds[i] /\ (IsAnswer(i)' <=> IsAnswer(i))
    BY <1>4 DEF CmdAdded, IsAnswer
  <2>3. \A i \in Cs' : i \in Cs \/ (i = Len(engine_cmds) + 1 /\ engine_cmds'[i].action = Len(actions'))
    BY <1>4, <1>5 DEF CmdAdded
  <2>4. actions'[Len(actions')].state = "queued"
    BY <1>2, <1>5
  <2>5. \A i \in Cs' : ~IsAnswer(i)' => actions'[engine_cmds'[i].action].state = "queued"
    BY <1>2, <2>1, <2>2, <2>3, <2>4 DEF IInv, Queued
  <2>6. \A i, j \in Cs' : ~IsAnswer(i)' /\ ~IsAnswer(j)' /\ engine_cmds'[i].action = engine_cmds'[j].action => i = j
    BY <1>3, <2>1, <2>2, <2>3 DEF IInv, Queued
  <2>7. QED BY <2>5, <2>6 DEF Queued
<1>12. Ended'
  BY <1>1, <1>2, <1>6, Typed DEF Types, IInv, Ended, IsPrompt, Fs, Pending, Rs
<1>13. Quiet'
  BY <1>2, <1>3, <1>5, <1>6 DEF IInv, Quiet
<1>14. NoSilentWait'
  <2>1. ASSUME NEW r \in Rs, Answerable(r) PROVE Answerable(r)'
    <3>1. CASE \E i \in Cs : IsAnswer(i)
      BY <1>4, <3>1 DEF Answerable, CmdAdded, IsAnswer, Cs
    <3>2. CASE \E a \in As : /\ <<r, a>> \in dismissed /\ callbacks[r].action # a
                             /\ callbacks[r].device = actions[a].device
      BY <1>2, <1>3, <1>6, <3>2 DEF Answerable
    <3>3. CASE prompt = r \/ \E i \in Fs : facts[i] = [kind |-> "AgentPrompt", request |-> r]
      BY <1>6, <3>3 DEF Answerable, Fs
    <3>4. QED BY <2>1, <3>1, <3>2, <3>3 DEF Answerable, IsAnswer, Cs, Fs
  <2>2. QED BY <1>6, <2>1 DEF IInv, NoSilentWait, Waiting, Rs
<1>15. QED BY <1>7, <1>8, <1>9, <1>10, <1>11, <1>12, <1>13, <1>14 DEF IInv

\* Enter, y, Esc or n: the prompt's answer goes behind the earlier ones.
LEMMA AnswerPromptStep ==
  ASSUME IInv, NEW reply \in Replies, AnswerPrompt(reply)
  PROVE  IInv'
<1> DEFINE cmd == [kind |-> "AnswerPrompt", request |-> prompt, reply |-> reply]
<1>1. PairingTypeOK /\ prompt \in Rs /\ prompt \in Nat
  BY DEF IInv, PairingTypeOK, AnswerPrompt, Rs
<1>2. CmdAdded(cmd)
  <2>1. cmd \in Cmd
    BY <1>1 DEF Cmd
  <2>2. QED BY <1>1, <2>1, Channels DEF AnswerPrompt
<1>3. cmd.kind = "AnswerPrompt" /\ cmd.request = prompt
  OBVIOUS
<1> HIDE DEF cmd
<1>4. prompt' = Nothing /\ UNCHANGED <<callbacks, reply_slot, facts, actions, discovery, answers, dismissed>>
  BY DEF AnswerPrompt
<1>5. PairingTypeOK'
  <2>1. \A i \in Cs' : IF IsAnswer(i)' THEN engine_cmds'[i].request \in Rs' ELSE engine_cmds'[i].action \in As'
    BY <1>1, <1>2, <1>3, <1>4, Typed DEF Types, CmdAdded, IsAnswer, Rs, As
  <2>2. QED BY <1>1, <1>2, <1>4, <2>1, Typed DEF Types, CmdAdded, Rs, As, Fs, IsPrompt
<1>6. OnePending' /\ Stashed' /\ Settled' /\ StrayOnlyAfterGiveUp'
  BY <1>4 DEF IInv, OnePending, Stashed, Settled, StrayOnlyAfterGiveUp, Pending, Waiting, Rs
<1>7. Prompted'
  BY <1>1, <1>2, <1>3, <1>4, PairingAssumption DEF IInv, Prompted, CmdAdded, IsAnswer, IsPrompt, Fs
<1>8. InLine'
  <2>1. prompt # Nothing /\ \A i \in Cs : i < Len(engine_cmds) + 1
    BY <1>1, PairingAssumption, Lists DEF Cs
  <2>2. QED BY <1>2, <1>3, <1>4, <2>1 DEF IInv, InLine, CmdAdded, IsAnswer, IsPrompt, Fs, Cs
<1>9. Queued'
  BY <1>2, <1>3, <1>4 DEF IInv, Queued, CmdAdded, IsAnswer
<1>10. Ended' /\ Quiet'
  BY <1>4 DEF IInv, Ended, Quiet, IsPrompt, Fs, Pending, Rs, As
<1>11. NoSilentWait'
  <2>1. \E i \in Cs' : engine_cmds'[i].kind = "AnswerPrompt"
    BY <1>2, <1>3 DEF CmdAdded
  <2>2. QED BY <1>4, <2>1 DEF IInv, NoSilentWait, Answerable, Waiting, Rs, Cs
<1>12. QED BY <1>5, <1>6, <1>7, <1>8, <1>9, <1>10, <1>11 DEF IInv

\* What is left in facts after a message was taken keeps its order.
LEMMA StillInLine ==
  ASSUME InLine, FactTaken
  PROVE  \A i \in Fs' : IsPrompt(i)' =>
           /\ prompt # Nothing => prompt < facts'[i].request
           /\ IsPrompt(1) => facts[1].request < facts'[i].request
           /\ \A j \in Fs' : IsPrompt(j)' /\ i < j => facts'[i].request < facts'[j].request
           /\ \A j \in Cs : IsAnswer(j) => engine_cmds[j].request < facts'[i].request
           /\ \A p \in answers : p[1] < facts'[i].request
<1> SUFFICES ASSUME NEW i \in Fs', IsPrompt(i)'
             PROVE  /\ prompt # Nothing => prompt < facts'[i].request
                    /\ IsPrompt(1) => facts[1].request < facts'[i].request
                    /\ \A j \in Fs' : IsPrompt(j)' /\ i < j => facts'[i].request < facts'[j].request
                    /\ \A j \in Cs : IsAnswer(j) => engine_cmds[j].request < facts'[i].request
                    /\ \A p \in answers : p[1] < facts'[i].request
  OBVIOUS
<1>1. i \in Nat /\ i + 1 \in Fs /\ IsPrompt(i + 1) /\ facts'[i] = facts[i + 1] /\ 1 \in Fs /\ i >= 1
  BY DEF FactTaken, IsPrompt, Fs
<1>2. IsPrompt(1) => facts[1].request < facts'[i].request
  BY <1>1 DEF InLine
<1>3. ASSUME NEW j \in Fs', IsPrompt(j)', i < j PROVE facts'[i].request < facts'[j].request
  <2>1. j \in Nat /\ j + 1 \in Fs /\ IsPrompt(j + 1) /\ facts'[j] = facts[j + 1]
    BY <1>3 DEF FactTaken, IsPrompt
  <2>2. i + 1 < j + 1
    BY <1>1, <1>3, <2>1
  <2>3. QED BY <1>1, <2>1, <2>2 DEF InLine
<1>4. QED BY <1>1, <1>2, <1>3 DEF InLine

\* apply(Fact::AgentPrompt): a prompt replaces those of earlier requests only.
LEMMA ShowPromptStep ==
  ASSUME IInv, ShowPrompt
  PROVE  IInv'
<1>1. PairingTypeOK /\ Types /\ FactTaken /\ IsPrompt(1) /\ prompt' = facts[1].request
  <2>1. PairingTypeOK /\ FactTaken
    BY Channels DEF IInv, ShowPrompt
  <2>2. QED BY <2>1, Typed DEF ShowPrompt, FactTaken, IsPrompt
<1>2. UNCHANGED <<callbacks, reply_slot, engine_cmds, actions, discovery, answers, dismissed>>
  BY DEF ShowPrompt
<1>3. prompt' \in Rs /\ prompt' # Nothing
  BY <1>1, PairingAssumption DEF Types, FactTaken, Rs
<1>4. PairingTypeOK'
  <2>1. \A i \in Fs' : IF IsPrompt(i)' THEN facts'[i].request \in Rs' ELSE facts'[i].action \in As'
    BY <1>1, <1>2 DEF Types, FactTaken, IsPrompt, Rs, As
  <2>2. QED BY <1>1, <1>2, <1>3, <2>1, Typed DEF Types, FactTaken, IsAnswer, Rs, As, Cs
<1>5. OnePending' /\ Stashed' /\ Settled' /\ StrayOnlyAfterGiveUp' /\ Quiet' /\ Queued'
  BY <1>2 DEF IInv, OnePending, Stashed, Settled, StrayOnlyAfterGiveUp, Quiet, Queued, IsAnswer,
    Pending, Waiting, Rs, As, Cs
<1>6. Prompted'
  BY <1>1, <1>2 DEF IInv, Prompted, FactTaken, IsPrompt, IsAnswer, Cs
<1>7. Ended'
  BY <1>1, <1>2 DEF IInv, Ended, FactTaken, IsPrompt, Pending, Rs
<1>8. InLine'
  <2>1. \A i \in Fs' : IsPrompt(i)' =>
          /\ prompt' < facts'[i].request
          /\ \A j \in Fs' : IsPrompt(j)' /\ i < j => facts'[i].request < facts'[j].request
          /\ \A j \in Cs : IsAnswer(j) => engine_cmds[j].request < facts'[i].request
          /\ \A p \in answers : p[1] < facts'[i].request
    BY <1>1, StillInLine DEF IInv
  <2>2. /\ \A j \in Cs : IsAnswer(j) => engine_cmds[j].request < prompt'
        /\ \A p \in answers : p[1] < prompt'
    BY <1>1 DEF IInv, InLine, FactTaken
  <2>3. QED BY <1>2, <1>3, <2>1, <2>2 DEF IInv, InLine, IsAnswer, Cs
<1>9. NoSilentWait'
  <2>1. ASSUME NEW r \in Rs, Waiting(r) PROVE Answerable(r)'
    <3>1. r = Len(callbacks) /\ Answerable(r)
      BY <2>1 DEF IInv, OnePending, NoSilentWait, Pending, Waiting
    <3>2. CASE prompt = r
      <4>1. r < prompt' /\ r \in Nat /\ prompt' \in 1..r
        <5>1. r < facts[1].request
          BY <1>1, <2>1, <3>2, PairingAssumption DEF IInv, InLine, FactTaken, Rs
        <5>2. QED BY <1>1, <1>3, <3>1, <5>1, Lists DEF Rs
      <4>2. QED BY <4>1
    <3>3. ASSUME NEW i \in Fs, facts[i] = [kind |-> "AgentPrompt", request |-> r]
          PROVE  Answerable(r)'
      <4>1. CASE i = 1
        BY <1>1, <3>3, <4>1 DEF Answerable
      <4>2. CASE i # 1
        <5>1. i - 1 \in Fs' /\ facts'[i - 1] = [kind |-> "AgentPrompt", request |-> r]
          BY <1>1, <3>3, <4>2 DEF FactTaken
        <5>2. QED BY <5>1 DEF Answerable, Fs
      <4>3. QED BY <4>1, <4>2
    <3>4. CASE \/ \E i \in Cs : IsAnswer(i)
               \/ \E a \in As : /\ <<r, a>> \in dismissed /\ callbacks[r].action # a
                                /\ callbacks[r].device = actions[a].device
      BY <1>2, <3>4 DEF Answerable, IsAnswer, Cs, As
    <3>5. QED BY <3>1, <3>2, <3>3, <3>4 DEF Answerable, IsAnswer, Cs, Fs
  <2>2. QED BY <1>2, <2>1 DEF IInv, NoSilentWait, Waiting, Rs
<1>10. QED BY <1>4, <1>5, <1>6, <1>7, <1>8, <1>9 DEF IInv

\* apply(Fact::ActionResult): a waiting request's prompt goes away with the
\* result of another action only, its own being under way.
LEMMA ShowResultStep ==
  ASSUME IInv, ShowResult
  PROVE  IInv'
<1> DEFINE b == facts[1].action
<1>1. PairingTypeOK /\ Types /\ FactTaken /\ ~IsPrompt(1) /\ b \in As /\ actions[b].state = "done"
  <2>1. PairingTypeOK /\ FactTaken
    BY Channels DEF IInv, ShowResult
  <2>2. ~IsPrompt(1)
    BY <2>1 DEF ShowResult, FactTaken, IsPrompt
  <2>3. QED BY <2>1, <2>2, Typed DEF IInv, Ended, Types, FactTaken
<1>2. UNCHANGED <<callbacks, reply_slot, engine_cmds, actions, discovery, answers>>
  BY DEF ShowResult
<1>3. \/ UNCHANGED <<prompt, dismissed>>
      \/ /\ prompt # Nothing /\ callbacks[prompt].device = actions[b].device /\ prompt' = Nothing
         /\ dismissed' = dismissed \cup {<<r, b>> : r \in {prompt} \cap {r \in Rs : Waiting(r)}}
  BY <1>1 DEF ShowResult, FactTaken
<1>4. prompt' \in {prompt, Nothing} /\ dismissed \subseteq dismissed' /\ dismissed' \subseteq Rs \X As
  BY <1>1, <1>3 DEF Types
<1> HIDE DEF b
<1>5. PairingTypeOK'
  <2>1. \A i \in Fs' : IF IsPrompt(i)' THEN facts'[i].request \in Rs' ELSE facts'[i].action \in As'
    BY <1>1, <1>2 DEF Types, FactTaken, IsPrompt, Rs, As
  <2>2. prompt' \in Rs' \cup {Nothing} /\ dismissed' \subseteq Rs' \X As' /\ facts' \in Seq(Fact)
    BY <1>1, <1>2, <1>4 DEF Types, FactTaken, Rs, As
  <2>3. QED BY <1>1, <1>2, <2>1, <2>2, Typed DEF Types, IsAnswer, Rs, As, Cs
<1>6. OnePending' /\ Stashed' /\ Settled' /\ StrayOnlyAfterGiveUp' /\ Quiet' /\ Queued'
  BY <1>2 DEF IInv, OnePending, Stashed, Settled, StrayOnlyAfterGiveUp, Quiet, Queued, IsAnswer,
    Pending, Waiting, Rs, As, Cs
<1>7. Prompted'
  BY <1>1, <1>2, <1>4 DEF IInv, Prompted, FactTaken, IsPrompt, IsAnswer, Cs
<1>8. Ended'
  BY <1>1, <1>2 DEF IInv, Ended, FactTaken, IsPrompt, Pending, Rs
<1>9. InLine'
  <2>1. \A i \in Fs' : IsPrompt(i)' =>
          /\ prompt # Nothing => prompt < facts'[i].request
          /\ \A j \in Fs' : IsPrompt(j)' /\ i < j => facts'[i].request < facts'[j].request
          /\ \A j \in Cs : IsAnswer(j) => engine_cmds[j].request < facts'[i].request
          /\ \A p \in answers : p[1] < facts'[i].request
    BY <1>1, StillInLine DEF IInv
  <2>2. QED BY <1>2, <1>4, <2>1 DEF IInv, InLine, IsAnswer, Cs
<1>10. NoSilentWait'
  <2>1. ASSUME NEW r \in Rs, Waiting(r) PROVE Answerable(r)'
    <3>1. Answerable(r)
      BY <2>1 DEF IInv, NoSilentWait
    <3>2. CASE prompt = r
      <4>1. CASE prompt' = prompt
        BY <3>2, <4>1 DEF Answerable
      <4>2. CASE prompt' # prompt
        <5>1. <<r, b>> \in dismissed' /\ callbacks[r].device = actions[b].device
          BY <1>3, <2>1, <3>2, <4>2
        <5>2. callbacks[r].action # b
          BY <1>1, <2>1, PairingAssumption DEF IInv, Ended, Pending, Waiting, As
        <5>3. QED BY <1>1, <1>2, <5>1, <5>2 DEF Answerable, As
      <4>3. QED BY <4>1, <4>2
    <3>3. ASSUME NEW i \in Fs, facts[i] = [kind |-> "AgentPrompt", request |-> r]
          PROVE  Answerable(r)'
      <4>1. i # 1
        BY <1>1, <3>3 DEF IsPrompt
      <4>2. QED BY <1>1, <3>3, <4>1 DEF Answerable, FactTaken, Fs
    <3>4. CASE \/ \E i \in Cs : IsAnswer(i)
               \/ \E a \in As : /\ <<r, a>> \in dismissed /\ callbacks[r].action # a
                                /\ callbacks[r].device = actions[a].device
      BY <1>2, <1>4, <3>4 DEF Answerable, IsAnswer, Cs, As
    <3>5. QED BY <3>1, <3>2, <3>3, <3>4 DEF Answerable, IsAnswer, Cs, Fs
  <2>2. QED BY <1>2, <2>1 DEF IInv, NoSilentWait, Waiting, Rs
<1>11. QED BY <1>5, <1>6, <1>7, <1>8, <1>9, <1>10 DEF IInv

-----------------------------------------------------------------------------
(* BlueZ and the agent's callbacks.                                        *)

\* A new request comes when none is pending.
LEMMA CallAgentStep ==
  ASSUME IInv, NEW d \in Devices, CallAgent(d)
  PROVE  IInv'
<1>1. PairingTypeOK /\ Types /\ Len(callbacks) \in Nat /\ \A r \in Rs : ~Pending(r)
  BY Lists, Typed DEF IInv, CallAgent
<1>2. PICK a \in {Nothing} \cup {b \in As : actions[b] = [device |-> d, verb |-> "pair", state |-> "running"]} :
        callbacks' = Append(callbacks, [device |-> d, state |-> "called", action |-> a])
  BY DEF CallAgent
<1>3. a \in As \cup {Nothing} /\ a \in Nat \cup {Nothing} /\ (a # Nothing => actions[a].state = "running")
  BY <1>2 DEF As
<1> DEFINE new == [device |-> d, state |-> "called", action |-> a]
           l == Len(callbacks) + 1
<1>4. new \in Request /\ new.state = "called" /\ new.action = a
  BY <1>3 DEF Request, States
<1>5. /\ callbacks' \in Seq(Request) /\ Len(callbacks') = l /\ callbacks'[l] = new
      /\ \A r \in Rs : callbacks'[r] = callbacks[r]
  BY <1>1, <1>2, <1>4, Sent DEF Types, Rs
<1>6. Rs' = Rs \cup {l} /\ l \notin Rs
  BY <1>1, <1>5 DEF Rs
<1> HIDE DEF new, l
<1>7. UNCHANGED <<reply_slot, facts, engine_cmds, prompt, actions, discovery, answers, dismissed>>
  BY DEF CallAgent
<1>8. PairingTypeOK'
  <2>1. \A r \in Rs' : callbacks'[r].action \in As' \cup {Nothing}
    BY <1>1, <1>3, <1>4, <1>5, <1>6, <1>7 DEF Types, As
  <2>2. QED BY <1>1, <1>5, <1>6, <1>7, <2>1, Typed DEF Types, As, Fs, Cs, IsPrompt, IsAnswer
<1>9. \A r \in Rs' : Pending(r)' => r = l
  BY <1>1, <1>5, <1>6 DEF Pending
<1>10. \A r \in Rs' : ~Waiting(r)'
  BY <1>1, <1>4, <1>5, <1>6 DEF Pending, Waiting
<1>11. OnePending' /\ Stashed' /\ NoSilentWait'
  BY <1>5, <1>9, <1>10 DEF OnePending, Stashed, NoSilentWait
<1>12. Prompted'
  BY <1>1, <1>5, <1>7, PairingAssumption DEF IInv, Prompted, Types, IsPrompt, IsAnswer, Fs, Cs
<1>13. InLine' /\ Queued' /\ Quiet'
  BY <1>7 DEF IInv, InLine, Queued, Quiet, IsPrompt, IsAnswer, Fs, Cs, As
<1>14. Settled'
  BY <1>4, <1>5, <1>6, <1>7 DEF IInv, Settled, Replies
<1>15. Ended'
  BY <1>3, <1>4, <1>5, <1>6, <1>7, <1>9 DEF IInv, Ended, Pending, IsPrompt, Fs
<1>16. StrayOnlyAfterGiveUp'
  <2>1. \A q, r \in Rs' : <<q, r>> \in answers' => q \in Rs /\ r \in Rs /\ <<q, r>> \in answers
    BY <1>1, <1>7 DEF Types
  <2>2. \A q \in Rs : \A g \in 1..q : g \in Rs
    BY <1>1 DEF Rs
  <2>3. QED BY <1>5, <2>1, <2>2 DEF IInv, StrayOnlyAfterGiveUp
<1>17. QED BY <1>8, <1>11, <1>12, <1>13, <1>14, <1>15, <1>16 DEF IInv

\* The only pending request goes into the slot, its prompt behind the others.
LEMMA StashSenderStep ==
  ASSUME IInv, NEW r \in Rs, StashSender(r)
  PROVE  IInv'
<1>1. PairingTypeOK /\ Types /\ Len(callbacks) \in Nat /\ callbacks[r].state = "called"
  BY Lists, Typed DEF IInv, StashSender
<1>2. \A p \in Rs : Pending(p) => p = r
  BY <1>1 DEF IInv, OnePending, Pending
<1>3. /\ callbacks' \in Seq(Request) /\ Len(callbacks') = Len(callbacks) /\ Rs' = Rs
      /\ callbacks'[r].state = "waiting"
      /\ \A p \in Rs : callbacks'[p].device = callbacks[p].device /\ callbacks'[p].action = callbacks[p].action
      /\ \A p \in Rs : p # r => callbacks'[p].state = callbacks[p].state
  BY <1>1, Marked DEF StashSender, States
<1> DEFINE fact == [kind |-> "AgentPrompt", request |-> r]
<1>4. FactAdded(fact)
  <2>1. fact \in Fact
    BY DEF Fact, Rs
  <2>2. QED BY <1>1, <2>1, Channels DEF StashSender
<1>5. fact.kind = "AgentPrompt" /\ fact.request = r
  OBVIOUS
<1>6. reply_slot' = r /\ UNCHANGED <<engine_cmds, prompt, actions, discovery, answers, dismissed>>
  BY DEF StashSender
<1>7. \A p \in Rs : callbacks[p].state # "called" => p < r
  <2>1. r = Len(callbacks)
    BY <1>1 DEF IInv, OnePending, Pending
  <2>2. QED BY <1>1, <2>1 DEF Rs
<1>8. NoSilentWait'
  <2>1. Answerable(r)'
    BY <1>4 DEF Answerable, FactAdded, Fs
  <2>2. \A p \in Rs' : Waiting(p)' => p = r
    BY <1>2, <1>3 DEF Pending, Waiting
  <2>3. QED BY <1>6, <2>1, <2>2 DEF NoSilentWait
<1> HIDE DEF fact
<1>9. PairingTypeOK'
  <2>1. \A i \in Fs' : IF IsPrompt(i)' THEN facts'[i].request \in Rs' ELSE facts'[i].action \in As'
    BY <1>1, <1>3, <1>4, <1>5, <1>6 DEF Types, FactAdded, IsPrompt, As
  <2>2. QED BY <1>1, <1>3, <1>4, <1>6, <2>1, Typed DEF Types, FactAdded, As, Cs, IsAnswer
<1>10. OnePending' /\ Stashed'
  BY <1>1, <1>2, <1>3, <1>6 DEF IInv, OnePending, Stashed, Pending, Waiting
<1>11. Prompted'
  <2>1. \A p \in Rs : callbacks[p].state # "called" => callbacks'[p].state # "called"
    BY <1>3
  <2>2. \A i \in Fs' : IsPrompt(i)' => callbacks'[facts'[i].request].state # "called"
    BY <1>1, <1>3, <1>4, <1>5, <2>1 DEF IInv, Prompted, Types, FactAdded, IsPrompt
  <2>3. QED BY <1>1, <1>6, <2>1, <2>2, PairingAssumption DEF IInv, Prompted, Types, IsAnswer, Cs
<1>12. InLine'
  <2>1. /\ prompt # Nothing => prompt < r
        /\ \A j \in Fs : IsPrompt(j) => facts[j].request < r
        /\ \A j \in Cs : IsAnswer(j) => engine_cmds[j].request < r
        /\ \A p \in answers : p[1] < r
    BY <1>1, <1>7 DEF IInv, Prompted, Types
  <2>2. \A i \in Fs : i < Len(facts) + 1
    BY <1>1, Lists DEF Fs
  <2>3. \A i \in Fs' : IsPrompt(i)' =>
          /\ prompt # Nothing => prompt < facts'[i].request
          /\ \A j \in Fs' : IsPrompt(j)' /\ i < j => facts'[i].request < facts'[j].request
          /\ \A j \in Cs : IsAnswer(j) => engine_cmds[j].request < facts'[i].request
          /\ \A p \in answers : p[1] < facts'[i].request
    <3>1. ASSUME NEW i \in Fs, IsPrompt(i)'
          PROVE  /\ prompt # Nothing => prompt < facts'[i].request
                 /\ \A j \in Fs' : IsPrompt(j)' /\ i < j => facts'[i].request < facts'[j].request
                 /\ \A j \in Cs : IsAnswer(j) => engine_cmds[j].request < facts'[i].request
                 /\ \A p \in answers : p[1] < facts'[i].request
      <4>1. facts'[i] = facts[i] /\ IsPrompt(i)
        BY <1>4, <3>1 DEF FactAdded, IsPrompt
      <4>2. ASSUME NEW j \in Fs', IsPrompt(j)', i < j PROVE facts'[i].request < facts'[j].request
        BY <1>4, <1>5, <2>1, <4>1, <4>2 DEF IInv, InLine, FactAdded, IsPrompt
      <4>3. QED BY <4>1, <4>2 DEF IInv, InLine
    <3>2. \A j \in Fs' : ~(Len(facts) + 1 < j)
      BY <1>1, <1>4, Lists DEF FactAdded, Fs
    <3>3. facts'[Len(facts) + 1].request = r
      BY <1>4, <1>5 DEF FactAdded
    <3>4. QED BY <1>4, <2>1, <3>1, <3>2, <3>3 DEF FactAdded
  <2>4. QED BY <1>6, <2>3 DEF IInv, InLine, IsAnswer, Cs
<1>13. Settled'
  BY <1>3, <1>6 DEF IInv, Settled, Replies
<1>14. Queued' /\ Quiet'
  BY <1>6 DEF IInv, Queued, Quiet, IsAnswer, Cs, As
<1>15. Ended'
  <2>1. \A i \in Fs' : ~IsPrompt(i)' => actions'[facts'[i].action].state = "done"
    BY <1>4, <1>5, <1>6 DEF IInv, Ended, FactAdded, IsPrompt
  <2>2. \A p \in Rs : Pending(p)' => Pending(p) /\ callbacks'[p].action = callbacks[p].action
    BY <1>1, <1>3 DEF Pending
  <2>3. QED BY <1>3, <1>6, <2>1, <2>2 DEF IInv, Ended
<1>16. StrayOnlyAfterGiveUp'
  <2>1. \A q \in Rs : \A g \in 1..q : callbacks[g].state = "gone" => callbacks'[g].state = "gone"
    BY <1>1, <1>3 DEF Rs
  <2>2. QED BY <1>3, <1>6, <2>1 DEF IInv, StrayOnlyAfterGiveUp
<1>17. QED BY <1>8, <1>9, <1>10, <1>11, <1>12, <1>13, <1>14, <1>15, <1>16 DEF IInv

\* A request that BlueZ gives up is no longer pending, and nothing else.
LEMMA GiveUpStep ==
  ASSUME IInv, NEW r \in Rs, GiveUp(r)
  PROVE  IInv'
<1>1. PairingTypeOK /\ Types /\ Len(callbacks) \in Nat /\ Pending(r)
  BY Lists, Typed DEF IInv, GiveUp
<1>2. /\ callbacks' \in Seq(Request) /\ Len(callbacks') = Len(callbacks) /\ Rs' = Rs
      /\ callbacks'[r].state = "gone"
      /\ \A p \in Rs : callbacks'[p].device = callbacks[p].device /\ callbacks'[p].action = callbacks[p].action
      /\ \A p \in Rs : p # r => callbacks'[p].state = callbacks[p].state
  BY <1>1, Marked DEF GiveUp, States
<1>3. UNCHANGED <<reply_slot, facts, engine_cmds, prompt, actions, discovery, answers, dismissed>>
  BY DEF GiveUp
<1>4. \A p \in Rs : (Pending(p)' => Pending(p)) /\ (Waiting(p)' => Waiting(p))
  BY <1>2 DEF Pending, Waiting
<1>5. PairingTypeOK'
  BY <1>1, <1>2, <1>3, Typed DEF Types, As, Fs, Cs, IsPrompt, IsAnswer
<1>6. OnePending' /\ Stashed'
  BY <1>2, <1>3, <1>4 DEF IInv, OnePending, Stashed
<1>7. Prompted'
  <2>1. \A p \in Rs : callbacks[p].state # "called" => callbacks'[p].state # "called"
    BY <1>2
  <2>2. QED BY <1>1, <1>3, <2>1, PairingAssumption
          DEF IInv, Prompted, Types, IsPrompt, IsAnswer, Fs, Cs
<1>8. InLine' /\ Queued' /\ Quiet'
  BY <1>3 DEF IInv, InLine, Queued, Quiet, IsPrompt, IsAnswer, Fs, Cs, As
<1>9. Settled'
  BY <1>2, <1>3 DEF IInv, Settled, Replies
<1>10. Ended'
  BY <1>2, <1>3, <1>4 DEF IInv, Ended, IsPrompt, Fs
<1>11. StrayOnlyAfterGiveUp'
  <2>1. \A q \in Rs : \A g \in 1..q : callbacks[g].state = "gone" => callbacks'[g].state = "gone"
    BY <1>1, <1>2 DEF Rs
  <2>2. QED BY <1>2, <1>3, <2>1 DEF IInv, StrayOnlyAfterGiveUp
<1>12. NoSilentWait'
  <2>1. ASSUME NEW p \in Rs, Answerable(p) PROVE Answerable(p)'
    <3>1. callbacks'[p].action = callbacks[p].action /\ callbacks'[p].device = callbacks[p].device
      BY <1>2
    <3>2. QED BY <1>3, <2>1, <3>1 DEF Answerable, As
  <2>2. QED BY <1>2, <1>3, <1>4, <2>1 DEF IInv, NoSilentWait
<1>13. QED BY <1>5, <1>6, <1>7, <1>8, <1>9, <1>10, <1>11, <1>12 DEF IInv

-----------------------------------------------------------------------------
(* The engine.                                                             *)

\* The order in engine_cmds, when the first one is taken.
LEMMA CmdsInLine ==
  ASSUME InLine, CmdTaken
  PROVE  \A i \in Cs' : IsAnswer(i)' =>
           /\ i + 1 \in Cs /\ IsAnswer(i + 1) /\ engine_cmds'[i] = engine_cmds[i + 1]
           /\ IsAnswer(1) => engine_cmds[1].request < engine_cmds'[i].request
           /\ \A j \in Cs' : IsAnswer(j)' /\ i < j => engine_cmds'[i].request < engine_cmds'[j].request
           /\ \A p \in answers : p[1] < engine_cmds'[i].request
<1> SUFFICES ASSUME NEW i \in Cs', IsAnswer(i)'
             PROVE  /\ i + 1 \in Cs /\ IsAnswer(i + 1) /\ engine_cmds'[i] = engine_cmds[i + 1]
                    /\ IsAnswer(1) => engine_cmds[1].request < engine_cmds'[i].request
                    /\ \A j \in Cs' : IsAnswer(j)' /\ i < j => engine_cmds'[i].request < engine_cmds'[j].request
                    /\ \A p \in answers : p[1] < engine_cmds'[i].request
  OBVIOUS
<1>1. i \in Nat /\ i + 1 \in Cs /\ IsAnswer(i + 1) /\ engine_cmds'[i] = engine_cmds[i + 1] /\ 1 \in Cs /\ i >= 1
  BY DEF CmdTaken, IsAnswer, Cs
<1>2. IsAnswer(1) => engine_cmds[1].request < engine_cmds'[i].request
  BY <1>1 DEF InLine
<1>3. ASSUME NEW j \in Cs', IsAnswer(j)', i < j PROVE engine_cmds'[i].request < engine_cmds'[j].request
  <2>1. j \in Nat /\ j + 1 \in Cs /\ IsAnswer(j + 1) /\ engine_cmds'[j] = engine_cmds[j + 1]
    BY <1>3 DEF CmdTaken, IsAnswer
  <2>2. i + 1 < j + 1
    BY <1>1, <1>3, <2>1
  <2>3. QED BY <1>1, <2>1, <2>2 DEF InLine
<1>4. QED BY <1>1, <1>2, <1>3 DEF InLine

\* The actions in engine_cmds, when the first one is taken.
LEMMA CmdsQueued ==
  ASSUME PairingTypeOK, Queued, CmdTaken
  PROVE  \A i \in Cs' : ~IsAnswer(i)' =>
           /\ engine_cmds'[i].action \in As /\ actions[engine_cmds'[i].action].state = "queued"
           /\ ~IsAnswer(1) => engine_cmds[1].action # engine_cmds'[i].action
           /\ \A j \in Cs' : ~IsAnswer(j)' /\ engine_cmds'[i].action = engine_cmds'[j].action => i = j
<1> SUFFICES ASSUME NEW i \in Cs', ~IsAnswer(i)'
             PROVE  /\ engine_cmds'[i].action \in As /\ actions[engine_cmds'[i].action].state = "queued"
                    /\ ~IsAnswer(1) => engine_cmds[1].action # engine_cmds'[i].action
                    /\ \A j \in Cs' : ~IsAnswer(j)' /\ engine_cmds'[i].action = engine_cmds'[j].action => i = j
  OBVIOUS
<1>1. i \in Nat /\ i + 1 \in Cs /\ ~IsAnswer(i + 1) /\ engine_cmds'[i] = engine_cmds[i + 1] /\ 1 \in Cs /\ i + 1 # 1
  BY DEF CmdTaken, IsAnswer, Cs
<1>2. engine_cmds'[i].action \in As /\ actions[engine_cmds'[i].action].state = "queued"
  BY <1>1, Typed DEF Queued, Types
<1>3. ~IsAnswer(1) => engine_cmds[1].action # engine_cmds'[i].action
  BY <1>1 DEF Queued
<1>4. ASSUME NEW j \in Cs', ~IsAnswer(j)', engine_cmds'[i].action = engine_cmds'[j].action PROVE i = j
  <2>1. j \in Nat /\ j + 1 \in Cs /\ ~IsAnswer(j + 1) /\ engine_cmds'[j] = engine_cmds[j + 1]
    BY <1>4 DEF CmdTaken, IsAnswer
  <2>2. i + 1 = j + 1
    BY <1>1, <1>4, <2>1 DEF Queued
  <2>3. QED BY <1>1, <2>1, <2>2
<1>5. QED BY <1>2, <1>3, <1>4

\* What an answer settles: the last request, given to it or to an earlier
\* one that was given up or settled by a stray answer.
LEMMA TakeAnswerStep ==
  ASSUME IInv, TakeAnswer
  PROVE  IInv'
<1> DEFINE q == engine_cmds[1].request
           r == reply_slot
<1>1. PairingTypeOK /\ Types /\ Len(callbacks) \in Nat /\ CmdTaken /\ IsAnswer(1) /\ q \in Rs
      /\ engine_cmds[1].reply \in Replies
  <2>1. PairingTypeOK /\ CmdTaken
    BY Channels DEF IInv, TakeAnswer
  <2>2. IsAnswer(1)
    BY <2>1 DEF TakeAnswer, CmdTaken, IsAnswer
  <2>3. engine_cmds[1].reply \in Replies
    BY <2>1, <2>2 DEF CmdTaken, Cmd, IsAnswer
  <2>4. QED BY <2>1, <2>2, <2>3, Typed, Lists DEF Types, CmdTaken
<1>2. reply_slot' = Nothing /\ UNCHANGED <<facts, prompt, actions, discovery, dismissed>>
  BY DEF TakeAnswer
<1>3. \A p \in Rs : Waiting(p) => p = reply_slot
  BY DEF IInv, Stashed
<1>4. CASE ~(reply_slot # Nothing /\ Waiting(reply_slot))
  <2>1. UNCHANGED <<callbacks, answers>>
    BY <1>4 DEF TakeAnswer
  <2>2. \A p \in Rs : ~Waiting(p)
    BY <1>3, <1>4, PairingAssumption DEF Rs
  <2>3. PairingTypeOK'
    <3>1. \A i \in Cs' : IF IsAnswer(i)' THEN engine_cmds'[i].request \in Rs' ELSE engine_cmds'[i].action \in As'
      BY <1>1, <1>2, <2>1 DEF Types, CmdTaken, IsAnswer, Rs, As
    <3>2. QED BY <1>1, <1>2, <2>1, <3>1, Typed DEF Types, CmdTaken, IsPrompt, Rs, As, Fs
  <2>4. OnePending' /\ Settled' /\ StrayOnlyAfterGiveUp' /\ Quiet' /\ Ended' /\ Stashed' /\ NoSilentWait'
    BY <1>2, <2>1, <2>2 DEF IInv, OnePending, Stashed, NoSilentWait, Settled, StrayOnlyAfterGiveUp,
      Quiet, Ended, IsPrompt, Pending, Waiting, Rs, As, Fs
  <2>5. Prompted'
    BY <1>1, <1>2, <2>1 DEF IInv, Prompted, CmdTaken, IsPrompt, IsAnswer, Fs
  <2>6. InLine'
    <3>1. \A i \in Cs' : IsAnswer(i)' => i + 1 \in Cs /\ IsAnswer(i + 1) /\ engine_cmds'[i] = engine_cmds[i + 1]
      BY <1>1, CmdsInLine DEF IInv
    <3>2. QED BY <1>1, <1>2, <2>1, <3>1, CmdsInLine DEF IInv, InLine, IsPrompt, Fs
  <2>7. Queued'
    BY <1>1, <1>2, CmdsQueued DEF IInv, Queued
  <2>8. QED BY <2>3, <2>4, <2>5, <2>6, <2>7 DEF IInv
<1>5. CASE reply_slot # Nothing /\ Waiting(reply_slot)
  <2>1. r \in Rs /\ r = Len(callbacks) /\ callbacks[r].state = "waiting"
    BY <1>1, <1>5 DEF Types, IInv, OnePending, Pending, Waiting
  <2>2. callbacks' = [callbacks EXCEPT ![r].state = engine_cmds[1].reply] /\ answers' = answers \cup {<<q, r>>}
    BY <1>1, <1>5 DEF TakeAnswer, CmdTaken
  <2>3. /\ callbacks' \in Seq(Request) /\ Len(callbacks') = Len(callbacks) /\ Rs' = Rs
        /\ callbacks'[r].state \in Replies
        /\ \A p \in Rs : callbacks'[p].device = callbacks[p].device /\ callbacks'[p].action = callbacks[p].action
        /\ \A p \in Rs : p # r => callbacks'[p].state = callbacks[p].state
    BY <1>1, <2>1, <2>2, Marked DEF States
  <2>4. callbacks'[r].state \notin {"called", "waiting", "gone"}
    BY <2>3 DEF Replies
  <2>5. \A p \in Rs : (Pending(p)' => Pending(p)) /\ ~Waiting(p)'
    BY <1>3, <2>3, <2>4 DEF Pending, Waiting
  <2>6. \A p \in answers' : p \in answers \/ (p[1] = q /\ p[2] = r)
    BY <2>2
  <2> HIDE DEF q, r
  <2>7. PairingTypeOK'
    <3>1. \A i \in Cs' : IF IsAnswer(i)' THEN engine_cmds'[i].request \in Rs' ELSE engine_cmds'[i].action \in As'
      <4>1. \A i \in Cs' : i + 1 \in Cs /\ engine_cmds'[i] = engine_cmds[i + 1]
        BY <1>1 DEF CmdTaken
      <4>2. \A i \in Cs : IF IsAnswer(i) THEN engine_cmds[i].request \in Rs ELSE engine_cmds[i].action \in As
        BY <1>1 DEF Types
      <4>3. Rs' = Rs /\ As' = As
        BY <1>2, <2>3 DEF As
      <4>4. QED BY <4>1, <4>2, <4>3 DEF IsAnswer
    <3>2. answers' \subseteq Rs' \X Rs' /\ dismissed' \subseteq Rs' \X As'
      BY <1>1, <1>2, <2>1, <2>2, <2>3 DEF Types, As
    <3>3. QED BY <1>1, <1>2, <2>3, <3>1, <3>2, Typed DEF Types, CmdTaken, IsPrompt, As, Fs
  <2>8. OnePending' /\ Stashed' /\ NoSilentWait'
    BY <2>3, <2>5 DEF IInv, OnePending, Stashed, NoSilentWait
  <2>9. Prompted'
    <3>1. \A p \in Rs : callbacks[p].state # "called" => callbacks'[p].state # "called"
      BY <2>3, <2>4
    <3>2. callbacks[q].state # "called"
      BY <1>1 DEF IInv, Prompted, CmdTaken, q
    <3>3. \A i \in Cs' : IsAnswer(i)' => callbacks'[engine_cmds'[i].request].state # "called"
      <4>1. \A i \in Cs : IsAnswer(i) => engine_cmds[i].request \in Rs /\ callbacks[engine_cmds[i].request].state # "called"
        BY <1>1 DEF IInv, Prompted, Types
      <4>2. \A i \in Cs' : IsAnswer(i)' => i + 1 \in Cs /\ IsAnswer(i + 1) /\ engine_cmds'[i] = engine_cmds[i + 1]
        BY <1>1, CmdsInLine DEF IInv
      <4>3. QED BY <3>1, <4>1, <4>2
    <3>4. \A p \in answers' : callbacks'[p[1]].state # "called"
      <4>1. \A p \in answers : p[1] \in Rs /\ callbacks[p[1]].state # "called"
        BY <1>1 DEF IInv, Prompted, Types
      <4>2. q \in Rs
        BY <1>1 DEF q
      <4>3. QED BY <2>6, <3>1, <3>2, <4>1, <4>2
    <3>5. QED BY <1>1, <1>2, <3>1, <3>3, <3>4, PairingAssumption
            DEF IInv, Prompted, Types, IsPrompt, Fs
  <2>10. InLine'
    <3>1. /\ \A i \in Fs : IsPrompt(i) => q < facts[i].request
          /\ prompt # Nothing => q < prompt
          /\ \A i \in Cs' : IsAnswer(i)' => q < engine_cmds'[i].request
      BY <1>1, CmdsInLine DEF IInv, InLine, CmdTaken, q
    <3>2. /\ \A i \in Fs : IsPrompt(i) => \A p \in answers' : p[1] < facts[i].request
          /\ prompt # Nothing => \A p \in answers' : p[1] < prompt
          /\ \A i \in Cs' : IsAnswer(i)' => \A p \in answers' : p[1] < engine_cmds'[i].request
      BY <1>1, <2>6, <3>1, CmdsInLine DEF IInv, InLine
    <3>3. \A i \in Cs' : IsAnswer(i)' => i + 1 \in Cs /\ IsAnswer(i + 1) /\ engine_cmds'[i] = engine_cmds[i + 1]
      BY <1>1, CmdsInLine DEF IInv
    <3>4. QED BY <1>1, <1>2, <3>2, <3>3, CmdsInLine DEF IInv, InLine, IsPrompt, Fs
  <2>11. Settled'
    <3>1. <<q, r>> \in answers' /\ <<q, r>>[2] = r
      BY <2>2
    <3>2. QED BY <2>2, <2>3, <3>1 DEF IInv, Settled
  <2>12. Queued'
    BY <1>1, <1>2, CmdsQueued DEF IInv, Queued
  <2>13. Ended' /\ Quiet'
    BY <1>2, <2>3, <2>5 DEF IInv, Ended, Quiet, IsPrompt, Fs, As
  <2>14. StrayOnlyAfterGiveUp'
    <3>1. \A u \in Rs : \A g \in 1..u : g \in Rs /\ (callbacks[g].state = "gone" => callbacks'[g].state = "gone")
      <4>1. \A u \in Rs : \A g \in 1..u : g \in Rs
        BY <1>1 DEF Rs
      <4>2. QED BY <2>1, <2>3, <4>1
    <3>2. q # r => q < r /\ \E g \in 1..q : callbacks[g].state = "gone"
      <4>1. SUFFICES ASSUME q # r PROVE q < r /\ \E g \in 1..q : callbacks[g].state = "gone"
        OBVIOUS
      <4>2. q < r /\ q \in Nat /\ r \in Nat /\ q \in 1..q
        BY <1>1, <2>1, <4>1 DEF Rs, q
      <4>3. callbacks[q].state \in States /\ callbacks[q].state # "called"
        BY <1>1, Lists DEF IInv, Prompted, CmdTaken, Request, q
      <4>4. ~Pending(q)
        BY <1>1, <2>1, <4>1 DEF IInv, OnePending, q
      <4>5. CASE callbacks[q].state = "gone"
        BY <4>2, <4>5
      <4>6. CASE callbacks[q].state \in Replies
        <5>1. PICK p \in answers : p[2] = q
          BY <1>1, <4>6 DEF IInv, Settled, q
        <5>2. p \in Rs \X Rs /\ p = <<p[1], p[2]>> /\ p[1] < q
          BY <1>1 DEF Types, IInv, InLine, CmdTaken, q
        <5>3. p[1] \in Nat /\ p[1] \in Rs /\ q \in Rs /\ <<p[1], q>> \in answers
          BY <1>1, <5>1, <5>2 DEF Rs, q
        <5>4. \E g \in 1..p[1] : callbacks[g].state = "gone"
          BY <4>2, <5>2, <5>3 DEF IInv, StrayOnlyAfterGiveUp
        <5>5. 1..p[1] \subseteq 1..q
          BY <4>2, <5>2, <5>3
        <5>6. QED BY <4>2, <5>4, <5>5
      <4>7. QED BY <4>3, <4>4, <4>5, <4>6 DEF States, Pending
    <3>3. ASSUME NEW u \in Rs, NEW v \in Rs, <<u, v>> \in answers'
          PROVE  u = v \/ (u < v /\ \E g \in 1..u : callbacks'[g].state = "gone")
      <4>1. CASE <<u, v>> \in answers
        BY <3>1, <4>1 DEF IInv, StrayOnlyAfterGiveUp
      <4>2. CASE u = q /\ v = r
        BY <3>1, <3>2, <4>2
      <4>3. QED BY <2>2, <3>3, <4>1, <4>2
    <3>4. QED BY <2>3, <3>3 DEF StrayOnlyAfterGiveUp
  <2>15. QED BY <2>7, <2>8, <2>9, <2>10, <2>11, <2>12, <2>13, <2>14 DEF IInv
<1>6. QED BY <1>4, <1>5

\* Discovery pauses when an action starts; a queued one is not started twice.
LEMMA StartActionStep ==
  ASSUME IInv, StartAction
  PROVE  IInv'
<1> DEFINE b == engine_cmds[1].action
<1>1. PairingTypeOK /\ Types /\ CmdTaken /\ ~IsAnswer(1) /\ b \in As /\ actions[b].state = "queued"
  <2>1. PairingTypeOK /\ CmdTaken
    BY Channels DEF IInv, StartAction
  <2>2. ~IsAnswer(1)
    BY <2>1 DEF StartAction, CmdTaken, IsAnswer
  <2>3. QED BY <2>1, <2>2, Typed DEF IInv, Queued, Types, CmdTaken
<1>2. actions' = [actions EXCEPT ![b].state = "running"]
  BY <1>1 DEF StartAction, CmdTaken
<1>3. /\ actions' \in Seq(Action) /\ As' = As /\ actions'[b].state = "running"
      /\ \A a \in As : actions'[a].device = actions[a].device
      /\ \A a \in As : a # b => actions'[a].state = actions[a].state
  BY <1>1, <1>2, Moved
<1>4. discovery' = FALSE /\ UNCHANGED <<callbacks, reply_slot, facts, prompt, answers, dismissed>>
  BY DEF StartAction
<1>5. PairingTypeOK'
  <2>1. \A i \in Cs' : IF IsAnswer(i)' THEN engine_cmds'[i].request \in Rs' ELSE engine_cmds'[i].action \in As'
    <3>1. Rs' = Rs /\ As' = As
      BY <1>3, <1>4 DEF Rs
    <3>2. QED BY <1>1, <3>1 DEF Types, CmdTaken, IsAnswer
  <2>2. QED BY <1>1, <1>3, <1>4, <2>1, Typed DEF Types, CmdTaken, IsPrompt, Rs, Fs
<1>6. OnePending' /\ Settled' /\ StrayOnlyAfterGiveUp' /\ Quiet' /\ Stashed'
  BY <1>4 DEF IInv, OnePending, Stashed, Settled, StrayOnlyAfterGiveUp, Quiet, Pending, Waiting, Rs
<1>7. Prompted'
  BY <1>1, <1>4 DEF IInv, Prompted, CmdTaken, IsPrompt, IsAnswer, Fs
<1>8. InLine'
  <2>1. \A i \in Cs' : IsAnswer(i)' => i + 1 \in Cs /\ IsAnswer(i + 1) /\ engine_cmds'[i] = engine_cmds[i + 1]
    BY <1>1, CmdsInLine DEF IInv
  <2>2. QED BY <1>1, <1>4, <2>1, CmdsInLine DEF IInv, InLine, IsPrompt, Fs
<1>9. Queued'
  <2>1. \A i \in Cs' : ~IsAnswer(i)' => actions'[engine_cmds'[i].action].state = "queued"
    BY <1>1, <1>3, CmdsQueued DEF IInv
  <2>2. QED BY <1>1, <2>1, CmdsQueued DEF IInv, Queued
<1>10. Ended'
  <2>1. \A i \in Fs : ~IsPrompt(i) => facts[i].action # b
    BY <1>1 DEF IInv, Ended
  <2>2. \A r \in Rs : callbacks[r].action \in As \cup {Nothing}
    BY <1>1 DEF Types
  <2>3. \A i \in Fs : ~IsPrompt(i) => actions'[facts[i].action].state = "done"
    BY <1>1, <1>3, <2>1 DEF IInv, Ended, Types
  <2>4. \A r \in Rs : Pending(r) /\ callbacks[r].action # Nothing =>
          actions'[callbacks[r].action].state = "running"
    BY <1>3, <2>2 DEF IInv, Ended
  <2>5. QED BY <1>4, <2>3, <2>4 DEF Ended, IsPrompt, Fs, Pending, Rs
<1>11. NoSilentWait'
  <2>1. ASSUME NEW r \in Rs, Answerable(r) PROVE Answerable(r)'
    <3>1. ASSUME NEW i \in Cs, IsAnswer(i) PROVE Answerable(r)'
      <4>1. i # 1
        BY <1>1, <3>1
      <4>2. i - 1 \in Cs' /\ engine_cmds'[i - 1].kind = "AnswerPrompt"
        BY <1>1, <3>1, <4>1 DEF CmdTaken, IsAnswer
      <4>3. QED BY <4>2 DEF Answerable, Cs
    <3>2. CASE \E a \in As : /\ <<r, a>> \in dismissed /\ callbacks[r].action # a
                             /\ callbacks[r].device = actions[a].device
      BY <1>3, <1>4, <3>2 DEF Answerable
    <3>3. CASE prompt = r \/ \E i \in Fs : facts[i] = [kind |-> "AgentPrompt", request |-> r]
      BY <1>4, <3>3 DEF Answerable, Fs
    <3>4. QED BY <2>1, <3>1, <3>2, <3>3 DEF Answerable, IsAnswer, Cs, Fs
  <2>2. QED BY <1>4, <2>1 DEF IInv, NoSilentWait, Waiting, Rs
<1>12. QED BY <1>5, <1>6, <1>7, <1>8, <1>9, <1>10, <1>11 DEF IInv

\* An action ends when its request is no longer pending.
LEMMA EndActionStep ==
  ASSUME IInv, NEW a \in As, EndAction(a)
  PROVE  IInv'
<1> DEFINE fact == [kind |-> "ActionResult", action |-> a]
<1>1. /\ PairingTypeOK /\ Types /\ actions[a].state = "running"
      /\ \A r \in Rs : callbacks[r].action = a => ~Pending(r)
  BY Typed DEF IInv, EndAction
<1>2. /\ actions' \in Seq(Action) /\ As' = As /\ actions'[a].state = "done"
      /\ \A b \in As : actions'[b].device = actions[b].device
      /\ \A b \in As : b # a => actions'[b].state = actions[b].state
  BY <1>1, Moved DEF EndAction
<1>3. FactAdded(fact)
  <2>1. fact \in Fact
    BY DEF Fact, As
  <2>2. QED BY <1>1, <2>1, Channels DEF EndAction
<1>4. fact.kind = "ActionResult" /\ fact.action = a
  OBVIOUS
<1> HIDE DEF fact
<1>5. UNCHANGED <<callbacks, reply_slot, engine_cmds, prompt, discovery, answers, dismissed>>
  BY DEF EndAction
<1>6. PairingTypeOK'
  <2>1. \A i \in Fs' : IF IsPrompt(i)' THEN facts'[i].request \in Rs' ELSE facts'[i].action \in As'
    BY <1>1, <1>2, <1>3, <1>4, <1>5 DEF Types, FactAdded, IsPrompt, Rs
  <2>2. QED BY <1>1, <1>2, <1>3, <1>5, <2>1, Typed DEF Types, FactAdded, IsAnswer, Rs, Cs
<1>7. OnePending' /\ Settled' /\ StrayOnlyAfterGiveUp' /\ Stashed'
  BY <1>5 DEF IInv, OnePending, Stashed, Settled, StrayOnlyAfterGiveUp, Pending, Waiting, Rs
<1>8. Prompted'
  BY <1>3, <1>4, <1>5 DEF IInv, Prompted, FactAdded, IsPrompt, IsAnswer, Cs
<1>9. InLine'
  BY <1>3, <1>4, <1>5 DEF IInv, InLine, FactAdded, IsPrompt, IsAnswer, Cs
<1>10. Queued'
  <2>1. \A i \in Cs : ~IsAnswer(i) => engine_cmds[i].action \in As /\ engine_cmds[i].action # a
    BY <1>1 DEF IInv, Queued, Types
  <2>2. QED BY <1>2, <1>5, <2>1 DEF IInv, Queued, IsAnswer, Cs
<1>11. Ended'
  <2>1. \A i \in Fs' : ~IsPrompt(i)' => actions'[facts'[i].action].state = "done"
    <3>1. \A i \in Fs : ~IsPrompt(i) => facts[i].action \in As /\ actions'[facts[i].action].state = "done"
      BY <1>1, <1>2 DEF IInv, Ended, Types
    <3>2. QED BY <1>2, <1>3, <1>4, <3>1 DEF FactAdded, IsPrompt
  <2>2. \A r \in Rs : Pending(r) /\ callbacks[r].action # Nothing =>
          actions'[callbacks[r].action].state = "running"
    BY <1>1, <1>2 DEF IInv, Ended, Types
  <2>3. QED BY <1>5, <2>1, <2>2 DEF Ended, Pending, Rs
<1>12. Quiet'
  BY <1>1, <1>5 DEF IInv, Quiet
<1>13. NoSilentWait'
  <2>1. ASSUME NEW r \in Rs, Answerable(r) PROVE Answerable(r)'
    <3>1. CASE \E i \in Fs : facts[i] = [kind |-> "AgentPrompt", request |-> r]
      BY <1>3, <3>1 DEF Answerable, FactAdded, Fs
    <3>2. CASE \E b \in As : /\ <<r, b>> \in dismissed /\ callbacks[r].action # b
                             /\ callbacks[r].device = actions[b].device
      BY <1>2, <1>5, <3>2 DEF Answerable
    <3>3. CASE prompt = r \/ \E i \in Cs : IsAnswer(i)
      BY <1>5, <3>3 DEF Answerable, IsAnswer, Cs
    <3>4. QED BY <2>1, <3>1, <3>2, <3>3 DEF Answerable, IsAnswer, Cs, Fs
  <2>2. QED BY <1>5, <2>1 DEF IInv, NoSilentWait, Waiting, Rs
<1>14. QED BY <1>6, <1>7, <1>8, <1>9, <1>10, <1>11, <1>12, <1>13 DEF IInv

\* inflight counts the running actions: none is left when it is 0.
LEMMA Inflight ==
  ASSUME PairingTypeOK
  PROVE  inflight = 0 <=> \A a \in As : actions[a].state # "running"
<1> DEFINE S == {a \in As : actions[a].state = "running"}
<1>1. IsFiniteSet(As)
  BY Lists, FS_Interval DEF As
<1>2. IsFiniteSet(S)
  BY <1>1, FS_Subset
<1>3. inflight = 0 <=> S = {}
  BY <1>2, FS_EmptySet DEF inflight
<1>4. QED BY <1>3

\* A step that changes discovery at most, and starts it with no action running.
LEMMA KeptBut ==
  ASSUME IInv, Quiet', discovery' \in BOOLEAN,
         UNCHANGED <<callbacks, reply_slot, facts, engine_cmds, prompt, actions, answers, dismissed>>
  PROVE  IInv'
<1>1. Rs' = Rs /\ As' = As /\ Fs' = Fs /\ Cs' = Cs
  BY DEF Rs, As, Fs, Cs
<1>2. PairingTypeOK'
  BY <1>1, Typed DEF IInv, Types, IsPrompt, IsAnswer
<1>3. OnePending' /\ Stashed' /\ Prompted' /\ Settled'
  BY <1>1 DEF IInv, OnePending, Stashed, Prompted, Settled, Pending, Waiting, IsPrompt, IsAnswer
<1>4. InLine'
  BY <1>1 DEF IInv, InLine, IsPrompt, IsAnswer
<1>5. Queued' /\ Ended'
  BY <1>1 DEF IInv, Queued, Ended, Pending, IsPrompt, IsAnswer
<1>6. StrayOnlyAfterGiveUp'
  BY <1>1 DEF IInv, StrayOnlyAfterGiveUp
<1>7. NoSilentWait'
  BY <1>1 DEF IInv, NoSilentWait, Answerable, Waiting
<1>8. QED BY <1>2, <1>3, <1>4, <1>5, <1>6, <1>7 DEF IInv

\* Discovery starts again when no action runs, and nothing else happens.
LEMMA TickStep ==
  ASSUME IInv, Tick
  PROVE  IInv'
<1>1. Quiet'
  BY Inflight DEF IInv, Tick, Quiet, As
<1>2. QED BY <1>1, KeptBut DEF Tick

-----------------------------------------------------------------------------
(***************************************************************************)
(* Prompts and answers keep the order of the requests, and what the slot   *)
(* holds, the actions and discovery fit them, in every reachable state.    *)
(***************************************************************************)
THEOREM Invariance == PairingSpec => []IInv
<1>1. PairingInit => IInv
  <2> SUFFICES ASSUME PairingInit PROVE IInv
    OBVIOUS
  <2>1. /\ callbacks \in Seq(Request) /\ actions \in Seq(Action) /\ facts \in Seq(Fact) /\ engine_cmds \in Seq(Cmd)
        /\ Rs = {} /\ As = {} /\ Fs = {} /\ Cs = {}
    BY EmptySeq DEF PairingInit, Rs, As, Fs, Cs
  <2>2. prompt = Nothing /\ reply_slot = Nothing /\ discovery = TRUE /\ answers = {} /\ dismissed = {}
    BY DEF PairingInit
  <2>3. PairingTypeOK
    BY <2>1, <2>2, Typed DEF Types
  <2>4. QED
    BY <2>1, <2>2, <2>3 DEF IInv, OnePending, Stashed, Prompted, InLine, Settled, Queued, Ended,
      Quiet, StrayOnlyAfterGiveUp, NoSilentWait
<1>2. IInv /\ [PairingNext]_pairingVars => IInv'
  <2> SUFFICES ASSUME IInv, [PairingNext]_pairingVars PROVE IInv'
    OBVIOUS
  <2>1. CASE TuiStep
    BY <2>1, DispatchStep, AnswerPromptStep, ShowPromptStep, ShowResultStep DEF TuiStep
  <2>2. CASE BluezStep
    BY <2>2, CallAgentStep, StashSenderStep, GiveUpStep DEF BluezStep
  <2>3. CASE EngineStep
    BY <2>3, TakeAnswerStep, StartActionStep, TickStep, EndActionStep DEF EngineStep
  <2>4. CASE UNCHANGED pairingVars
    <3>1. Quiet' /\ discovery' \in BOOLEAN
      BY <2>4, Typed DEF IInv, Types, Quiet, As, pairingVars
    <3>2. QED BY <2>4, <3>1, KeptBut DEF pairingVars
  <2>5. QED BY <2>1, <2>2, <2>3, <2>4 DEF PairingNext
<1>3. QED BY <1>1, <1>2, PTL DEF PairingSpec

(***************************************************************************)
(* The channels hold prompts, results, answers and actions there are.      *)
(***************************************************************************)
THEOREM TypeCorrect == PairingSpec => []PairingTypeOK
<1>1. IInv => PairingTypeOK
  BY DEF IInv
<1>2. QED BY <1>1, Invariance, PTL

(***************************************************************************)
(* ReplySlot: however many requests BlueZ makes, an answer reaches the     *)
(* request it was given for until one was given up, and never an earlier.  *)
(***************************************************************************)
THEOREM StrayOnlyAfterGiveUpCorrect == PairingSpec => []StrayOnlyAfterGiveUp
<1>1. IInv => StrayOnlyAfterGiveUp
  BY DEF IInv
<1>2. QED BY <1>1, Invariance, PTL

(***************************************************************************)
(* prompt and apply: an agent callback never waits for a user who is not   *)
(* asked, but for a prompt that another action on its device dismissed.    *)
(***************************************************************************)
THEOREM NoSilentWaitCorrect == PairingSpec => []NoSilentWait
<1>1. IInv => NoSilentWait
  BY DEF IInv
<1>2. QED BY <1>1, Invariance, PTL

(***************************************************************************)
(* run: gorm discovers only while none of any number of overlapping        *)
(* actions runs.                                                           *)
(***************************************************************************)
THEOREM DiscoveryYieldsCorrect == PairingSpec => []DiscoveryYields
<1>1. IInv => DiscoveryYields
  BY Inflight DEF IInv, Quiet, DiscoveryYields
<1>2. QED BY <1>1, Invariance, PTL
=============================================================================
