------------------------------ MODULE GormPairing ------------------------------
(***************************************************************************)
(* gorm's pairing prompts and actions: the TUI thread (gorm/src/tui.rs),   *)
(* the engine's loop with its action tasks and the callbacks of its        *)
(* pairing agent (gorm/src/engine.rs).  TUI and engine talk over two       *)
(* unbounded channels, facts and engine_cmds (cmds in the code); the       *)
(* agent's callbacks and the loop share one slot for the reply to a        *)
(* prompt.                                                                 *)
(*                                                                         *)
(* BlueZ is external.  As engine.rs takes for granted ("pairing is         *)
(* sequential"), it has one request at the agent at a time; it gives a     *)
(* request up when the device goes away or time runs out.  The device list *)
(* and prompts that only display a code are left out.                      *)
(***************************************************************************)
EXTENDS Naturals, Sequences, FiniteSets

CONSTANTS
  Devices,
  MaxRequests,  \* bound on the requests BlueZ makes of the agent
  MaxActions,   \* bound on the actions the user starts
  Nothing

ASSUME PairingAssumption ==
  /\ MaxRequests \in Nat /\ MaxActions \in Nat
  /\ Nothing \notin Nat \cup Devices

VARIABLES
  callbacks,  \* callbacks[r]: device, state and Pair call of the r-th agent callback
  reply_slot, \* the request whose oneshot sender is in the slot
  facts,      \* engine to TUI: prompts and action results
  engine_cmds, \* TUI to engine: answers and actions
  prompt,     \* the request whose prompt the TUI shows
  actions,    \* actions[a]: the device, verb and state of the a-th action
  discovery,  \* the engine holds the discovery stream
  answers,    \* history: <<q, r>> if the answer to q's prompt went to r
  dismissed   \* history: <<r, a>> if a's result removed the prompt of waiting r

pairingVars == <<callbacks, reply_slot, facts, engine_cmds, prompt, actions, discovery, answers, dismissed>>

Verbs == {"pair", "connect"}
Replies == {"accepted", "rejected"}

Rs == 1..Len(callbacks)
As == 1..Len(actions)
Waiting(r) == callbacks[r].state = "waiting"
Pending(r) == callbacks[r].state \in {"called", "waiting"}
inflight == Cardinality({a \in As : actions[a].state = "running"})

PairingTypeOK ==
  /\ callbacks \in Seq([device : Devices, action : Nat \cup {Nothing},
                       state : {"called", "waiting", "gone"} \cup Replies])
  /\ actions \in Seq([device : Devices, verb : Verbs, state : {"queued", "running", "done"}])
  /\ facts \in Seq([kind : {"AgentPrompt"}, request : Nat]
                   \cup [kind : {"ActionResult"}, action : Nat])
  /\ engine_cmds \in Seq([kind : {"AnswerPrompt"}, request : Nat, reply : Replies]
                  \cup [kind : {"Action"}, action : Nat])
  /\ \A r \in Rs : callbacks[r].action \in As \cup {Nothing}
  /\ \A i \in 1..Len(facts) :
       IF facts[i].kind = "AgentPrompt" THEN facts[i].request \in Rs ELSE facts[i].action \in As
  /\ \A i \in 1..Len(engine_cmds) :
       IF engine_cmds[i].kind = "AnswerPrompt" THEN engine_cmds[i].request \in Rs ELSE engine_cmds[i].action \in As
  /\ reply_slot \in Rs \cup {Nothing}
  /\ prompt \in Rs \cup {Nothing}
  /\ discovery \in BOOLEAN
  /\ answers \subseteq Rs \X Rs
  /\ dismissed \subseteq Rs \X As

PairingInit ==
  /\ callbacks = <<>> /\ reply_slot = Nothing
  /\ facts = <<>> /\ engine_cmds = <<>>
  /\ prompt = Nothing
  /\ actions = <<>>
  /\ discovery = TRUE
  /\ answers = {} /\ dismissed = {}

-----------------------------------------------------------------------------
(* The TUI.                                                                *)

\* handle_key: Enter or Alt-P on a device; a prompt would take the key.
Dispatch(d, verb) ==
  /\ prompt = Nothing
  /\ Len(actions) < MaxActions
  /\ actions' = Append(actions, [device |-> d, verb |-> verb, state |-> "queued"])
  /\ engine_cmds' = Append(engine_cmds, [kind |-> "Action", action |-> Len(actions')])
  /\ UNCHANGED <<callbacks, reply_slot, facts, prompt, discovery, answers, dismissed>>

\* mutant: the prompt stays until its result
AnswerPrompt_KeepsPrompt(reply) ==
  /\ prompt # Nothing
  /\ Len(engine_cmds) < MaxRequests
  /\ engine_cmds' = Append(engine_cmds, [kind |-> "AnswerPrompt", request |-> prompt, reply |-> reply])
  /\ UNCHANGED <<callbacks, reply_slot, facts, prompt, actions, discovery, answers, dismissed>>

\* handle_key, answer_prompt: Enter, y, Esc or n while a prompt is up.
AnswerPrompt(reply) ==
  /\ prompt # Nothing
  /\ engine_cmds' = Append(engine_cmds, [kind |-> "AnswerPrompt", request |-> prompt, reply |-> reply])
  /\ prompt' = Nothing
  /\ UNCHANGED <<callbacks, reply_slot, facts, actions, discovery, answers, dismissed>>

\* apply(Fact::AgentPrompt)
ShowPrompt ==
  /\ facts # <<>> /\ Head(facts).kind = "AgentPrompt"
  /\ prompt' = Head(facts).request
  /\ facts' = Tail(facts)
  /\ UNCHANGED <<callbacks, reply_slot, engine_cmds, actions, discovery, answers, dismissed>>

\* mutant: whatever ends dismisses whatever is shown
ShowResult_AnyDevice ==
  /\ facts # <<>> /\ Head(facts).kind = "ActionResult"
  /\ prompt' = Nothing
  /\ facts' = Tail(facts)
  /\ UNCHANGED <<callbacks, reply_slot, engine_cmds, actions, discovery, answers, dismissed>>

\* apply(Fact::ActionResult): a result for the prompt's device dismisses it.
ShowResult ==
  /\ facts # <<>> /\ Head(facts).kind = "ActionResult"
  /\ facts' = Tail(facts)
  /\ LET ended == Head(facts).action IN
       IF prompt # Nothing /\ callbacks[prompt].device = actions[ended].device
       THEN /\ prompt' = Nothing
            /\ dismissed' = dismissed \cup {<<r, ended>> : r \in {prompt} \cap {r \in Rs : Waiting(r)}}
       ELSE UNCHANGED <<prompt, dismissed>>
  /\ UNCHANGED <<callbacks, reply_slot, engine_cmds, actions, discovery, answers>>

-----------------------------------------------------------------------------
(* The agent's callbacks.                                                  *)

\* BlueZ calls the agent for d: a Pair call of ours, or the device's wish.
CallAgent(d) ==
  /\ Len(callbacks) < MaxRequests
  /\ \A r \in Rs : ~Pending(r)
  /\ \E a \in {Nothing} \cup {b \in As : actions[b] = [device |-> d, verb |-> "pair", state |-> "running"]} :
       callbacks' = Append(callbacks, [device |-> d, state |-> "called", action |-> a])
  /\ UNCHANGED <<reply_slot, facts, engine_cmds, prompt, actions, discovery, answers, dismissed>>

\* prompt(): the sender goes into the slot; one that was there is dropped.
StashSender(r) ==
  /\ callbacks[r].state = "called"
  /\ reply_slot' = r
  /\ callbacks' = [callbacks EXCEPT ![r].state = "waiting"]
  /\ facts' = Append(facts, [kind |-> "AgentPrompt", request |-> r])
  /\ UNCHANGED <<engine_cmds, prompt, actions, discovery, answers, dismissed>>

\* BlueZ cancels: the callback's future is dropped, the slot is not told.
GiveUp(r) ==
  /\ Pending(r)
  /\ callbacks' = [callbacks EXCEPT ![r].state = "gone"]
  /\ UNCHANGED <<reply_slot, facts, engine_cmds, prompt, actions, discovery, answers, dismissed>>

-----------------------------------------------------------------------------
(* The engine's loop and its action tasks.                                 *)

\* Cmd::AnswerPrompt: whoever is in the slot gets the answer.
TakeAnswer ==
  /\ engine_cmds # <<>> /\ Head(engine_cmds).kind = "AnswerPrompt"
  /\ engine_cmds' = Tail(engine_cmds)
  /\ IF reply_slot # Nothing /\ Waiting(reply_slot)
     THEN /\ callbacks' = [callbacks EXCEPT ![reply_slot].state = Head(engine_cmds).reply]
          /\ answers' = answers \cup {<<Head(engine_cmds).request, reply_slot>>}
     ELSE UNCHANGED <<callbacks, answers>>
  /\ reply_slot' = Nothing
  /\ UNCHANGED <<facts, prompt, actions, discovery, dismissed>>

\* An action: discovery pauses, the BlueZ call runs on a task of its own.
StartAction ==
  /\ engine_cmds # <<>> /\ Head(engine_cmds).kind = "Action"
  /\ engine_cmds' = Tail(engine_cmds)
  /\ discovery' = FALSE
  /\ actions' = [actions EXCEPT ![Head(engine_cmds).action].state = "running"]
  /\ UNCHANGED <<callbacks, reply_slot, facts, prompt, answers, dismissed>>

\* The call returns; a Pair call does so once its request is settled.
EndAction(a) ==
  /\ actions[a].state = "running"
  /\ \A r \in Rs : callbacks[r].action = a => ~Pending(r)
  /\ actions' = [actions EXCEPT ![a].state = "done"]
  /\ facts' = Append(facts, [kind |-> "ActionResult", action |-> a])
  /\ UNCHANGED <<callbacks, reply_slot, engine_cmds, prompt, discovery, answers, dismissed>>

\* mutant: one action's end is taken for the end of all
Tick_OneEnded ==
  /\ ~discovery /\ \E a \in As : actions[a].state = "done"
  /\ discovery' = TRUE
  /\ UNCHANGED <<callbacks, reply_slot, facts, engine_cmds, prompt, actions, answers, dismissed>>

\* A tick that starts discovery again; a refused attempt changes nothing.
Tick ==
  /\ ~discovery /\ inflight = 0
  /\ discovery' = TRUE
  /\ UNCHANGED <<callbacks, reply_slot, facts, engine_cmds, prompt, actions, answers, dismissed>>
-----------------------------------------------------------------------------
TuiStep ==
  \/ \E d \in Devices, verb \in Verbs : Dispatch(d, verb)
  \/ \E reply \in Replies : AnswerPrompt(reply)
  \/ ShowPrompt \/ ShowResult

BluezStep ==
  \/ \E d \in Devices : CallAgent(d)
  \/ \E r \in Rs : StashSender(r) \/ GiveUp(r)

EngineStep == TakeAnswer \/ StartAction \/ Tick \/ \E a \in As : EndAction(a)

PairingNext == TuiStep \/ BluezStep \/ EngineStep

PairingSpec == PairingInit /\ [][PairingNext]_pairingVars

-----------------------------------------------------------------------------
(***************************************************************************)
(* Every answer goes to the request whose prompt the user saw until BlueZ  *)
(* gives a request up.  From then on one answer may be late, and as it     *)
(* leaves the next prompt up, so may the one after it: answers then go to  *)
(* later requests than they were given for, never to earlier ones.         *)
(***************************************************************************)
StrayOnlyAfterGiveUp == \A q, r \in Rs : <<q, r>> \in answers =>
  q = r \/ (q < r /\ \E g \in 1..q : callbacks[g].state = "gone")

(***************************************************************************)
(* A request that waits for the user is one the user can answer: its       *)
(* prompt is up or on its way, or an answer is.  The exception is a prompt *)
(* dismissed by the result of another action on the same device; the       *)
(* result of the Pair call that asked never comes while its prompt is      *)
(* needed.                                                                 *)
(***************************************************************************)
Answerable(r) ==
  \/ prompt = r
  \/ \E i \in 1..Len(facts) : facts[i] = [kind |-> "AgentPrompt", request |-> r]
  \/ \E i \in 1..Len(engine_cmds) : engine_cmds[i].kind = "AnswerPrompt"
  \/ \E a \in As : /\ <<r, a>> \in dismissed
                   /\ callbacks[r].action # a
                   /\ callbacks[r].device = actions[a].device

NoSilentWait == \A r \in Rs : Waiting(r) => reply_slot = r /\ Answerable(r)

(***************************************************************************)
(* "Discovery is paused while any is running": no connect or pair call is  *)
(* under way while gorm discovers, however actions overlap.                *)
(***************************************************************************)
DiscoveryYields == discovery => inflight = 0

(***************************************************************************)
(* engine.rs, ReplySlot: "pairing is sequential, so one slot suffices",    *)
(* and run: "Route a user's answer to the waiting agent callback".  An     *)
(* answer only ever settles the request whose prompt it answers.           *)
(***************************************************************************)
AnswerIsForItsRequest == \A q, r \in Rs : <<q, r>> \in answers => q = r
=============================================================================
