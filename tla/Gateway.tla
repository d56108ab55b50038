------------------------------ MODULE Gateway ------------------------------
(***************************************************************************)
(* Agent turns in the chat gateway (crates/openclaw-gateway and            *)
(* crates/openclaw-agent).  Each message is handled by a task of its own:  *)
(* it prepares the turn, registers it under the key of the chat, which     *)
(* cancels the turn registered there, and spawns the agent, which runs in  *)
(* rounds of an LLM call and tool calls and unregisters at its end.  The   *)
(* handler listens to the agent's events, feeds a watchdog with them, and  *)
(* answers.  On Telegram the agent can delegate work to subagents in the   *)
(* background; on Discord a delegation is a tool call that blocks.         *)
(* /cancel is a message like any other.  Each of these tasks may panic:    *)
(* texts are cut at a byte count, which need not be the boundary of a      *)
(* character.  And each may hang: in a tool, in a request to an LLM, or in *)
(* a message to the chat, none of which has a timeout.                     *)
(*                                                                         *)
(* Left out: texts, edits of the placeholder, what is stored of a session, *)
(* the other commands, and process exit, after which nothing is left.      *)
(***************************************************************************)
EXTENDS Integers, FiniteSets

CONSTANTS Telegram, Discord,  \* the chats, each with one user
          MaxConcurrent,      \* permits of the semaphore (active_tasks)
          MaxRounds,          \* MAX_TOOL_ROUNDS
          Subs,               \* bound: subagents ever delegated to
          Messages            \* bound: messages ever received

ASSUME GatewayAssumption ==
    /\ Telegram \cap Discord = {}
    /\ MaxConcurrent \in Nat /\ MaxRounds \in Nat /\ Messages \in Nat

Chats    == Telegram \cup Discord
Handlers == 1..Messages

VARIABLES
    chat,      \* chat of each message, "none" before it is received
    pc,        \* where its handler is
    agent,     \* where the agent task the handler spawned is
    rounds,    \* rounds the agent has begun
    cancelled, \* the turns whose token is cancelled
    registry,  \* task_registry: chat -> the turn to cancel, 0 without one
    orphans,   \* turns whose entry the end of another turn removed
    phase,     \* of each subagent: none, queued, starting, going, tools, over
    home,      \* the chat it was delegated from
    status,    \* its status in subagent_registry
    stopped    \* subagents whose token is cancelled

turns == <<agent, rounds, cancelled, registry, orphans>>
background == <<phase, home, status, stopped>>
vars == <<chat, pc, agent, rounds, cancelled, registry, orphans, phase, home, status,
          stopped>>

Going == {"round", "llm", "tools"}
SubGoing == {"starting", "going", "tools"}
Statuses == {"none", "running", "completed", "failed", "cancelled"}

MessagesOK ==
    /\ chat \in [Handlers -> Chats \cup {"none"}]
    /\ pc \in [Handlers -> {"none", "setup", "cancel", "cancel subs", "listen", "reply", "done"}]

TurnsOK ==
    /\ agent \in [Handlers -> Going \cup {"none", "returned", "over", "dead"}]
    /\ cancelled \subseteq Handlers
    /\ registry \in [Chats -> Handlers \cup {0}]
    /\ orphans \subseteq Handlers

RoundsOK == rounds \in [Handlers -> 0..MaxRounds + 1]

SubsOK ==
    /\ phase \in [Subs -> SubGoing \cup {"none", "queued", "over"}]
    /\ home \in [Subs -> Telegram \cup {"none"}]
    /\ status \in [Subs -> Statuses]
    /\ stopped \subseteq Subs

TypeOK == MessagesOK /\ TurnsOK /\ RoundsOK /\ SubsOK

Init ==
    /\ chat = [h \in Handlers |-> "none"]
    /\ pc = [h \in Handlers |-> "none"]
    /\ agent = [h \in Handlers |-> "none"]
    /\ rounds = [h \in Handlers |-> 0]
    /\ cancelled = {}
    /\ registry = [c \in Chats |-> 0]
    /\ orphans = {}
    /\ phase = [s \in Subs |-> "none"]
    /\ home = [s \in Subs |-> "none"]
    /\ status = [s \in Subs |-> "none"]
    /\ stopped = {}

-----------------------------------------------------------------------------
(***************************************************************************)
(* Messages and commands.                                                  *)
(***************************************************************************)
Active == {h \in Handlers : pc[h] \notin {"none", "done"}}

\* The polling loop of one platform takes the next message: without a permit,
\* or over the rate limit of its user, it is refused and forgotten; commands
\* need a permit like everything else.
Receive(h, c) ==
    /\ pc[h] = "none" /\ \A g \in Handlers : g < h => pc[g] # "none"
    /\ chat' = [chat EXCEPT ![h] = c]
    /\ \/ pc' = [pc EXCEPT ![h] = "done"]
       \/ /\ Cardinality(Active) < MaxConcurrent
          /\ \E first \in {"setup", "cancel"} : pc' = [pc EXCEPT ![h] = first]
    /\ UNCHANGED <<turns, background>>

\* A token is cancelled for good; its entry is gone from the registry.
CancelTask(c) ==
    /\ cancelled' = cancelled \cup ({registry[c]} \ {0})
    /\ registry' = [registry EXCEPT ![c] = 0]

\* /cancel: task_registry::cancel_task, then, on Telegram only, the subagents,
\* then the reply, until which the command keeps its permit.
Cancel(h) ==
    /\ pc[h] = "cancel"
    /\ CancelTask(chat[h])
    /\ pc' = [pc EXCEPT ![h] = IF chat[h] \in Telegram THEN "cancel subs" ELSE "reply"]
    /\ UNCHANGED <<chat, agent, rounds, orphans, background>>

\* cancel_all_for_chat: those with the status running.
CancelAllForChat(h) ==
    /\ pc[h] = "cancel subs"
    /\ LET mine == {s \in Subs : home[s] = chat[h] /\ status[s] = "running"} IN
       /\ stopped' = stopped \cup mine
       /\ status' = [s \in Subs |-> IF s \in mine THEN "cancelled" ELSE status[s]]
    /\ pc' = [pc EXCEPT ![h] = "reply"]
    /\ UNCHANGED <<chat, turns, phase, home>>

\* cancel_subagent(id): for /cancel <id> and for the tasks tool, whatever the
\* status of the subagent is.
CancelSubagent(s) ==
    /\ status[s] # "none"
    /\ stopped' = stopped \cup {s}
    /\ status' = [status EXCEPT ![s] = "cancelled"]
    /\ UNCHANGED <<phase, home>>

CancelOne(h) ==
    /\ pc[h] = "cancel" /\ chat[h] \in Telegram
    /\ \E s \in Subs : CancelSubagent(s)
    /\ pc' = [pc EXCEPT ![h] = "reply"]
    /\ UNCHANGED <<chat, turns>>

-----------------------------------------------------------------------------
(***************************************************************************)
(* The handler of a message: handle_message, handle_discord_message.       *)
(***************************************************************************)
\* Nothing to do, another command, a failed download, no workspace, provider or
\* database: the handler returns.
SetupFails(h) ==
    /\ pc[h] = "setup"
    /\ pc' = [pc EXCEPT ![h] = "done"]
    /\ UNCHANGED <<chat, turns, background>>

\* Variant: the turn that is there is not cancelled.
StartOverwrites(h) ==
    /\ pc[h] = "setup"
    /\ registry' = [registry EXCEPT ![chat[h]] = h]
    /\ pc' = [pc EXCEPT ![h] = "listen"]
    /\ agent' = [agent EXCEPT ![h] = "round"]
    /\ UNCHANGED <<chat, rounds, cancelled, orphans, background>>

\* register_task cancels the turn that is there and takes its entry; the
\* watchdog and the agent are spawned.
Start(h) ==
    /\ pc[h] = "setup"
    /\ cancelled' = cancelled \cup ({registry[chat[h]]} \ {0})
    /\ registry' = [registry EXCEPT ![chat[h]] = h]
    /\ pc' = [pc EXCEPT ![h] = "listen"]
    /\ agent' = [agent EXCEPT ![h] = "round"]
    /\ UNCHANGED <<chat, rounds, orphans, background>>

\* The stream loop panics while it lays out what the agent sent: the permit is
\* returned, and the agent and its watchdog go on without a listener.
HandlerPanics(h) ==
    /\ pc[h] = "listen" /\ agent[h] \in Going
    /\ pc' = [pc EXCEPT ![h] = "done"]
    /\ UNCHANGED <<chat, turns, background>>

\* The watchdog of a turn: no event for a while, or too long altogether.  When
\* the turn has returned, the token is of no use to anybody.
Watchdog(h) ==
    /\ agent[h] \in Going /\ h \notin cancelled
    /\ cancelled' = cancelled \cup {h}
    /\ UNCHANGED <<chat, pc, agent, rounds, registry, orphans, background>>

\* After Done, or the end of the events, the agent task is joined; its answer,
\* or its error, or its panic, is reported and the permit returned.  So it is
\* when a command is answered.
Answer(h) ==
    /\ pc[h] = "reply" \/ (pc[h] = "listen" /\ agent[h] \in {"over", "dead"})
    /\ pc' = [pc EXCEPT ![h] = "done"]
    /\ UNCHANGED <<chat, turns, background>>

-----------------------------------------------------------------------------
(***************************************************************************)
(* The agent: run_agent_turn_streaming, and unregister_task after it.      *)
(***************************************************************************)
Return(h) ==
    /\ agent' = [agent EXCEPT ![h] = "returned"]
    /\ UNCHANGED <<chat, pc, cancelled, registry, orphans, background>>

CallLlm(h) ==
    /\ agent' = [agent EXCEPT ![h] = "llm"]
    /\ UNCHANGED <<chat, pc, cancelled, registry, orphans, background>>

\* The workspace cannot be loaded.
LoadFails(h) ==
    /\ agent[h] = "round" /\ rounds[h] = 0
    /\ Return(h)
    /\ UNCHANGED rounds

\* Variant: the token is only looked at during the LLM call.
RoundUnchecked(h) ==
    /\ agent[h] = "round"
    /\ rounds' = [rounds EXCEPT ![h] = @ + 1]
    /\ IF rounds[h] < MaxRounds THEN CallLlm(h) ELSE Return(h)

\* Variant: the rounds are counted and not limited.
RoundUnlimited(h) ==
    /\ agent[h] = "round"
    /\ IF h \in cancelled
       THEN Return(h) /\ UNCHANGED rounds
       ELSE CallLlm(h) /\ rounds' = [rounds EXCEPT ![h] = @ + 1]

\* Before each round: the token, then the count.
Round(h) ==
    /\ agent[h] = "round"
    /\ IF h \in cancelled
       THEN Return(h) /\ UNCHANGED rounds
       ELSE /\ rounds' = [rounds EXCEPT ![h] = @ + 1]
            /\ IF rounds[h] < MaxRounds THEN CallLlm(h) ELSE Return(h)

\* The LLM answers with a text, with tool calls, or fails; its first text may
\* be rejected as a fabrication and the round repeated.  It may never answer:
\* the requests have no timeout.
LlmReplies(h) ==
    /\ agent[h] = "llm"
    /\ \E next \in {"tools", "returned"} \cup {r \in {"round"} : rounds[h] = 1} :
          agent' = [agent EXCEPT ![h] = next]
    /\ UNCHANGED <<chat, pc, rounds, cancelled, registry, orphans, background>>

\* Variant: the first call is awaited to its end.
LlmCancelledLater(h) ==
    /\ agent[h] = "llm" /\ h \in cancelled /\ rounds[h] > 1
    /\ Return(h)
    /\ UNCHANGED rounds

\* select!: the LLM call is dropped when the token is cancelled.
LlmCancelled(h) ==
    /\ agent[h] = "llm" /\ h \in cancelled
    /\ Return(h)
    /\ UNCHANGED rounds

\* The tool calls of a round, all awaited, whatever happens to the token: one
\* may cancel a subagent, one may delegate.  On Discord a delegation runs its
\* subagent within the call.
CallTool(h) ==
    /\ agent[h] = "tools"
    /\ \/ \E s \in Subs : CancelSubagent(s)
       \/ /\ chat[h] \in Telegram
          /\ \E s \in Subs :
                /\ phase[s] = "none"
                /\ phase' = [phase EXCEPT ![s] = "queued"]
                /\ home' = [home EXCEPT ![s] = chat[h]]
          /\ UNCHANGED <<status, stopped>>
    /\ UNCHANGED <<chat, pc, turns>>

\* The round is over when all its calls have returned.  There is no limit of
\* time on a call, though some tools have one of their own: the output of a
\* process is read to its end, an MCP server is written to, and the subagent of
\* a blocking delegation has neither token nor watchdog.
ToolsReturn(h) ==
    /\ agent[h] = "tools"
    /\ agent' = [agent EXCEPT ![h] = "round"]
    /\ UNCHANGED <<chat, pc, rounds, cancelled, registry, orphans, background>>

\* The agent panics, in a provider, in the summary of its tool calls, or in a
\* tool: nobody unregisters the turn.
AgentPanics(h) ==
    /\ agent[h] \in {"llm", "tools"}
    /\ agent' = [agent EXCEPT ![h] = "dead"]
    /\ UNCHANGED <<chat, pc, rounds, cancelled, registry, orphans, background>>

\* Variant: a cancelled turn is taken to have no entry any more.
UnregisterUnlessCancelled(h) ==
    LET entry == registry[chat[h]] IN
    /\ agent[h] = "returned"
    /\ agent' = [agent EXCEPT ![h] = "over"]
    /\ IF h \in cancelled THEN UNCHANGED <<registry, orphans>>
       ELSE /\ registry' = [registry EXCEPT ![chat[h]] = 0]
            /\ orphans' = orphans \cup ({entry} \ {0, h})
    /\ UNCHANGED <<chat, pc, rounds, cancelled, background>>

\* unregister_task removes the entry of the chat, whoever's it is.
Unregister(h) ==
    LET entry == registry[chat[h]] IN
    /\ agent[h] = "returned"
    /\ agent' = [agent EXCEPT ![h] = "over"]
    /\ registry' = [registry EXCEPT ![chat[h]] = 0]
    /\ orphans' = orphans \cup ({entry} \ {0, h})
    /\ UNCHANGED <<chat, pc, rounds, cancelled, background>>

-----------------------------------------------------------------------------
(***************************************************************************)
(* Subagents: the delegate listener and subagent_registry.                 *)
(***************************************************************************)
\* The listener's task cuts the description, which may be its end, and gets an
\* entry and a token.
RegisterSubagent(s) ==
    /\ phase[s] = "queued"
    /\ \/ /\ phase' = [phase EXCEPT ![s] = "starting"]
          /\ status' = [status EXCEPT ![s] = "running"]
       \/ /\ phase' = [phase EXCEPT ![s] = "over"]
          /\ UNCHANGED status
    /\ UNCHANGED <<chat, pc, turns, home, stopped>>

\* The chat is told first.  When that message is sent, or has failed, the
\* watchdog is spawned and the subagent loads its tools.
StartSubagent(s) ==
    /\ phase[s] = "starting"
    /\ phase' = [phase EXCEPT ![s] = "tools"]
    /\ UNCHANGED <<chat, pc, turns, home, status, stopped>>

SubWatchdog(s) ==
    /\ phase[s] \in {"going", "tools"} /\ s \notin stopped
    /\ stopped' = stopped \cup {s}
    /\ UNCHANGED <<chat, pc, turns, phase, home, status>>

\* complete_subagent and fail_subagent set the status whatever it was: the
\* turn of a cancelled subagent returns Ok and completes it.
SubEnds(s, as) ==
    /\ phase' = [phase EXCEPT ![s] = "over"]
    /\ status' = [status EXCEPT ![s] = as]
    /\ UNCHANGED <<chat, pc, turns, home, stopped>>

\* It looks at its token before a round and during the LLM call, and only
\* there.
SubStops(s) == phase[s] = "going" /\ s \in stopped /\ SubEnds(s, "completed")

\* Its LLM replies with a text, with tool calls, or fails.
SubReplies(s) ==
    /\ phase[s] = "going"
    /\ \/ SubEnds(s, "completed") \/ SubEnds(s, "failed")
       \/ /\ phase' = [phase EXCEPT ![s] = "tools"]
          /\ UNCHANGED <<chat, pc, turns, home, status, stopped>>

\* After its tools comes the next round, unless the token or the limit of
\* rounds forbids it.
SubToolsReturn(s) ==
    /\ phase[s] = "tools"
    /\ \/ SubEnds(s, "completed")
       \/ /\ s \notin stopped
          /\ phase' = [phase EXCEPT ![s] = "going"]
          /\ UNCHANGED <<chat, pc, turns, home, status, stopped>>

\* Its turn panics: then its status stays what it is.
SubPanics(s) == phase[s] \in {"going", "tools"} /\ SubEnds(s, status[s])

-----------------------------------------------------------------------------
AgentStep(h) == LoadFails(h) \/ Round(h) \/ LlmCancelled(h) \/ Unregister(h)

Next ==
    \/ \E h \in Handlers :
        \/ \E c \in Chats : Receive(h, c)
        \/ Cancel(h) \/ CancelAllForChat(h) \/ CancelOne(h) \/ SetupFails(h) \/ Start(h)
        \/ Answer(h) \/ HandlerPanics(h) \/ Watchdog(h)
        \/ AgentStep(h) \/ AgentPanics(h)
        \/ LlmReplies(h) \/ CallTool(h) \/ ToolsReturn(h)
    \/ \E s \in Subs :
        \/ RegisterSubagent(s) \/ StartSubagent(s) \/ SubWatchdog(s) \/ SubStops(s)
        \/ SubReplies(s) \/ SubToolsReturn(s) \/ SubPanics(s)

\* An agent that is not in a request or a tool goes on, reads of files and of
\* the database returning; a token ends an LLM call; a delegation is taken up;
\* and a watchdog fires in the end when the agent neither ends nor is cancelled:
\* the wall clock limit.  There is no fairness where nothing bounds a wait: an
\* LLM need not reply, tools need not return, and a handler may hang in any
\* message to its chat, as may the start of a subagent.
Fairness ==
    /\ \A h \in Handlers : WF_vars(AgentStep(h)) /\ WF_vars(Watchdog(h))
    /\ \A s \in Subs :
        WF_vars(RegisterSubagent(s)) /\ WF_vars(SubStops(s)) /\ WF_vars(SubWatchdog(s))

Spec == Init /\ [][Next]_vars /\ Fairness

-----------------------------------------------------------------------------
\* The turns that run and that nobody has told to stop.
Live == {h \in Handlers : agent[h] \in Going /\ h \notin cancelled}

\* A live turn can be reached: it has the entry of its chat, or a turn it had
\* superseded ended after it and took the entry away.
LiveTurnsAreKnown == \A h \in Live : registry[chat[h]] = h \/ h \in orphans

\* What /cancel reports as cancelled, and a new message auto-cancels, is a
\* turn of that chat that has not ended, or died of a panic.
EntriesAreCurrent ==
    \A c \in Chats : registry[c] # 0 =>
        /\ chat[registry[c]] = c
        /\ agent[registry[c]] \notin {"none", "over"}
        /\ registry[c] \notin orphans

\* task_registry.rs: the registry is there "to cancel running tasks via /cancel
\* [...] and to auto-cancel stale tasks".  Between the live turns and the
\* entries there is one gap and no other: the turns in orphans, which neither
\* /cancel nor the next message finds.
RegistryMatchesTurns == LiveTurnsAreKnown /\ EntriesAreCurrent

\* A cancelled turn, whoever cancelled it and wherever it was, begins no other
\* round: no further LLM call, no further tools.
NoRoundAfterCancel ==
    [][\A h \in cancelled : rounds'[h] = rounds[h]]_vars

\* Of what goes on, this much ends whatever hangs, dies or is cancelled, and
\* whether the handler listens or hangs itself: a turn that does not end hangs
\* in its tools.
TurnsEnd ==
    \A h \in Handlers : <>[](agent[h] \notin Going) \/ <>[](agent[h] = "tools")

\* And what was delegated in the background hangs in its tools, or in the
\* message that tells the chat of its start.
SubagentsEnd ==
    \A s \in Subs :
        \/ <>[](phase[s] \in {"none", "over"})
        \/ <>[](phase[s] = "starting") \/ <>[](phase[s] = "tools")

\* The watchdogs do this much: no LLM, and no sequence of rounds, keeps an
\* agent or a background subagent at work for ever.
WorkEnds == TurnsEnd /\ SubagentsEnd
=============================================================================
