--------------------------- MODULE GatewayProofs ---------------------------
(***************************************************************************)
(* Proofs about Gateway, for any chats, any number of permits, rounds,     *)
(* subagents and messages: its type invariant, that the registry names     *)
(* turns that go on and knows all but the orphans, that a cancelled turn   *)
(* begins no round, that turns of a chat do not overlap, and which         *)
(* subagents a cancel finds.                                               *)
(***************************************************************************)
EXTENDS Gateway, TLAPS

\* A message has its chat once it is received, and no turn before its handler
\* starts one.
HandlersInv ==
    \A h \in Handlers :
        /\ pc[h] # "none" => chat[h] \in Chats
        /\ pc[h] \in {"none", "setup", "cancel", "cancel subs", "reply"} => agent[h] = "none"

\* The turns nobody has begun have no rounds, and those that go on have rounds
\* left or are in their last one.
RoundsInv ==
    \A h \in Handlers :
        /\ agent[h] = "none" => rounds[h] = 0
        /\ agent[h] \in Going => rounds[h] <= MaxRounds

OrphansInv == \A h \in orphans \cup cancelled : agent[h] # "none"

IInv ==
    /\ TypeOK /\ HandlersInv /\ RoundsInv /\ OrphansInv
    /\ EntriesAreCurrent /\ LiveTurnsAreKnown

MessageStep(h) ==
    \/ \E c \in Chats : Receive(h, c)
    \/ Cancel(h) \/ CancelAllForChat(h) \/ CancelOne(h)
    \/ SetupFails(h) \/ Start(h) \/ Watchdog(h) \/ Answer(h)
    \/ HandlerPanics(h)

TurnStep(h) ==
    \/ LoadFails(h) \/ Round(h) \/ LlmReplies(h) \/ LlmCancelled(h)
    \/ CallTool(h) \/ ToolsReturn(h) \/ Unregister(h) \/ AgentPanics(h)

SubStep(s) ==
    \/ RegisterSubagent(s) \/ StartSubagent(s) \/ SubWatchdog(s) \/ SubStops(s)
    \/ SubReplies(s) \/ SubToolsReturn(s) \/ SubPanics(s)

\* The steps of the gateway, by who makes them.
LEMMA NextSteps ==
    Next <=> \/ \E h \in Handlers : MessageStep(h) \/ TurnStep(h)
             \/ \E s \in Subs : SubStep(s)
BY DEF Next, MessageStep, TurnStep, SubStep, AgentStep

-----------------------------------------------------------------------------
\* Types, one step per action.
LEMMA MessageType ==
    ASSUME IInv, NEW h \in Handlers, MessageStep(h)
    PROVE  MessagesOK' /\ TurnsOK' /\ rounds' = rounds /\ SubsOK'
<1> DEFINE Goal == MessagesOK' /\ TurnsOK' /\ rounds' = rounds /\ SubsOK'
<1> MessagesOK /\ TurnsOK /\ SubsOK /\ (pc[h] # "none" => chat[h] \in Chats)
  BY DEF IInv, TypeOK, HandlersInv
<1>1. ASSUME NEW c \in Chats, Receive(h, c) PROVE Goal
  <2>1. MessagesOK'
    BY <1>1 DEF Receive, MessagesOK
  <2>2. UNCHANGED <<turns, background>>
    BY <1>1 DEF Receive
  <2> QED
    BY <2>1, <2>2 DEF TurnsOK, SubsOK, turns, background
<1>2. CASE Cancel(h)
  <2>1. MessagesOK' /\ rounds' = rounds
    BY <1>2 DEF Cancel, MessagesOK
  <2>2. chat[h] \in Chats /\ UNCHANGED <<agent, orphans, background>>
    BY <1>2 DEF Cancel
  <2>3. registry' \in [Chats -> Handlers \cup {0}]
    BY <1>2 DEF Cancel, CancelTask, TurnsOK
  <2>4. cancelled' \subseteq Handlers
    BY <1>2, <2>2 DEF Cancel, CancelTask, TurnsOK
  <2> QED
    BY <2>1, <2>2, <2>3, <2>4 DEF TurnsOK, SubsOK, background
<1>3. CASE CancelAllForChat(h)
  BY <1>3 DEF CancelAllForChat, MessagesOK, TurnsOK, SubsOK, turns, Statuses
<1>4. CASE CancelOne(h)
  BY <1>4 DEF CancelOne, CancelSubagent, MessagesOK, TurnsOK, SubsOK, turns, Statuses
<1>5. CASE SetupFails(h) \/ Answer(h) \/ HandlerPanics(h)
  BY <1>5 DEF SetupFails, Answer, HandlerPanics, MessagesOK, TurnsOK, SubsOK, turns, background
<1>6. CASE Start(h)
  <2>1. MessagesOK' /\ rounds' = rounds
    BY <1>6 DEF Start, MessagesOK
  <2>2. chat[h] \in Chats /\ UNCHANGED <<orphans, background>>
    BY <1>6 DEF Start
  <2>3. registry' \in [Chats -> Handlers \cup {0}]
    BY <1>6 DEF Start, TurnsOK
  <2>4. cancelled' \subseteq Handlers
    BY <1>6, <2>2 DEF Start, TurnsOK
  <2>5. agent' \in [Handlers -> Going \cup {"none", "returned", "over", "dead"}]
    BY <1>6 DEF Start, TurnsOK, Going
  <2> QED
    BY <2>1, <2>2, <2>3, <2>4, <2>5 DEF TurnsOK, SubsOK, background
<1>7. CASE Watchdog(h)
  BY <1>7 DEF Watchdog, MessagesOK, TurnsOK, SubsOK, background
<1> QED
  BY <1>1, <1>2, <1>3, <1>4, <1>5, <1>6, <1>7 DEF MessageStep

\* A step of a turn keeps the types of turns.
LEMMA TurnType ==
    ASSUME IInv, NEW h \in Handlers, TurnStep(h)
    PROVE  MessagesOK' /\ TurnsOK' /\ SubsOK' /\ (rounds' = rounds \/ Round(h))
<1> DEFINE Goal == MessagesOK' /\ TurnsOK' /\ SubsOK' /\ (rounds' = rounds \/ Round(h))
<1> MessagesOK /\ TurnsOK /\ SubsOK
  BY DEF IInv, TypeOK
<1>1. CASE LoadFails(h) \/ LlmReplies(h) \/ LlmCancelled(h) \/ AgentPanics(h)
  <2>1. UNCHANGED <<chat, pc, rounds, cancelled, registry, orphans, background>>
    BY <1>1 DEF LoadFails, LlmReplies, LlmCancelled, AgentPanics, Return
  <2>2. \E a \in {"tools", "round", "returned", "dead"} : agent' = [agent EXCEPT ![h] = a]
    BY <1>1 DEF LoadFails, LlmReplies, LlmCancelled, AgentPanics, Return
  <2>3. agent' \in [Handlers -> Going \cup {"none", "returned", "over", "dead"}]
    BY <2>2 DEF TurnsOK, Going
  <2> QED
    BY <2>1, <2>3 DEF MessagesOK, TurnsOK, SubsOK, background
<1>2. CASE Round(h)
  BY <1>2 DEF Round, Return, CallLlm, MessagesOK, TurnsOK, SubsOK, background, Going
<1>3. CASE CallTool(h)
  <2>1. UNCHANGED <<chat, pc, turns>>
    BY <1>3 DEF CallTool
  <2>2. MessagesOK' /\ TurnsOK' /\ rounds' = rounds
    BY <2>1 DEF MessagesOK, TurnsOK, turns
  <2>3. ASSUME NEW s \in Subs, CancelSubagent(s) PROVE SubsOK'
    BY <2>3 DEF CancelSubagent, SubsOK, Statuses
  <2>4. ASSUME chat[h] \in Telegram, NEW s \in Subs,
               phase' = [phase EXCEPT ![s] = "queued"],
               home' = [home EXCEPT ![s] = chat[h]], UNCHANGED <<status, stopped>>
        PROVE  SubsOK'
    BY <2>4 DEF SubsOK
  <2>5. SubsOK'
    BY <1>3, <2>3, <2>4 DEF CallTool
  <2> QED
    BY <2>2, <2>5
<1>4. CASE ToolsReturn(h)
  BY <1>4 DEF ToolsReturn, MessagesOK, TurnsOK, SubsOK, background, Going
<1>5. CASE Unregister(h)
  <2>1. UNCHANGED <<chat, pc, rounds, cancelled, background>>
    BY <1>5 DEF Unregister
  <2>2. chat[h] \in Chats
    BY <1>5 DEF Unregister, IInv, HandlersInv
  <2>3. registry' \in [Chats -> Handlers \cup {0}]
    BY <1>5 DEF Unregister, TurnsOK
  <2>4. orphans' \subseteq Handlers
    BY <1>5, <2>2 DEF Unregister, TurnsOK
  <2>5. agent' \in [Handlers -> Going \cup {"none", "returned", "over", "dead"}]
    BY <1>5 DEF Unregister, TurnsOK
  <2> QED
    BY <2>1, <2>3, <2>4, <2>5 DEF MessagesOK, TurnsOK, SubsOK, background
<1> QED
  BY <1>1, <1>2, <1>3, <1>4, <1>5 DEF TurnStep

\* A step of a subagent keeps the types of subagents.
LEMMA SubType ==
    ASSUME IInv, NEW s \in Subs, SubStep(s)
    PROVE  UNCHANGED <<chat, pc, turns>> /\ SubsOK'
<1>1. UNCHANGED <<chat, pc, turns>>
  BY DEF SubStep, RegisterSubagent, StartSubagent, SubWatchdog, SubStops, SubReplies,
         SubToolsReturn, SubPanics, SubEnds
<1>2. SubsOK
  BY DEF IInv, TypeOK
<1>3. CASE RegisterSubagent(s)
  BY <1>2, <1>3 DEF RegisterSubagent, SubsOK, SubGoing, Statuses
<1>4. CASE StartSubagent(s) \/ SubWatchdog(s)
  BY <1>2, <1>4 DEF StartSubagent, SubWatchdog, SubsOK, SubGoing
<1>5. CASE SubStops(s) \/ SubPanics(s)
  BY <1>2, <1>5 DEF SubStops, SubPanics, SubEnds, SubsOK, Statuses
<1>6. CASE SubReplies(s) \/ SubToolsReturn(s)
  BY <1>2, <1>6 DEF SubReplies, SubToolsReturn, SubEnds, SubsOK, SubGoing, Statuses
<1> QED
  BY <1>3, <1>4, <1>5, <1>6 DEF SubStep

-----------------------------------------------------------------------------
\* The rounds.
LEMMA RoundStep ==
    ASSUME IInv, NEW h \in Handlers, Round(h) PROVE RoundsOK' /\ RoundsInv'
<1>1. /\ RoundsOK /\ RoundsInv /\ MaxRounds \in Nat /\ agent[h] = "round"
      /\ agent \in [Handlers -> Going \cup {"none", "returned", "over", "dead"}]
  BY GatewayAssumption DEF IInv, TypeOK, TurnsOK, Round
<1>2. rounds[h] \in 0..MaxRounds
  BY <1>1 DEF RoundsOK, RoundsInv, Going
<1>3. CASE h \in cancelled
  <2>1. rounds' = rounds /\ agent' = [agent EXCEPT ![h] = "returned"]
    BY <1>3 DEF Round, Return
  <2> QED
    BY <1>1, <2>1 DEF RoundsOK, RoundsInv, Going
<1>4. CASE h \notin cancelled
  <2>1. rounds' = [rounds EXCEPT ![h] = @ + 1]
    BY <1>4 DEF Round
  <2>2. rounds[h] + 1 \in 1..MaxRounds + 1
    BY <1>1, <1>2
  <2>3. RoundsOK'
    BY <1>1, <2>1, <2>2 DEF RoundsOK
  <2>4. CASE rounds[h] < MaxRounds /\ agent' = [agent EXCEPT ![h] = "llm"]
    BY <1>1, <1>2, <2>1, <2>3, <2>4 DEF RoundsOK, RoundsInv, Going
  <2>5. CASE agent' = [agent EXCEPT ![h] = "returned"]
    BY <1>1, <2>1, <2>3, <2>5 DEF RoundsOK, RoundsInv, Going
  <2> QED
    BY <1>4, <2>4, <2>5 DEF Round, CallLlm, Return
<1> QED
  BY <1>3, <1>4

\* Where rounds stay what they are, it is enough that nobody goes on who did
\* not before, but for a turn that starts.
LEMMA RoundsStay ==
    ASSUME IInv, rounds' = rounds,
           \A g \in Handlers : /\ agent'[g] = "none" => agent[g] = "none"
                               /\ agent'[g] \in Going => agent[g] \in Going \cup {"none"}
    PROVE  RoundsOK' /\ RoundsInv'
<1>1. RoundsOK /\ RoundsInv /\ MaxRounds \in Nat
  BY GatewayAssumption DEF IInv, TypeOK
<1>2. RoundsOK'
  BY <1>1 DEF RoundsOK
<1>3. ASSUME NEW g \in Handlers
      PROVE  /\ agent'[g] = "none" => rounds'[g] = 0
             /\ agent'[g] \in Going => rounds'[g] <= MaxRounds
  BY <1>1, <1>3 DEF RoundsInv
<1> QED
  BY <1>2, <1>3 DEF RoundsInv

\* How a step changes the turns.
LEMMA MessageAgent ==
    ASSUME IInv, NEW h \in Handlers, MessageStep(h)
    PROVE  agent' = agent \/ (agent[h] = "none" /\ agent' = [agent EXCEPT ![h] = "round"])
<1>1. Start(h) => agent[h] = "none"
  BY DEF Start, IInv, HandlersInv
<1> QED
  BY <1>1 DEF MessageStep, Receive, Cancel, CancelAllForChat, CancelOne, SetupFails, Start,
              Watchdog, Answer, HandlerPanics, turns

\* What a step of a turn may do to its agent.
LEMMA TurnAgent ==
    ASSUME IInv, NEW h \in Handlers, TurnStep(h)
    PROVE  /\ UNCHANGED <<chat, pc>>
           /\ agent[h] \in Going \cup {"returned"}
           /\ \E a \in Going \cup {"returned", "over", "dead"} :
                 /\ agent' = [agent EXCEPT ![h] = a]
                 /\ a \in Going => agent[h] \in Going
<1> agent \in [Handlers -> Going \cup {"none", "returned", "over", "dead"}]
  BY DEF IInv, TypeOK, TurnsOK
<1>1. CASE LoadFails(h) \/ LlmReplies(h) \/ LlmCancelled(h) \/ AgentPanics(h)
  BY <1>1 DEF LoadFails, LlmReplies, LlmCancelled, AgentPanics, Return, Going
<1>2. CASE Round(h)
  BY <1>2 DEF Round, Return, CallLlm, Going
<1>3. CASE CallTool(h)
  BY <1>3 DEF CallTool, turns, Going
<1>4. CASE ToolsReturn(h) \/ Unregister(h)
  BY <1>4 DEF ToolsReturn, Unregister, Going
<1> QED
  BY <1>1, <1>2, <1>3, <1>4 DEF TurnStep

\* A step of a message keeps the rounds and what is known of them.
LEMMA MessageRounds ==
    ASSUME IInv, NEW h \in Handlers, MessageStep(h) PROVE RoundsOK' /\ RoundsInv'
<1>1. agent \in [Handlers -> Going \cup {"none", "returned", "over", "dead"}]
  BY DEF IInv, TypeOK, TurnsOK
<1>2. \A g \in Handlers : /\ agent'[g] = "none" => agent[g] = "none"
                          /\ agent'[g] \in Going => agent[g] \in Going \cup {"none"}
  BY <1>1, MessageAgent
<1> QED
  BY <1>2, MessageType, RoundsStay

\* A step of a turn keeps them too: it counts a round before it begins it.
LEMMA TurnRounds ==
    ASSUME IInv, NEW h \in Handlers, TurnStep(h) PROVE RoundsOK' /\ RoundsInv'
<1>1. agent \in [Handlers -> Going \cup {"none", "returned", "over", "dead"}]
  BY DEF IInv, TypeOK, TurnsOK
<1>2. \A g \in Handlers : /\ agent'[g] = "none" => agent[g] = "none"
                          /\ agent'[g] \in Going => agent[g] \in Going \cup {"none"}
  BY <1>1, TurnAgent DEF Going
<1> QED
  BY <1>2, TurnType, RoundStep, RoundsStay

\* The handlers.
LEMMA MessageHandlers ==
    ASSUME IInv, NEW h \in Handlers, MessageStep(h) PROVE HandlersInv'
<1> MessagesOK /\ TurnsOK /\ HandlersInv
  BY DEF IInv, TypeOK
<1>1. ASSUME NEW c \in Chats, Receive(h, c) PROVE HandlersInv'
  BY <1>1 DEF Receive, HandlersInv, MessagesOK, turns
<1>2. CASE Cancel(h) \/ CancelAllForChat(h) \/ CancelOne(h)
  BY <1>2 DEF Cancel, CancelAllForChat, CancelOne, HandlersInv, MessagesOK, turns
<1>3. CASE SetupFails(h) \/ Answer(h) \/ HandlerPanics(h) \/ Watchdog(h)
  BY <1>3 DEF SetupFails, Answer, HandlerPanics, Watchdog, HandlersInv, MessagesOK, turns
<1>4. CASE Start(h)
  BY <1>4 DEF Start, HandlersInv, MessagesOK, TurnsOK
<1> QED
  BY <1>1, <1>2, <1>3, <1>4 DEF MessageStep

\* A step of a turn keeps HandlersInv.
LEMMA TurnHandlers ==
    ASSUME IInv, NEW h \in Handlers, TurnStep(h) PROVE HandlersInv'
<1> TurnsOK /\ HandlersInv
  BY DEF IInv, TypeOK
<1> QED
  BY TurnAgent DEF HandlersInv, TurnsOK, Going

-----------------------------------------------------------------------------
\* The registry and the orphans.  What each entry, each turn, must satisfy:
EntryInv(c) ==
    registry[c] # 0 => /\ chat[registry[c]] = c
                       /\ agent[registry[c]] \notin {"none", "over"}
                       /\ registry[c] \notin orphans
TurnInv(g) ==
    /\ g \in orphans \cup cancelled => agent[g] # "none"
    /\ agent[g] \in Going /\ g \notin cancelled => registry[chat[g]] = g \/ g \in orphans

RegistryInv == (\A c \in Chats : EntryInv(c)) /\ (\A g \in Handlers : TurnInv(g))

\* RegistryInv is what IInv says of the registry, in a form the steps keep.
LEMMA RegistryParts ==
    ASSUME TurnsOK
    PROVE  RegistryInv <=> OrphansInv /\ EntriesAreCurrent /\ LiveTurnsAreKnown
BY DEF TurnsOK, RegistryInv, EntryInv, TurnInv, OrphansInv, EntriesAreCurrent,
       LiveTurnsAreKnown, Live

\* Of the messages, /cancel and a new turn take an entry away, and both cancel
\* its turn.
LEMMA MessageRegistry ==
    ASSUME IInv, NEW h \in Handlers, MessageStep(h) PROVE RegistryInv'
<1> MessagesOK /\ TurnsOK /\ HandlersInv /\ RegistryInv /\ h # 0
  BY GatewayAssumption, RegistryParts DEF IInv, TypeOK, Handlers
<1>1. ASSUME NEW c \in Chats, Receive(h, c) PROVE RegistryInv'
  <2>1. agent[h] = "none"
    BY <1>1 DEF Receive, HandlersInv
  <2>2. UNCHANGED turns /\ chat' = [chat EXCEPT ![h] = c]
    BY <1>1 DEF Receive
  <2>3. ASSUME NEW d \in Chats PROVE EntryInv(d)'
    BY <2>1, <2>2, <2>3 DEF turns, MessagesOK, TurnsOK, RegistryInv, EntryInv
  <2>4. ASSUME NEW g \in Handlers PROVE TurnInv(g)'
    BY <2>1, <2>2, <2>4 DEF turns, MessagesOK, RegistryInv, TurnInv, Going
  <2> QED
    BY <2>3, <2>4 DEF RegistryInv
<1>2. CASE Cancel(h)
  <2>1. chat[h] \in Chats /\ UNCHANGED <<chat, agent, orphans>>
    BY <1>2 DEF Cancel, HandlersInv
  <2>2. /\ cancelled' = cancelled \cup ({registry[chat[h]]} \ {0})
        /\ registry' = [registry EXCEPT ![chat[h]] = 0]
    BY <1>2 DEF Cancel, CancelTask
  <2>3. ASSUME NEW d \in Chats PROVE EntryInv(d)'
    BY <2>1, <2>2, <2>3 DEF TurnsOK, RegistryInv, EntryInv
  <2>4. ASSUME NEW g \in Handlers PROVE TurnInv(g)'
    <3>1. registry[chat[h]] # 0 => agent[registry[chat[h]]] # "none"
      BY <2>1 DEF RegistryInv, EntryInv
    <3>2. g \in orphans \cup cancelled' => agent[g] # "none"
      BY <2>2, <3>1 DEF RegistryInv, TurnInv
    <3>3. ASSUME agent[g] \in Going, g \notin cancelled'
          PROVE  registry'[chat[g]] = g \/ g \in orphans
      <4>1. g # registry[chat[h]] /\ g # 0
        BY <2>2, <3>3, GatewayAssumption DEF Handlers
      <4>2. registry[chat[g]] = g \/ g \in orphans
        BY <2>2, <3>3 DEF RegistryInv, TurnInv
      <4>3. chat[g] # chat[h] => registry'[chat[g]] = registry[chat[g]]
        BY <2>2
      <4> QED
        BY <4>1, <4>2, <4>3
    <3> QED
      BY <2>1, <3>2, <3>3 DEF TurnInv
  <2> QED
    BY <2>3, <2>4 DEF RegistryInv
<1>3. CASE CancelAllForChat(h) \/ CancelOne(h) \/ SetupFails(h) \/ Answer(h)
           \/ HandlerPanics(h)
  <2>1. UNCHANGED <<chat, turns>>
    BY <1>3 DEF CancelAllForChat, CancelOne, SetupFails, Answer, HandlerPanics
  <2> QED
    BY <2>1 DEF turns, RegistryInv, EntryInv, TurnInv
<1>4. CASE Start(h)
  <2>1. h \notin orphans /\ h \notin cancelled /\ agent[h] = "none" /\ chat[h] \in Chats
    BY <1>4 DEF Start, HandlersInv, RegistryInv, TurnInv
  <2>2. /\ UNCHANGED <<chat, orphans>>
        /\ agent' = [agent EXCEPT ![h] = "round"]
        /\ cancelled' = cancelled \cup ({registry[chat[h]]} \ {0})
        /\ registry' = [registry EXCEPT ![chat[h]] = h]
    BY <1>4 DEF Start
  <2>3. ASSUME NEW c \in Chats PROVE EntryInv(c)'
    BY <2>1, <2>2, <2>3 DEF TurnsOK, RegistryInv, EntryInv
  <2>4. ASSUME NEW g \in Handlers PROVE TurnInv(g)'
    <3>1. registry[chat[h]] # 0 => agent[registry[chat[h]]] # "none"
      BY <2>1 DEF RegistryInv, EntryInv
    <3>2. CASE g = h
      BY <2>1, <2>2, <3>2 DEF TurnsOK, TurnInv
    <3>3. CASE g # h
      <4>1. agent'[g] = agent[g]
        BY <2>2, <3>3
      <4>2. g \in orphans \cup cancelled' => agent[g] # "none"
        BY <2>2, <3>1 DEF RegistryInv, TurnInv
      <4>3. agent[g] \in Going /\ g \notin cancelled' => registry[chat[g]] = g \/ g \in orphans
        BY <2>2 DEF RegistryInv, TurnInv
      <4>4. g \notin cancelled' /\ registry[chat[g]] = g => chat[g] # chat[h]
        BY <2>2, GatewayAssumption DEF Handlers
      <4>5. chat[g] # chat[h] => registry'[chat[g]] = registry[chat[g]]
        BY <2>2
      <4> QED
        BY <2>2, <4>1, <4>2, <4>3, <4>4, <4>5 DEF TurnInv
    <3> QED
      BY <3>2, <3>3
  <2> QED
    BY <2>3, <2>4 DEF RegistryInv
<1>5. CASE Watchdog(h)
  <2>1. /\ UNCHANGED <<chat, agent, registry, orphans>>
        /\ cancelled' = cancelled \cup {h} /\ agent[h] # "none"
    BY <1>5 DEF Watchdog, Going
  <2> QED
    BY <2>1 DEF RegistryInv, EntryInv, TurnInv
<1> QED
  BY <1>1, <1>2, <1>3, <1>4, <1>5 DEF MessageStep

\* Of the steps of a turn, only the last touches the registry: an entry it
\* removes is its own or makes an orphan.
LEMMA TurnRegistry ==
    ASSUME IInv, NEW h \in Handlers, TurnStep(h) PROVE RegistryInv'
<1> TurnsOK /\ HandlersInv /\ RegistryInv /\ h # 0
  BY GatewayAssumption, RegistryParts DEF IInv, TypeOK, Handlers
<1>1. CASE Unregister(h)
  <2>1. chat[h] \in Chats /\ UNCHANGED <<chat, cancelled>>
    BY <1>1 DEF Unregister, HandlersInv
  <2>2. ASSUME NEW c \in Chats PROVE EntryInv(c)'
    BY <1>1, <2>1, <2>2 DEF Unregister, TurnsOK, RegistryInv, EntryInv
  <2>3. ASSUME NEW g \in Handlers PROVE TurnInv(g)'
    BY <1>1, <2>1, <2>3 DEF Unregister, TurnsOK, RegistryInv, EntryInv, TurnInv, Going
  <2> QED
    BY <2>2, <2>3 DEF RegistryInv
<1>2. CASE ~Unregister(h)
  <2>1. UNCHANGED <<chat, cancelled, registry, orphans>>
    BY <1>2 DEF TurnStep, LoadFails, Round, LlmReplies, LlmCancelled, CallTool, ToolsReturn,
                AgentPanics, Return, CallLlm, turns
  <2>2. agent[h] \in Going
    BY <1>2 DEF TurnStep, LoadFails, Round, LlmReplies, LlmCancelled, CallTool, ToolsReturn,
                AgentPanics, Going
  <2>3. PICK a \in Going \cup {"returned", "dead"} : agent' = [agent EXCEPT ![h] = a]
    BY <1>2 DEF TurnStep, LoadFails, Round, LlmReplies, LlmCancelled, CallTool, ToolsReturn,
                AgentPanics, Return, CallLlm, Going, TurnsOK, turns
  <2>4. ASSUME NEW c \in Chats PROVE EntryInv(c)'
    BY <2>1, <2>2, <2>3, <2>4 DEF TurnsOK, RegistryInv, EntryInv, Going
  <2>5. ASSUME NEW g \in Handlers PROVE TurnInv(g)'
    BY <2>1, <2>2, <2>3, <2>5 DEF TurnsOK, RegistryInv, TurnInv, Going
  <2> QED
    BY <2>4, <2>5 DEF RegistryInv
<1> QED
  BY <1>1, <1>2

\* Steps of subagents, and stutters, leave the turns alone.
LEMMA OthersKeep ==
    ASSUME IInv, UNCHANGED <<chat, pc, turns>>, SubsOK' PROVE IInv'
<1>1. TypeOK'
  BY DEF turns, IInv, TypeOK, MessagesOK, TurnsOK, RoundsOK
<1>2. HandlersInv' /\ RoundsInv'
  BY DEF turns, IInv, HandlersInv, RoundsInv
<1>3. OrphansInv' /\ EntriesAreCurrent' /\ LiveTurnsAreKnown'
  BY DEF turns, IInv, OrphansInv, EntriesAreCurrent, LiveTurnsAreKnown, Live
<1> QED
  BY <1>1, <1>2, <1>3 DEF IInv

-----------------------------------------------------------------------------
\* The inductive invariant.
THEOREM GatewayInvariant == Spec => []IInv
<1>1. Init => IInv
  <2> SUFFICES ASSUME Init PROVE IInv
    OBVIOUS
  <2>1. MessagesOK /\ TurnsOK /\ SubsOK
    BY DEF Init, MessagesOK, TurnsOK, SubsOK, Statuses
  <2>2. RoundsOK /\ RoundsInv
    BY GatewayAssumption DEF Init, RoundsOK, RoundsInv
  <2>3. HandlersInv /\ OrphansInv /\ EntriesAreCurrent /\ LiveTurnsAreKnown
    BY DEF Init, HandlersInv, OrphansInv, EntriesAreCurrent, LiveTurnsAreKnown, Live, Going
  <2> QED
    BY <2>1, <2>2, <2>3 DEF IInv, TypeOK
<1>2. IInv /\ [Next]_vars => IInv'
  <2> SUFFICES ASSUME IInv, [Next]_vars PROVE IInv'
    OBVIOUS
  <2>1. ASSUME NEW h \in Handlers, MessageStep(h) PROVE IInv'
    <3>1. TypeOK' /\ HandlersInv' /\ RoundsInv' /\ RegistryInv'
      BY <2>1, MessageType, MessageRounds, MessageHandlers, MessageRegistry DEF TypeOK
    <3>2. (RegistryInv <=> OrphansInv /\ EntriesAreCurrent /\ LiveTurnsAreKnown)'
      BY <3>1, RegistryParts, PTL DEF TypeOK
    <3> QED
      BY <3>1, <3>2 DEF IInv
  <2>2. ASSUME NEW h \in Handlers, TurnStep(h) PROVE IInv'
    <3>1. TypeOK' /\ HandlersInv' /\ RoundsInv' /\ RegistryInv'
      BY <2>2, TurnType, TurnRounds, TurnHandlers, TurnRegistry DEF TypeOK
    <3>2. (RegistryInv <=> OrphansInv /\ EntriesAreCurrent /\ LiveTurnsAreKnown)'
      BY <3>1, RegistryParts, PTL DEF TypeOK
    <3> QED
      BY <3>1, <3>2 DEF IInv
  <2>3. ASSUME NEW s \in Subs, SubStep(s) PROVE IInv'
    BY <2>3, SubType, OthersKeep
  <2>4. CASE UNCHANGED vars
    <3>1. UNCHANGED <<chat, pc, turns>> /\ SubsOK'
      BY <2>4 DEF vars, turns, IInv, TypeOK, SubsOK
    <3> QED
      BY <3>1, OthersKeep
  <2> QED
    BY <2>1, <2>2, <2>3, <2>4, NextSteps
<1> QED
  BY <1>1, <1>2, PTL DEF Spec

\* Values have their types; in particular no turn begins more than one round
\* over the limit, which is the one that is refused.
THEOREM TypeCorrect == Spec => []TypeOK
BY GatewayInvariant, PTL DEF IInv

\* Every turn that runs and was not told to stop has the entry of its chat, or
\* lost it to the end of another turn; and what /cancel and a new message find
\* there is a turn of the chat that has not ended, or that died of a panic.
THEOREM RegistryCorrect == Spec => []RegistryMatchesTurns
BY GatewayInvariant, PTL DEF IInv, RegistryMatchesTurns

\* A cancelled turn begins no other round.
THEOREM CancelledTurnsStop == Spec => NoRoundAfterCancel
<1>1. ASSUME IInv, Next, NEW h \in cancelled PROVE rounds'[h] = rounds[h]
  <2>1. h \in Handlers /\ rounds \in [Handlers -> 0..MaxRounds + 1]
    BY <1>1 DEF IInv, TypeOK, TurnsOK, RoundsOK
  <2>2. ASSUME NEW g \in Handlers, MessageStep(g) PROVE rounds'[h] = rounds[h]
    BY <1>1, <2>2, MessageType
  <2>3. ASSUME NEW g \in Handlers, TurnStep(g) PROVE rounds'[h] = rounds[h]
    <3>1. CASE Round(g)
      BY <2>1, <3>1 DEF Round
    <3> QED
      BY <1>1, <2>3, <3>1, TurnType
  <2>4. ASSUME NEW s \in Subs, SubStep(s) PROVE rounds'[h] = rounds[h]
    BY <1>1, <2>4, SubType DEF turns
  <2> QED
    BY <1>1, <2>2, <2>3, <2>4, NextSteps
<1>2. ASSUME IInv, UNCHANGED vars, NEW h \in cancelled PROVE rounds'[h] = rounds[h]
  BY <1>2 DEF vars
<1>3. IInv /\ [Next]_vars => [\A h \in cancelled : rounds'[h] = rounds[h]]_vars
  BY <1>1, <1>2
<1> QED
  BY <1>3, GatewayInvariant, PTL DEF Spec, NoRoundAfterCancel

-----------------------------------------------------------------------------
\* Of the turns of one chat, at most one goes on that nobody told to stop, but
\* for the orphans.
OneLiveTurn == \A g, h \in Live \ orphans : chat[g] = chat[h] => g = h

\* The registry has one entry for each chat, so that a chat does not get two
\* agents at work by sending a second message, unless a turn that was superseded
\* took the entry of its successor away as it ended.
THEOREM TurnsAreSerial == Spec => []OneLiveTurn
<1>1. IInv => OneLiveTurn
  BY DEF IInv, LiveTurnsAreKnown, OneLiveTurn
<1> QED
  BY <1>1, GatewayInvariant, PTL

-----------------------------------------------------------------------------
\* Subagents: one that waits for the delegate listener has no status and no
\* token to cancel yet, one that goes on is running or reported as cancelled,
\* and what is reported as cancelled has its token cancelled.
SubInv(s) ==
    /\ phase[s] \in {"none", "queued"} => status[s] = "none" /\ s \notin stopped
    /\ phase[s] # "none" => home[s] \in Telegram
    /\ phase[s] \in SubGoing => status[s] \in {"running", "cancelled"}
    /\ status[s] = "cancelled" => s \in stopped

SubsInv == \A s \in Subs : SubInv(s)

\* cancel_subagent keeps the four facts.
LEMMA CancelKeepsSubs ==
    ASSUME SubsOK, SubsInv, NEW r \in Subs, CancelSubagent(r) PROVE SubsInv'
<1>1. SUFFICES ASSUME NEW s \in Subs PROVE SubInv(s)'
  BY DEF SubsInv
<1>2. SubInv(s) /\ UNCHANGED <<phase, home>> /\ stopped' = stopped \cup {r}
  BY DEF SubsInv, CancelSubagent
<1>3. status' = [status EXCEPT ![r] = "cancelled"] /\ status[r] # "none"
  BY DEF CancelSubagent
<1>4. CASE s = r
  BY <1>2, <1>3, <1>4 DEF SubsOK, SubInv
<1>5. CASE s # r
  BY <1>2, <1>3, <1>5 DEF SubsOK, SubInv
<1> QED
  BY <1>4, <1>5

\* So does what a subagent, its watchdog and the delegate listener do.
LEMMA SubStepKeepsSubs ==
    ASSUME SubsOK, SubsInv, NEW r \in Subs, SubStep(r) PROVE SubsInv'
<1>1. SUFFICES ASSUME NEW s \in Subs PROVE SubInv(s)'
  BY DEF SubsInv
<1>2. SubInv(s) /\ SubInv(r)
  BY DEF SubsInv
<1>3. CASE RegisterSubagent(r)
  BY <1>2, <1>3 DEF RegisterSubagent, SubsOK, SubInv, SubGoing
<1>4. CASE SubWatchdog(r)
  BY <1>2, <1>4 DEF SubWatchdog, SubsOK, SubInv, SubGoing
<1>5. ASSUME phase[r] \in SubGoing, NEW as \in {"completed", "failed", status[r]},
             SubEnds(r, as)
      PROVE  SubInv(s)'
  <2>1. /\ phase' = [phase EXCEPT ![r] = "over"] /\ status' = [status EXCEPT ![r] = as]
        /\ UNCHANGED <<home, stopped>>
    BY <1>5 DEF SubEnds
  <2>2. CASE s = r
    BY <1>2, <1>5, <2>1, <2>2 DEF SubsOK, SubInv, SubGoing
  <2>3. CASE s # r
    BY <1>2, <2>1, <2>3 DEF SubsOK, SubInv
  <2> QED
    BY <2>2, <2>3
<1>6. ASSUME phase[r] \in SubGoing, NEW p \in SubGoing,
             phase' = [phase EXCEPT ![r] = p], UNCHANGED <<home, status, stopped>>
      PROVE  SubInv(s)'
  BY <1>2, <1>6 DEF SubsOK, SubInv, SubGoing
<1>7. CASE SubStops(r) \/ SubPanics(r)
  BY <1>5, <1>7 DEF SubStops, SubPanics, SubGoing
<1>8. CASE StartSubagent(r) \/ SubReplies(r) \/ SubToolsReturn(r)
  BY <1>5, <1>6, <1>8 DEF StartSubagent, SubReplies, SubToolsReturn, SubGoing
<1> QED
  BY <1>3, <1>4, <1>7, <1>8 DEF SubStep

\* So do the steps of handlers and turns: three of them touch subagents.
LEMMA TurnsKeepSubs ==
    ASSUME SubsOK, SubsInv, NEW h \in Handlers, MessageStep(h) \/ TurnStep(h)
    PROVE  SubsInv'
<1>1. CASE UNCHANGED background
  BY <1>1 DEF background, SubsInv, SubInv
<1>2. CASE CancelAllForChat(h)
  <2>1. SUFFICES ASSUME NEW s \in Subs PROVE SubInv(s)'
    BY DEF SubsInv
  <2> DEFINE mine == {r \in Subs : home[r] = chat[h] /\ status[r] = "running"}
  <2>2. /\ SubInv(s) /\ UNCHANGED <<phase, home>> /\ stopped' = stopped \cup mine
        /\ status' = [r \in Subs |-> IF r \in mine THEN "cancelled" ELSE status[r]]
    BY <1>2 DEF SubsInv, CancelAllForChat
  <2>3. s \in mine => status[s] = "running"
    OBVIOUS
  <2> HIDE DEF mine
  <2> QED
    BY <2>2, <2>3 DEF SubInv
<1>3. CASE CancelOne(h)
  BY <1>3, CancelKeepsSubs DEF CancelOne
<1>4. CASE CallTool(h)
  <2>1. ASSUME chat[h] \in Telegram, NEW r \in Subs, phase[r] = "none",
               phase' = [phase EXCEPT ![r] = "queued"],
               home' = [home EXCEPT ![r] = chat[h]], UNCHANGED <<status, stopped>>
        PROVE  SubsInv'
    BY <2>1 DEF SubsOK, SubsInv, SubInv, SubGoing
  <2> QED
    BY <1>1, <1>4, <2>1, CancelKeepsSubs DEF CallTool
<1>5. UNCHANGED background \/ CancelAllForChat(h) \/ CancelOne(h) \/ CallTool(h)
  BY DEF MessageStep, TurnStep, Receive, Cancel, SetupFails, Start, Watchdog, Answer,
         HandlerPanics, LoadFails, Round, LlmReplies, LlmCancelled, ToolsReturn, Unregister,
         AgentPanics, Return, CallLlm
<1> QED
  BY <1>1, <1>2, <1>3, <1>4, <1>5

\* A subagent that goes on is stopped, or /cancel of the Telegram chat that
\* delegated it finds it: it is running there.  One that is still queued is
\* not found by anything.
SubsAreKnown ==
    \A s \in Subs :
        /\ phase[s] \in SubGoing => s \in stopped \/ (status[s] = "running" /\ home[s] \in Telegram)
        /\ phase[s] = "queued" => status[s] = "none" /\ s \notin stopped

\* subagent_registry: while cancel_subagent and the watchdog stop subagents in
\* any order, none that works is left out of the reach of cancel_all_for_chat,
\* but for those that the delegate listener has not registered yet.
THEOREM LiveSubsAreKnown == Spec => []SubsAreKnown
<1>1. Init => SubsInv
  BY DEF Init, SubsInv, SubInv, SubGoing
<1>2. IInv /\ SubsInv /\ [Next]_vars => SubsInv'
  <2> SUFFICES ASSUME IInv, SubsInv, [Next]_vars PROVE SubsInv'
    OBVIOUS
  <2>1. SubsOK
    BY DEF IInv, TypeOK
  <2>2. CASE UNCHANGED vars
    BY <2>2 DEF vars, SubsInv, SubInv
  <2> QED
    BY <2>1, <2>2, NextSteps, SubStepKeepsSubs, TurnsKeepSubs
<1>3. SubsInv => SubsAreKnown
  BY DEF SubsInv, SubInv, SubsAreKnown, SubGoing
<1> QED
  BY <1>1, <1>2, <1>3, GatewayInvariant, PTL DEF Spec
=============================================================================
