----------------------------- MODULE ChatSession -----------------------------
(***************************************************************************)
(* One chat session: the requests of its web sockets with the activeReqs   *)
(* table that admits and cancels them (channel/web.go), Agent.Chat with    *)
(* its tool loop (agent/agent.go), the messages it keeps                   *)
(* (session/store.go) and the handlers that delete them (api/sessions.go). *)
(* POST /api/chat (api/chat.go) calls the same Agent.Chat and is not in    *)
(* activeReqs.                                                             *)
(*                                                                         *)
(* One action is one SQL statement, one critical section of wc.mu or one   *)
(* return of a provider or a tool.                                         *)
(***************************************************************************)
EXTENDS Naturals, Sequences

CONSTANTS
  Requests,      \* chat requests
  Http,          \* those that may come by HTTP instead of a web socket
  None,          \* no entry in activeReqs
  MaxToolRounds, \* Agent.maxToolRounds
  MaxCalls,      \* bound on the tool calls of one response
  HistoryLimit,  \* messages Chat loads (50 in the code)
  MaxMishaps     \* bound on the deletions by the user, failing statements and crashes

ASSUME ChatAssumption ==
  /\ None \notin Requests
  /\ Http \subseteq Requests
  /\ MaxToolRounds \in Nat
  /\ MaxCalls \in Nat \ {0}
  /\ HistoryLimit \in Nat \ {0}
  /\ MaxMishaps \in Nat

VARIABLES
  exists,      \* is the session in the table sessions?
  log,         \* its messages, by id
  web,         \* requests that came over a web socket
  activeReqs,  \* the request whose cancel function is registered, or None
  cancelled,   \* requests whose context is done
  pc,          \* request |-> where its goroutine stands
  round,       \* request |-> round of its tool loop
  todo,        \* request |-> tool calls of this round not executed yet
  wrote,       \* request |-> messages it has written, which number them
  pending,     \* request |-> pendingMsgIDs
  outcome,     \* request |-> what Chat returned
  marred,      \* history: requests one of whose statements failed
  mixed,       \* history: requests that overlapped another, or lost a message to the user
  mishaps      \* number of deletions, failures and crashes so far

loop == <<round, todo, outcome>>
vars == <<exists, log, web, activeReqs, cancelled, pc, loop, wrote, pending, marred, mixed, mishaps>>

Kinds == {"user", "call", "result", "answer", "cancelled"}
Message == [by : Requests, n : Nat, kind : Kinds, round : 0..MaxToolRounds]

\* Chat has been called and has not returned.
InChat == {"start", "opened", "saved", "round", "provider", "tools", "tool", "cleanup"}
InFlight == InChat \cup {"returned"}

TypeOK ==
  /\ exists \in BOOLEAN
  /\ log \in Seq(Message)
  /\ web \subseteq Requests
  /\ activeReqs \in web \cup {None}
  /\ cancelled \subseteq Requests
  /\ pc \in [Requests -> InFlight \cup {"idle", "done", "dead"}]
  /\ round \in [Requests -> 0..MaxToolRounds]
  /\ todo \in [Requests -> 0..MaxCalls]
  /\ wrote \in [Requests -> Nat]
  /\ pending \in [Requests -> Seq(Message)]
  /\ outcome \in [Requests -> {"none", "answered", "cancelled", "failed"}]
  /\ marred \subseteq Requests
  /\ mixed \subseteq Requests
  /\ mishaps \in Nat

Init ==
  /\ exists = FALSE
  /\ log = <<>>
  /\ web = {}
  /\ activeReqs = None
  /\ cancelled = {}
  /\ pc = [q \in Requests |-> "idle"]
  /\ round = [q \in Requests |-> 0]
  /\ todo = [q \in Requests |-> 0]
  /\ wrote = [q \in Requests |-> 0]
  /\ pending = [q \in Requests |-> <<>>]
  /\ outcome = [q \in Requests |-> "none"]
  /\ marred = {}
  /\ mixed = {}
  /\ mishaps = 0

-----------------------------------------------------------------------------
(* The session store *)

Mishap == mishaps < MaxMishaps /\ mishaps' = mishaps + 1

\* The INSERT of a message: without its session it breaks the foreign key.  Chat
\* drops its error; only a message that got an id can be tracked.
Insert(q, kind, tracked) ==
  LET m == [by |-> q, n |-> wrote[q] + 1, kind |-> kind, round |-> round[q]]
  IN  \/ /\ exists
         /\ log' = Append(log, m)
         /\ wrote' = [wrote EXCEPT ![q] = @ + 1]
         /\ pending' = IF tracked THEN [pending EXCEPT ![q] = Append(@, m)] ELSE pending
         /\ UNCHANGED <<marred, mishaps>>
      \/ /\ ~exists
         /\ UNCHANGED <<log, wrote, pending, marred, mishaps>>
      \/ /\ exists
         /\ Mishap
         /\ marred' = marred \cup {q}
         /\ UNCHANGED <<log, wrote, pending>>

AddMessage(q, kind) == Insert(q, kind, FALSE)

\* trackMsg(AddMessage(...)) adds the id to pendingMsgIDs.
trackMsg(q, kind) == Insert(q, kind, TRUE)

\* DELETE ... WHERE id = ?, and a message has an id of its own.
Without(m) ==
  IF \A i \in DOMAIN log : log[i] # m THEN log
  ELSE LET i == CHOOSE i \in DOMAIN log : log[i] = m
       IN  [k \in 1 .. Len(log) - 1 |-> log[IF k < i THEN k ELSE k + 1]]

\* GetMessages: the last HistoryLimit of them.
GetMessages ==
  IF Len(log) <= HistoryLimit THEN log
  ELSE SubSeq(log, Len(log) - HistoryLimit + 1, Len(log))

-----------------------------------------------------------------------------
(* BuildMessages *)

\* inToolSequence when the loop reaches h[i]: the last message before it that is
\* not a tool result is an assistant message with tool calls.
InToolSequence(h, i) ==
  \E j \in 1..(i - 1) :
    /\ h[j].kind = "call"
    /\ \A k \in (j + 1)..(i - 1) : h[k].kind = "result"

\* Tool results outside a tool sequence are dropped.
BuildMessages(h) ==
  LET keep[i \in 0..Len(h)] ==
        IF i = 0 THEN <<>>
        ELSE IF h[i].kind = "result" /\ ~InToolSequence(h, i)
             THEN keep[i - 1]
             ELSE Append(keep[i - 1], h[i])
  IN  keep[Len(h)]

AllButLast(h) == IF h = <<>> THEN <<>> ELSE SubSeq(h, 1, Len(h) - 1)

-----------------------------------------------------------------------------
(* Web sockets *)

\* History: other requests may write between this one's messages from now on.
Arrives(q) ==
  LET others == {r \in Requests : pc[r] \in InChat}
  IN  /\ pc' = [pc EXCEPT ![q] = "start"]
      /\ mixed' = IF others = {} THEN mixed ELSE mixed \cup others \cup {q}

\* A chat message is rejected while activeReqs has an entry for the session.
Receive(q) ==
  /\ pc[q] = "idle"
  /\ activeReqs = None
  /\ web' = web \cup {q}
  /\ activeReqs' = q
  /\ Arrives(q)
  /\ UNCHANGED <<exists, log, cancelled, loop, wrote, pending, marred, mishaps>>

\* handleChat, handleChatWithFile.
handleChat(q) ==
  /\ q \in Http
  /\ pc[q] = "idle"
  /\ Arrives(q)
  /\ UNCHANGED <<web, exists, log, activeReqs, cancelled, loop, wrote, pending, marred, mishaps>>

\* A "cancel" message.
Cancel ==
  /\ activeReqs # None
  /\ cancelled' = cancelled \cup {activeReqs}
  /\ activeReqs' = None
  /\ UNCHANGED <<web, mixed, exists, log, pc, loop, wrote, pending, marred, mishaps>>

\* The connection of a request ends, and its context with it.
Disconnect(q) ==
  /\ pc[q] \in InFlight
  /\ q \notin cancelled
  /\ cancelled' = cancelled \cup {q}
  /\ UNCHANGED <<web, mixed, exists, log, activeReqs, pc, loop, wrote, pending, marred, mishaps>>

\* Chat has returned; the goroutine ends and its locals are gone.
End(q) ==
  /\ pc[q] = "returned"
  /\ pc' = [pc EXCEPT ![q] = "done"]
  /\ cancelled' = cancelled \ {q}
  /\ round' = [round EXCEPT ![q] = 0]
  /\ todo' = [todo EXCEPT ![q] = 0]
  /\ pending' = [pending EXCEPT ![q] = <<>>]
  /\ UNCHANGED <<exists, log, web, mixed, outcome, wrote, marred, mishaps>>

\* Mutant: a goroutine that deletes the entry only if it was not cancelled.
FinishUnlessCancelled(q) ==
  End(q) /\ activeReqs' = IF q \in web \ cancelled THEN None ELSE activeReqs

\* The goroutine of a web request deletes the entry of its session, whoever's it
\* is by now.
Finish(q) == End(q) /\ activeReqs' = IF q \in web THEN None ELSE activeReqs

-----------------------------------------------------------------------------
(* Agent.Chat *)

Goto(q, label) == pc' = [pc EXCEPT ![q] = label]

Return(q, result) ==
  /\ Goto(q, "returned")
  /\ outcome' = [outcome EXCEPT ![q] = result]
  /\ UNCHANGED <<round, todo>>

\* No provider, no budget, or GetOrCreate fails; otherwise the session is there.
\* A session that is not there is inserted by whoever asks for it.
GetOrCreate == exists' = TRUE

Open(q) ==
  /\ pc[q] = "start"
  /\ \/ /\ Return(q, "failed")
        /\ UNCHANGED exists
     \/ /\ Goto(q, "opened")
        /\ GetOrCreate
        /\ UNCHANGED loop
  /\ UNCHANGED <<web, mixed, log, activeReqs, cancelled, wrote, pending, marred, mishaps>>

SaveUserMessage(q) ==
  /\ pc[q] = "opened"
  /\ AddMessage(q, "user")
  /\ Goto(q, "saved")
  /\ UNCHANGED <<web, mixed, exists, activeReqs, cancelled, loop>>

\* What the provider is given before the current message.  The last message is
\* taken for the one the request has just saved.
Prompt == BuildMessages(AllButLast(GetMessages))

\* GetMessages; when it fails Chat goes on without a history.
LoadHistory(q) ==
  /\ pc[q] = "saved"
  /\ Goto(q, "round")
  /\ UNCHANGED <<web, mixed, exists, log, activeReqs, cancelled, loop, wrote, pending, marred, mishaps>>

\* ctx.Err() at the top of a round, then the call of the provider.
CallProvider(q) ==
  /\ pc[q] = "round"
  /\ Goto(q, IF q \in cancelled THEN "cleanup" ELSE "provider")
  /\ UNCHANGED <<web, mixed, exists, log, activeReqs, cancelled, loop, wrote, pending, marred, mishaps>>

\* The final response.  A context that ended meanwhile may lose against it.
ProviderAnswers(q) ==
  /\ pc[q] = "provider"
  /\ AddMessage(q, "answer")
  /\ Return(q, "answered")
  /\ UNCHANGED <<web, mixed, exists, activeReqs, cancelled>>

\* Mutant: a call without a text of its own is not saved.
SilentCallsTools(q) ==
  /\ pc[q] = "provider"
  /\ trackMsg(q, "call") \/ UNCHANGED <<log, wrote, pending, marred, mishaps>>
  /\ \E k \in 1..MaxCalls : todo' = [todo EXCEPT ![q] = k]
  /\ Goto(q, "tools")
  /\ UNCHANGED <<web, mixed, exists, activeReqs, cancelled, round, outcome>>

ProviderCallsTools(q) ==
  /\ pc[q] = "provider"
  /\ trackMsg(q, "call")
  /\ \E k \in 1..MaxCalls : todo' = [todo EXCEPT ![q] = k]
  /\ Goto(q, "tools")
  /\ UNCHANGED <<web, mixed, exists, activeReqs, cancelled, round, outcome>>

\* An error of the provider or of the context; the messages of earlier rounds
\* stay unless the context is done.
ProviderFails(q) ==
  /\ pc[q] = "provider"
  /\ \/ q \in cancelled /\ Goto(q, "cleanup") /\ UNCHANGED loop
     \/ q \notin cancelled /\ Return(q, "failed")
  /\ UNCHANGED <<web, mixed, exists, log, activeReqs, cancelled, wrote, pending, marred, mishaps>>

\* ctx.Err() before a tool call.
StartTool(q) ==
  /\ pc[q] = "tools"
  /\ todo[q] > 0
  /\ Goto(q, IF q \in cancelled THEN "cleanup" ELSE "tool")
  /\ UNCHANGED <<web, mixed, exists, log, activeReqs, cancelled, loop, wrote, pending, marred, mishaps>>

\* The tool returns, in error or not: either way there is a result to save.
ToolReturns(q) ==
  /\ pc[q] = "tool"
  /\ trackMsg(q, "result")
  /\ todo' = [todo EXCEPT ![q] = @ - 1]
  /\ Goto(q, "tools")
  /\ UNCHANGED <<web, mixed, exists, activeReqs, cancelled, round, outcome>>

\* Mutant: a loop without a bound on its rounds.
AnotherRound(q) ==
  /\ pc[q] = "tools"
  /\ todo[q] = 0
  /\ round[q] <= MaxToolRounds
  /\ Goto(q, "round")
  /\ round' = [round EXCEPT ![q] = @ + 1]
  /\ UNCHANGED <<todo, outcome, web, mixed, exists, log, activeReqs, cancelled>>
  /\ UNCHANGED <<wrote, pending, marred, mishaps>>

\* The next round, up to round maxToolRounds.
NextRound(q) ==
  /\ pc[q] = "tools"
  /\ todo[q] = 0
  /\ IF round[q] = MaxToolRounds
     THEN Return(q, "failed")
     ELSE /\ Goto(q, "round")
          /\ round' = [round EXCEPT ![q] = @ + 1]
          /\ UNCHANGED <<todo, outcome>>
  /\ UNCHANGED <<web, mixed, exists, log, activeReqs, cancelled, wrote, pending, marred, mishaps>>

\* cancelCleanup: one DELETE per pending message ...
DeletePending(q) ==
  /\ pc[q] = "cleanup"
  /\ pending[q] # <<>>
  /\ pending' = [pending EXCEPT ![q] = Tail(@)]
  /\ \/ log' = Without(Head(pending[q])) /\ UNCHANGED <<marred, mishaps>>
     \/ Mishap /\ marred' = marred \cup {q} /\ UNCHANGED log
  /\ UNCHANGED <<web, mixed, exists, activeReqs, cancelled, pc, loop, wrote>>

\* ... then the marker, and ErrCancelled.
MarkCancelled(q) ==
  /\ pc[q] = "cleanup"
  /\ pending[q] = <<>>
  /\ AddMessage(q, "cancelled")
  /\ Return(q, "cancelled")
  /\ UNCHANGED <<web, mixed, exists, activeReqs, cancelled>>

-----------------------------------------------------------------------------
(* The user deletes, the process dies *)

Edit == exists /\ Mishap

\* DELETE FROM sessions, with ON DELETE CASCADE on its messages.
DeleteSession == exists' = FALSE /\ log' = <<>>

handleDeleteSession ==
  /\ Edit
  /\ DeleteSession
  /\ UNCHANGED <<web, mixed, activeReqs, cancelled, pc, loop, wrote, pending, marred>>

handleClearMessages ==
  /\ Edit
  /\ log' = <<>>
  /\ UNCHANGED <<web, mixed, exists, activeReqs, cancelled, pc, loop, wrote, pending, marred>>

handleDeleteMessage ==
  /\ Edit
  /\ \E i \in DOMAIN log : log' = Without(log[i]) /\ mixed' = mixed \cup {log[i].by}
  /\ UNCHANGED <<web, exists, activeReqs, cancelled, pc, loop, wrote, pending, marred>>

\* The process dies and starts again: requests that had arrived are lost.
Crash ==
  /\ Mishap
  /\ pc' = [q \in Requests |-> IF pc[q] \in InFlight THEN "dead" ELSE pc[q]]
  /\ activeReqs' = None
  /\ cancelled' = {q \in cancelled : pc[q] \notin InFlight}
  /\ pending' = [q \in Requests |-> <<>>]
  /\ round' = [q \in Requests |-> 0]
  /\ todo' = [q \in Requests |-> 0]
  /\ UNCHANGED <<exists, log, web, mixed, outcome, wrote, marred>>

\* The finite sets of requests are used up; a deadlock is anything else.
AllServed ==
  /\ \A q \in Requests : pc[q] \in {"done", "dead"}
  /\ UNCHANGED vars

-----------------------------------------------------------------------------

Chat(q) ==
  \/ Open(q) \/ SaveUserMessage(q) \/ LoadHistory(q) \/ CallProvider(q)
  \/ ProviderAnswers(q) \/ ProviderCallsTools(q) \/ ProviderFails(q)
  \/ StartTool(q) \/ ToolReturns(q) \/ NextRound(q)
  \/ DeletePending(q) \/ MarkCancelled(q)
  \/ Finish(q)

Next ==
  \/ \E q \in Requests : Receive(q) \/ handleChat(q) \/ Disconnect(q) \/ Chat(q)
  \/ Cancel
  \/ handleDeleteSession \/ handleClearMessages \/ handleDeleteMessage
  \/ Crash
  \/ AllServed

Spec == Init /\ [][Next]_vars

-----------------------------------------------------------------------------
(* Properties *)

\* A request that was cancelled leaves nothing of its tool calls behind: neither
\* a call whose result will never come nor a result without its call, whatever
\* other requests wrote in between and whatever the user deleted.  (A failing
\* statement may leave something: its error is dropped.)
CancelledLeavesNoTrace ==
  \A q \in Requests \ marred :
    outcome[q] = "cancelled" =>
      \A i \in DOMAIN log : log[i].by = q => log[i].kind \in {"user", "cancelled"}

\* The entry in activeReqs is that of a request still in flight: no interleaving of
\* cancellations, lost connections and returns leaves one that rejects every
\* later message of the session.
NoStaleEntry == activeReqs # None => pc[activeReqs] \in InFlight

\* A tool result that reaches the provider stands behind its own call, the call of the
\* same request and the same round of its tool loop, with nothing between them but other
\* results of that call: whatever a clean-up, a crash or a failed request left in the log
\* and wherever the history limit cuts it.  No result comes first or behind a message of
\* another kind.  (BuildMessages takes no notice of tool_call_id: where requests overlap,
\* or the user deletes single messages, a result may stand behind another's call.)
ResultsFollowCalls ==
  (\E q \in Requests : pc[q] = "saved") =>
    \A i \in {j \in DOMAIN Prompt : Prompt[j].kind = "result"} :
      /\ i > 1 /\ Prompt[i - 1].kind \in {"call", "result"}
      /\ \/ Prompt[i].by \in mixed \cup marred
         \/ Prompt[i - 1].by = Prompt[i].by /\ Prompt[i - 1].round = Prompt[i].round
=============================================================================
