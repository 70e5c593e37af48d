-------------------------- MODULE ConversationProofs ---------------------------
(***************************************************************************)
(* Proofs about a conversation and what the agent remembers of it, for     *)
(* every number of requests, rounds, tool calls, mishaps, goroutines,      *)
(* nodes and users:                                                        *)
(*   - ChatSession: the activeReqs table never blocks its session for      *)
(*     good, a cancelled request leaves no message of its tool calls, and  *)
(*     the results of a request that others leave alone reach the provider *)
(*     behind their own calls;                                             *)
(*   - Memory: no cache shows a user what another keeps private, and every *)
(*     edge has the nodes it joins.                                        *)
(* Neither part uses the other: the agent calls both.                      *)
(***************************************************************************)
EXTENDS ChatSession, Memory, WellFoundedInduction, TLAPS

\* The part of the types the entry depends on.
EntryType ==
  /\ pc \in [Requests -> InFlight \cup {"idle", "done", "dead"}]
  /\ activeReqs \in web \cup {None}
  /\ web \subseteq Requests

\* The entry was made by a web request that has not finished: its Finish, or the
\* process ending, removes it.
EntryInv == EntryType /\ NoStaleEntry

\* A step of a request within Chat and its goroutine moves nobody else, ends in
\* flight and leaves the table alone.
LEMMA MovesInFlight ==
  ASSUME EntryInv, NEW q \in Requests, NEW label \in InFlight,
         Goto(q, label), UNCHANGED <<web, activeReqs>>
  PROVE  EntryInv'
  BY ChatAssumption DEF EntryInv, EntryType, NoStaleEntry, Goto

\* No step leaves an entry behind.
LEMMA EntryStep == EntryInv /\ [Next]_vars => EntryInv'
<1> USE ChatAssumption DEF EntryInv
<1> SUFFICES ASSUME EntryInv, [Next]_vars PROVE EntryInv'
  OBVIOUS
<1>1. ASSUME NEW q \in Requests, Receive(q) PROVE EntryInv'
  BY <1>1 DEF Receive, Arrives, EntryType, NoStaleEntry, InFlight, InChat
<1>2. ASSUME NEW q \in Requests, handleChat(q) PROVE EntryInv'
  BY <1>2 DEF handleChat, Arrives, EntryType, NoStaleEntry, InFlight, InChat
<1>3. ASSUME NEW q \in Requests, Disconnect(q) PROVE EntryInv'
  BY <1>3 DEF Disconnect, EntryType, NoStaleEntry
<1>4. ASSUME NEW q \in Requests, Chat(q) PROVE EntryInv'
  <2>1. CASE Finish(q)
    BY <2>1 DEF Finish, End, EntryType, NoStaleEntry
  <2>2. CASE Open(q)
    BY <2>2, MovesInFlight DEF Open, Return, InFlight, InChat
  <2>3. CASE SaveUserMessage(q)
    BY <2>3, MovesInFlight DEF SaveUserMessage, InFlight, InChat
  <2>4. CASE LoadHistory(q)
    BY <2>4, MovesInFlight DEF LoadHistory, InFlight, InChat
  <2>5. CASE CallProvider(q)
    BY <2>5, MovesInFlight DEF CallProvider, InFlight, InChat
  <2>6. CASE ProviderAnswers(q)
    BY <2>6, MovesInFlight DEF ProviderAnswers, Return, InFlight, InChat
  <2>7. CASE ProviderCallsTools(q)
    BY <2>7, MovesInFlight DEF ProviderCallsTools, InFlight, InChat
  <2>8. CASE ProviderFails(q)
    BY <2>8, MovesInFlight DEF ProviderFails, Return, InFlight, InChat
  <2>9. CASE StartTool(q)
    BY <2>9, MovesInFlight DEF StartTool, InFlight, InChat
  <2>10. CASE ToolReturns(q)
    BY <2>10, MovesInFlight DEF ToolReturns, InFlight, InChat
  <2>11. CASE NextRound(q)
    BY <2>11, MovesInFlight DEF NextRound, Return, InFlight, InChat
  <2>12. CASE DeletePending(q)
    BY <2>12 DEF DeletePending, EntryType, NoStaleEntry
  <2>13. CASE MarkCancelled(q)
    BY <2>13, MovesInFlight DEF MarkCancelled, Return, InFlight, InChat
  <2> QED
    BY <1>4, <2>1, <2>2, <2>3, <2>4, <2>5, <2>6, <2>7, <2>8, <2>9, <2>10, <2>11,
       <2>12, <2>13 DEF Chat
<1>5. CASE Cancel
  BY <1>5 DEF Cancel, EntryType, NoStaleEntry
<1>6. CASE handleDeleteSession \/ handleClearMessages \/ handleDeleteMessage
  BY <1>6 DEF handleDeleteSession, handleClearMessages, handleDeleteMessage, EntryType,
     NoStaleEntry
<1>7. CASE Crash
  BY <1>7 DEF Crash, EntryType, NoStaleEntry
<1>8. CASE AllServed \/ UNCHANGED vars
  BY <1>8 DEF AllServed, vars, EntryType, NoStaleEntry
<1> QED
  BY <1>1, <1>2, <1>3, <1>4, <1>5, <1>6, <1>7, <1>8 DEF Next

\* A session accepts messages again once its requests have ended, whatever was
\* cancelled, disconnected or restarted in between.
THEOREM SessionsReopen == Spec => []NoStaleEntry
<1>1. Init => EntryInv
  BY DEF Init, EntryInv, EntryType, NoStaleEntry
<1>2. EntryInv /\ [Next]_vars => EntryInv'
  BY EntryStep
<1>3. EntryInv => NoStaleEntry
  BY DEF EntryInv
<1> QED
  BY <1>1, <1>2, <1>3, PTL DEF Spec

-----------------------------------------------------------------------------
(* What the statements do to the log *)

In(m, s) == \E i \in DOMAIN s : s[i] = m
Unique(s) == \A i, j \in DOMAIN s : s[i] = s[j] => i = j

LEMMA Messages ==
  ASSUME NEW s \in Seq(Message)
  PROVE  \A i \in DOMAIN s : s[i] \in Message /\ s[i].by \in Requests /\ s[i].n \in Nat
<1>1. \A m \in Message : m.by \in Requests /\ m.n \in Nat
  BY DEF Message
<1>2. \A i \in DOMAIN s : s[i] \in Message
  OBVIOUS
<1> QED
  BY <1>1, <1>2

LEMMA AppendHas ==
  ASSUME NEW s \in Seq(Message), NEW m \in Message
  PROVE  /\ Append(s, m) \in Seq(Message)
         /\ \A x : In(x, Append(s, m)) <=> In(x, s) \/ x = m
         /\ Unique(s) /\ ~In(m, s) => Unique(Append(s, m))
<1> DEFINE a == Append(s, m)
<1>1. /\ a \in Seq(Message) /\ DOMAIN s = 1 .. Len(s) /\ Len(s) \in Nat
      /\ DOMAIN a = 1 .. Len(s) + 1 /\ a[Len(s) + 1] = m
      /\ \A i \in 1 .. Len(s) : a[i] = s[i]
  OBVIOUS
<1> HIDE DEF a
<1>2. ASSUME NEW x PROVE In(x, a) <=> In(x, s) \/ x = m
  <2>1. ASSUME In(x, a) PROVE In(x, s) \/ x = m
    BY <1>1, <2>1 DEF In
  <2>2. ASSUME In(x, s) PROVE In(x, a)
    BY <1>1, <2>2 DEF In
  <2>3. In(m, a)
    BY <1>1 DEF In
  <2> QED
    BY <2>1, <2>2, <2>3
<1>3. ASSUME Unique(s), ~In(m, s) PROVE Unique(a)
  BY <1>1, <1>3 DEF Unique, In
<1> QED
  BY <1>1, <1>2, <1>3 DEF a

\* The rest of the log, when its messages differ, is all of it but the message.
LEMMA WithoutHas ==
  ASSUME log \in Seq(Message), Unique(log), NEW m
  PROVE  /\ Without(m) \in Seq(Message)
         /\ Unique(Without(m))
         /\ \A x : In(x, Without(m)) <=> In(x, log) /\ x # m
<1>1. CASE ~In(m, log)
  BY <1>1 DEF In, Without
<1>2. CASE In(m, log)
  <2> DEFINE i == CHOOSE i \in DOMAIN log : log[i] = m
             w == [k \in 1 .. Len(log) - 1 |-> log[IF k < i THEN k ELSE k + 1]]
  <2>1. i \in DOMAIN log /\ log[i] = m
    BY <1>2 DEF In
  <2>2. Without(m) = w
    BY <1>2 DEF In, Without
  <2> HIDE DEF i
  <2>3. i \in 1 .. Len(log) /\ Len(log) \in Nat /\ DOMAIN log = 1 .. Len(log)
    BY <2>1
  <2>4. /\ w \in Seq(Message) /\ DOMAIN w = 1 .. Len(log) - 1
        /\ \A k \in 1 .. Len(log) - 1 : w[k] = log[IF k < i THEN k ELSE k + 1]
    BY <2>3
  <2> HIDE DEF w
  <2>5. Unique(w)
    <3> SUFFICES ASSUME NEW j \in 1 .. Len(log) - 1, NEW k \in 1 .. Len(log) - 1, w[j] = w[k], j # k
                 PROVE  FALSE
      BY <2>4 DEF Unique
    <3> DEFINE a == IF j < i THEN j ELSE j + 1
               b == IF k < i THEN k ELSE k + 1
    <3>1. a \in DOMAIN log /\ b \in DOMAIN log /\ a # b
      BY <2>3
    <3>2. log[a] = log[b]
      BY <2>4
    <3> QED
      BY <3>1, <3>2 DEF Unique
  <2>6. ASSUME NEW x, In(x, w) PROVE In(x, log) /\ x # m
    <3>1. PICK k \in 1 .. Len(log) - 1 : x = log[IF k < i THEN k ELSE k + 1]
      BY <2>4, <2>6 DEF In
    <3> DEFINE a == IF k < i THEN k ELSE k + 1
    <3>2. a \in DOMAIN log /\ a # i /\ x = log[a]
      BY <2>3, <3>1
    <3> QED
      BY <2>1, <3>2 DEF In, Unique
  <2>7. ASSUME NEW x, In(x, log), x # m PROVE In(x, w)
    <3>1. PICK k \in 1 .. Len(log) : log[k] = x
      BY <2>3, <2>7 DEF In
    <3>2. CASE k < i
      BY <2>3, <2>4, <3>1, <3>2 DEF In
    <3>3. CASE k > i
      <4>1. k - 1 \in 1 .. Len(log) - 1 /\ ~(k - 1 < i) /\ (k - 1) + 1 = k
        BY <2>3, <3>3
      <4>2. w[k - 1] = x
        BY <2>4, <3>1, <4>1
      <4> QED
        BY <2>4, <4>1, <4>2 DEF In
    <3> QED
      BY <2>1, <2>3, <2>7, <3>1, <3>2, <3>3
  <2> QED
    BY <2>2, <2>4, <2>5, <2>6, <2>7
<1> QED
  BY <1>1, <1>2

LEMMA TailHas ==
  ASSUME NEW s \in Seq(Message), s # <<>>
  PROVE  /\ Tail(s) \in Seq(Message)
         /\ \A x : In(x, s) => x = Head(s) \/ In(x, Tail(s))
<1>0. Len(s) \in Nat \ {0} /\ DOMAIN s = 1 .. Len(s) /\ Head(s) = s[1]
  OBVIOUS
<1>1. /\ Tail(s) \in Seq(Message)
      /\ DOMAIN Tail(s) = 1 .. Len(s) - 1
      /\ \A k \in 1 .. Len(s) - 1 : Tail(s)[k] = s[k + 1]
  BY <1>0
<1> DEFINE rest == Tail(s)
<1>2. ASSUME NEW x, In(x, s) PROVE x = Head(s) \/ In(x, rest)
  <2>1. PICK k \in 1 .. Len(s) : s[k] = x
    BY <1>0, <1>1, <1>2 DEF In
  <2>2. CASE k = 1
    BY <1>0, <1>1, <2>1, <2>2
  <2>3. CASE k # 1
    <3>1. k - 1 \in DOMAIN rest /\ rest[k - 1] = x
      BY <1>0, <1>1, <2>1, <2>3
    <3> QED
      BY <3>1 DEF In
  <2> QED
    BY <2>2, <2>3
<1> QED
  BY <1>0, <1>1, <1>2

-----------------------------------------------------------------------------
(* Types, and what a cancelled request leaves *)

\* A tool runs only while its round has calls left; the messages of the log differ,
\* since each bears its request and a number given once.
LogInv ==
  /\ log \in Seq(Message)
  /\ Unique(log)
  /\ \A m \in Message : In(m, log) => m.n <= wrote[m.by]

Kept ==
  /\ LogInv
  /\ wrote \in [Requests -> Nat]
  /\ pending \in [Requests -> Seq(Message)]
  /\ marred \subseteq Requests
  /\ mishaps \in Nat

Standing ==
  /\ pc \in [Requests -> InFlight \cup {"idle", "done", "dead"}]
  /\ todo \in [Requests -> 0 .. MaxCalls]
  /\ \A q \in Requests : pc[q] = "tool" => todo[q] > 0

Around ==
  /\ exists \in BOOLEAN
  /\ web \subseteq Requests
  /\ activeReqs \in web \cup {None}
  /\ cancelled \subseteq Requests
  /\ round \in [Requests -> 0 .. MaxToolRounds]
  /\ mixed \subseteq Requests
  /\ outcome \in [Requests -> {"none", "answered", "cancelled", "failed"}]

TypeInv == Kept /\ Standing /\ Around

\* The new message, if there is one, is tracked when it is to be.
LEMMA InsertLemma ==
  ASSUME Kept, Around, NEW q \in Requests, NEW kind \in Kinds, NEW tracked \in BOOLEAN,
         Insert(q, kind, tracked)
  PROVE  /\ Kept'
         /\ marred \subseteq marred' /\ \A r \in Requests \ {q} : pending'[r] = pending[r]
         /\ \A x \in Message : In(x, pending[q]) => In(x, pending'[q])
         /\ \A x \in Message : In(x, log') =>
              \/ In(x, log)
              \/ x.by = q /\ x.kind = kind /\ (tracked => In(x, pending'[q]))
<1> DEFINE m == [by |-> q, n |-> wrote[q] + 1, kind |-> kind, round |-> round[q]]
<1> USE DEF Kept
<1>1. /\ m \in Message /\ m.by = q /\ m.kind = kind /\ m.n = wrote[q] + 1
      /\ wrote[q] \in Nat /\ pending[q] \in Seq(Message)
  <2>1. wrote[q] \in Nat /\ pending[q] \in Seq(Message)
    OBVIOUS
  <2>2. wrote[q] + 1 \in Nat /\ round[q] \in 0..MaxToolRounds
    BY <2>1 DEF Around
  <2> QED
    BY <2>1, <2>2 DEF Message
<1>2. CASE /\ log' = Append(log, m)
           /\ wrote' = [wrote EXCEPT ![q] = @ + 1]
           /\ pending' = IF tracked THEN [pending EXCEPT ![q] = Append(@, m)] ELSE pending
           /\ UNCHANGED <<marred, mishaps>>
  <2> HIDE DEF m
  <2>1. /\ log' \in Seq(Message)
        /\ \A x : In(x, log') <=> In(x, log) \/ x = m
        /\ ~In(m, log) => Unique(log')
    BY <1>1, <1>2, AppendHas DEF LogInv
  <2>2. ~In(m, log)
    BY <1>1 DEF LogInv
  <2>3. \A r \in Requests : wrote[r] <= wrote'[r] /\ wrote'[q] = wrote[q] + 1
    BY <1>1, <1>2
  <2>4. ASSUME NEW x \in Message, In(x, log') PROVE x.n <= wrote'[x.by]
    <3>1. CASE x = m
      BY <1>1, <2>3, <3>1
    <3>2. CASE In(x, log)
      <4>1. x.by \in Requests /\ x.n \in Nat /\ x.n <= wrote[x.by]
        BY <3>2 DEF LogInv, Message
      <4>2. wrote[x.by] \in Nat /\ wrote'[x.by] \in Nat
        BY <1>1, <1>2, <4>1
      <4> QED
        BY <2>3, <4>1, <4>2
    <3> QED
      BY <2>1, <2>4, <3>1, <3>2
  <2>5. LogInv'
    BY <2>1, <2>2, <2>4 DEF LogInv
  <2>6. CASE tracked
    <3>1. pending' = [pending EXCEPT ![q] = Append(pending[q], m)]
      BY <1>2, <2>6
    <3>2. pending'[q] = Append(pending[q], m) /\ \A r \in Requests \ {q} : pending'[r] = pending[r]
      BY <3>1
    <3>3. /\ Append(pending[q], m) \in Seq(Message)
          /\ \A x : In(x, Append(pending[q], m)) <=> In(x, pending[q]) \/ x = m
      BY <1>1, AppendHas
    <3>4. pending' \in [Requests -> Seq(Message)]
      BY <3>1, <3>3
    <3> QED
      BY <1>1, <1>2, <2>1, <2>5, <3>2, <3>3, <3>4
  <2>7. CASE ~tracked
    BY <1>1, <1>2, <2>1, <2>5, <2>7
  <2> QED
    BY <2>6, <2>7
<1>3. CASE UNCHANGED <<log, wrote, pending>> /\ mishaps' \in Nat /\ marred' \in {marred, marred \cup {q}}
  BY <1>3 DEF LogInv
<1> QED
  BY <1>2, <1>3 DEF Insert, Mishap

\* A statement that deletes one message, or all.
LEMMA DeleteLemma ==
  ASSUME Kept, wrote' = wrote, log' = <<>> \/ \E m : log' = Without(m)
  PROVE  LogInv' /\ \A x : In(x, log') => In(x, log)
<1>1. CASE log' = <<>>
  BY <1>1 DEF LogInv, Unique, In
<1>2. ASSUME NEW m, log' = Without(m) PROVE LogInv' /\ \A x : In(x, log') => In(x, log)
  BY <1>2, WithoutHas DEF Kept, LogInv
<1> QED
  BY <1>1, <1>2

LEMMA KeptStays == Kept /\ UNCHANGED <<log, wrote, pending, marred, mishaps>> => Kept'
BY DEF Kept, LogInv

LEMMA StandingStays == Standing /\ UNCHANGED <<pc, todo>> => Standing'
BY DEF Standing

LEMMA AroundStays ==
  Around /\ UNCHANGED <<exists, web, activeReqs, cancelled, round, mixed, outcome>> => Around'
BY DEF Around

\* A request goes elsewhere, and where its tools are called one is left.
LEMMA GoesOn ==
  ASSUME Standing, NEW q \in Requests, NEW label \in InFlight, Goto(q, label),
         NEW k \in 0 .. MaxCalls, todo' = [todo EXCEPT ![q] = k], label = "tool" => k > 0
  PROVE  Standing'
BY DEF Standing, Goto

LEMMA GoesOnSame ==
  ASSUME Standing, NEW q \in Requests, NEW label \in InFlight, Goto(q, label), todo' = todo,
         label = "tool" => todo[q] > 0
  PROVE  Standing'
BY DEF Standing, Goto

LEMMA Returns ==
  ASSUME Standing, Around, NEW q \in Requests, NEW result \in {"answered", "cancelled", "failed"},
         Return(q, result), UNCHANGED <<exists, web, activeReqs, cancelled, mixed>>
  PROVE  Standing' /\ Around'
<1>1. Standing'
  BY GoesOnSame DEF Return, InFlight
<1>2. Around'
  BY DEF Return, Around
<1> QED
  BY <1>1, <1>2

LEMMA Labels == InChat \subseteq InFlight /\ "returned" \in InFlight
BY DEF InFlight

LEMMA TypeStep == TypeInv /\ [Next]_vars => TypeInv'
<1> USE ChatAssumption
<1> SUFFICES ASSUME Kept, Standing, Around, [Next]_vars PROVE Kept' /\ Standing' /\ Around'
  BY DEF TypeInv
<1>1. ASSUME NEW q \in Requests, Receive(q) \/ handleChat(q) PROVE Kept' /\ Standing' /\ Around'
  <2>1. Kept'
    BY <1>1, KeptStays DEF Receive, handleChat
  <2>2. Standing'
    BY <1>1, GoesOnSame, Labels DEF Receive, handleChat, Arrives, Goto, loop, InChat
  <2>3. Around'
    BY <1>1 DEF Receive, handleChat, Arrives, loop, Around
  <2> QED
    BY <2>1, <2>2, <2>3
<1>2. ASSUME NEW q \in Requests, Disconnect(q) PROVE Kept' /\ Standing' /\ Around'
  BY <1>2, KeptStays, StandingStays DEF Disconnect, Around, loop
<1>3. ASSUME NEW q \in Requests, Chat(q) PROVE Kept' /\ Standing' /\ Around'
  <2>1. CASE Open(q)
    <3>1. Kept'
      BY <2>1, KeptStays DEF Open
    <3>2. Standing'
      BY <2>1, GoesOnSame, Labels DEF Open, Return, loop, InChat
    <3>3. Around'
      BY <2>1 DEF Open, Return, GetOrCreate, loop, Around
    <3> QED
      BY <3>1, <3>2, <3>3
  <2>2. CASE LoadHistory(q) \/ CallProvider(q)
    <3>1. Kept' /\ Around'
      BY <2>2, KeptStays, AroundStays DEF LoadHistory, CallProvider, loop
    <3>2. Standing'
      BY <2>2, GoesOnSame, Labels DEF LoadHistory, CallProvider, loop, InChat
    <3> QED
      BY <3>1, <3>2
  <2>3. CASE ProviderFails(q)
    <3>1. Kept'
      BY <2>3, KeptStays DEF ProviderFails
    <3>2. CASE Goto(q, "cleanup") /\ UNCHANGED loop
      BY <2>3, <3>1, <3>2, AroundStays, GoesOnSame, Labels DEF ProviderFails, loop, InChat
    <3>3. CASE Return(q, "failed")
      BY <2>3, <3>1, <3>3, Returns DEF ProviderFails
    <3> QED
      BY <2>3, <3>2, <3>3 DEF ProviderFails
  <2>4. CASE StartTool(q)
    <3>1. Kept' /\ Around'
      BY <2>4, KeptStays, AroundStays DEF StartTool, loop
    <3>2. Standing'
      BY <2>4, GoesOnSame, Labels DEF StartTool, loop, InChat
    <3> QED
      BY <3>1, <3>2
  <2>5. CASE NextRound(q)
    <3>1. Kept'
      BY <2>5, KeptStays DEF NextRound
    <3>2. CASE Return(q, "failed")
      BY <2>5, <3>1, <3>2, Returns DEF NextRound
    <3>3. CASE /\ round[q] # MaxToolRounds
               /\ Goto(q, "round")
               /\ round' = [round EXCEPT ![q] = @ + 1]
               /\ UNCHANGED <<todo, outcome>>
      <4>1. Standing'
        BY <3>3, GoesOnSame, Labels DEF InChat
      <4>2. Around'
        BY <2>5, <3>3 DEF NextRound, Around
      <4> QED
        BY <3>1, <4>1, <4>2
    <3> QED
      BY <2>5, <3>2, <3>3 DEF NextRound
  <2>6. CASE SaveUserMessage(q)
    <3>1. Kept'
      BY <2>6, InsertLemma DEF SaveUserMessage, AddMessage, Kinds
    <3>2. Standing'
      BY <2>6, GoesOnSame, Labels DEF SaveUserMessage, loop, InChat
    <3>3. Around'
      BY <2>6, AroundStays DEF SaveUserMessage, loop
    <3> QED
      BY <3>1, <3>2, <3>3
  <2>7. CASE ProviderAnswers(q)
    <3>1. Kept'
      BY <2>7, InsertLemma DEF ProviderAnswers, AddMessage, Kinds
    <3> QED
      BY <2>7, <3>1, Returns DEF ProviderAnswers
  <2>8. CASE MarkCancelled(q)
    <3>1. Kept'
      BY <2>8, InsertLemma DEF MarkCancelled, AddMessage, Kinds
    <3> QED
      BY <2>8, <3>1, Returns DEF MarkCancelled
  <2>9. CASE ProviderCallsTools(q)
    <3>1. PICK k \in 1 .. MaxCalls : todo' = [todo EXCEPT ![q] = k]
      BY <2>9 DEF ProviderCallsTools
    <3> k \in 0 .. MaxCalls /\ k > 0
      OBVIOUS
    <3>2. Standing'
      BY <2>9, <3>1, GoesOn, Labels DEF ProviderCallsTools, InChat
    <3>3. Kept'
      BY <2>9, InsertLemma DEF ProviderCallsTools, trackMsg, Kinds
    <3>4. Around'
      BY <2>9, AroundStays DEF ProviderCallsTools
    <3> QED
      BY <3>2, <3>3, <3>4
  <2>10. CASE ToolReturns(q)
    <3>1. todo' = [todo EXCEPT ![q] = todo[q] - 1] /\ todo[q] - 1 \in 0 .. MaxCalls
      BY <2>10 DEF ToolReturns, Standing
    <3>2. Standing'
      BY <2>10, <3>1, GoesOn, Labels DEF ToolReturns, InChat
    <3>3. Kept'
      BY <2>10, InsertLemma DEF ToolReturns, trackMsg, Kinds
    <3>4. Around'
      BY <2>10, AroundStays DEF ToolReturns
    <3> QED
      BY <3>2, <3>3, <3>4
  <2>11. CASE DeletePending(q)
    <3>1. LogInv'
      BY <2>11, DeleteLemma DEF DeletePending, Kept, LogInv
    <3>2. pending' \in [Requests -> Seq(Message)]
      BY <2>11, TailHas DEF DeletePending, Kept
    <3>3. Kept'
      BY <2>11, <3>1, <3>2 DEF DeletePending, Mishap, Kept
    <3> QED
      BY <2>11, <3>3, StandingStays, AroundStays DEF DeletePending, loop
  <2>12. CASE Finish(q)
    <3>1. Kept'
      BY <2>12 DEF Finish, End, Kept, LogInv
    <3>2. Standing'
      BY <2>12 DEF Finish, End, Standing
    <3>3. Around'
      BY <2>12 DEF Finish, End, Around
    <3> QED
      BY <3>1, <3>2, <3>3
  <2> QED
    BY <1>3, <2>1, <2>2, <2>3, <2>4, <2>5, <2>6, <2>7, <2>8, <2>9, <2>10, <2>11, <2>12 DEF Chat
<1>4. CASE Cancel
  BY <1>4, KeptStays, StandingStays DEF Cancel, Around, loop
<1>5. CASE handleDeleteSession \/ handleClearMessages \/ handleDeleteMessage
  <2>1. LogInv'
    BY <1>5, DeleteLemma
       DEF handleDeleteSession, DeleteSession, handleClearMessages, handleDeleteMessage
  <2>2. Kept'
    BY <1>5, <2>1
       DEF handleDeleteSession, handleClearMessages, handleDeleteMessage, Edit, Mishap, Kept
  <2>3. Standing'
    BY <1>5, StandingStays DEF handleDeleteSession, handleClearMessages, handleDeleteMessage, loop
  <2>4. Around'
    <3>1. \A i \in DOMAIN log : log[i].by \in Requests
      BY Messages DEF Kept, LogInv
    <3>2. mixed' \subseteq Requests
      BY <1>5, <3>1 DEF handleDeleteSession, handleClearMessages, handleDeleteMessage, Around
    <3>3. exists' \in BOOLEAN /\ UNCHANGED <<web, activeReqs, cancelled, round, outcome>>
      BY <1>5
         DEF handleDeleteSession, DeleteSession, handleClearMessages, handleDeleteMessage, loop, Around
    <3> QED
      BY <3>2, <3>3 DEF Around
  <2> QED
    BY <2>2, <2>3, <2>4
<1>6. CASE Crash
  <2>1. Kept'
    BY <1>6 DEF Crash, Mishap, Kept, LogInv
  <2>2. Standing'
    BY <1>6 DEF Crash, Standing
  <2>3. Around'
    BY <1>6 DEF Crash, Around
  <2> QED
    BY <2>1, <2>2, <2>3
<1>7. CASE AllServed \/ UNCHANGED vars
  BY <1>7, KeptStays, StandingStays, AroundStays DEF AllServed, vars, loop
<1> QED
  BY <1>1, <1>2, <1>3, <1>4, <1>5, <1>6, <1>7 DEF Next

LEMMA TypeStart == Init => TypeInv
<1> SUFFICES ASSUME Init PROVE TypeInv
  OBVIOUS
<1>1. log = <<>> /\ <<>> \in Seq(Message) /\ DOMAIN log = {}
  BY DEF Init
<1>2. Kept
  BY <1>1 DEF Init, Kept, LogInv, Unique, In
<1>3. Standing
  BY ChatAssumption DEF Init, Standing
<1>4. Around
  <2>1. 0 \in 0 .. MaxToolRounds
    BY ChatAssumption
  <2>2. round \in [Requests -> 0 .. MaxToolRounds]
    BY <2>1 DEF Init
  <2> QED
    BY <2>2 DEF Init, Around
<1> QED
  BY <1>2, <1>3, <1>4 DEF TypeInv

\* Every variable keeps its type; a request never has more tool calls left than one
\* response may ask for, nor goes past its last round.
THEOREM TypeCorrect == Spec => []TypeOK
<1>1. TypeInv => TypeOK
  BY DEF TypeInv, Kept, LogInv, Standing, Around, TypeOK
<1> QED
  BY <1>1, TypeStart, TypeStep, PTL DEF Spec

-----------------------------------------------------------------------------
(* What a cancelled request leaves *)

\* A request that has not returned.
Before == InChat \cup {"idle"}
OfTools(m, q) == m.by = q /\ m.kind \notin {"user", "cancelled"}

\* What a request has written of its tool calls is pending until it returns, and it
\* returns "cancelled" only once nothing is pending.
Tracked(q) ==
  /\ pc[q] = "idle" => pending[q] = <<>>
  /\ pc[q] \in Before => outcome[q] = "none"
  /\ q \notin marred =>
       \A m \in Message :
         OfTools(m, q) /\ In(m, log) =>
           /\ pc[q] \in Before => In(m, pending[q])
           /\ outcome[q] # "cancelled"

TraceInv == TypeInv /\ \A q \in Requests : Tracked(q)

\* A request that does not return: it tracks what it writes of its tool calls.
LEMMA TrackedKept ==
  ASSUME NEW r \in Requests, Tracked(r), marred \subseteq marred', outcome'[r] = outcome[r],
         pc'[r] = "idle" => pc[r] = "idle" /\ pending'[r] = pending[r],
         pc'[r] \in Before =>
           pc[r] \in Before /\ \A x \in Message : In(x, pending[r]) => In(x, pending'[r]),
         \A x \in Message : OfTools(x, r) /\ In(x, log') =>
                              In(x, log) \/ (pc[r] \in Before /\ In(x, pending'[r]))
  PROVE  Tracked(r)'
BY DEF Tracked, OfTools, Before, InChat

\* The requests that take no part in a step.
LEMMA OthersTracked ==
  ASSUME NEW q \in Requests, NEW r \in Requests, r # q, Tracked(r), marred \subseteq marred',
         pc'[r] = pc[r], pending'[r] = pending[r], outcome'[r] = outcome[r],
         \A x \in Message : In(x, log') => In(x, log) \/ x.by = q
  PROVE  Tracked(r)'
BY TrackedKept DEF OfTools

LEMMA ReturnedTracked ==
  ASSUME NEW r \in Requests, pc'[r] = "returned", outcome'[r] # "cancelled"
  PROVE  Tracked(r)'
BY DEF Tracked, Before, InChat

LEMMA GotoLemma ==
  ASSUME TypeInv, NEW q \in Requests, NEW label, Goto(q, label)
  PROVE  pc'[q] = label /\ \A r \in Requests \ {q} : pc'[r] = pc[r]
BY DEF TypeInv, Standing, Goto

LEMMA ReturnLemma ==
  ASSUME TypeInv, NEW q \in Requests, NEW result, Return(q, result)
  PROVE  /\ pc'[q] = "returned" /\ outcome'[q] = result
         /\ \A r \in Requests \ {q} : pc'[r] = pc[r] /\ outcome'[r] = outcome[r]
BY GotoLemma DEF TypeInv, Around, Return

\* A step of a request within Chat that writes nothing.
LEMMA MoveTracked ==
  ASSUME TraceInv, NEW q \in Requests, NEW label \in InChat, Goto(q, label), pc[q] \in Before,
         UNCHANGED <<log, pending, marred, outcome>>
  PROVE  \A r \in Requests : Tracked(r)'
<1>1. pc'[q] = label /\ \A r \in Requests \ {q} : pc'[r] = pc[r]
  BY GotoLemma DEF TraceInv
<1>2. \A r \in Requests \ {q} : Tracked(r)'
  BY <1>1, OthersTracked DEF TraceInv
<1>3. pc'[q] # "idle"
  BY <1>1 DEF InChat
<1>4. Tracked(q)'
  BY <1>3, TrackedKept DEF TraceInv
<1> QED
  BY <1>2, <1>4

LEMMA FailTracked ==
  ASSUME TraceInv, NEW q \in Requests, Return(q, "failed"), UNCHANGED <<log, pending, marred>>
  PROVE  \A r \in Requests : Tracked(r)'
<1>1. /\ pc'[q] = "returned" /\ outcome'[q] = "failed"
      /\ \A r \in Requests \ {q} : pc'[r] = pc[r] /\ outcome'[r] = outcome[r]
  BY ReturnLemma DEF TraceInv
<1>2. \A r \in Requests \ {q} : Tracked(r)'
  BY <1>1, OthersTracked DEF TraceInv
<1> QED
  BY <1>1, <1>2, ReturnedTracked

\* A step that writes a message and goes on.
LEMMA WriteTracked ==
  ASSUME TraceInv, NEW q \in Requests, NEW kind \in Kinds, NEW tracked \in BOOLEAN,
         Insert(q, kind, tracked), tracked \/ kind = "user",
         NEW label \in InChat, Goto(q, label), pc[q] \in InChat, outcome' = outcome
  PROVE  \A r \in Requests : Tracked(r)'
<1>1. pc'[q] = label /\ \A r \in Requests \ {q} : pc'[r] = pc[r]
  BY GotoLemma DEF TraceInv
<1>0. Kept /\ Around
  BY DEF TraceInv, TypeInv
<1>2. /\ marred \subseteq marred' /\ \A r \in Requests \ {q} : pending'[r] = pending[r]
      /\ \A x \in Message : In(x, pending[q]) => In(x, pending'[q])
      /\ \A x \in Message : In(x, log') =>
           \/ In(x, log)
           \/ x.by = q /\ x.kind = kind /\ (tracked => In(x, pending'[q]))
  BY <1>0, InsertLemma
<1>3. \A r \in Requests \ {q} : Tracked(r)'
  BY <1>1, <1>2, OthersTracked DEF TraceInv
<1>4. pc'[q] # "idle" /\ pc[q] \in Before
  BY <1>1 DEF InChat, Before
<1>5. Tracked(q)'
  BY <1>2, <1>4, TrackedKept DEF TraceInv, OfTools
<1> QED
  BY <1>3, <1>5

LEMMA TraceStep == TraceInv /\ [Next]_vars => TraceInv'
<1> SUFFICES ASSUME TraceInv, [Next]_vars PROVE \A r \in Requests : Tracked(r)'
  BY TypeStep DEF TraceInv
<1>1. ASSUME NEW q \in Requests, Receive(q) \/ handleChat(q) PROVE \A r \in Requests : Tracked(r)'
  <2>1. Goto(q, "start") /\ pc[q] \in Before /\ UNCHANGED <<log, pending, marred, outcome>>
    BY <1>1 DEF Receive, handleChat, Arrives, Goto, Before, loop
  <2> QED
    BY <2>1, MoveTracked DEF InChat
<1>2. ASSUME NEW q \in Requests, Chat(q) PROVE \A r \in Requests : Tracked(r)'
  <2>1. CASE Open(q)
    <3>1. UNCHANGED <<log, pending, marred>> /\ pc[q] \in Before
      BY <2>1 DEF Open, Before, InChat
    <3>2. Return(q, "failed") \/ (Goto(q, "opened") /\ outcome' = outcome)
      BY <2>1 DEF Open, loop
    <3> QED
      BY <3>1, <3>2, FailTracked, MoveTracked DEF InChat
  <2>2. CASE LoadHistory(q) \/ CallProvider(q) \/ StartTool(q)
    <3>1. UNCHANGED <<log, pending, marred, outcome>> /\ pc[q] \in Before
      BY <2>2 DEF LoadHistory, CallProvider, StartTool, Before, InChat, loop
    <3>2. PICK label \in {"round", "cleanup", "provider", "tool"} : Goto(q, label)
      BY <2>2 DEF LoadHistory, CallProvider, StartTool
    <3> QED
      BY <3>1, <3>2, MoveTracked DEF InChat
  <2>3. CASE ProviderFails(q) \/ NextRound(q)
    <3>1. UNCHANGED <<log, pending, marred>> /\ pc[q] \in Before
      BY <2>3 DEF ProviderFails, NextRound, Before, InChat
    <3>2. Return(q, "failed") \/ (\E label \in {"cleanup", "round"} : Goto(q, label) /\ outcome' = outcome)
      BY <2>3 DEF ProviderFails, NextRound, loop
    <3> QED
      BY <3>1, <3>2, FailTracked, MoveTracked DEF InChat
  <2>4. CASE SaveUserMessage(q)
    <3>1. /\ Insert(q, "user", FALSE) /\ Goto(q, "saved") /\ pc[q] \in InChat /\ outcome' = outcome
          /\ "user" \in Kinds /\ "saved" \in InChat
      BY <2>4 DEF SaveUserMessage, AddMessage, InChat, Kinds, loop
    <3> QED
      BY <3>1, WriteTracked
  <2>5. CASE ProviderCallsTools(q) \/ ToolReturns(q)
    <3>1. PICK kind \in {"call", "result"} : Insert(q, kind, TRUE)
      BY <2>5 DEF ProviderCallsTools, ToolReturns, trackMsg
    <3>2. /\ Goto(q, "tools") /\ pc[q] \in InChat /\ outcome' = outcome
          /\ kind \in Kinds /\ "tools" \in InChat
      BY <2>5 DEF ProviderCallsTools, ToolReturns, InChat, Kinds
    <3> QED
      BY <3>1, <3>2, WriteTracked
  <2>6. CASE ProviderAnswers(q) \/ MarkCancelled(q)
    <3>1. PICK kind \in {"answer", "cancelled"}, result \in {"answered", "cancelled"} :
            /\ Insert(q, kind, FALSE) /\ Return(q, result)
            /\ result = "cancelled" => kind = "cancelled" /\ pc[q] \in Before /\ pending[q] = <<>>
      BY <2>6 DEF ProviderAnswers, MarkCancelled, AddMessage, Before, InChat
    <3>2. /\ pc'[q] = "returned" /\ outcome'[q] = result
          /\ \A r \in Requests \ {q} : pc'[r] = pc[r] /\ outcome'[r] = outcome[r]
      BY <3>1, ReturnLemma DEF TraceInv
    <3>3. Kept /\ Around /\ kind \in Kinds
      BY DEF TraceInv, TypeInv, Kinds
    <3>4. /\ marred \subseteq marred' /\ \A r \in Requests \ {q} : pending'[r] = pending[r]
          /\ \A x \in Message : In(x, log') => In(x, log) \/ (x.by = q /\ x.kind = kind)
      <4>1. PICK tracked \in BOOLEAN : Insert(q, kind, tracked)
        BY <3>1
      <4> QED
        BY <3>3, <4>1, InsertLemma
    <3>5. \A r \in Requests \ {q} : Tracked(r)'
      BY <3>2, <3>4, OthersTracked DEF TraceInv
    <3>6. CASE result = "answered"
      BY <3>2, <3>5, <3>6, ReturnedTracked
    <3>7. CASE result = "cancelled"
      <4>1. ASSUME NEW m \in Message, OfTools(m, q), In(m, log'), q \notin marred' PROVE FALSE
        <5>1. In(m, log) /\ q \notin marred
          BY <3>1, <3>4, <3>7, <4>1 DEF OfTools
        <5>2. In(m, pending[q])
          BY <3>1, <3>7, <4>1, <5>1 DEF TraceInv, Tracked
        <5> QED
          BY <3>1, <3>7, <5>2 DEF In
      <4>2. pc'[q] \notin Before /\ pc'[q] # "idle"
        BY <3>2 DEF Before, InChat
      <4>3. Tracked(q)'
        BY <4>1, <4>2 DEF Tracked
      <4> QED
        BY <3>5, <4>3
    <3> QED
      BY <3>6, <3>7
  <2>7. CASE DeletePending(q)
    <3>1. /\ pending[q] # <<>> /\ pending' = [pending EXCEPT ![q] = Tail(pending[q])]
          /\ pending \in [Requests -> Seq(Message)] /\ pc' = pc /\ outcome' = outcome
          /\ pc[q] = "cleanup"
      BY <2>7 DEF DeletePending, TraceInv, TypeInv, Kept, loop
    <3>2. marred \subseteq marred' /\ \A x : In(x, log') => In(x, log)
      BY <2>7, DeleteLemma DEF DeletePending, TraceInv, TypeInv
    <3>3. \A r \in Requests \ {q} : Tracked(r)'
      BY <3>1, <3>2, OthersTracked DEF TraceInv
    <3>4. ASSUME NEW m \in Message, OfTools(m, q), In(m, log'), q \notin marred'
          PROVE  In(m, pending'[q]) /\ outcome'[q] # "cancelled"
      <4>1. q \notin marred /\ log' = Without(Head(pending[q]))
        BY <2>7, <3>4 DEF DeletePending
      <4>2. In(m, log) /\ m # Head(pending[q])
        BY <3>4, <4>1, WithoutHas DEF TraceInv, TypeInv, Kept, LogInv
      <4>3. In(m, pending[q]) /\ outcome[q] # "cancelled"
        BY <3>1, <3>4, <4>1, <4>2 DEF TraceInv, Tracked, Before, InChat
      <4>4. In(m, Tail(pending[q]))
        BY <3>1, <4>2, <4>3, TailHas
      <4> QED
        BY <3>1, <4>3, <4>4
    <3>5. pc[q] # "idle" /\ outcome[q] = "none"
      BY <3>1 DEF TraceInv, Tracked, Before, InChat
    <3>6. Tracked(q)'
      BY <3>1, <3>4, <3>5 DEF Tracked
    <3> QED
      BY <3>3, <3>6
  <2>8. CASE Finish(q)
    <3>1. /\ UNCHANGED <<log, marred, outcome>> /\ pc' = [pc EXCEPT ![q] = "done"]
          /\ pending' = [pending EXCEPT ![q] = <<>>]
      BY <2>8 DEF Finish, End
    <3>2. /\ pc'[q] = "done"
          /\ \A r \in Requests \ {q} : pc'[r] = pc[r] /\ pending'[r] = pending[r]
      BY <3>1 DEF TraceInv, TypeInv, Kept, Standing
    <3>3. \A r \in Requests \ {q} : Tracked(r)'
      BY <3>1, <3>2, OthersTracked DEF TraceInv
    <3>4. pc'[q] \notin Before /\ pc'[q] # "idle"
      BY <3>2 DEF Before, InChat
    <3>5. Tracked(q)'
      BY <3>1, <3>4, TrackedKept DEF TraceInv
    <3> QED
      BY <3>3, <3>5
  <2> QED
    BY <1>2, <2>1, <2>2, <2>3, <2>4, <2>5, <2>6, <2>7, <2>8 DEF Chat
<1>3. CASE \/ Cancel \/ AllServed \/ UNCHANGED vars
           \/ \E q \in Requests : Disconnect(q)
  <2>1. UNCHANGED <<log, pc, pending, outcome, marred>>
    BY <1>3 DEF Cancel, AllServed, Disconnect, vars, loop
  <2> QED
    BY <2>1, TrackedKept DEF TraceInv
<1>4. CASE handleDeleteSession \/ handleClearMessages \/ handleDeleteMessage
  <2>1. UNCHANGED <<pc, pending, outcome, marred>>
    BY <1>4 DEF handleDeleteSession, handleClearMessages, handleDeleteMessage, loop
  <2>2. \A x : In(x, log') => In(x, log)
    BY <1>4, DeleteLemma
       DEF handleDeleteSession, DeleteSession, handleClearMessages, handleDeleteMessage, TraceInv, TypeInv
  <2> QED
    BY <2>1, <2>2, TrackedKept DEF TraceInv
<1>5. CASE Crash
  <2> SUFFICES ASSUME NEW r \in Requests PROVE Tracked(r)'
    OBVIOUS
  <2>1. UNCHANGED <<log, outcome, marred>> /\ pending'[r] = <<>>
    BY <1>5 DEF Crash
  <2>2. pc'[r] \in Before => pc[r] = "idle" /\ pending[r] = <<>>
    BY <1>5 DEF Crash, Before, InFlight, InChat, TraceInv, Tracked
  <2> QED
    BY <2>1, <2>2, TrackedKept DEF TraceInv, Before
<1> QED
  BY <1>1, <1>2, <1>3, <1>4, <1>5 DEF Next

\* Whatever other requests write, the user deletes or a crash cuts off, a request that
\* was cancelled leaves no message of its tool calls, unless a statement of its own failed.
THEOREM NoTrace == Spec => []CancelledLeavesNoTrace
<1>1. Init => TraceInv
  <2> SUFFICES ASSUME Init PROVE TraceInv
    OBVIOUS
  <2>1. log = <<>> /\ DOMAIN log = {}
    BY DEF Init
  <2>2. \A q \in Requests : Tracked(q)
    BY <2>1 DEF Init, Tracked, In
  <2> QED
    BY <2>2, TypeStart DEF TraceInv
<1>2. ASSUME TraceInv PROVE CancelledLeavesNoTrace
  <2> SUFFICES ASSUME NEW q \in Requests \ marred, outcome[q] = "cancelled",
                      NEW i \in DOMAIN log, log[i].by = q
               PROVE  log[i].kind \in {"user", "cancelled"}
    BY DEF CancelledLeavesNoTrace
  <2>1. log \in Seq(Message)
    BY <1>2 DEF TraceInv, TypeInv, Kept, LogInv
  <2>2. log[i] \in Message /\ In(log[i], log)
    BY <2>1 DEF In
  <2> QED
    BY <1>2, <2>2 DEF TraceInv, Tracked, OfTools
<1> QED
  BY <1>1, <1>2, TraceStep, PTL DEF Spec

-----------------------------------------------------------------------------
(* What BuildMessages computes.  Its loop is a recursive function: it      *)
(* exists, and what it returns is as it should be, by induction on the     *)
(* messages read.  The induction is one over sets of numbers, from a       *)
(* smallest element that is not in the set.                                *)

Below == {ss \in Nat \X Nat : ss[1] < ss[2]}

LEMMA LeastElement ==
  ASSUME NEW T, T \subseteq Nat, T # {}
  PROVE  \E x \in T : \A y \in T : x <= y
<1>1. IsWellFoundedOn(Below, Nat)
  BY NatLessThanWellFounded DEF OpToRel, Below
<1>2. PICK x \in T : \A y \in T : <<y, x>> \notin Below
  BY <1>1, WFMin
<1>3. \A y \in T : ~ (y < x)
  BY <1>2 DEF Below
<1> QED
  BY <1>3

LEMMA SetInduction ==
  ASSUME NEW S, 0 \in S, \A n \in Nat : n \in S => n + 1 \in S
  PROVE  Nat \subseteq S
<1> DEFINE T == {n \in Nat : n \notin S}
<1> SUFFICES ASSUME T # {} PROVE FALSE
  OBVIOUS
<1>1. T \subseteq Nat
  OBVIOUS
<1>2. PICK x \in T : \A y \in T : x <= y
  <2> HIDE DEF T
  <2> QED BY <1>1, LeastElement
<1>3. x # 0 /\ x - 1 \in Nat
  OBVIOUS
<1>4. x - 1 \in S
  BY <1>2, <1>3
<1> QED
  BY <1>3, <1>4

\* The results BuildMessages drops.
Dropped(h) == {i \in 1..Len(h) : h[i].kind = "result" /\ ~InToolSequence(h, i)}

\* f is what its loop has kept of h after each of the first n messages.
KeepsUpTo(h, f, n) ==
  f = [i \in 0..n |->
         IF i = 0 THEN <<>>
         ELSE IF i \in Dropped(h) THEN f[i - 1] ELSE Append(f[i - 1], h[i])]

\* Such a function exists, whatever the history.
LEMMA KeepExists ==
  ASSUME NEW h \in Seq(Message)
  PROVE  \E f : KeepsUpTo(h, f, Len(h))
<1> DEFINE S == {n \in Nat : \E f : KeepsUpTo(h, f, n)}
<1>1. 0 \in S
  <2> DEFINE f == [i \in 0..0 |-> <<>>]
  <2>1. KeepsUpTo(h, f, 0)
    BY DEF KeepsUpTo
  <2> QED
    BY <2>1
<1>2. ASSUME NEW n \in Nat, n \in S PROVE n + 1 \in S
  <2>1. PICK f : KeepsUpTo(h, f, n)
    BY <1>2
  <2> DEFINE last == IF n + 1 \in Dropped(h) THEN f[n] ELSE Append(f[n], h[n + 1])
             g == [i \in 0 .. n + 1 |-> IF i = n + 1 THEN last ELSE f[i]]
  <2>2. ASSUME NEW i \in 0 .. n + 1
        PROVE  g[i] = IF i = 0 THEN <<>>
                      ELSE IF i \in Dropped(h) THEN g[i - 1] ELSE Append(g[i - 1], h[i])
    <3>1. CASE i = n + 1
      BY <3>1
    <3>2. CASE i # n + 1
      <4>1. i \in 0..n /\ (i # 0 => i - 1 \in 0..n)
        BY <3>2
      <4>2. g[i] = f[i] /\ (i # 0 => g[i - 1] = f[i - 1])
        BY <4>1
      <4> HIDE DEF g
      <4> QED
        BY <2>1, <4>1, <4>2 DEF KeepsUpTo
    <3> QED
      BY <3>1, <3>2
  <2>3. KeepsUpTo(h, g, n + 1)
    <3>1. g = [i \in 0 .. n + 1 |-> g[i]]
      OBVIOUS
    <3> HIDE DEF g
    <3> QED
      BY <2>2, <3>1 DEF KeepsUpTo
  <2> QED
    BY <2>3
<1>3. Nat \subseteq S
  <2> HIDE DEF S
  <2> QED BY <1>1, <1>2, SetInduction
<1> QED
  BY <1>3

\* BuildMessages returns what its loop has kept in the end.
LEMMA Builds ==
  ASSUME NEW h \in Seq(Message)
  PROVE  \E f : KeepsUpTo(h, f, Len(h)) /\ BuildMessages(h) = f[Len(h)]
<1> DEFINE keep[i \in 0..Len(h)] ==
             IF i = 0 THEN <<>>
             ELSE IF h[i].kind = "result" /\ ~InToolSequence(h, i)
                  THEN keep[i - 1]
                  ELSE Append(keep[i - 1], h[i])
<1>1. \A f : KeepsUpTo(h, f, Len(h)) <=>
         f = [i \in 0..Len(h) |->
             IF i = 0 THEN <<>>
             ELSE IF h[i].kind = "result" /\ ~InToolSequence(h, i)
                  THEN f[i - 1]
                  ELSE Append(f[i - 1], h[i])]
  BY DEF KeepsUpTo, Dropped
<1>2. KeepsUpTo(h, keep, Len(h))
  BY <1>1, KeepExists
<1>3. BuildMessages(h) = keep[Len(h)]
  BY DEF BuildMessages
<1> QED
  BY <1>2, <1>3

\* Every result in s follows its call, directly or behind other results.
Answered(s) ==
  \A i \in DOMAIN s : s[i].kind = "result" => i > 1 /\ s[i - 1].kind \in {"call", "result"}

\* Every result in s stands in h, too, behind the message it stands behind in s.
Behind(h, s) ==
  \A i \in DOMAIN s : s[i].kind = "result" =>
    i > 1 /\ \E j \in 2..Len(h) : h[j] = s[i] /\ h[j - 1] = s[i - 1]

\* The next message may be a result.
EndsInCall(s) == Len(s) > 0 /\ s[Len(s)].kind \in {"call", "result"}

LEMMA AppendAnswered ==
  ASSUME NEW s \in Seq(Message), Answered(s), NEW m \in Message,
         m.kind = "result" => EndsInCall(s)
  PROVE  Append(s, m) \in Seq(Message) /\ Answered(Append(s, m))
  BY DEF Answered, EndsInCall

LEMMA AppendBehind ==
  ASSUME NEW h \in Seq(Message), NEW s \in Seq(Message), Behind(h, s),
         NEW n \in 1..Len(h),
         h[n].kind = "result" => n > 1 /\ Len(s) > 0 /\ s[Len(s)] = h[n - 1]
  PROVE  Behind(h, Append(s, h[n]))
<1> DEFINE a == Append(s, h[n])
<1>1. /\ DOMAIN a = 1 .. Len(s) + 1 /\ DOMAIN s = 1 .. Len(s) /\ Len(s) \in Nat
      /\ a[Len(s) + 1] = h[n] /\ \A i \in 1 .. Len(s) : a[i] = s[i]
  OBVIOUS
<1> HIDE DEF a
<1> SUFFICES ASSUME NEW i \in DOMAIN a, a[i].kind = "result"
             PROVE  i > 1 /\ \E j \in 2..Len(h) : h[j] = a[i] /\ h[j - 1] = a[i - 1]
  BY DEF Behind, a
<1>2. CASE i = Len(s) + 1
  <2>1. n \in 2..Len(h) /\ Len(s) \in 1 .. Len(s) /\ i - 1 = Len(s)
    BY <1>1, <1>2
  <2> QED
    BY <1>1, <1>2, <2>1
<1>3. CASE i # Len(s) + 1
  <2>1. i \in DOMAIN s /\ a[i] = s[i]
    BY <1>1, <1>3
  <2>2. i > 1 /\ \E j \in 2..Len(h) : h[j] = s[i] /\ h[j - 1] = s[i - 1]
    BY <2>1 DEF Behind
  <2>3. a[i - 1] = s[i - 1]
    BY <1>1, <2>1, <2>2
  <2> QED
    BY <2>1, <2>2, <2>3
<1> QED
  BY <1>2, <1>3

\* A tool sequence begins with a call and goes on with its results.
LEMMA SequenceGoesOn ==
  ASSUME NEW h \in Seq(Message), NEW n \in Nat, n < Len(h), InToolSequence(h, n + 2)
  PROVE  \/ h[n + 1].kind = "call"
         \/ h[n + 1].kind = "result" /\ InToolSequence(h, n + 1)
  BY DEF InToolSequence

\* What f holds at its arguments.
LEMMA KeptAt ==
  ASSUME NEW h \in Seq(Message), NEW f, KeepsUpTo(h, f, Len(h))
  PROVE  /\ f[0] = <<>>
         /\ \A n \in Nat : n < Len(h) =>
              f[n + 1] = IF n + 1 \in Dropped(h) THEN f[n] ELSE Append(f[n], h[n + 1])
<1>1. \A i \in 0..Len(h) :
        f[i] = IF i = 0 THEN <<>>
               ELSE IF i \in Dropped(h) THEN f[i - 1] ELSE Append(f[i - 1], h[i])
  <2> DEFINE V(i) == IF i = 0 THEN <<>>
               ELSE IF i \in Dropped(h) THEN f[i - 1] ELSE Append(f[i - 1], h[i])
  <2>1. f = [i \in 0..Len(h) |-> V(i)]
    BY DEF KeepsUpTo
  <2> HIDE DEF V
  <2>2. \A i \in 0..Len(h) : f[i] = V(i)
    BY <2>1
  <2> QED
    BY <2>2 DEF V
<1>2. Len(h) \in Nat
  OBVIOUS
<1>3. f[0] = <<>>
  BY <1>1, <1>2
<1>4. ASSUME NEW n \in Nat, n < Len(h)
      PROVE  f[n + 1] = IF n + 1 \in Dropped(h) THEN f[n] ELSE Append(f[n], h[n + 1])
  <2>1. n + 1 \in 0..Len(h) /\ n + 1 # 0 /\ (n + 1) - 1 = n
    BY <1>2, <1>4
  <2> QED
    BY <1>1, <2>1
<1> QED
  BY <1>3, <1>4

\* The invariant of the loop: inside a tool sequence the last message kept is the last
\* one read, the call or one of its results, since inside it no result is dropped.
LEMMA KeptIsAnswered ==
  ASSUME NEW h \in Seq(Message), NEW f, KeepsUpTo(h, f, Len(h))
  PROVE  f[Len(h)] \in Seq(Message) /\ Answered(f[Len(h)]) /\ Behind(h, f[Len(h)])
<1> DEFINE Good(n) == /\ f[n] \in Seq(Message) /\ Answered(f[n]) /\ Behind(h, f[n])
                      /\ InToolSequence(h, n + 1) =>
                           n > 0 /\ EndsInCall(f[n]) /\ f[n][Len(f[n])] = h[n]
           S == {n \in Nat : n <= Len(h) => Good(n)}
<1>1. 0 \in S
  <2>1. f[0] = <<>>
    BY KeptAt
  <2>2. ~InToolSequence(h, 1)
    BY DEF InToolSequence
  <2>3. <<>> \in Seq(Message) /\ Answered(<<>>) /\ Behind(h, <<>>)
    BY DEF Answered, Behind
  <2>4. Good(0)
    BY <2>1, <2>2, <2>3
  <2> QED
    BY <2>4
<1>2. ASSUME NEW n \in Nat, n \in S PROVE n + 1 \in S
  <2> SUFFICES ASSUME n + 1 <= Len(h) PROVE Good(n + 1)
    OBVIOUS
  <2>1. Good(n) /\ n < Len(h) /\ h[n + 1] \in Message
    BY <1>2
  <2>2. f[n + 1] = IF n + 1 \in Dropped(h) THEN f[n] ELSE Append(f[n], h[n + 1])
    BY <2>1, KeptAt
  <2>3. n + 1 \in Dropped(h) <=> h[n + 1].kind = "result" /\ ~InToolSequence(h, n + 1)
    BY DEF Dropped
  <2>4. InToolSequence(h, n + 2) =>
           \/ h[n + 1].kind = "call"
           \/ h[n + 1].kind = "result" /\ InToolSequence(h, n + 1)
    BY <2>1, SequenceGoesOn
  <2>5. CASE n + 1 \in Dropped(h)
    BY <2>1, <2>2, <2>3, <2>4, <2>5
  <2>6. CASE n + 1 \notin Dropped(h)
    <3>1. f[n + 1] = Append(f[n], h[n + 1])
      BY <2>2, <2>6
    <3>2. f[n + 1] \in Seq(Message) /\ Answered(f[n + 1])
      BY <2>1, <2>3, <2>6, <3>1, AppendAnswered
    <3>3. Behind(h, f[n + 1])
      <4>1. h[n + 1].kind = "result" =>
              n > 0 /\ Len(f[n]) > 0 /\ f[n][Len(f[n])] = h[n]
        BY <2>1, <2>3, <2>6 DEF EndsInCall
      <4>2. n + 1 \in 1..Len(h) /\ (n + 1) - 1 = n /\ (n > 0 => n + 1 > 1)
        OBVIOUS
      <4> QED
        BY <2>1, <3>1, <4>1, <4>2, AppendBehind
    <3>4. /\ n + 1 > 0 /\ f[n + 1][Len(f[n + 1])] = h[n + 1]
          /\ InToolSequence(h, n + 2) => EndsInCall(f[n + 1])
      BY <2>1, <2>4, <3>1 DEF EndsInCall
    <3>5. (n + 1) + 1 = n + 2
      OBVIOUS
    <3> QED
      BY <3>2, <3>3, <3>4, <3>5
  <2> QED
    BY <2>5, <2>6
<1>3. Nat \subseteq S
  <2> HIDE DEF S
  <2> QED BY <1>1, <1>2, SetInduction
<1> QED
  BY <1>3

\* Whatever the history, cut off anywhere and with anything deleted from it, a result
\* that BuildMessages keeps follows a call or another result, and follows it in the
\* history too: nothing between a call and its results is dropped.
THEOREM BuildMessagesAnswers ==
  ASSUME NEW h \in Seq(Message)
  PROVE  Answered(BuildMessages(h)) /\ Behind(h, BuildMessages(h))
  BY Builds, KeptIsAnswered

\* In a history that is in order every result is part of a tool sequence.
LEMMA OrderedSequences ==
  ASSUME NEW h \in Seq(Message), Answered(h)
  PROVE  \A i \in 1..Len(h) : h[i].kind = "result" => InToolSequence(h, i)
<1> DEFINE S == {n \in Nat : n \in 1..Len(h) /\ h[n].kind = "result" => InToolSequence(h, n)}
<1>1. 0 \in S
  OBVIOUS
<1>2. ASSUME NEW n \in Nat, n \in S PROVE n + 1 \in S
  <2> SUFFICES ASSUME n + 1 \in 1..Len(h), h[n + 1].kind = "result"
               PROVE  InToolSequence(h, n + 1)
    OBVIOUS
  <2>1. n \in 1..Len(h) /\ n >= 1 /\ h[n].kind \in {"call", "result"}
    <3>1. n + 1 \in DOMAIN h /\ (n + 1) - 1 = n
      OBVIOUS
    <3>2. n + 1 > 1 /\ h[(n + 1) - 1].kind \in {"call", "result"}
      BY <3>1 DEF Answered
    <3> QED
      BY <3>1, <3>2
  <2>2. CASE h[n].kind = "call"
    BY <2>1, <2>2 DEF InToolSequence
  <2>3. CASE h[n].kind = "result"
    <3>1. InToolSequence(h, n)
      BY <1>2, <2>1, <2>3
    <3>2. PICK j \in 1..(n - 1) : h[j].kind = "call" /\ \A k \in (j + 1)..(n - 1) : h[k].kind = "result"
      BY <3>1 DEF InToolSequence
    <3>3. j \in 1..n /\ \A k \in (j + 1)..n : h[k].kind = "result"
      BY <2>1, <2>3, <3>2
    <3> QED
      BY <3>2, <3>3 DEF InToolSequence
  <2> QED
    BY <2>1, <2>2, <2>3
<1>3. Nat \subseteq S
  <2> HIDE DEF S
  <2> QED BY <1>1, <1>2, SetInduction
<1> QED
  BY <1>3

\* BuildMessages drops nothing it need not: a history that is in order is the prompt.
THEOREM BuildMessagesKeeps ==
  ASSUME NEW h \in Seq(Message), Answered(h)
  PROVE  BuildMessages(h) = h
<1>1. Dropped(h) = {}
  BY OrderedSequences DEF Dropped
<1>2. PICK f : KeepsUpTo(h, f, Len(h)) /\ BuildMessages(h) = f[Len(h)]
  BY Builds
<1> DEFINE Prefix(n) == /\ f[n] \in Seq(Message) /\ Len(f[n]) = n
                        /\ \A k \in 1..n : f[n][k] = h[k]
           S == {n \in Nat : n <= Len(h) => Prefix(n)}
<1>3. 0 \in S
  <2>1. f[0] = <<>>
    BY <1>2, KeptAt
  <2>2. <<>> \in Seq(Message) /\ Len(<<>>) = 0
    OBVIOUS
  <2>3. Prefix(0)
    BY <2>1, <2>2
  <2> QED
    BY <2>3
<1>4. ASSUME NEW n \in Nat, n \in S PROVE n + 1 \in S
  <2> SUFFICES ASSUME n + 1 <= Len(h) PROVE Prefix(n + 1)
    OBVIOUS
  <2>1. Prefix(n) /\ n < Len(h) /\ h[n + 1] \in Message
    BY <1>4
  <2>2. f[n + 1] = Append(f[n], h[n + 1])
    BY <1>1, <1>2, <2>1, KeptAt
  <2> QED
    BY <2>1, <2>2
<1>5. Nat \subseteq S
  <2> HIDE DEF S
  <2> QED BY <1>3, <1>4, SetInduction
<1>6. Prefix(Len(h))
  BY <1>5
<1> QED
  <2>1. /\ BuildMessages(h) \in Seq(Message) /\ Len(BuildMessages(h)) = Len(h)
        /\ \A k \in 1..Len(h) : BuildMessages(h)[k] = h[k]
    BY <1>2, <1>6
  <2> HIDE DEF Prefix
  <2> QED
    BY <2>1

LEMMA HistoryType ==
  ASSUME log \in Seq(Message), ChatAssumption
  PROVE  AllButLast(GetMessages) \in Seq(Message)
<1>1. GetMessages \in Seq(Message)
  BY DEF GetMessages, ChatAssumption
<1> HIDE DEF GetMessages
<1> QED
  BY <1>1 DEF AllButLast

\* What the provider is given before the current message is a part of the log.
LEMMA SubSeqHas ==
  ASSUME NEW s \in Seq(Message), NEW d \in Nat, NEW e \in Nat, d <= e, e <= Len(s)
  PROVE  LET g == SubSeq(s, d + 1, e) IN
         g \in Seq(Message) /\ Len(g) = e - d /\ \A j \in 1 .. e - d : g[j] = s[j + d]
<1>1. Len(s) \in Nat
  OBVIOUS
<1> QED
  BY <1>1

LEMMA HistoryPart ==
  ASSUME log \in Seq(Message), ChatAssumption
  PROVE  LET h == AllButLast(GetMessages) IN
         /\ h \in Seq(Message)
         /\ \E d \in Nat : d + Len(h) <= Len(log) /\ \A j \in 1..Len(h) : h[j] = log[j + d]
<1> DEFINE g == GetMessages
           h == AllButLast(g)
<1>1. /\ g \in Seq(Message)
      /\ \E d \in Nat : d + Len(g) <= Len(log) /\ \A j \in 1..Len(g) : g[j] = log[j + d]
  <2>1. CASE Len(log) <= HistoryLimit
    <3>1. g = log /\ 0 + Len(log) <= Len(log) /\ \A j \in 1..Len(log) : log[j] = log[j + 0]
      BY <2>1 DEF GetMessages
    <3> QED
      BY <3>1
  <2>2. CASE ~(Len(log) <= HistoryLimit)
    <3> DEFINE d == Len(log) - HistoryLimit
    <3>1. d \in Nat /\ g = SubSeq(log, d + 1, Len(log)) /\ Len(log) \in Nat /\ d <= Len(log)
      BY <2>2 DEF GetMessages, ChatAssumption
    <3> HIDE DEF d, g
    <3>2. g \in Seq(Message) /\ Len(g) = Len(log) - d /\ \A j \in 1..Len(g) : g[j] = log[j + d]
      BY <3>1, SubSeqHas
    <3>3. d + Len(g) <= Len(log)
      BY <3>1, <3>2
    <3> QED
      BY <3>1, <3>2, <3>3
  <2> QED
    BY <2>1, <2>2
<1> HIDE DEF g
<1>2. CASE g = <<>>
  <2>1. h = <<>> /\ Len(h) = 0 /\ 0 + 0 <= Len(log)
    BY <1>2 DEF AllButLast
  <2>2. h \in Seq(Message) /\ 0 + Len(h) <= Len(log) /\ \A j \in 1..Len(h) : h[j] = log[j + 0]
    BY <2>1
  <2> QED
    BY <2>2 DEF g
<1>3. CASE g # <<>>
  <2>1. h = SubSeq(g, 0 + 1, Len(g) - 1) /\ Len(g) - 1 \in Nat /\ Len(g) - 1 <= Len(g)
    BY <1>1, <1>3 DEF AllButLast
  <2> HIDE DEF h
  <2>2. h \in Seq(Message) /\ Len(h) = Len(g) - 1 /\ \A j \in 1..Len(h) : h[j] = g[j + 0]
    <3> DEFINE e == Len(g) - 1
    <3>1. h = SubSeq(g, 0 + 1, e) /\ e \in Nat /\ e <= Len(g) /\ 0 <= e /\ 0 \in Nat /\ e - 0 = e
      BY <2>1
    <3> HIDE DEF e
    <3>2. h \in Seq(Message) /\ Len(h) = e /\ \A j \in 1..e : h[j] = g[j + 0]
      BY <1>1, <3>1, SubSeqHas
    <3> QED
      BY <3>2 DEF e
  <2>3. PICK d \in Nat : d + Len(g) <= Len(log) /\ \A j \in 1..Len(g) : g[j] = log[j + d]
    BY <1>1
  <2>4. d + Len(h) <= Len(log) /\ \A j \in 1..Len(h) : j \in 1..Len(g) /\ j + 0 = j
    BY <2>1, <2>2, <2>3
  <2>5. \A j \in 1..Len(h) : h[j] = log[j + d]
    BY <2>2, <2>3, <2>4
  <2> QED
    BY <2>2, <2>4, <2>5 DEF h, g
<1> QED
  BY <1>2, <1>3

-----------------------------------------------------------------------------
(* The order of the log.  Until another request overlaps it, the user      *)
(* deletes one of its messages or a statement of its own fails, what a     *)
(* request writes after the user's message follows what it wrote before.   *)

Clean == Requests \ (mixed \cup marred)

\* A request that has saved the user's message.
AtWork == InChat \ {"start", "opened"}

InOrder(s, q) ==
  \A i \in 2..Len(s) : s[i].by = q /\ s[i].kind # "user" =>
    /\ s[i - 1].by = q /\ s[i - 1].n < s[i].n
    /\ s[i].kind = "result" /\ s[i - 1].kind \in {"call", "result"} => s[i - 1].round = s[i].round

EndsWith(s, q) == s = <<>> \/ s[Len(s)].by = q

Ordered(q) ==
  /\ InOrder(log, q)
  /\ pc[q] \in AtWork => EndsWith(log, q)
  /\ pc[q] \in {"tools", "tool"} => log = <<>> \/ log[Len(log)].round = round[q]
  /\ pc[q] \in InChat => \A r \in Requests \ {q} : pc[r] \notin InChat

\* The pending messages of a request, in the order it wrote them, w in all.
Queue(s, q, w) ==
  /\ \A i \in DOMAIN s : s[i].by = q /\ s[i].kind \in {"call", "result"} /\ s[i].n <= w
  /\ \A i, j \in DOMAIN s : i < j => s[i].n < s[j].n

OrderInv ==
  /\ TraceInv
  /\ ~exists => log = <<>>
  /\ \A q \in Requests : Queue(pending[q], q, wrote[q])
  /\ \A q \in Clean : Ordered(q)

LEMMA QueueAppend ==
  ASSUME NEW s \in Seq(Message), NEW q, NEW w \in Nat, Queue(s, q, w), NEW m \in Message,
         m.by = q, m.kind \in {"call", "result"}, m.n = w + 1
  PROVE  Queue(Append(s, m), q, w + 1)
<1> DEFINE a == Append(s, m)
<1>1. /\ DOMAIN a = 1 .. Len(s) + 1 /\ DOMAIN s = 1 .. Len(s) /\ Len(s) \in Nat
      /\ a[Len(s) + 1] = m /\ \A i \in 1 .. Len(s) : a[i] = s[i]
  OBVIOUS
<1> HIDE DEF a
<1>2. \A i \in 1 .. Len(s) : s[i].n \in Nat
  BY <1>1, Messages
<1>3. \A i \in DOMAIN a : a[i].by = q /\ a[i].kind \in {"call", "result"} /\ a[i].n <= w + 1
  BY <1>1, <1>2 DEF Queue
<1>4. ASSUME NEW i \in DOMAIN a, NEW j \in DOMAIN a, i < j PROVE a[i].n < a[j].n
  <2>1. i \in 1 .. Len(s) /\ a[i] = s[i]
    BY <1>1, <1>4
  <2>2. CASE j = Len(s) + 1
    BY <1>1, <1>2, <2>1, <2>2 DEF Queue
  <2>3. CASE j # Len(s) + 1
    BY <1>1, <1>4, <2>1, <2>3 DEF Queue
  <2> QED
    BY <2>2, <2>3
<1> QED
  BY <1>3, <1>4 DEF Queue, a

LEMMA QueueTail ==
  ASSUME NEW s \in Seq(Message), s # <<>>, NEW q, NEW w, Queue(s, q, w)
  PROVE  Queue(Tail(s), q, w)
<1>1. /\ DOMAIN Tail(s) = 1 .. Len(s) - 1 /\ DOMAIN s = 1 .. Len(s) /\ Len(s) \in Nat
      /\ \A k \in 1 .. Len(s) - 1 : Tail(s)[k] = s[k + 1]
  OBVIOUS
<1> QED
  BY <1>1 DEF Queue

\* The head of the pending messages is the first of them that was written.
LEMMA HeadIsFirst ==
  ASSUME NEW s \in Seq(Message), s # <<>>, NEW q, NEW w, Queue(s, q, w), NEW x, In(x, s)
  PROVE  x = Head(s) \/ Head(s).n < x.n
<1>1. DOMAIN s = 1 .. Len(s) /\ Len(s) \in Nat /\ 1 \in DOMAIN s /\ Head(s) = s[1]
  OBVIOUS
<1> QED
  BY <1>1 DEF Queue, In

LEMMA QueueEmpty == ASSUME NEW q, NEW w PROVE Queue(<<>>, q, w)
BY DEF Queue

\* A new message that follows what its request wrote before.
LEMMA AppendOrdered ==
  ASSUME NEW s \in Seq(Message), NEW q, InOrder(s, q), NEW m \in Message,
         m.by = q /\ m.kind # "user" /\ s # <<>> =>
           /\ s[Len(s)].by = q /\ s[Len(s)].n < m.n
           /\ m.kind = "result" => s[Len(s)].round = m.round
  PROVE  InOrder(Append(s, m), q)
<1> DEFINE a == Append(s, m)
<1>1. /\ Len(a) = Len(s) + 1 /\ Len(s) \in Nat
      /\ a[Len(s) + 1] = m /\ \A i \in 1 .. Len(s) : a[i] = s[i]
  OBVIOUS
<1> HIDE DEF a
<1> SUFFICES ASSUME NEW i \in 2..Len(a), a[i].by = q, a[i].kind # "user"
             PROVE  /\ a[i - 1].by = q /\ a[i - 1].n < a[i].n
                    /\ a[i].kind = "result" /\ a[i - 1].kind \in {"call", "result"} =>
                         a[i - 1].round = a[i].round
  BY DEF InOrder, a
<1>2. CASE i = Len(s) + 1
  <2>1. i - 1 = Len(s) /\ Len(s) \in 1..Len(s) /\ s # <<>>
    BY <1>1, <1>2
  <2> QED
    BY <1>1, <1>2, <2>1
<1>3. CASE i # Len(s) + 1
  <2>1. i \in 2..Len(s) /\ i \in 1..Len(s) /\ i - 1 \in 1..Len(s)
    BY <1>1, <1>3
  <2> QED
    BY <1>1, <2>1 DEF InOrder
<1> QED
  BY <1>2, <1>3

\* s without its k-th message.
Removed(s, k) == [j \in 1 .. Len(s) - 1 |-> s[IF j < k THEN j ELSE j + 1]]

\* What stands behind the message that goes then stands behind the one before it.
LEMMA RemovedOrdered ==
  ASSUME NEW s \in Seq(Message), NEW q, InOrder(s, q), NEW k \in 1..Len(s),
         s[k].by = q => /\ s[k].kind # "user"
                        /\ k > 1 => s[k - 1].kind \notin {"call", "result"}
  PROVE  /\ InOrder(Removed(s, k), q)
         /\ EndsWith(s, q) => EndsWith(Removed(s, k), q)
         /\ s[k].by # q /\ EndsWith(s, q) =>
              Len(Removed(s, k)) > 0 /\ Removed(s, k)[Len(Removed(s, k))] = s[Len(s)]
<1> DEFINE w == Removed(s, k)
<1>1. /\ w \in Seq(Message) /\ Len(w) = Len(s) - 1 /\ Len(s) \in Nat \ {0}
      /\ \A j \in 1 .. Len(s) - 1 : w[j] = s[IF j < k THEN j ELSE j + 1]
  BY DEF Removed
<1> HIDE DEF w
<1>0. \A j \in 1 .. Len(s) : s[j].n \in Nat
  BY Messages
<1>2. ASSUME NEW i \in 2..Len(w), w[i].by = q, w[i].kind # "user"
      PROVE  /\ w[i - 1].by = q /\ w[i - 1].n < w[i].n
             /\ w[i].kind = "result" /\ w[i - 1].kind \in {"call", "result"} =>
                  w[i - 1].round = w[i].round
  <2>1. CASE i < k
    <3>0. i \in 1 .. Len(s) - 1 /\ i - 1 \in 1 .. Len(s) - 1 /\ i - 1 < k /\ i \in 2..Len(s)
      BY <1>1, <2>1
    <3>1. w[i] = s[i] /\ w[i - 1] = s[i - 1]
      BY <1>1, <2>1, <3>0
    <3> QED
      BY <1>2, <3>0, <3>1 DEF InOrder
  <2>2. CASE i > k
    <3>1. i - 1 \in 1 .. Len(s) - 1 /\ ~(i - 1 < k) /\ ~(i < k) /\ i \in 1 .. Len(s) - 1
      BY <1>1, <2>2
    <3>2. w[i] = s[i + 1] /\ w[i - 1] = s[(i - 1) + 1] /\ i + 1 \in 2..Len(s) /\ (i - 1) + 1 = (i + 1) - 1
      BY <1>1, <3>1
    <3> QED
      BY <1>2, <3>2 DEF InOrder
  <2>3. CASE i = k
    <3>0. /\ k \in 1 .. Len(s) - 1 /\ k - 1 \in 1 .. Len(s) - 1 /\ ~(k < k) /\ k - 1 < k
          /\ k + 1 \in 2..Len(s) /\ k \in 2..Len(s) /\ k + 1 \in 1..Len(s)
          /\ (k + 1) - 1 = k /\ k - 1 \in 1..Len(s)
      BY <1>1, <2>3
    <3>1. w[k] = s[k + 1] /\ w[k - 1] = s[k - 1]
      BY <1>1, <3>0
    <3>2. s[k].by = q /\ s[k].n < s[k + 1].n
      BY <1>2, <2>3, <3>0, <3>1 DEF InOrder
    <3>3. s[k - 1].by = q /\ s[k - 1].n < s[k].n /\ s[k - 1].kind \notin {"call", "result"}
      BY <3>0, <3>2 DEF InOrder
    <3>4. s[k - 1].n < s[k + 1].n
      BY <1>0, <3>0, <3>2, <3>3
    <3> QED
      BY <2>3, <3>1, <3>3, <3>4
  <2> QED
    BY <2>1, <2>2, <2>3
<1>3. CASE k = Len(s)
  <2>1. ASSUME EndsWith(s, q) PROVE s[k].by = q /\ EndsWith(w, q)
    <3>1. s[k].by = q /\ s[k].kind # "user"
      BY <1>1, <1>3, <2>1 DEF EndsWith
    <3>2. CASE Len(s) = 1
      BY <1>1, <3>1, <3>2 DEF EndsWith
    <3>3. CASE Len(s) # 1
      <4>1. k \in 2..Len(s) /\ Len(w) = k - 1 /\ k - 1 \in 1 .. Len(s) - 1 /\ k - 1 < k
        BY <1>1, <1>3, <3>3
      <4>2. w[Len(w)] = s[k - 1]
        BY <1>1, <4>1
      <4> QED
        BY <3>1, <4>1, <4>2 DEF InOrder, EndsWith
    <3> QED
      BY <3>2, <3>3
  <2> QED
    BY <1>2, <2>1 DEF InOrder, w
<1>4. CASE k # Len(s)
  <2>1. Len(w) > 0 /\ w[Len(w)] = s[Len(s)]
    BY <1>1, <1>4
  <2> QED
    BY <1>2, <2>1 DEF InOrder, EndsWith, w
<1> QED
  BY <1>3, <1>4

LEMMA WithoutIs ==
  ASSUME NEW m
  PROVE  \/ Without(m) = log
         \/ \E k \in DOMAIN log : log[k] = m /\ Without(m) = Removed(log, k)
BY DEF Without, Removed

\* A request that a step leaves alone or moves without writing or deleting anything.
LEMMA OrderedStays ==
  ASSUME OrderInv, NEW r \in Clean', marred \subseteq marred', mixed \subseteq mixed', log' = log,
         pc'[r] \in AtWork => pc[r] \in AtWork,
         pc'[r] \in {"tools", "tool"} => pc[r] \in {"tools", "tool"} /\ round'[r] = round[r],
         \A x \in Requests : pc'[x] \in InChat => pc[x] \in InChat
  PROVE  Ordered(r)'
<1>1. r \in Clean /\ Ordered(r)
  BY DEF Clean, OrderInv
<1> QED
  BY <1>1 DEF Ordered, InOrder, EndsWith, Clean

\* A request without others in the chat: what goes from the log of another's messages
\* is not what it wrote last.
LEMMA OthersOrdered ==
  ASSUME OrderInv, NEW r \in Clean', marred \subseteq marred', mixed \subseteq mixed',
         NEW k \in DOMAIN log, log[k].by # r, log' = Removed(log, k),
         UNCHANGED <<pc, round>>
  PROVE  Ordered(r)'
<1>1. r \in Clean /\ Ordered(r)
  BY DEF Clean, OrderInv
<1>2. log \in Seq(Message) /\ k \in 1..Len(log)
  BY DEF OrderInv, TraceInv, TypeInv, Kept, LogInv
<1>3. /\ InOrder(log', r)
      /\ EndsWith(log, r) => EndsWith(log', r)
      /\ EndsWith(log, r) => Len(log') > 0 /\ log'[Len(log')] = log[Len(log)]
  BY <1>1, <1>2, RemovedOrdered DEF Ordered
<1>4. pc[r] \in {"tools", "tool"} => pc[r] \in AtWork
  BY DEF AtWork, InChat
<1>5. pc[r] \in {"tools", "tool"} => log' = <<>> \/ log'[Len(log')].round = round[r]
  BY <1>1, <1>2, <1>3, <1>4 DEF Ordered
<1>6. InOrder(log, r)' /\ EndsWith(log, r)' <=> InOrder(log', r) /\ EndsWith(log', r)
  BY DEF InOrder, EndsWith
<1>7. pc'[r] \in AtWork => EndsWith(log, r)'
  BY <1>1, <1>3 DEF Ordered, EndsWith
<1>8. InOrder(log, r)'
  BY <1>3 DEF InOrder
<1> QED
  BY <1>1, <1>5, <1>7, <1>8 DEF Ordered

LEMMA EmptyOrdered ==
  ASSUME OrderInv, NEW r \in Clean', marred \subseteq marred', mixed \subseteq mixed',
         log' = <<>>, pc' = pc
  PROVE  Ordered(r)'
<1>1. r \in Clean /\ Ordered(r)
  BY DEF Clean, OrderInv
<1>2. InOrder(log, r)' /\ EndsWith(log, r)'
  BY DEF InOrder, EndsWith
<1> QED
  BY <1>1, <1>2 DEF Ordered

\* What a request writes follows what it wrote before.
LEMMA InsertOrdered ==
  ASSUME OrderInv, NEW q \in Requests, NEW kind \in Kinds, NEW tracked \in BOOLEAN,
         Insert(q, kind, tracked), tracked => kind \in {"call", "result"},
         NEW label \in {"saved", "tools", "returned"}, Goto(q, label),
         pc[q] \in InChat, label = "tools" \/ kind # "user" => pc[q] \in AtWork,
         kind = "result" => pc[q] = "tool",
         UNCHANGED <<exists, round, mixed>>
  PROVE  /\ \A r \in Requests : Queue(pending[r], r, wrote[r])'
         /\ \A r \in Clean' : Ordered(r)'
<1> DEFINE m == [by |-> q, n |-> wrote[q] + 1, kind |-> kind, round |-> round[q]]
<1>0. /\ Kept /\ Around /\ log \in Seq(Message) /\ TypeInv
      /\ wrote[q] \in Nat /\ pending[q] \in Seq(Message) /\ round[q] \in 0..MaxToolRounds
      /\ wrote \in [Requests -> Nat] /\ pending \in [Requests -> Seq(Message)]
  BY DEF OrderInv, TraceInv, TypeInv, Kept, Around, LogInv
<1>1. m \in Message /\ m.by = q /\ m.kind = kind /\ m.n = wrote[q] + 1 /\ m.round = round[q]
  BY <1>0 DEF Message
<1>2. pc'[q] = label /\ \A r \in Requests \ {q} : pc'[r] = pc[r]
  BY <1>0, GotoLemma
<1>3. \A x \in Requests : pc'[x] \in InChat => pc[x] \in InChat
  BY <1>2
<1>4. \A r \in Requests : Queue(pending[r], r, wrote[r])
  BY DEF OrderInv
<1>5. marred \subseteq marred'
  BY <1>0, InsertLemma
<1>6. CASE log' = log
  <2>1. CASE exists
    <3>1. UNCHANGED <<wrote, pending>> /\ q \in marred'
      <4>1. Append(log, m) # log
        BY <1>0, <1>1
      <4> QED
        BY <1>6, <2>1, <4>1 DEF Insert
    <3>2. ASSUME NEW r \in Clean' PROVE Ordered(r)'
      <4>1. r \in Requests \ {q}
        BY <3>1 DEF Clean
      <4> QED
        BY <1>2, <1>3, <1>5, <1>6, <4>1, OrderedStays
    <3> QED
      BY <1>4, <3>1, <3>2
  <2>2. CASE ~exists
    <3>1. UNCHANGED <<wrote, pending>> /\ log' = <<>>
      BY <1>6, <2>2 DEF Insert, OrderInv
    <3>2. ASSUME NEW r \in Clean' PROVE Ordered(r)'
      <4>1. r \in Clean /\ Ordered(r)
        BY <1>5 DEF Clean, OrderInv
      <4>2. InOrder(log, r)' /\ EndsWith(log, r)'
        BY <3>1 DEF InOrder, EndsWith
      <4>3. \A x \in Requests : pc'[x] \in InChat => pc[x] \in InChat
        BY <1>3
      <4> QED
        BY <3>1, <4>1, <4>2, <4>3 DEF Ordered, Clean
    <3> QED
      BY <1>4, <3>1, <3>2
  <2> QED
    BY <2>1, <2>2
<1>7. CASE log' # log
  <2>1. /\ log' = Append(log, m)
        /\ wrote' = [wrote EXCEPT ![q] = wrote[q] + 1]
        /\ pending' = IF tracked THEN [pending EXCEPT ![q] = Append(pending[q], m)] ELSE pending
        /\ UNCHANGED marred
    BY <1>7 DEF Insert
  <2> HIDE DEF m
  <2>2. /\ wrote'[q] = wrote[q] + 1 /\ \A r \in Requests \ {q} : wrote'[r] = wrote[r]
        /\ pending'[q] = IF tracked THEN Append(pending[q], m) ELSE pending[q]
        /\ \A r \in Requests \ {q} : pending'[r] = pending[r]
    BY <1>0, <2>1
  <2>3. Queue(pending[q], q, wrote[q] + 1)
    <3>1. \A i \in DOMAIN pending[q] : pending[q][i].n \in Nat
      BY <1>0, Messages
    <3>2. Queue(pending[q], q, wrote[q])
      BY <1>4
    <3> QED
      BY <1>0, <3>1, <3>2 DEF Queue
  <2>4. tracked => Queue(Append(pending[q], m), q, wrote[q] + 1)
    BY <1>0, <1>1, <1>4, QueueAppend
  <2>5. \A r \in Requests : Queue(pending'[r], r, wrote'[r])
    BY <1>4, <2>2, <2>3, <2>4
  <2>6. Len(log) \in Nat /\ Len(log') = Len(log) + 1 /\ log'[Len(log')] = m /\ log' # <<>>
    BY <1>0, <1>1, <2>1
  <2>7. ASSUME NEW r \in Clean' PROVE Ordered(r)'
    <3>1. r \in Clean /\ Ordered(r) /\ r \in Requests
      BY <1>5 DEF Clean, OrderInv
    <3>2. CASE r # q
      <4>1. InOrder(log', r)
        BY <1>0, <1>1, <2>1, <3>1, <3>2, AppendOrdered DEF Ordered
      <4>2. pc[r] \notin InChat
        BY <3>1, <3>2 DEF Ordered
      <4>3. pc'[r] \notin InChat /\ pc'[r] \notin AtWork /\ pc'[r] \notin {"tools", "tool"}
        BY <1>2, <3>1, <3>2, <4>2 DEF AtWork, InChat
      <4>4. InOrder(log, r)'
        BY <4>1 DEF InOrder
      <4> QED
        BY <4>3, <4>4 DEF Ordered
    <3>3. CASE r = q
      <4>1. ASSUME kind # "user", log # <<>>
            PROVE  /\ log[Len(log)].by = q /\ log[Len(log)].n < m.n
                   /\ kind = "result" => log[Len(log)].round = m.round
        <5>1. log[Len(log)].by = q
          BY <3>1, <3>3, <4>1 DEF Ordered, EndsWith
        <5>2. Len(log) \in DOMAIN log
          BY <1>0, <4>1
        <5>3. log[Len(log)] \in Message /\ log[Len(log)].n \in Nat /\ In(log[Len(log)], log)
          BY <1>0, <5>2, Messages DEF In
        <5>4. log[Len(log)].n <= wrote[q]
          BY <1>0, <5>1, <5>3 DEF Kept, LogInv
        <5>5. log[Len(log)].n < m.n
          BY <1>0, <1>1, <5>3, <5>4
        <5>6. kind = "result" => log[Len(log)].round = m.round
          BY <1>1, <3>1, <3>3, <4>1 DEF Ordered
        <5> QED
          BY <5>1, <5>5, <5>6
      <4>2. InOrder(log, q)
        BY <3>1, <3>3 DEF Ordered
      <4>3. InOrder(log', q)
        BY <1>0, <1>1, <2>1, <4>1, <4>2, AppendOrdered
      <4>4. InOrder(log, q)' /\ EndsWith(log, q)'
        BY <1>1, <2>6, <4>3 DEF InOrder, EndsWith
      <4>5. log'[Len(log')].round = round'[q]
        BY <1>1, <2>6
      <4> QED
        BY <1>2, <1>3, <3>1, <3>3, <4>4, <4>5 DEF Ordered, Clean
    <3> QED
      BY <3>2, <3>3
  <2> QED
    BY <2>5, <2>7
<1> QED
  BY <1>6, <1>7

\* A request goes elsewhere and writes nothing.
LEMMA MoveOrdered ==
  ASSUME OrderInv, NEW q \in Requests, NEW label, Goto(q, label),
         label \in InChat => pc[q] \in InChat, label \in AtWork => pc[q] \in AtWork,
         label \in {"tools", "tool"} => pc[q] \in {"tools", "tool"} /\ round'[q] = round[q],
         \A r \in Requests \ {q} : round'[r] = round[r],
         UNCHANGED <<log, marred, mixed>>
  PROVE  \A r \in Clean' : Ordered(r)'
<1>1. pc'[q] = label /\ \A r \in Requests \ {q} : pc'[r] = pc[r]
  BY GotoLemma DEF OrderInv, TraceInv
<1>2. \A x \in Requests : pc'[x] \in InChat => pc[x] \in InChat
  BY <1>1
<1> SUFFICES ASSUME NEW r \in Clean' PROVE Ordered(r)'
  OBVIOUS
<1>3. r \in Requests
  BY DEF Clean
<1> QED
  BY <1>1, <1>2, <1>3, OrderedStays

\* The clean-up of a request that is alone deletes the first of its tool messages.
LEMMA CleanupOrdered ==
  ASSUME OrderInv, NEW q \in Requests, DeletePending(q)
  PROVE  \A r \in Clean' : Ordered(r)'
<1> DEFINE m == Head(pending[q])
<1>1. /\ pc[q] = "cleanup" /\ pc[q] \in InChat /\ pending[q] # <<>> /\ pending[q] \in Seq(Message)
      /\ Queue(pending[q], q, wrote[q]) /\ TraceInv
      /\ UNCHANGED <<pc, round, mixed>> /\ marred \subseteq marred' /\ mixed \subseteq mixed'
  BY DEF DeletePending, OrderInv, TraceInv, TypeInv, Kept, InChat, loop
<1>2. m.by = q /\ m.kind \in {"call", "result"}
  BY <1>1 DEF Queue
<1> SUFFICES ASSUME NEW r \in Clean' PROVE Ordered(r)'
  OBVIOUS
<1>3. r \in Clean /\ r \in Requests /\ Ordered(r)
  BY <1>1 DEF Clean, OrderInv
<1>4. CASE log' = log
  BY <1>1, <1>3, <1>4, OrderedStays
<1>5. CASE log' # log
  <2> HIDE DEF m
  <2>1. log' = Without(m) /\ marred' = marred
    BY <1>5 DEF DeletePending, m
  <2>2. PICK k \in DOMAIN log : log[k] = m /\ log' = Removed(log, k)
    BY <1>5, <2>1, WithoutIs
  <2>3. CASE r # q
    BY <1>1, <1>2, <2>2, <2>3, OthersOrdered
  <2>4. CASE r = q
    <3>1. log \in Seq(Message) /\ k \in 1..Len(log)
      BY <1>1 DEF TraceInv, TypeInv, Kept, LogInv
    <3>2. ASSUME k > 1, log[k - 1].kind \in {"call", "result"} PROVE FALSE
      <4>1. k \in 2..Len(log) /\ k - 1 \in DOMAIN log
        BY <3>1, <3>2
      <4>2. log[k - 1].by = q /\ log[k - 1].n < m.n
        BY <1>2, <1>3, <2>2, <2>4, <4>1 DEF Ordered, InOrder
      <4>3. log[k - 1] \in Message /\ In(log[k - 1], log) /\ OfTools(log[k - 1], q)
        BY <3>1, <3>2, <4>1, <4>2, Messages DEF In, OfTools
      <4>4. In(log[k - 1], pending[q])
        BY <1>1, <1>3, <2>4, <4>3 DEF TraceInv, Tracked, Before, Clean
      <4>5. log[k - 1] = m \/ m.n < log[k - 1].n
        BY <1>1, <4>4, HeadIsFirst DEF m
      <4>6. log[k - 1].n \in Nat /\ m.n \in Nat
        BY <2>2, <3>1, <4>1, Messages
      <4> QED
        BY <4>2, <4>5, <4>6
    <3>3. InOrder(log, q) /\ EndsWith(log, q)
      BY <1>1, <1>3, <2>4 DEF Ordered, AtWork
    <3>4. InOrder(log', q) /\ EndsWith(log', q)
      BY <1>2, <2>2, <3>1, <3>2, <3>3, RemovedOrdered
    <3>5. InOrder(log, q)' /\ EndsWith(log, q)'
      BY <3>4 DEF InOrder, EndsWith
    <3>6. pc'[q] \notin {"tools", "tool"}
      BY <1>1
    <3> QED
      BY <1>1, <1>3, <2>4, <3>5, <3>6 DEF Ordered
  <2> QED
    BY <2>3, <2>4
<1> QED
  BY <1>4, <1>5

LEMMA OrderStep == OrderInv /\ [Next]_vars => OrderInv'
<1> SUFFICES ASSUME OrderInv, [Next]_vars
             PROVE  /\ ~exists' => log' = <<>>
                    /\ \A r \in Requests : Queue(pending'[r], r, wrote'[r])
                    /\ \A r \in Clean' : Ordered(r)'
  BY TraceStep DEF OrderInv
<1>0. /\ ~exists => log = <<>>
      /\ \A r \in Requests : Queue(pending[r], r, wrote[r])
      /\ pending \in [Requests -> Seq(Message)] /\ wrote \in [Requests -> Nat]
      /\ pc \in [Requests -> InFlight \cup {"idle", "done", "dead"}]
      /\ round \in [Requests -> 0..MaxToolRounds] /\ log \in Seq(Message)
  BY DEF OrderInv, TraceInv, TypeInv, Kept, LogInv, Standing, Around
<1> DEFINE Goal == /\ ~exists' => log' = <<>>
                   /\ \A r \in Requests : Queue(pending'[r], r, wrote'[r])
                   /\ \A r \in Clean' : Ordered(r)'
<1>1. ASSUME NEW q \in Requests, Receive(q) \/ handleChat(q) PROVE Goal
  <2>1. /\ UNCHANGED <<exists, log, round, pending, wrote, marred>> /\ pc[q] = "idle"
        /\ pc'[q] = "start" /\ \A r \in Requests \ {q} : pc'[r] = pc[r]
        /\ mixed \subseteq mixed'
        /\ \A r \in Requests : pc[r] \in InChat => r \in mixed' /\ q \in mixed'
    BY <1>0, <1>1 DEF Receive, handleChat, Arrives, loop
  <2>2. ASSUME NEW r \in Clean' PROVE Ordered(r)'
    <3>1. r \in Clean /\ Ordered(r) /\ r \in Requests
      BY <2>1 DEF Clean, OrderInv
    <3>2. InOrder(log, r)' /\ (EndsWith(log, r) => EndsWith(log, r)')
      BY <2>1, <3>1 DEF Ordered, InOrder, EndsWith
    <3>3. pc'[r] \in AtWork \/ pc'[r] \in {"tools", "tool"} => pc'[r] = pc[r]
      BY <2>1, <3>1 DEF AtWork
    <3>4. ASSUME pc'[r] \in InChat, NEW x \in Requests \ {r}, pc'[x] \in InChat PROVE FALSE
      <4>1. r \notin mixed'
        BY DEF Clean
      <4>2. pc[r] \notin InChat
        BY <2>1, <3>1, <4>1
      <4>3. r = q /\ pc[x] \in InChat
        BY <2>1, <3>1, <3>4, <4>2
      <4> QED
        BY <2>1, <3>1, <4>1, <4>3
    <3>5. \A x \in Requests \ {r} : pc'[r] \in InChat => pc'[x] \notin InChat
      BY <3>4
    <3> QED
      BY <2>1, <3>1, <3>2, <3>3, <3>5 DEF Ordered
  <2> QED
    BY <1>0, <2>1, <2>2
<1>2. ASSUME NEW q \in Requests, Chat(q) PROVE Goal
  <2>1. CASE Open(q)
    <3>1. /\ UNCHANGED <<log, pending, wrote, marred, mixed, round>> /\ pc[q] = "start"
          /\ exists' = exists \/ exists' = TRUE
          /\ \E label \in {"returned", "opened"} : Goto(q, label)
      BY <2>1 DEF Open, Return, GetOrCreate, loop
    <3>2. \A r \in Clean' : Ordered(r)'
      BY <3>1, MoveOrdered DEF InChat, AtWork
    <3> QED
      BY <1>0, <3>1, <3>2
  <2>2. CASE LoadHistory(q) \/ CallProvider(q) \/ ProviderFails(q)
    <3>1. /\ UNCHANGED <<exists, log, pending, wrote, marred, mixed, round>>
          /\ pc[q] \in {"saved", "round", "provider"}
          /\ \E label \in {"returned", "round", "cleanup", "provider"} : Goto(q, label)
      BY <2>2 DEF LoadHistory, CallProvider, ProviderFails, Return, loop
    <3>2. \A r \in Clean' : Ordered(r)'
      BY <3>1, MoveOrdered DEF InChat, AtWork
    <3> QED
      BY <1>0, <3>1, <3>2
  <2>3. CASE StartTool(q)
    <3>1. /\ UNCHANGED <<exists, log, pending, wrote, marred, mixed, round>> /\ pc[q] = "tools"
          /\ \E label \in {"cleanup", "tool"} : Goto(q, label)
      BY <2>3 DEF StartTool, loop
    <3>2. \A r \in Clean' : Ordered(r)'
      BY <3>1, MoveOrdered DEF InChat, AtWork
    <3> QED
      BY <1>0, <3>1, <3>2
  <2>4. CASE NextRound(q)
    <3>1. /\ UNCHANGED <<exists, log, pending, wrote, marred, mixed>> /\ pc[q] = "tools"
          /\ \E label \in {"returned", "round"} : Goto(q, label)
          /\ \A r \in Requests \ {q} : round'[r] = round[r]
      BY <1>0, <2>4 DEF NextRound, Return
    <3>2. \A r \in Clean' : Ordered(r)'
      BY <3>1, MoveOrdered DEF InChat, AtWork
    <3> QED
      BY <1>0, <3>1, <3>2
  <2>5. CASE Finish(q)
    <3>1. /\ UNCHANGED <<exists, log, wrote, marred, mixed>> /\ Goto(q, "done")
          /\ pending' = [pending EXCEPT ![q] = <<>>]
          /\ \A r \in Requests \ {q} : round'[r] = round[r]
      BY <1>0, <2>5 DEF Finish, End, Goto
    <3>2. \A r \in Clean' : Ordered(r)'
      BY <3>1, MoveOrdered DEF InChat, AtWork
    <3>3. \A r \in Requests : Queue(pending'[r], r, wrote'[r])
      BY <1>0, <3>1, QueueEmpty
    <3> QED
      BY <1>0, <3>1, <3>2, <3>3
  <2>6. CASE SaveUserMessage(q)
    <3>1. /\ Insert(q, "user", FALSE) /\ Goto(q, "saved") /\ pc[q] \in InChat
          /\ UNCHANGED <<exists, round, mixed>> /\ "user" \in Kinds
      BY <2>6 DEF SaveUserMessage, AddMessage, InChat, Kinds, loop
    <3>2. ~exists' => log' = <<>>
      BY <1>0, <3>1 DEF Insert
    <3> QED
      BY <3>1, <3>2, InsertOrdered
  <2>7. CASE ProviderCallsTools(q)
    <3>1. /\ Insert(q, "call", TRUE) /\ Goto(q, "tools") /\ pc[q] \in InChat /\ pc[q] \in AtWork
          /\ UNCHANGED <<exists, round, mixed>> /\ "call" \in Kinds
      BY <2>7 DEF ProviderCallsTools, trackMsg, InChat, AtWork, Kinds
    <3>2. ~exists' => log' = <<>>
      BY <1>0, <3>1 DEF Insert
    <3> QED
      BY <3>1, <3>2, InsertOrdered
  <2>8. CASE ToolReturns(q)
    <3>1. /\ Insert(q, "result", TRUE) /\ Goto(q, "tools") /\ pc[q] \in InChat /\ pc[q] \in AtWork
          /\ UNCHANGED <<exists, round, mixed>> /\ "result" \in Kinds /\ pc[q] = "tool"
      BY <2>8 DEF ToolReturns, trackMsg, InChat, AtWork, Kinds
    <3>2. ~exists' => log' = <<>>
      BY <1>0, <3>1 DEF Insert
    <3> QED
      BY <3>1, <3>2, InsertOrdered
  <2>9. CASE ProviderAnswers(q) \/ MarkCancelled(q)
    <3>1. /\ Goto(q, "returned") /\ pc[q] \in InChat /\ pc[q] \in AtWork
          /\ UNCHANGED <<exists, round, mixed>>
      BY <2>9 DEF ProviderAnswers, MarkCancelled, Return, InChat, AtWork
    <3>2. PICK kind \in {"answer", "cancelled"} : Insert(q, kind, FALSE)
      BY <2>9 DEF ProviderAnswers, MarkCancelled, AddMessage
    <3>3. kind \in Kinds /\ kind # "result"
      BY DEF Kinds
    <3>4. ~exists' => log' = <<>>
      BY <1>0, <3>1, <3>2 DEF Insert
    <3> QED
      BY <3>1, <3>2, <3>3, <3>4, InsertOrdered
  <2>10. CASE DeletePending(q)
    <3>1. /\ pending[q] # <<>> /\ pending' = [pending EXCEPT ![q] = Tail(pending[q])]
          /\ UNCHANGED <<exists, wrote>>
      BY <2>10 DEF DeletePending
    <3>2. \A r \in Requests : Queue(pending'[r], r, wrote'[r])
      BY <1>0, <3>1, QueueTail
    <3>3. log = <<>> => log' = <<>>
      BY <2>10 DEF DeletePending, Without
    <3> QED
      BY <1>0, <2>10, <3>1, <3>2, <3>3, CleanupOrdered
  <2> QED
    BY <1>2, <2>1, <2>2, <2>3, <2>4, <2>5, <2>6, <2>7, <2>8, <2>9, <2>10 DEF Chat
<1>3. CASE \/ Cancel \/ AllServed \/ UNCHANGED vars
           \/ \E q \in Requests : Disconnect(q)
  <2>1. UNCHANGED <<exists, log, pc, round, pending, wrote, marred, mixed>>
    BY <1>3 DEF Cancel, AllServed, Disconnect, vars, loop
  <2>2. \A r \in Clean' : Ordered(r)'
    BY <2>1, OrderedStays DEF Clean
  <2> QED
    BY <1>0, <2>1, <2>2
<1>4. CASE handleDeleteSession \/ handleClearMessages
  <2>1. UNCHANGED <<pc, round, pending, wrote, marred, mixed>> /\ log' = <<>>
    BY <1>4 DEF handleDeleteSession, DeleteSession, handleClearMessages, loop
  <2>2. \A r \in Clean' : Ordered(r)'
    BY <2>1, EmptyOrdered
  <2> QED
    BY <1>0, <2>1, <2>2
<1>5. CASE handleDeleteMessage
  <2>1. PICK i \in DOMAIN log : log' = Without(log[i]) /\ mixed' = mixed \cup {log[i].by}
    BY <1>5 DEF handleDeleteMessage
  <2>2. UNCHANGED <<exists, pc, round, pending, wrote, marred>>
    BY <1>5 DEF handleDeleteMessage, loop
  <2>3. exists
    BY <1>5 DEF handleDeleteMessage, Edit
  <2>4. ASSUME NEW r \in Clean' PROVE Ordered(r)'
    <3>1. r # log[i].by
      BY <2>1 DEF Clean
    <3>2. CASE log' = log
      BY <2>1, <2>2, <3>2, OrderedStays
    <3>3. CASE log' # log
      <4>1. PICK k \in DOMAIN log : log[k] = log[i] /\ log' = Removed(log, k)
        BY <2>1, <3>3, WithoutIs
      <4> QED
        BY <2>1, <2>2, <3>1, <4>1, OthersOrdered
    <3> QED
      BY <3>2, <3>3
  <2> QED
    BY <1>0, <2>2, <2>3, <2>4
<1>6. CASE Crash
  <2>1. /\ UNCHANGED <<exists, log, wrote, marred, mixed>> /\ \A r \in Requests : pending'[r] = <<>>
        /\ \A r \in Requests : pc'[r] \notin InChat
    BY <1>6 DEF Crash, InFlight, InChat
  <2>2. \A r \in Requests : pc'[r] \notin AtWork /\ pc'[r] \notin {"tools", "tool"}
    BY <2>1 DEF AtWork, InChat
  <2>3. \A r \in Clean' : Ordered(r)'
    BY <2>1, <2>2, OrderedStays DEF Clean
  <2>4. \A r \in Requests : Queue(pending'[r], r, wrote'[r])
    BY <2>1, QueueEmpty
  <2> QED
    BY <1>0, <2>1, <2>3, <2>4
<1> QED
  BY <1>1, <1>2, <1>3, <1>4, <1>5, <1>6 DEF Next

LEMMA OrderStart == Init => OrderInv
<1> SUFFICES ASSUME Init PROVE OrderInv
  OBVIOUS
<1>1. log = <<>> /\ DOMAIN log = {} /\ Len(log) = 0
  BY DEF Init
<1>2. TraceInv
  BY <1>1, TypeStart DEF TraceInv, Init, Tracked, In
<1>3. \A q \in Requests : Queue(pending[q], q, wrote[q])
  BY QueueEmpty DEF Init
<1>4. \A q \in Requests : Ordered(q)
  <2>1. \A q \in Requests : InOrder(log, q)
    BY <1>1 DEF InOrder
  <2>2. \A q \in Requests : pc[q] = "idle"
    BY DEF Init
  <2>3. "idle" \notin InChat /\ "idle" \notin AtWork /\ "idle" \notin {"tools", "tool"}
    BY DEF InChat, AtWork
  <2> QED
    BY <2>1, <2>2, <2>3 DEF Ordered
<1> QED
  BY <1>1, <1>2, <1>3, <1>4 DEF OrderInv, Clean

\* A result that is sent to the provider follows its own call: the call of its request
\* and of its round, whatever a clean-up, a crash, a failed request or the history limit
\* left of the log, so long as no other request wrote in between, the user deleted none
\* of the request's messages and none of its statements failed.
THEOREM ResultsAreAnswers == Spec => []ResultsFollowCalls
<1>1. ASSUME OrderInv PROVE ResultsFollowCalls
  <2>1. log \in Seq(Message)
    BY <1>1 DEF OrderInv, TraceInv, TypeInv, Kept, LogInv
  <2> DEFINE h == AllButLast(GetMessages)
  <2>2. /\ h \in Seq(Message)
        /\ \E d \in Nat : d + Len(h) <= Len(log) /\ \A j \in 1..Len(h) : h[j] = log[j + d]
    BY <2>1, HistoryPart, ChatAssumption
  <2>3. Prompt = BuildMessages(h)
    BY DEF Prompt
  <2> HIDE DEF h
  <2>4. Answered(Prompt) /\ Behind(h, Prompt)
    BY <2>2, <2>3, BuildMessagesAnswers
  <2> SUFFICES ASSUME NEW i \in DOMAIN Prompt, Prompt[i].kind = "result",
                      Prompt[i].by \notin mixed \cup marred
               PROVE  Prompt[i - 1].by = Prompt[i].by /\ Prompt[i - 1].round = Prompt[i].round
    BY <2>4 DEF ResultsFollowCalls, Answered
  <2>5. Prompt[i - 1].kind \in {"call", "result"}
    BY <2>4 DEF Answered
  <2>6. PICK j \in 2..Len(h) : h[j] = Prompt[i] /\ h[j - 1] = Prompt[i - 1]
    BY <2>4 DEF Behind
  <2>7. PICK d \in Nat : d + Len(h) <= Len(log) /\ \A k \in 1..Len(h) : h[k] = log[k + d]
    BY <2>2
  <2>8. /\ j \in 1..Len(h) /\ j - 1 \in 1..Len(h) /\ j + d \in 2..Len(log)
        /\ (j - 1) + d = (j + d) - 1 /\ j + d \in DOMAIN log
    BY <2>1, <2>2, <2>6, <2>7
  <2>9. log[j + d] = Prompt[i] /\ log[(j + d) - 1] = Prompt[i - 1]
    BY <2>6, <2>7, <2>8
  <2>10. Prompt[i].by \in Requests
    BY <2>1, <2>8, <2>9, Messages
  <2>11. InOrder(log, Prompt[i].by)
    BY <1>1, <2>10 DEF OrderInv, Ordered, Clean
  <2> QED
    BY <2>5, <2>8, <2>9, <2>11 DEF InOrder
<1> QED
  BY <1>1, OrderStart, OrderStep, PTL DEF Spec

-----------------------------------------------------------------------------
(* Memory.                                                                 *)

USE MemoryAssumption

-----------------------------------------------------------------------------
(* The invariant.                                                          *)

\* A row that was read is one that existed.
Live == {"pending", "complete"}

\* Foreign keys: an embedding has its node.  A cached node was created once.
TablesGood ==
  /\ nodes \in [Nodes -> Row] /\ edges \subseteq Edge /\ embedded \subseteq Present
  /\ overwritten \subseteq Nodes /\ raced \subseteq Edge

RetrieverGood ==
  /\ filled \subseteq Users /\ cache \in [Users -> SUBSET Nodes]
  /\ \A u \in filled : \A n \in cache[u] : nodes[n].status # "none"

QueuesGood ==
  /\ profile \subseteq Nodes /\ counter \in 0 .. RegenThreshold - 1
  /\ queue \in [Subscribers -> 0 .. Buffer]
  /\ armed \in BOOLEAN /\ pass \in [Passes -> {"idle", "fetch", "wait"}]
  /\ outdated \in BOOLEAN /\ changes \in 0 .. MaxChanges

\* A goroutine that is to write a row has a node, and the row that it read there.
ThreadGood(x) ==
  /\ x \in Thread
  /\ x.op \in {"save", "pin", "reflect"} => x.node \in Nodes
  /\ x.at = "embed" => x.op = "save"
  /\ x.at = "pin" => x.op = "pin"
  /\ x.at \in {"content", "relate", "insert"} => x.op = "reflect"
  /\ x.at \in {"pin", "content"} => x.row.status \in Live
  /\ x.at = "insert" => x.other \in Nodes

JobGood(j) ==
  /\ j \in Job
  /\ j.at \in {"ask", "embed", "flush", "dedup", "merge", "yield"} => j.row.status \in Live
  /\ j.at = "merge" => j.other \in Nodes /\ j.otherRow.status \in Live
  /\ j.at = "insert" => j.other \in Nodes

ConsGood(c) ==
  /\ c \in Consolidator
  /\ \A n \in c.todo \cup c.cluster : c.rows[n].status \in Live
  /\ c.at \in {"derive", "insert", "absorb"} => c.pattern \in Nodes
  /\ c.at \in {"insert", "absorb"} => c.member \in c.cluster

ThreadsGood == thread \in [Threads -> Thread] /\ \A t \in Threads : ThreadGood(thread[t])
JobsGood == job \in [Jobs -> Job] /\ \A j \in Jobs : JobGood(job[j])

\* An edge has its nodes, and is private when one of them is, but for the known exceptions.
EdgesPrivate ==
  \A e \in edges :
    /\ {e.source, e.target} \subseteq Present
    /\ (\E n \in {e.source, e.target} \ overwritten : nodes[n].private) => e.private \/ e \in raced

MemoryInv ==
  /\ TablesGood /\ RetrieverGood /\ QueuesGood
  /\ ThreadsGood /\ JobsGood /\ ConsGood(cons)
  /\ CacheHidesPrivate /\ EdgesPrivate

-----------------------------------------------------------------------------
(* Statements of the store.                                                *)

\* What a statement keeps: the tables as they should be, and of what is cached nothing
\* that its user must not see.
StoreKeeps ==
  /\ TablesGood' /\ EdgesPrivate'
  /\ \A n \in Nodes : nodes[n].status # "none" => nodes'[n].status # "none"
  /\ \A u \in filled : \A n \in cache[u] : nodes'[n].status \in Live =>
       Visible(nodes'[n], u) \/ n \in overwritten' \/ Flushing(n)

LEMMA Rows ==
  /\ NoRow \in Row /\ NoRow.status = "none"
  /\ \A owner \in Owners \cup {NoOne}, private \in BOOLEAN :
       LET row == [status |-> "pending", owner |-> owner, private |-> private, absorbed |-> FALSE]
       IN  row \in Row /\ row.status = "pending"
  /\ \A row \in Row : /\ row.private \in BOOLEAN /\ row.owner \in Owners \cup {NoOne}
                       /\ [row EXCEPT !.status = "pending"] \in Row
                       /\ [row EXCEPT !.status = "complete"] \in Row
                       /\ [row EXCEPT !.absorbed = TRUE] \in Row
  /\ Privacy \subseteq BOOLEAN
BY DEF NoRow, Row, Privacy

\* What the invariant says of the tables, once and for all.
LEMMA StoreFacts ==
  ASSUME MemoryInv
  PROVE  /\ nodes \in [Nodes -> Row] /\ edges \subseteq Edge /\ embedded \subseteq Nodes
         /\ overwritten \subseteq Nodes /\ raced \subseteq Edge
         /\ Present = {n \in Nodes : nodes[n].status \in Live}
         /\ Present' = {n \in Nodes : nodes'[n].status \in Live}
         /\ \A n \in embedded : nodes[n].status \in Live
         /\ \A u \in filled : cache[u] \subseteq Nodes /\ u \in Users
         /\ \A u \in filled : \A n \in cache[u] : nodes[n].status # "none"
         /\ \A u \in filled : \A n \in cache[u] : nodes[n].status \in Live =>
              Visible(nodes[n], u) \/ n \in overwritten \/ Flushing(n)
         /\ \A e \in edges :
              /\ e.source \in Nodes /\ e.target \in Nodes
              /\ nodes[e.source].status \in Live /\ nodes[e.target].status \in Live
              /\ (\E n \in {e.source, e.target} \ overwritten : nodes[n].private) => e.private \/ e \in raced
BY DEF MemoryInv, TablesGood, RetrieverGood, CacheHidesPrivate, EdgesPrivate, Present, Here, Live, Edge

\* The same, to be shown of the state after.
LEMMA TablesGoal ==
  ASSUME nodes' \in [Nodes -> Row], edges' \subseteq Edge, embedded' \subseteq Nodes,
         overwritten' \subseteq Nodes, raced' \subseteq Edge,
         \A n \in embedded' : nodes'[n].status \in Live,
         \A e \in edges' :
           /\ nodes'[e.source].status \in Live /\ nodes'[e.target].status \in Live
           /\ (\E n \in {e.source, e.target} \ overwritten' : nodes'[n].private) => e.private \/ e \in raced'
  PROVE  TablesGood' /\ EdgesPrivate'
<1>1. Present' = {n \in Nodes : nodes'[n].status \in Live}
  BY DEF Present, Here, Live
<1>2. \A e \in edges' : e.source \in Nodes /\ e.target \in Nodes
  BY DEF Edge
<1>3. EdgesPrivate'
  BY <1>1, <1>2 DEF EdgesPrivate
<1>4. TablesGood'
  BY <1>1 DEF TablesGood
<1> QED
  BY <1>3, <1>4

LEMMA StoreGoal ==
  ASSUME nodes' \in [Nodes -> Row], edges' \subseteq Edge, embedded' \subseteq Nodes,
         overwritten' \subseteq Nodes, raced' \subseteq Edge,
         \A n \in embedded' : nodes'[n].status \in Live,
         \A n \in Nodes : nodes[n].status # "none" => nodes'[n].status # "none",
         \A u \in filled : \A n \in cache[u] : nodes'[n].status \in Live =>
           Visible(nodes'[n], u) \/ n \in overwritten' \/ Flushing(n),
         \A e \in edges' :
           /\ nodes'[e.source].status \in Live /\ nodes'[e.target].status \in Live
           /\ (\E n \in {e.source, e.target} \ overwritten' : nodes'[n].private) => e.private \/ e \in raced'
  PROVE  StoreKeeps
BY TablesGoal DEF StoreKeeps

LEMMA NothingWritten ==
  ASSUME MemoryInv, UNCHANGED <<tables, history>>
  PROVE  StoreKeeps
<1>1. UNCHANGED <<nodes, edges, embedded, overwritten, raced>>
  BY DEF tables, history
<1> QED
  BY <1>1, StoreFacts, StoreGoal

LEMMA CreateKeeps ==
  ASSUME MemoryInv, NEW n \in Nodes, NEW owner \in Owners \cup {NoOne}, NEW private \in BOOLEAN,
         CreateNode(n, owner, private), UNCHANGED <<edges, embedded, history>>
  PROVE  StoreKeeps
<1> DEFINE row == [status |-> "pending", owner |-> owner, private |-> private, absorbed |-> FALSE]
<1>1. row \in Row /\ row.status \in Live
  BY Rows DEF Live
<1>2. nodes' = [nodes EXCEPT ![n] = row] /\ nodes[n].status = "none"
  BY DEF CreateNode
<1> HIDE DEF row
<1>3. /\ nodes' \in [Nodes -> Row] /\ nodes'[n].status \in Live
      /\ \A m \in Nodes \ {n} : nodes'[m] = nodes[m]
      /\ nodes[n].status \notin Live
  BY <1>1, <1>2, StoreFacts DEF Live
<1>4. UNCHANGED <<edges, embedded, overwritten, raced>>
  BY DEF history
<1>5. \A m \in embedded : m # n
  BY <1>3, StoreFacts
<1>6. \A u \in filled : \A m \in cache[u] : m # n /\ m \in Nodes
  BY <1>2, StoreFacts
<1>7. \A e \in edges : e.source # n /\ e.target # n /\ e.source \in Nodes /\ e.target \in Nodes
  BY <1>3, StoreFacts
<1>8. \A m \in Nodes : nodes[m].status # "none" => nodes'[m].status # "none"
  BY <1>2, <1>3
<1>9. \A u \in filled : \A m \in cache[u] : nodes'[m].status \in Live =>
        Visible(nodes'[m], u) \/ m \in overwritten' \/ Flushing(m)
  BY <1>3, <1>4, <1>6, StoreFacts
<1>10. \A e \in edges' :
         /\ nodes'[e.source].status \in Live /\ nodes'[e.target].status \in Live
         /\ (\E m \in {e.source, e.target} \ overwritten' : nodes'[m].private) => e.private \/ e \in raced'
  BY <1>3, <1>4, <1>7, StoreFacts
<1>11. \A m \in embedded' : nodes'[m].status \in Live
  BY <1>3, <1>4, <1>5, StoreFacts
<1> QED
  BY <1>3, <1>4, <1>8, <1>9, <1>10, <1>11, StoreFacts, StoreGoal

\* One row becomes another that is there, with the same owner; when it is private
\* now and was not, or the reverse, history has it.
LEMMA RowKeeps ==
  ASSUME MemoryInv, NEW n \in Nodes, NEW row \in Row, nodes' = [nodes EXCEPT ![n] = row],
         row.status \in Live, nodes[n].status \in Live, row.owner = nodes[n].owner,
         overwritten' = IF row.private # nodes[n].private THEN overwritten \cup {n} ELSE overwritten,
         UNCHANGED <<edges, embedded, raced>>
  PROVE  StoreKeeps
<1>1. /\ nodes' \in [Nodes -> Row] /\ nodes'[n] = row
      /\ \A m \in Nodes \ {n} : nodes'[m] = nodes[m]
      /\ \A m \in Nodes : nodes'[m].owner = nodes[m].owner
      /\ \A m \in Nodes : nodes'[m].private = nodes[m].private \/ m \in overwritten'
      /\ \A m \in Nodes : nodes[m].status \in Live <=> nodes'[m].status \in Live
      /\ overwritten \subseteq overwritten' /\ overwritten' \subseteq Nodes
  BY StoreFacts
<1>2. \A m \in Nodes : nodes[m].status # "none" => nodes'[m].status # "none"
  BY <1>1 DEF Live
<1>3. \A u \in filled : \A m \in cache[u] : nodes'[m].status \in Live =>
        Visible(nodes'[m], u) \/ m \in overwritten' \/ Flushing(m)
  BY <1>1, StoreFacts DEF Visible
<1>4. \A e \in edges' :
        /\ nodes'[e.source].status \in Live /\ nodes'[e.target].status \in Live
        /\ (\E m \in {e.source, e.target} \ overwritten' : nodes'[m].private) => e.private \/ e \in raced'
  BY <1>1, StoreFacts
<1>5. \A m \in embedded' : nodes'[m].status \in Live
  BY <1>1, StoreFacts
<1> QED
  BY <1>1, <1>2, <1>3, <1>4, <1>5, StoreFacts, StoreGoal

LEMMA UpdateKeeps ==
  ASSUME MemoryInv, NEW n \in Nodes, NEW row \in Row, row.status \in Live,
         nodes' = UpdateNode(n, row), Overwrites(n, row), UNCHANGED <<edges, embedded, raced>>
  PROVE  StoreKeeps
<1>1. Here(n) <=> nodes[n].status \in Live
  BY DEF Here, Live
<1>2. CASE Here(n)
  <2> DEFINE new == [row EXCEPT !.owner = nodes[n].owner]
  <2>1. new \in Row /\ new.status = row.status /\ new.owner = nodes[n].owner /\ new.private = row.private
    BY StoreFacts DEF Row
  <2>2. nodes' = [nodes EXCEPT ![n] = new]
    BY <1>2 DEF UpdateNode
  <2>3. overwritten' = IF new.private # nodes[n].private THEN overwritten \cup {n} ELSE overwritten
    BY <1>2, <2>1 DEF Overwrites
  <2> HIDE DEF new
  <2> QED
    BY <1>1, <1>2, <2>1, <2>2, <2>3, RowKeeps
<1>3. CASE ~Here(n)
  BY <1>3, NothingWritten DEF UpdateNode, Overwrites, tables, history
<1> QED
  BY <1>2, <1>3

LEMMA EmbeddingsKeep ==
  ASSUME MemoryInv, \A n \in embedded' : n \in Nodes /\ nodes[n].status \in Live,
         UNCHANGED <<nodes, edges, history>>
  PROVE  StoreKeeps
<1>1. UNCHANGED <<overwritten, raced>>
  BY DEF history
<1> QED
  BY <1>1, StoreFacts, StoreGoal

LEMMA EmbedKeeps ==
  ASSUME MemoryInv, NEW n \in Nodes, EmbedNode(n), UNCHANGED <<nodes, edges, history>>
  PROVE  StoreKeeps
BY EmbeddingsKeep, StoreFacts DEF EmbedNode, Here, Live

LEMMA InsertKeeps ==
  ASSUME MemoryInv, NEW a \in Nodes, NEW b \in Nodes, NEW hides \in BOOLEAN, InsertEdge(a, b, hides),
         UNCHANGED <<nodes, embedded, overwritten>>
  PROVE  StoreKeeps
<1> DEFINE e == [source |-> a, target |-> b, private |-> hides]
<1>1. e \in Edge /\ e.source = a /\ e.target = b /\ e.private = hides
  BY DEF Edge
<1>2. CASE Here(a) /\ Here(b)
  <2>1. /\ edges' = edges \cup {e}
        /\ raced' = IF hides = EdgePrivacy(a, b) THEN raced ELSE raced \cup {e}
    BY <1>2 DEF InsertEdge
  <2>2. a \in Present /\ b \in Present
    BY <1>2 DEF Present
  <2> HIDE DEF e
  <2>3. (\E n \in {a, b} : nodes[n].private) => e.private \/ e \in raced'
    BY <1>1, <2>1, <2>2 DEF EdgePrivacy
  <2>4. raced \subseteq raced' /\ raced' \subseteq Edge /\ edges' \subseteq Edge
    BY <1>1, <2>1, StoreFacts
  <2>5. nodes[a].status \in Live /\ nodes[b].status \in Live
    BY <1>2 DEF Here, Live
  <2>6. \A f \in edges' :
          /\ nodes'[f.source].status \in Live /\ nodes'[f.target].status \in Live
          /\ (\E m \in {f.source, f.target} \ overwritten' : nodes'[m].private) => f.private \/ f \in raced'
    BY <1>1, <2>1, <2>3, <2>4, <2>5, StoreFacts
  <2> QED
    BY <2>4, <2>6, StoreFacts, StoreGoal
<1>3. CASE ~(Here(a) /\ Here(b))
  BY <1>3, NothingWritten DEF InsertEdge, tables, history
<1> QED
  BY <1>2, <1>3

LEMMA DeleteKeeps ==
  ASSUME MemoryInv, NEW S \in SUBSET Present, DeleteNodes(S)
  PROVE  StoreKeeps
<1> DEFINE gone == [NoRow EXCEPT !.status = "gone"]
<1>1. gone \in Row /\ gone.status = "gone"
  BY Rows DEF Row
<1>2. /\ nodes' = [n \in Nodes |-> IF n \in S THEN gone ELSE nodes[n]]
      /\ edges' = {e \in edges : e.source \notin S /\ e.target \notin S}
      /\ embedded' = embedded \ S
      /\ overwritten' = overwritten \ S
      /\ raced' = {e \in raced : e.source \notin S /\ e.target \notin S}
  BY DEF DeleteNodes
<1> HIDE DEF gone
<1>3. /\ nodes' \in [Nodes -> Row]
      /\ \A n \in S : n \in Nodes => nodes'[n].status = "gone"
      /\ \A n \in Nodes \ S : nodes'[n] = nodes[n]
  BY <1>1, <1>2, StoreFacts
<1>4. \A n \in Nodes : nodes[n].status # "none" => nodes'[n].status # "none"
  BY <1>3
<1>5. \A u \in filled : \A n \in cache[u] : nodes'[n].status \in Live =>
        Visible(nodes'[n], u) \/ n \in overwritten' \/ Flushing(n)
  BY <1>2, <1>3, StoreFacts DEF Live
<1>6. \A e \in edges' :
        /\ nodes'[e.source].status \in Live /\ nodes'[e.target].status \in Live
        /\ (\E m \in {e.source, e.target} \ overwritten' : nodes'[m].private) => e.private \/ e \in raced'
  BY <1>2, <1>3, StoreFacts
<1>7. \A n \in embedded' : nodes'[n].status \in Live
  BY <1>2, <1>3, StoreFacts
<1> QED
  BY <1>2, <1>3, <1>4, <1>5, <1>6, <1>7, StoreFacts, StoreGoal

\* A node is shown or hidden, and its edges with it; what is cached of it is now wrong.
LEMMA VisibilityKeeps ==
  ASSUME MemoryInv, NEW n \in Present, NEW private \in BOOLEAN, SetNodeVisibility(n, private)
  PROVE  /\ TablesGood' /\ EdgesPrivate'
         /\ \A m \in Nodes : nodes[m].status # "none" => nodes'[m].status # "none"
         /\ \A u \in filled : \A m \in cache[u] \ {n} : nodes'[m].status \in Live =>
              Visible(nodes'[m], u) \/ m \in overwritten' \/ Flushing(m)
<1> DEFINE hidden(m) == IF m = n THEN private ELSE nodes[m].private
           row == [nodes[n] EXCEPT !.private = private]
           now(e) == [e EXCEPT !.private = hidden(e.source) \/ hidden(e.target)]
<1>1. /\ nodes' = [nodes EXCEPT ![n] = row]
      /\ edges' = {IF Touches(e, n) THEN now(e) ELSE e : e \in edges}
      /\ overwritten' = overwritten \ {n}
      /\ raced' = {e \in raced : ~Touches(e, n)}
      /\ embedded' = embedded
  BY DEF SetNodeVisibility
<1>2. n \in Nodes /\ nodes[n].status \in Live
  BY StoreFacts
<1>3. row \in Row /\ row.status = nodes[n].status /\ row.private = private
  BY <1>2, StoreFacts DEF Row
<1>4. /\ nodes' \in [Nodes -> Row] /\ nodes'[n] = row
      /\ \A m \in Nodes \ {n} : nodes'[m] = nodes[m]
      /\ \A m \in Nodes : nodes'[m].status = nodes[m].status /\ nodes'[m].private = hidden(m)
  <2> HIDE DEF row
  <2> QED
    BY <1>1, <1>2, <1>3, StoreFacts
<1>5. ASSUME NEW m \in Nodes PROVE hidden(m) \in BOOLEAN
  BY StoreFacts, Rows
<1>6. ASSUME NEW e \in edges
      PROVE  /\ now(e) \in Edge /\ now(e).source = e.source /\ now(e).target = e.target
             /\ now(e).private = (hidden(e.source) \/ hidden(e.target))
  <2>1. e \in Edge /\ e.source \in Nodes /\ e.target \in Nodes
    BY StoreFacts
  <2> DEFINE b == hidden(e.source) \/ hidden(e.target)
  <2>2. b \in BOOLEAN /\ now(e) = [e EXCEPT !.private = b]
    OBVIOUS
  <2> HIDE DEF b, now
  <2>3. now(e) \in Edge /\ now(e).source = e.source /\ now(e).target = e.target /\ now(e).private = b
    BY <2>1, <2>2 DEF Edge
  <2> QED
    BY <2>3 DEF b
<1> HIDE DEF hidden, row, now
<1>7. ASSUME NEW f \in edges'
      PROVE  /\ f \in Edge
             /\ nodes'[f.source].status \in Live /\ nodes'[f.target].status \in Live
             /\ (\E m \in {f.source, f.target} \ overwritten' : nodes'[m].private) => f.private \/ f \in raced'
  <2>1. PICK e \in edges : f = IF Touches(e, n) THEN now(e) ELSE e
    BY <1>1
  <2>2. e.source \in Nodes /\ e.target \in Nodes /\ e \in Edge
    BY StoreFacts
  <2>3. CASE Touches(e, n)
    <3>1. /\ f \in Edge /\ f.source = e.source /\ f.target = e.target
          /\ f.private = (hidden(e.source) \/ hidden(e.target))
      BY <1>6, <2>1, <2>3
    <3>2. nodes'[f.source].status \in Live /\ nodes'[f.target].status \in Live
      BY <1>4, <2>2, <3>1, StoreFacts
    <3>3. nodes'[f.source].private = hidden(e.source) /\ nodes'[f.target].private = hidden(e.target)
      BY <1>4, <2>2, <3>1
    <3>4. ASSUME NEW m \in {f.source, f.target}, nodes'[m].private PROVE f.private
      BY <3>1, <3>3, <3>4, ZenonT(20)
    <3> QED
      BY <3>1, <3>2, <3>4
  <2>4. CASE ~Touches(e, n)
    <3>1. f = e /\ e.source # n /\ e.target # n
      BY <2>1, <2>4 DEF Touches
    <3> QED
      BY <1>1, <1>4, <2>2, <2>4, <3>1, StoreFacts
  <2> QED
    BY <2>3, <2>4
<1>8. \A m \in embedded' : nodes'[m].status \in Live
  BY <1>1, <1>4, StoreFacts
<1>9. TablesGood' /\ EdgesPrivate'
  BY <1>1, <1>4, <1>7, <1>8, StoreFacts, TablesGoal
<1>10. \A u \in filled : \A m \in cache[u] \ {n} : nodes'[m].status \in Live =>
        Visible(nodes'[m], u) \/ m \in overwritten' \/ Flushing(m)
  BY <1>1, <1>4, StoreFacts
<1> QED
  BY <1>4, <1>9, <1>10

-----------------------------------------------------------------------------
(* A step's parts come together.                                           *)

LEMMA Assembled ==
  ASSUME MemoryInv, StoreKeeps, UNCHANGED retriever,
         \A n \in Nodes : Flushing(n) => Flushing(n)',
         ThreadsGood', JobsGood', ConsGood(cons'), QueuesGood'
  PROVE  MemoryInv'
<1>1. filled' = filled /\ cache' = cache
  BY DEF retriever
<1>2. RetrieverGood'
  BY <1>1, StoreFacts DEF MemoryInv, RetrieverGood, StoreKeeps
<1>3. Present' = {n \in Nodes : nodes'[n].status \in Live}
  BY StoreFacts
<1>4. CacheHidesPrivate'
  BY <1>1, <1>3 DEF CacheHidesPrivate, StoreKeeps
<1> QED
  BY <1>2, <1>4 DEF MemoryInv, StoreKeeps

LEMMA AssembledEmpty ==
  ASSUME MemoryInv, UNCHANGED <<tables, history>>, InvalidateCache,
         ThreadsGood', JobsGood', ConsGood(cons'), QueuesGood'
  PROVE  MemoryInv'
<1>1. StoreKeeps
  BY NothingWritten
<1>2. filled' = {} /\ cache' = [u \in Users |-> {}]
  BY DEF InvalidateCache
<1>3. RetrieverGood'
  BY <1>2 DEF RetrieverGood
<1>4. CacheHidesPrivate'
  BY <1>2 DEF CacheHidesPrivate
<1> QED
  BY <1>1, <1>3, <1>4 DEF MemoryInv, StoreKeeps

LEMMA PublishTyped == QueuesGood /\ Publish => queue' \in [Subscribers -> 0 .. Buffer]
BY DEF QueuesGood, Publish

LEMMA BudgetTyped == ASSUME QueuesGood, NEW op, Budget(op) PROVE changes' \in 0 .. MaxChanges
BY DEF QueuesGood, Budget

\* What a goroutine of Threads leaves alone.
LEMMA OthersStay ==
  ASSUME MemoryInv, NEW t, Other(t), queue' \in [Subscribers -> 0 .. Buffer], changes' \in 0 .. MaxChanges
  PROVE  JobsGood' /\ ConsGood(cons') /\ QueuesGood'
<1>1. UNCHANGED <<profile, counter, armed, pass, job, cons, outdated>>
  BY DEF Other, profiler, enricher
<1> QED
  BY <1>1 DEF MemoryInv, JobsGood, QueuesGood

\* One of them becomes x.
LEMMA ThreadMoves ==
  ASSUME MemoryInv, NEW t \in Threads, NEW x, ThreadGood(x), thread' = [thread EXCEPT ![t] = x]
  PROVE  /\ ThreadsGood' /\ thread'[t] = x
         /\ thread[t].at # "flush" => \A n \in Nodes : Flushing(n) => Flushing(n)'
<1>1. thread \in [Threads -> Thread] /\ \A u \in Threads : ThreadGood(thread[u])
  BY DEF MemoryInv, ThreadsGood
<1>2. x \in Thread
  BY DEF ThreadGood
<1>3. thread'[t] = x /\ \A u \in Threads \ {t} : thread'[u] = thread[u]
  BY <1>1
<1>4. ThreadsGood'
  BY <1>1, <1>2, <1>3 DEF ThreadsGood
<1>5. ASSUME thread[t].at # "flush", NEW n \in Nodes, Flushing(n) PROVE Flushing(n)'
  BY <1>3, <1>5 DEF Flushing
<1> QED
  BY <1>3, <1>4, <1>5

\* It writes what keeps the store, and whatever it does else it leaves the cache alone.
LEMMA ThreadWrites ==
  ASSUME MemoryInv, NEW t \in Threads, NEW x, ThreadGood(x), thread' = [thread EXCEPT ![t] = x],
         thread[t].at # "flush", StoreKeeps, UNCHANGED retriever, Other(t),
         queue' = queue \/ Publish, changes' = changes \/ \E op \in Operations : Budget(op)
  PROVE  MemoryInv'
<1>1. queue' \in [Subscribers -> 0 .. Buffer] /\ changes' \in 0 .. MaxChanges
  BY PublishTyped, BudgetTyped DEF MemoryInv, QueuesGood
<1> QED
  BY <1>1, OthersStay, ThreadMoves, Assembled

\* It waits and others write nothing of its own.
LEMMA ThreadFacts ==
  ASSUME MemoryInv, NEW t \in Threads
  PROVE  /\ ThreadGood(thread[t]) /\ thread[t] \in Thread
         /\ thread[t].row \in Row /\ thread[t].hides \in BOOLEAN /\ thread[t].todo \subseteq Nodes
         /\ thread = [thread EXCEPT ![t] = thread[t]]
BY DEF MemoryInv, ThreadsGood, ThreadGood, Thread

LEMMA IdleGood == ThreadGood(Idle) /\ Idle.at = "idle"
BY Rows DEF ThreadGood, Thread, Idle

\* Where a goroutine may go, holding what it holds.
LEMMA PlaceGood ==
  ASSUME NEW x, ThreadGood(x), NEW place,
         \/ place \in {"idle", "publish", "flush", "purge", "scan", "backfill", "version", "select", "reset"}
         \/ place = "embed" /\ x.op = "save"
         \/ place = "relate" /\ x.op = "reflect"
  PROVE  ThreadGood([x EXCEPT !.at = place])
<1>1. x \in Thread
  BY DEF ThreadGood
<1>2. /\ [x EXCEPT !.at = place] \in Thread
      /\ [x EXCEPT !.at = place].at = place
      /\ [x EXCEPT !.at = place].op = x.op
      /\ [x EXCEPT !.at = place].node = x.node
      /\ [x EXCEPT !.at = place].row = x.row
      /\ [x EXCEPT !.at = place].other = x.other
  BY <1>1 DEF Thread
<1> QED
  BY <1>2 DEF ThreadGood

-----------------------------------------------------------------------------
(* Requests and what they go on with.                                      *)

LEMMA BeginFacts ==
  ASSUME NEW t, NEW op, Begin(t, op)
  PROVE  /\ thread[t] = Idle /\ thread[t].at # "flush"
         /\ \E o \in Operations : Budget(o)
BY IdleGood DEF Begin, Budget

LEMMA CreatedStep ==
  ASSUME MemoryInv, NEW t \in Threads, NEW op \in {"create", "save"}, NEW n \in Nodes,
         NEW owner \in Owners \cup {NoOne}, NEW private \in Privacy, Created(t, op, n, owner, private)
  PROVE  MemoryInv'
<1> DEFINE x == [Idle EXCEPT !.at = "publish", !.op = op, !.node = n]
<1>1. Begin(t, op) /\ CreateNode(n, owner, private) /\ thread' = [thread EXCEPT ![t] = x]
  BY DEF Created
<1>2. UNCHANGED <<edges, embedded, retriever, queue, history>> /\ Other(t)
  BY DEF Created
<1>3. ThreadGood(x)
  BY IdleGood DEF ThreadGood, Thread
<1>4. StoreKeeps
  BY <1>1, <1>2, Rows, CreateKeeps
<1> HIDE DEF x
<1> QED
  BY <1>1, <1>2, <1>3, <1>4, BeginFacts, ThreadWrites

LEMMA ShowOrHideStep ==
  ASSUME MemoryInv, NEW t \in Threads, NEW n \in Present, ShowOrHide(t, n)
  PROVE  MemoryInv'
<1> DEFINE x == [Idle EXCEPT !.at = "flush", !.op = "show", !.node = n]
<1>1. PICK private \in BOOLEAN : SetNodeVisibility(n, private)
  BY DEF ShowOrHide
<1>2. /\ Begin(t, "show") /\ thread' = [thread EXCEPT ![t] = x]
      /\ UNCHANGED <<retriever, queue>> /\ Other(t)
  BY DEF ShowOrHide
<1>3. n \in Nodes
  BY DEF Present
<1>4. ThreadGood(x) /\ x.at = "flush" /\ x.node = n
  BY <1>3, IdleGood DEF ThreadGood, Thread
<1> HIDE DEF x
<1>5. /\ ThreadsGood' /\ thread'[t] = x
      /\ \A m \in Nodes : Flushing(m) => Flushing(m)'
  BY <1>2, <1>4, BeginFacts, ThreadMoves
<1>6. Flushing(n)'
  BY <1>4, <1>5 DEF Flushing
<1>7. queue' \in [Subscribers -> 0 .. Buffer] /\ changes' \in 0 .. MaxChanges
  BY <1>2, BudgetTyped DEF MemoryInv, QueuesGood, Begin
<1>8. JobsGood' /\ ConsGood(cons') /\ QueuesGood'
  BY <1>2, <1>7, OthersStay
<1>9. filled' = filled /\ cache' = cache
  BY <1>2 DEF retriever
<1>10. CacheHidesPrivate'
  <2>1. Present' = {m \in Nodes : nodes'[m].status \in Live}
    BY StoreFacts
  <2> QED
    BY <1>1, <1>5, <1>6, <1>9, <2>1, VisibilityKeeps DEF CacheHidesPrivate
<1>11. RetrieverGood'
  BY <1>1, <1>9, StoreFacts, VisibilityKeeps DEF MemoryInv, RetrieverGood
<1>12. TablesGood' /\ EdgesPrivate'
  BY <1>1, VisibilityKeeps
<1> QED
  BY <1>5, <1>8, <1>10, <1>11, <1>12 DEF MemoryInv

\* The reads that begin a longer call, and the calls of one step.
LEMMA CallsStep ==
  ASSUME MemoryInv, NEW t \in Threads, Calls(t)
  PROVE  MemoryInv'
<1>1. ASSUME handleCreateMemoryNode(t) \/ saveMemory(t) PROVE MemoryInv'
  BY <1>1, CreatedStep DEF handleCreateMemoryNode, saveMemory
<1>2. ASSUME handleToggleNodePrivacy(t) \/ ToggleMemoryPrivacy(t) PROVE MemoryInv'
  BY <1>2, ShowOrHideStep DEF handleToggleNodePrivacy, ToggleMemoryPrivacy
<1>3. ASSUME ReadToPin(t) PROVE MemoryInv'
  <2>1. PICK n \in Present : thread' = [thread EXCEPT ![t] =
                          [Idle EXCEPT !.at = "pin", !.op = "pin", !.node = n, !.row = nodes[n]]]
    BY <1>3 DEF ReadToPin
  <2> DEFINE x == [Idle EXCEPT !.at = "pin", !.op = "pin", !.node = n, !.row = nodes[n]]
  <2>2. n \in Nodes /\ nodes[n] \in Row /\ nodes[n].status \in Live
    BY StoreFacts
  <2>3. ThreadGood(x)
    BY <2>2, IdleGood DEF ThreadGood, Thread
  <2>4. Begin(t, "pin") /\ UNCHANGED <<tables, retriever, queue, history>> /\ Other(t)
    BY <1>3 DEF ReadToPin
  <2> HIDE DEF x
  <2> QED
    BY <2>1, <2>3, <2>4, BeginFacts, NothingWritten, ThreadWrites DEF x
<1>4. ASSUME Delete(t) PROVE MemoryInv'
  <2>1. PICK S \in SUBSET Present : DeleteNodes(S)
    BY <1>4 DEF Delete
  <2>2. /\ Begin(t, "delete") /\ UNCHANGED <<retriever, queue, thread>> /\ Other(t)
    BY <1>4 DEF Delete
  <2>3. thread' = [thread EXCEPT ![t] = thread[t]] /\ ThreadGood(thread[t])
    BY <2>2, ThreadFacts
  <2> QED
    BY <2>1, <2>2, <2>3, BeginFacts, DeleteKeeps, ThreadWrites
<1>5. ASSUME TriggerEnrichment(t) PROVE MemoryInv'
  <2>1. /\ Begin(t, "trigger") /\ Publish
        /\ UNCHANGED <<tables, retriever, thread, history>> /\ Other(t)
    BY <1>5 DEF TriggerEnrichment
  <2>2. thread' = [thread EXCEPT ![t] = thread[t]] /\ ThreadGood(thread[t])
    BY <2>1, ThreadFacts
  <2> QED
    BY <2>1, <2>2, BeginFacts, NothingWritten, ThreadWrites
<1>6. ASSUME ChangeEmbeddingModel(t) PROVE MemoryInv'
  <2> DEFINE x == [Idle EXCEPT !.at = "flush", !.op = "reembed"]
  <2>1. /\ Begin(t, "reembed") /\ thread' = [thread EXCEPT ![t] = x]
        /\ UNCHANGED <<tables, retriever, queue, history>> /\ Other(t)
    BY <1>6 DEF ChangeEmbeddingModel
  <2>2. ThreadGood(x)
    BY IdleGood DEF ThreadGood, Thread
  <2> HIDE DEF x
  <2> QED
    BY <2>1, <2>2, BeginFacts, NothingWritten, ThreadWrites
<1>7. ASSUME Reflect(t) PROVE MemoryInv'
  <2>1. PICK n \in Nodes, owner \in Owners \cup {NoOne} :
          /\ CreateNode(n, owner, FALSE)
          /\ thread' = [thread EXCEPT ![t] = [Idle EXCEPT !.at = "content", !.op = "reflect",
                                              !.node = n, !.row = nodes'[n]]]
    BY <1>7 DEF Reflect
  <2> DEFINE x == [Idle EXCEPT !.at = "content", !.op = "reflect", !.node = n, !.row = nodes'[n]]
             row == [status |-> "pending", owner |-> owner, private |-> FALSE, absorbed |-> FALSE]
  <2>2. row \in Row /\ row.status \in Live
    BY Rows DEF Live
  <2>3. nodes' = [nodes EXCEPT ![n] = row]
    BY <2>1 DEF CreateNode
  <2>4. nodes'[n] \in Row /\ nodes'[n].status \in Live
    <3> HIDE DEF row
    <3> QED
      BY <2>2, <2>3, StoreFacts
  <2>5. ThreadGood(x)
    BY <2>4, IdleGood DEF ThreadGood, Thread
  <2>6. /\ thread[t].at # "flush" /\ \E op \in Operations : Budget(op)
        /\ UNCHANGED <<edges, embedded, retriever, queue, history>> /\ Other(t)
    BY <1>7, IdleGood DEF Reflect, Budget
  <2>7. StoreKeeps
    BY <2>1, <2>6, CreateKeeps
  <2> HIDE DEF x
  <2> QED
    BY <2>1, <2>5, <2>6, <2>7, ThreadWrites DEF x
<1> QED
  BY <1>1, <1>2, <1>3, <1>4, <1>5, <1>6, <1>7 DEF Calls

\* It goes somewhere else, and writes what keeps the store.
LEMMA GoesKeeps ==
  ASSUME MemoryInv, NEW t \in Threads, NEW place, thread[t].at # "flush",
         GoesTo(t, place) \/ ThreadEnds(t),
         \/ place \in {"idle", "publish", "flush", "purge", "scan", "backfill", "version", "select", "reset"}
         \/ place = "embed" /\ thread[t].op = "save"
         \/ place = "relate" /\ thread[t].op = "reflect",
         StoreKeeps, UNCHANGED <<retriever, changes>>, queue' = queue \/ Publish, Other(t)
  PROVE  MemoryInv'
<1>1. CASE ThreadEnds(t)
  BY <1>1, IdleGood, ThreadWrites DEF ThreadEnds
<1>2. CASE GoesTo(t, place)
  <2> DEFINE x == [thread[t] EXCEPT !.at = place]
  <2>1. ThreadGood(x)
    BY ThreadFacts, PlaceGood
  <2>2. thread' = [thread EXCEPT ![t] = x]
    BY <1>2 DEF GoesTo
  <2> HIDE DEF x
  <2> QED
    BY <2>1, <2>2, ThreadWrites
<1> QED
  BY <1>1, <1>2

\* The cache is flushed at the end, or before what follows.
LEMMA FlushStep ==
  ASSUME MemoryInv, NEW t \in Threads, Flush(t)
  PROVE  MemoryInv'
<1>1. InvalidateCache /\ UNCHANGED <<tables, queue, changes, history>> /\ Other(t)
  BY DEF Flush
<1>2. PICK x \in {Idle, [thread[t] EXCEPT !.at = "publish"], [thread[t] EXCEPT !.at = "purge"]} :
        thread' = [thread EXCEPT ![t] = x]
  <2>1. CASE thread[t].op = "reflect"
    BY <2>1 DEF Flush, GoesTo
  <2>2. CASE thread[t].op = "reembed"
    BY <2>2 DEF Flush, GoesTo
  <2>3. CASE thread[t].op \notin {"reflect", "reembed"}
    BY <2>3 DEF Flush, ThreadEnds
  <2> QED
    BY <2>1, <2>2, <2>3
<1>3. ThreadGood(x)
  BY IdleGood, ThreadFacts, PlaceGood
<1>4. JobsGood' /\ ConsGood(cons') /\ QueuesGood'
  BY <1>1, OthersStay DEF MemoryInv, QueuesGood
<1> QED
  BY <1>1, <1>2, <1>3, <1>4, ThreadMoves, AssembledEmpty

LEMMA PublishCreatedStep ==
  ASSUME MemoryInv, NEW t \in Threads, PublishCreated(t)
  PROVE  MemoryInv'
<1>1. /\ thread[t].at = "publish" /\ Publish
      /\ UNCHANGED <<tables, retriever, changes, history>> /\ Other(t)
  BY DEF PublishCreated
<1>2. StoreKeeps
  BY <1>1, NothingWritten
<1>3. CASE thread[t].op = "save"
  <2>1. GoesTo(t, "embed")
    BY <1>3 DEF PublishCreated
  <2> QED
    BY <1>1, <1>2, <1>3, <2>1, GoesKeeps
<1>4. CASE thread[t].op = "start"
  <2>1. GoesTo(t, "select")
    BY <1>4 DEF PublishCreated
  <2> QED
    BY <1>1, <1>2, <2>1, GoesKeeps
<1>5. CASE thread[t].op \notin {"save", "start"}
  <2>1. ThreadEnds(t)
    BY <1>5 DEF PublishCreated
  <2> QED
    BY <1>1, <1>2, <2>1, IdleGood, ThreadWrites DEF ThreadEnds
<1> QED
  BY <1>3, <1>4, <1>5

\* A whole row that was read before.
LEMMA WritesRow ==
  ASSUME MemoryInv, NEW t \in Threads, Pin(t) \/ WriteContent(t)
  PROVE  MemoryInv'
<1> DEFINE n == thread[t].node
           row == thread[t].row
<1>1. /\ thread[t].at \in {"pin", "content"} /\ nodes' = UpdateNode(n, row) /\ Overwrites(n, row)
      /\ UNCHANGED <<edges, embedded, retriever, queue, changes, raced>> /\ Other(t)
      /\ \/ ThreadEnds(t) \/ GoesTo(t, "flush")
         \/ thread[t].at = "content" /\ GoesTo(t, "relate")
  BY DEF Pin, WriteContent
<1>2. /\ n \in Nodes /\ row \in Row /\ row.status \in Live
      /\ thread[t].at = "content" => thread[t].op = "reflect"
  BY <1>1, ThreadFacts DEF ThreadGood
<1>3. StoreKeeps
  BY <1>1, <1>2, UpdateKeeps
<1> QED
  BY <1>1, <1>2, <1>3, GoesKeeps

LEMMA RelatesGood ==
  ASSUME NEW y, ThreadGood(y), y.at = "relate", NEW m \in Nodes, NEW hides \in BOOLEAN
  PROVE  ThreadGood([y EXCEPT !.at = "insert", !.other = m, !.hides = hides])
BY DEF ThreadGood, Thread

LEMMA ReflectorRelates ==
  ASSUME MemoryInv, NEW t \in Threads, Relate(t) \/ InsertRelation(t)
  PROVE  MemoryInv'
<1>1. ASSUME Relate(t) PROVE MemoryInv'
  <2>1. PICK m \in Nodes, b \in BOOLEAN :
          thread' = [thread EXCEPT ![t].at = "insert", ![t].other = m, ![t].hides = b]
    BY <1>1 DEF Relate, ReadPrivacy, EdgePrivacy
  <2>2. thread[t].at = "relate" /\ UNCHANGED <<tables, retriever, queue, changes, history>> /\ Other(t)
    BY <1>1 DEF Relate
  <2> DEFINE x == [thread[t] EXCEPT !.at = "insert", !.other = m, !.hides = b]
  <2>4. thread' = [thread EXCEPT ![t] = x]
    BY <2>1
  <2>5. ThreadGood(x)
    BY <2>2, ThreadFacts, RelatesGood
  <2> HIDE DEF x
  <2> QED
    BY <2>2, <2>4, <2>5, NothingWritten, ThreadWrites
<1>2. ASSUME InsertRelation(t) PROVE MemoryInv'
  <2>1. /\ thread[t].at = "insert" /\ InsertEdge(thread[t].node, thread[t].other, thread[t].hides)
        /\ GoesTo(t, "flush")
        /\ UNCHANGED <<nodes, embedded, retriever, queue, changes, overwritten>> /\ Other(t)
    BY <1>2 DEF InsertRelation
  <2>2. thread[t].node \in Nodes /\ thread[t].other \in Nodes /\ thread[t].hides \in BOOLEAN
    BY <2>1, ThreadFacts DEF ThreadGood
  <2>3. StoreKeeps
    BY <2>1, <2>2, InsertKeeps
  <2> QED
    BY <2>1, <2>3, GoesKeeps
<1> QED
  BY <1>1, <1>2

LEMMA TodoGood ==
  ASSUME NEW y, ThreadGood(y), NEW S \in SUBSET Nodes
  PROVE  /\ ThreadGood([y EXCEPT !.todo = S])
         /\ \A place \in {"version", "reset", "backfill", "publish"} :
              ThreadGood([y EXCEPT !.at = place, !.todo = S])
<1>1. y \in Thread
  BY DEF ThreadGood
<1>2. ThreadGood([y EXCEPT !.todo = S])
  BY <1>1 DEF ThreadGood, Thread
<1>3. ASSUME NEW place \in {"version", "reset", "backfill", "publish"}
      PROVE  ThreadGood([y EXCEPT !.at = place, !.todo = S])
  BY <1>1 DEF ThreadGood, Thread
<1> QED
  BY <1>2, <1>3

\* A part of the nodes is taken in hand, or one of them is done.
LEMMA TodoKeeps ==
  ASSUME MemoryInv, NEW t \in Threads, NEW place \in {"version", "reset", "backfill", "publish"},
         NEW S \in SUBSET Nodes,
         thread' = [thread EXCEPT ![t].at = place, ![t].todo = S], thread[t].at # "flush",
         StoreKeeps, UNCHANGED <<retriever, queue, changes>>, Other(t)
  PROVE  MemoryInv'
<1> DEFINE x == [thread[t] EXCEPT !.at = place, !.todo = S]
<1>1. ThreadGood(x)
  BY ThreadFacts, TodoGood
<1>2. thread' = [thread EXCEPT ![t] = x]
  OBVIOUS
<1> HIDE DEF x
<1> QED
  BY <1>1, <1>2, ThreadWrites

LEMMA BackfillStep ==
  ASSUME MemoryInv, NEW t \in Threads,
         \/ EmbedSaved(t) \/ DeleteAllEmbeddings(t) \/ GetNodesWithoutEmbeddings(t)
         \/ Backfill(t) \/ BackfillEnds(t)
  PROVE  MemoryInv'
<1>1. ASSUME EmbedSaved(t) PROVE MemoryInv'
  <2>1. /\ thread[t].at = "embed" /\ Other(t)
        /\ UNCHANGED <<nodes, edges, retriever, queue, changes, history>>
        /\ \/ EmbedNode(thread[t].node) /\ GoesTo(t, "flush")
           \/ ThreadEnds(t) /\ UNCHANGED embedded
    BY <1>1 DEF EmbedSaved
  <2>2. thread[t].node \in Nodes
    BY <2>1, ThreadFacts DEF ThreadGood
  <2>3. StoreKeeps
    BY <2>1, <2>2, EmbedKeeps DEF EmbedNode
  <2> QED
    BY <2>1, <2>3, GoesKeeps
<1>2. ASSUME DeleteAllEmbeddings(t) PROVE MemoryInv'
  <2>1. /\ thread[t].at = "purge" /\ embedded' = {} /\ GoesTo(t, "scan") /\ Other(t)
        /\ UNCHANGED <<nodes, edges, retriever, queue, changes, history>>
    BY <1>2 DEF DeleteAllEmbeddings
  <2>2. StoreKeeps
    BY <2>1, EmbeddingsKeep
  <2> QED
    BY <2>1, <2>2, GoesKeeps
<1>3. ASSUME GetNodesWithoutEmbeddings(t) PROVE MemoryInv'
  <2>1. PICK S \in SUBSET (Present \ embedded) :
          thread' = [thread EXCEPT ![t].at = "backfill", ![t].todo = S]
    BY <1>3 DEF GetNodesWithoutEmbeddings
  <2>2. S \in SUBSET Nodes
    BY DEF Present
  <2>3. thread[t].at = "scan" /\ UNCHANGED <<tables, retriever, queue, changes, history>> /\ Other(t)
    BY <1>3 DEF GetNodesWithoutEmbeddings
  <2> QED
    BY <2>1, <2>2, <2>3, NothingWritten, TodoKeeps
<1>4. ASSUME Backfill(t) PROVE MemoryInv'
  <2>1. PICK n \in thread[t].todo :
          EmbedNode(n) /\ thread' = [thread EXCEPT ![t].todo = @ \ {n}]
    BY <1>4 DEF Backfill
  <2>2. /\ thread[t].at = "backfill" /\ Other(t)
        /\ UNCHANGED <<nodes, edges, retriever, queue, changes, history>>
    BY <1>4 DEF Backfill
  <2>3. n \in Nodes /\ thread[t].todo \ {n} \in SUBSET Nodes
    BY ThreadFacts
  <2>4. StoreKeeps
    BY <2>1, <2>2, <2>3, EmbedKeeps
  <2> DEFINE x == [thread[t] EXCEPT !.todo = @ \ {n}]
  <2>5. ThreadGood(x) /\ thread' = [thread EXCEPT ![t] = x]
    BY <2>1, <2>3, ThreadFacts, TodoGood
  <2> HIDE DEF x
  <2> QED
    BY <2>2, <2>4, <2>5, ThreadWrites
<1>5. ASSUME BackfillEnds(t) PROVE MemoryInv'
  <2>1. /\ thread[t].at = "backfill" /\ ThreadEnds(t) /\ Other(t)
        /\ UNCHANGED <<tables, retriever, queue, changes, history>>
    BY <1>5 DEF BackfillEnds
  <2> QED
    BY <2>1, NothingWritten, IdleGood, ThreadWrites DEF ThreadEnds
<1> QED
  BY <1>1, <1>2, <1>3, <1>4, <1>5

LEMMA ReenrichmentStep ==
  ASSUME MemoryInv, NEW t \in Threads, SelectComplete(t) \/ ResetToPending(t) \/ StoreVersion(t)
  PROVE  MemoryInv'
<1>1. ASSUME SelectComplete(t) PROVE MemoryInv'
  <2>1. PICK S \in SUBSET Complete :
          thread' = [thread EXCEPT ![t].at = IF S = {} THEN "version" ELSE "reset", ![t].todo = S]
    BY <1>1 DEF SelectComplete
  <2>2. S \in SUBSET Nodes
    BY DEF Complete, Present
  <2>3. thread[t].at = "select" /\ UNCHANGED <<tables, retriever, queue, changes, history>> /\ Other(t)
    BY <1>1 DEF SelectComplete
  <2> DEFINE place == IF S = {} THEN "version" ELSE "reset"
  <2>4. place \in {"version", "reset", "backfill", "publish"}
    OBVIOUS
  <2>5. thread' = [thread EXCEPT ![t].at = place, ![t].todo = S]
    BY <2>1
  <2> HIDE DEF place
  <2> QED
    BY <2>2, <2>3, <2>4, <2>5, NothingWritten, TodoKeeps
<1>2. ASSUME ResetToPending(t) PROVE MemoryInv'
  <2>1. PICK n \in thread[t].todo :
          /\ nodes' = IF Here(n) THEN [nodes EXCEPT ![n].status = "pending"] ELSE nodes
          /\ thread' = [thread EXCEPT ![t].todo = @ \ {n},
                                      ![t].at = IF thread[t].todo = {n} THEN "publish" ELSE "reset"]
    BY <1>2 DEF ResetToPending
  <2>2. /\ thread[t].at = "reset" /\ Other(t)
        /\ UNCHANGED <<edges, embedded, retriever, queue, changes, history>>
    BY <1>2 DEF ResetToPending
  <2>3. n \in Nodes /\ thread[t].todo \ {n} \in SUBSET Nodes /\ UNCHANGED <<overwritten, raced>>
    BY <2>2, ThreadFacts DEF history
  <2>4. StoreKeeps
    <3> DEFINE row == [nodes[n] EXCEPT !.status = "pending"]
    <3>1. /\ row \in Row /\ row.status \in Live
          /\ row.owner = nodes[n].owner /\ row.private = nodes[n].private
      BY <2>3, StoreFacts DEF Row, Live
    <3>2. CASE Here(n)
      <4>1. nodes' = [nodes EXCEPT ![n] = row] /\ nodes[n].status \in Live
        BY <2>1, <3>2 DEF Here, Live
      <4> HIDE DEF row
      <4> QED
        BY <2>2, <2>3, <3>1, <4>1, RowKeeps
    <3>3. CASE ~Here(n)
      BY <2>1, <2>2, <3>3, NothingWritten DEF tables
    <3> QED
      BY <3>2, <3>3
  <2> DEFINE place == IF thread[t].todo = {n} THEN "publish" ELSE "reset"
             S == thread[t].todo \ {n}
  <2>5. place \in {"version", "reset", "backfill", "publish"}
    OBVIOUS
  <2>6. thread' = [thread EXCEPT ![t].at = place, ![t].todo = S]
    BY <2>1 DEF MemoryInv, ThreadsGood, Thread
  <2>7. S \in SUBSET Nodes
    BY <2>3
  <2> HIDE DEF place, S
  <2> QED
    BY <2>2, <2>4, <2>5, <2>6, <2>7, TodoKeeps
<1>3. ASSUME StoreVersion(t) PROVE MemoryInv'
  <2>1. /\ thread[t].at = "version" /\ outdated' = FALSE /\ GoesTo(t, "flush")
        /\ UNCHANGED <<tables, retriever, profiler, queue, enricher, cons, changes, history>>
    BY <1>3 DEF StoreVersion
  <2> DEFINE x == [thread[t] EXCEPT !.at = "flush"]
  <2>2. ThreadGood(x) /\ thread' = [thread EXCEPT ![t] = x]
    BY <2>1, ThreadFacts, PlaceGood DEF GoesTo
  <2> HIDE DEF x
  <2>3. ThreadsGood' /\ \A n \in Nodes : Flushing(n) => Flushing(n)'
    BY <2>1, <2>2, ThreadMoves
  <2>4. JobsGood' /\ ConsGood(cons') /\ QueuesGood'
    BY <2>1 DEF MemoryInv, JobsGood, QueuesGood, profiler, enricher
  <2> QED
    BY <2>1, <2>3, <2>4, NothingWritten, Assembled
<1> QED
  BY <1>1, <1>2, <1>3

LEMMA ProceedsStep ==
  ASSUME MemoryInv, NEW t \in Threads, Proceeds(t)
  PROVE  MemoryInv'
BY FlushStep, PublishCreatedStep, WritesRow, ReflectorRelates, BackfillStep, ReenrichmentStep DEF Proceeds

-----------------------------------------------------------------------------
(* The enricher.                                                           *)

LEMMA NoJobGood ==
  /\ JobGood(NoJob) /\ NoJob.at = "none"
  /\ \A row \in Row : row.status \in Live => JobGood([NoJob EXCEPT !.at = "ask", !.row = row])
  /\ \A owner \in Owners \cup {NoOne} : JobGood([NoJob EXCEPT !.at = "link", !.row.owner = owner])
<1>1. JobGood(NoJob) /\ NoJob.at = "none"
  BY Rows DEF JobGood, Job, NoJob
<1>2. ASSUME NEW row \in Row, row.status \in Live
      PROVE  JobGood([NoJob EXCEPT !.at = "ask", !.row = row])
  BY <1>2, Rows DEF JobGood, Job, NoJob
<1>3. ASSUME NEW owner \in Owners \cup {NoOne}
      PROVE  JobGood([NoJob EXCEPT !.at = "link", !.row.owner = owner])
  BY Rows DEF JobGood, Job, NoJob, Row
<1> QED
  BY <1>1, <1>2, <1>3

\* The goroutine of a job becomes x, and writes what keeps the store.
LEMMA JobWrites ==
  ASSUME MemoryInv, NEW p \in Passes, NEW n \in Nodes, NEW x, JobGood(x),
         job' = [job EXCEPT ![<<p, n>>] = x], StoreKeeps, UNCHANGED retriever, Rest
  PROVE  MemoryInv'
<1>1. UNCHANGED <<profile, counter, queue, armed, pass, cons, thread, outdated, changes>>
  BY DEF Rest, profiler
<1>2. <<p, n>> \in Jobs /\ x \in Job
  BY DEF Jobs, JobGood
<1>3. JobsGood'
  BY <1>2 DEF MemoryInv, JobsGood
<1>4. ThreadsGood' /\ QueuesGood' /\ ConsGood(cons') /\ \A m \in Nodes : Flushing(m) => Flushing(m)'
  BY <1>1 DEF MemoryInv, ThreadsGood, QueuesGood, Flushing
<1> QED
  BY <1>3, <1>4, Assembled

LEMMA JobFacts ==
  ASSUME MemoryInv, NEW p \in Passes, NEW n \in Nodes
  PROVE  /\ JobGood(job[<<p, n>>]) /\ job[<<p, n>>] \in Job
         /\ job[<<p, n>>].row \in Row /\ job[<<p, n>>].otherRow \in Row /\ job[<<p, n>>].hides \in BOOLEAN
         /\ job[<<p, n>>].row.owner \in Owners \cup {NoOne}
<1>1. <<p, n>> \in Jobs
  BY DEF Jobs
<1>2. JobGood(job[<<p, n>>])
  BY <1>1 DEF MemoryInv, JobsGood
<1> QED
  BY <1>2 DEF JobGood, Job, Row

\* It takes its next place, ends, or goes on to the links.
LEMMA JobGoes ==
  ASSUME MemoryInv, NEW p \in Passes, NEW n \in Nodes, StoreKeeps, UNCHANGED retriever, Rest,
         \/ Ends(p, n) \/ ToLink(p, n)
         \/ job[<<p, n>>].at \in {"embed", "flush"} /\ \E place \in {"flush", "dedup"} : Step(p, n, place)
  PROVE  MemoryInv'
<1>1. CASE Ends(p, n)
  BY <1>1, NoJobGood, JobWrites DEF Ends
<1>2. CASE ToLink(p, n)
  <2> DEFINE x == [NoJob EXCEPT !.at = "link", !.row.owner = job[<<p, n>>].row.owner]
  <2>1. JobGood(x)
    BY NoJobGood, JobFacts
  <2>2. job' = [job EXCEPT ![<<p, n>>] = x]
    BY <1>2 DEF ToLink
  <2> HIDE DEF x
  <2> QED
    BY <2>1, <2>2, JobWrites
<1>3. ASSUME job[<<p, n>>].at \in {"embed", "flush"}, NEW place \in {"flush", "dedup"}, Step(p, n, place)
      PROVE  MemoryInv'
  <2> DEFINE x == [job[<<p, n>>] EXCEPT !.at = place]
  <2>1. JobGood(x)
    BY <1>3, JobFacts DEF JobGood, Job
  <2>2. job' = [job EXCEPT ![<<p, n>>] = x]
    BY <1>3 DEF Step
  <2> HIDE DEF x
  <2> QED
    BY <2>1, <2>2, JobWrites
<1> QED
  BY <1>1, <1>2, <1>3

LEMMA Absorbed ==
  ASSUME NEW row \in Row
  PROVE  [row EXCEPT !.absorbed = TRUE] \in Row /\ [row EXCEPT !.absorbed = TRUE].status = row.status
BY DEF Row

\* What a job may hold at its next place.
LEMMA HeldGood ==
  ASSUME NEW y, JobGood(y), NEW row \in Row, row.status \in Live
  PROVE  /\ JobGood([y EXCEPT !.at = "embed", !.row = row])
         /\ y.at \in {"dedup", "merge"} => \A m \in Nodes :
              JobGood([y EXCEPT !.at = "merge", !.other = m, !.otherRow = row])
         /\ y.at \in {"dedup", "merge"} =>
              JobGood([y EXCEPT !.at = "yield", !.other = NoOne, !.otherRow = NoRow])
<1>1. y \in Job /\ NoRow \in Row
  BY Rows DEF JobGood
<1>2. JobGood([y EXCEPT !.at = "embed", !.row = row])
  BY <1>1 DEF JobGood, Job
<1>3. ASSUME y.at \in {"dedup", "merge"}, NEW m \in Nodes
      PROVE  JobGood([y EXCEPT !.at = "merge", !.other = m, !.otherRow = row])
  BY <1>1, <1>3 DEF JobGood, Job
<1>4. ASSUME y.at \in {"dedup", "merge"}
      PROVE  JobGood([y EXCEPT !.at = "yield", !.other = NoOne, !.otherRow = NoRow])
  BY <1>1, <1>4 DEF JobGood, Job
<1> QED
  BY <1>2, <1>3, <1>4

\* The rows that a job writes, read before the model was asked.
LEMMA JobWritesRow ==
  ASSUME MemoryInv, NEW p \in Passes, NEW n \in Nodes,
         EnrichSucceeds(p, n) \/ Merge(p, n) \/ Yield(p, n)
  PROVE  MemoryInv'
<1>1. ASSUME EnrichSucceeds(p, n) PROVE MemoryInv'
  <2> DEFINE row == [job[<<p, n>>].row EXCEPT !.status = "complete"]
             x == [job[<<p, n>>] EXCEPT !.at = "embed", !.row = row]
  <2>1. job[<<p, n>>].at = "ask" /\ row \in Row /\ row.status \in Live
    BY <1>1, JobFacts DEF EnrichSucceeds, Row, Live
  <2>2. /\ nodes' = UpdateNode(n, row) /\ Overwrites(n, row)
        /\ job' = [job EXCEPT ![<<p, n>>] = x]
        /\ Rest /\ UNCHANGED <<edges, embedded, retriever, raced>>
    BY <1>1 DEF EnrichSucceeds
  <2> HIDE DEF row
  <2>3. JobGood(x)
    BY <2>1, JobFacts, HeldGood
  <2> HIDE DEF x
  <2> QED
    BY <2>1, <2>2, <2>3, UpdateKeeps, JobWrites
<1>2. ASSUME Merge(p, n) PROVE MemoryInv'
  <2> DEFINE x == [job[<<p, n>>] EXCEPT !.at = "yield", !.other = NoOne, !.otherRow = NoRow]
  <2>1. /\ job[<<p, n>>].at = "merge"
        /\ nodes' = UpdateNode(job[<<p, n>>].other, job[<<p, n>>].otherRow)
        /\ Overwrites(job[<<p, n>>].other, job[<<p, n>>].otherRow)
        /\ job' = [job EXCEPT ![<<p, n>>] = x]
        /\ Rest /\ UNCHANGED <<edges, embedded, retriever, raced>>
    BY <1>2 DEF Merge
  <2>2. /\ job[<<p, n>>].other \in Nodes /\ job[<<p, n>>].otherRow \in Row
        /\ job[<<p, n>>].otherRow.status \in Live
    BY <2>1, JobFacts DEF JobGood
  <2>3. JobGood(x)
    BY <2>1, <2>2, JobFacts, HeldGood
  <2> HIDE DEF x
  <2> QED
    BY <2>1, <2>2, <2>3, UpdateKeeps, JobWrites
<1>3. ASSUME Yield(p, n) PROVE MemoryInv'
  <2> DEFINE row == [job[<<p, n>>].row EXCEPT !.absorbed = TRUE]
  <2>1. /\ job[<<p, n>>].at = "yield" /\ nodes' = UpdateNode(n, row) /\ Overwrites(n, row)
        /\ Ends(p, n) /\ Rest /\ UNCHANGED <<edges, embedded, retriever, raced>>
    BY <1>3 DEF Yield
  <2>2. row \in Row /\ row.status \in Live
    BY <2>1, JobFacts, Absorbed DEF JobGood
  <2> HIDE DEF row
  <2> QED
    BY <2>1, <2>2, UpdateKeeps, JobGoes
<1> QED
  BY <1>1, <1>2, <1>3

LEMMA LinkGood ==
  ASSUME NEW y, JobGood(y), y.at = "link", NEW m \in Nodes, NEW hides \in BOOLEAN
  PROVE  JobGood([y EXCEPT !.at = "insert", !.other = m, !.hides = hides])
BY DEF JobGood, Job

LEMMA JobStepKeeps ==
  ASSUME MemoryInv, NEW p \in Passes, NEW n \in Nodes, JobStep(p, n)
  PROVE  MemoryInv'
<1>1. ASSUME EnrichFails(p, n) PROVE MemoryInv'
  BY <1>1, NothingWritten, JobGoes DEF EnrichFails
<1>2. ASSUME EmbedEnriched(p, n) PROVE MemoryInv'
  <2>1. /\ job[<<p, n>>].at = "embed" /\ Rest /\ UNCHANGED <<nodes, edges, retriever, history>>
        /\ \/ EmbedNode(n) /\ Step(p, n, "flush")
           \/ ToLink(p, n) /\ UNCHANGED embedded
    BY <1>2 DEF EmbedEnriched
  <2>2. StoreKeeps
    BY <2>1, EmbedKeeps DEF EmbedNode
  <2> QED
    BY <2>1, <2>2, JobGoes
<1>3. ASSUME FlushEnriched(p, n) PROVE MemoryInv'
  <2> DEFINE x == [job[<<p, n>>] EXCEPT !.at = "dedup"]
  <2>1. /\ job[<<p, n>>].at = "flush" /\ InvalidateCache /\ job' = [job EXCEPT ![<<p, n>>] = x]
        /\ Rest /\ UNCHANGED <<tables, history>>
    BY <1>3 DEF FlushEnriched, Step
  <2>2. JobGood(x) /\ x \in Job /\ <<p, n>> \in Jobs
    BY <2>1, JobFacts DEF JobGood, Job, Jobs
  <2> HIDE DEF x
  <2>3. JobsGood'
    BY <2>1, <2>2 DEF MemoryInv, JobsGood
  <2>4. ThreadsGood' /\ QueuesGood' /\ ConsGood(cons')
    BY <2>1 DEF MemoryInv, ThreadsGood, QueuesGood, Rest, profiler
  <2> QED
    BY <2>1, <2>3, <2>4, AssembledEmpty
<1>4. ASSUME FindDuplicate(p, n) PROVE MemoryInv'
  <2>1. job[<<p, n>>].at = "dedup" /\ Rest /\ UNCHANGED <<tables, retriever, history>>
    BY <1>4 DEF FindDuplicate
  <2>2. StoreKeeps
    BY <2>1, NothingWritten
  <2>3. CASE ToLink(p, n)
    BY <2>1, <2>2, <2>3, JobGoes
  <2>4. CASE ~ToLink(p, n)
    <3>1. PICK m \in DuplicatesOf(n) :
            job' = [job EXCEPT ![<<p, n>>].at = "merge", ![<<p, n>>].other = m, ![<<p, n>>].otherRow = nodes[m]]
      BY <1>4, <2>4 DEF FindDuplicate
    <3> DEFINE x == [job[<<p, n>>] EXCEPT !.at = "merge", !.other = m, !.otherRow = nodes[m]]
    <3>2. m \in Nodes /\ nodes[m] \in Row /\ nodes[m].status \in Live
      BY StoreFacts DEF DuplicatesOf
    <3>3. job' = [job EXCEPT ![<<p, n>>] = x]
      BY <3>1
    <3>4. JobGood(x)
      BY <2>1, <3>2, JobFacts, HeldGood
    <3> HIDE DEF x
    <3> QED
      BY <2>1, <2>2, <3>3, <3>4, JobWrites
  <2> QED
    BY <2>3, <2>4
<1>5. ASSUME Link(p, n) PROVE MemoryInv'
  <2>1. job[<<p, n>>].at = "link" /\ Rest /\ UNCHANGED <<tables, retriever, history>>
    BY <1>5 DEF Link
  <2>2. StoreKeeps
    BY <2>1, NothingWritten
  <2>3. CASE Ends(p, n)
    BY <2>1, <2>2, <2>3, JobGoes
  <2>4. CASE ~Ends(p, n)
    <3>1. PICK m \in Scope(job[<<p, n>>].row.owner), b \in BOOLEAN :
            job' = [job EXCEPT ![<<p, n>>].at = "insert", ![<<p, n>>].other = m, ![<<p, n>>].hides = b]
      BY <1>5, <2>4 DEF Link, ReadPrivacy, EdgePrivacy
    <3> DEFINE x == [job[<<p, n>>] EXCEPT !.at = "insert", !.other = m, !.hides = b]
    <3>2. m \in Nodes
      BY DEF Scope, Present
    <3>3. job' = [job EXCEPT ![<<p, n>>] = x]
      BY <3>1
    <3>4. JobGood(x)
      BY <2>1, <3>2, JobFacts, LinkGood
    <3> HIDE DEF x
    <3> QED
      BY <2>1, <2>2, <3>3, <3>4, JobWrites
  <2> QED
    BY <2>3, <2>4
<1>6. ASSUME InsertLink(p, n) PROVE MemoryInv'
  <2>1. /\ job[<<p, n>>].at = "insert" /\ InsertEdge(n, job[<<p, n>>].other, job[<<p, n>>].hides)
        /\ Ends(p, n) /\ Rest /\ UNCHANGED <<nodes, embedded, retriever, overwritten>>
    BY <1>6 DEF InsertLink
  <2>2. job[<<p, n>>].other \in Nodes /\ job[<<p, n>>].hides \in BOOLEAN
    BY <2>1, JobFacts DEF JobGood
  <2> QED
    BY <2>1, <2>2, InsertKeeps, JobGoes
<1> QED
  BY <1>1, <1>2, <1>3, <1>4, <1>5, <1>6, JobWritesRow DEF JobStep

LEMMA EnricherKeeps ==
  ASSUME MemoryInv, EnricherStep
  PROVE  MemoryInv'
<1>1. ASSUME StoreKeeps, UNCHANGED <<retriever, profiler, cons, thread, outdated, changes>>,
             queue' \in [Subscribers -> 0 .. Buffer], armed' \in BOOLEAN,
             pass' \in [Passes -> {"idle", "fetch", "wait"}], JobsGood'
      PROVE  MemoryInv'
  <2>1. ThreadsGood' /\ QueuesGood' /\ ConsGood(cons') /\ \A m \in Nodes : Flushing(m) => Flushing(m)'
    BY <1>1 DEF MemoryInv, ThreadsGood, QueuesGood, Flushing, profiler
  <2> QED
    BY <1>1, <2>1, Assembled
<1>2. QueuesGood /\ JobsGood
  BY DEF MemoryInv
<1>3. ASSUME Debounce PROVE MemoryInv'
  <2>1. queue' \in [Subscribers -> 0 .. Buffer]
    BY <1>2, <1>3 DEF Debounce, QueuesGood
  <2>2. JobsGood'
    BY <1>2, <1>3 DEF Debounce, JobsGood
  <2>3. StoreKeeps
    BY <1>3, NothingWritten DEF Debounce
  <2> QED
    BY <1>1, <1>2, <1>3, <2>1, <2>2, <2>3 DEF Debounce, QueuesGood
<1>4. ASSUME Tick \/ (\E p \in Timers : TimerFires(p)) \/ (\E p \in Passes : Wait(p)) PROVE MemoryInv'
  <2>1. Aside /\ job' = job /\ armed' \in BOOLEAN
    BY <1>2, <1>4 DEF Tick, TimerFires, Wait, QueuesGood
  <2>2. pass' \in [Passes -> {"idle", "fetch", "wait"}]
    BY <1>2, <1>4 DEF Tick, TimerFires, Wait, QueuesGood
  <2>3. JobsGood'
    BY <1>2, <2>1 DEF JobsGood
  <2>4. StoreKeeps
    BY <2>1, NothingWritten DEF Aside
  <2> QED
    BY <1>1, <1>2, <2>1, <2>2, <2>3, <2>4 DEF Aside, QueuesGood
<1>5. ASSUME NEW p \in Passes, GetPendingEnrichment(p) PROVE MemoryInv'
  <2> DEFINE batch == {n \in Pending : Cardinality({m \in Pending : m < n}) < Batch}
             asked(n) == [NoJob EXCEPT !.at = "ask", !.row = nodes[n]]
  <2>1. /\ pass' = [pass EXCEPT ![p] = IF batch = {} THEN "idle" ELSE "wait"]
        /\ job' = [j \in Jobs |-> IF j[1] = p /\ j[2] \in batch THEN asked(j[2]) ELSE job[j]]
        /\ Aside /\ UNCHANGED armed
    BY <1>5 DEF GetPendingEnrichment
  <2>2. batch \subseteq Nodes /\ \A n \in batch : nodes[n] \in Row /\ nodes[n].status \in Live
    BY StoreFacts DEF Pending
  <2>3. \A n \in batch : JobGood(asked(n))
    BY <2>2, NoJobGood
  <2> HIDE DEF batch, asked
  <2>4. \A n \in batch : asked(n) \in Job
    BY <2>3 DEF JobGood
  <2>5. JobsGood'
    BY <1>2, <2>1, <2>3, <2>4 DEF JobsGood
  <2>6. StoreKeeps
    BY <2>1, NothingWritten DEF Aside
  <2>7. pass' \in [Passes -> {"idle", "fetch", "wait"}]
    BY <1>2, <2>1 DEF QueuesGood
  <2> QED
    BY <1>1, <1>2, <2>1, <2>5, <2>6, <2>7 DEF Aside, QueuesGood
<1> QED
  BY <1>3, <1>4, <1>5 DEF EnricherStep

-----------------------------------------------------------------------------
(* The consolidator.                                                       *)

LEMMA ConsWrites ==
  ASSUME MemoryInv, ConsGood(cons'), StoreKeeps, Beside, queue' \in [Subscribers -> 0 .. Buffer]
  PROVE  MemoryInv'
<1>1. UNCHANGED <<retriever, profile, counter, armed, pass, job, thread, outdated, changes>>
  BY DEF Beside, profiler, enricher
<1>2. ThreadsGood' /\ JobsGood' /\ QueuesGood' /\ \A m \in Nodes : Flushing(m) => Flushing(m)'
  BY <1>1 DEF MemoryInv, ThreadsGood, JobsGood, QueuesGood, Flushing
<1> QED
  BY <1>1, <1>2, Assembled

LEMMA ConsFacts ==
  ASSUME NEW c, ConsGood(c)
  PROVE  /\ c \in Consolidator /\ c.rows \in [Nodes -> Row]
         /\ c.todo \subseteq Nodes /\ c.cluster \subseteq Nodes /\ c.hides \in BOOLEAN
BY DEF ConsGood, Consolidator

LEMMA ConsStarts ==
  /\ ConsGood(Resting)
  /\ \A S \in SUBSET Nodes, f \in [Nodes -> Row] : (\A n \in S : f[n].status \in Live) =>
       ConsGood([Resting EXCEPT !.at = "cluster", !.todo = S, !.rows = f])
<1>1. Resting \in Consolidator
  BY Rows DEF Consolidator, Resting
<1>2. ConsGood(Resting)
  BY <1>1 DEF ConsGood, Resting
<1>3. ASSUME NEW S \in SUBSET Nodes, NEW f \in [Nodes -> Row], \A n \in S : f[n].status \in Live
      PROVE  ConsGood([Resting EXCEPT !.at = "cluster", !.todo = S, !.rows = f])
  <2> DEFINE c == [Resting EXCEPT !.at = "cluster", !.todo = S, !.rows = f]
  <2>1. /\ c \in Consolidator /\ c.at = "cluster" /\ c.rows = f /\ c.todo = S
        /\ c.cluster = {}
    BY <1>1 DEF Consolidator, Resting
  <2> HIDE DEF c
  <2>2. ConsGood(c)
    BY <1>3, <2>1 DEF ConsGood
  <2> QED
    BY <2>2 DEF c
<1> QED
  BY <1>2, <1>3

\* The places of a pattern's making.
LEMMA PatternGood ==
  ASSUME NEW c, ConsGood(c), NEW n \in Nodes, NEW S \in SUBSET c.todo
  PROVE  ConsGood([c EXCEPT !.at = "derive", !.cluster = S, !.pattern = n, !.todo = @ \ S])
BY DEF ConsGood, Consolidator

LEMMA MemberGood ==
  ASSUME NEW c, ConsGood(c), c.at = "derive", NEW m \in c.cluster, NEW hides \in BOOLEAN
  PROVE  ConsGood([c EXCEPT !.at = "insert", !.member = m, !.hides = hides])
BY DEF ConsGood, Consolidator

LEMMA AbsorbsGood ==
  ASSUME NEW c, ConsGood(c)
  PROVE  /\ c.at = "insert" => ConsGood([c EXCEPT !.at = "absorb"])
         /\ c.at = "absorb" => \A place \in {"cluster", "derive"}, m \in Nodes :
              ConsGood([c EXCEPT !.cluster = @ \ {m}, !.member = NoOne, !.at = place])
<1>1. ASSUME c.at = "insert" PROVE ConsGood([c EXCEPT !.at = "absorb"])
  BY <1>1 DEF ConsGood, Consolidator
<1>2. ASSUME c.at = "absorb", NEW place \in {"cluster", "derive"}, NEW m \in Nodes
      PROVE  ConsGood([c EXCEPT !.cluster = @ \ {m}, !.member = NoOne, !.at = place])
  BY <1>2 DEF ConsGood, Consolidator
<1> QED
  BY <1>1, <1>2

LEMMA ConsolidatorKeeps ==
  ASSUME MemoryInv, ConsolidatorStep
  PROVE  MemoryInv'
<1>0. QueuesGood /\ ConsGood(cons) /\ queue \in [Subscribers -> 0 .. Buffer]
  BY DEF MemoryInv, QueuesGood
<1>1. ASSUME CheckAndConsolidate PROVE MemoryInv'
  <2> DEFINE S == Loose \cap embedded
             f == [n \in Nodes |-> IF n \in Loose THEN nodes[n] ELSE NoRow]
             c == [Resting EXCEPT !.at = "cluster", !.todo = S, !.rows = f]
  <2>1. cons' \in {c, cons} /\ Beside /\ UNCHANGED <<tables, history>>
    BY <1>1 DEF CheckAndConsolidate
  <2>2. queue' \in [Subscribers -> 0 .. Buffer]
    BY <1>0, <1>1 DEF CheckAndConsolidate
  <2>3. S \in SUBSET Nodes /\ f \in [Nodes -> Row]
    BY StoreFacts, Rows
  <2>4. \A n \in S : f[n].status \in Live
    BY StoreFacts
  <2> HIDE DEF S, f
  <2>5. ConsGood(c)
    BY <2>3, <2>4, ConsStarts
  <2> HIDE DEF c
  <2>6. ConsGood(cons')
    BY <1>0, <2>1, <2>5
  <2> QED
    BY <2>1, <2>2, <2>6, NothingWritten, ConsWrites
<1>2. ASSUME ClusterEnds PROVE MemoryInv'
  <2>1. cons' = Resting /\ Beside /\ UNCHANGED <<tables, queue, history>>
    BY <1>2 DEF ClusterEnds
  <2>2. ConsGood(cons')
    BY <2>1, ConsStarts
  <2> QED
    BY <1>0, <2>1, <2>2, NothingWritten, ConsWrites
<1>3. ASSUME SynthesizePattern PROVE MemoryInv'
  <2>1. PICK cluster \in SUBSET cons.todo, n \in Nodes, owner \in Owners \cup {NoOne} :
          /\ CreateNode(n, owner, FALSE)
          /\ cons' = [cons EXCEPT !.at = "derive", !.cluster = cluster, !.pattern = n,
                                  !.todo = @ \ cluster]
    BY <1>3 DEF SynthesizePattern
  <2>2. Beside /\ UNCHANGED <<edges, embedded, queue, history>>
    BY <1>3 DEF SynthesizePattern
  <2>3. ConsGood(cons')
    BY <1>0, <2>1, PatternGood
  <2>4. StoreKeeps
    BY <2>1, <2>2, CreateKeeps
  <2> QED
    BY <1>0, <2>2, <2>3, <2>4, ConsWrites
<1>4. ASSUME Derive PROVE MemoryInv'
  <2>1. cons.at = "derive" /\ Beside /\ UNCHANGED <<tables, queue, history>>
    BY <1>4 DEF Derive
  <2>2. PICK m \in cons.cluster, b \in BOOLEAN :
          cons' = [cons EXCEPT !.at = "insert", !.member = m, !.hides = b]
    BY <1>4 DEF Derive, ReadPrivacy, EdgePrivacy
  <2>4. ConsGood(cons')
    BY <1>0, <2>1, <2>2, MemberGood
  <2> QED
    BY <1>0, <2>1, <2>4, NothingWritten, ConsWrites
<1>5. ASSUME InsertDerived PROVE MemoryInv'
  <2>1. /\ cons.at = "insert" /\ InsertEdge(cons.pattern, cons.member, cons.hides)
        /\ cons' = [cons EXCEPT !.at = "absorb"]
        /\ Beside /\ UNCHANGED <<nodes, embedded, queue, overwritten>>
    BY <1>5 DEF InsertDerived
  <2>2. cons.pattern \in Nodes /\ cons.member \in Nodes /\ cons.hides \in BOOLEAN
    BY <1>0, <2>1, ConsFacts DEF ConsGood
  <2>3. ConsGood(cons')
    BY <1>0, <2>1, AbsorbsGood
  <2> QED
    BY <1>0, <2>1, <2>2, <2>3, InsertKeeps, ConsWrites
<1>6. ASSUME Absorb PROVE MemoryInv'
  <2> DEFINE m == cons.member
             row == [cons.rows[m] EXCEPT !.absorbed = TRUE]
             place == IF cons.cluster = {m} THEN "cluster" ELSE "derive"
  <2>1. /\ cons.at = "absorb" /\ nodes' = UpdateNode(m, row) /\ Overwrites(m, row)
        /\ cons' = [cons EXCEPT !.cluster = @ \ {m}, !.member = NoOne, !.at = place]
        /\ Beside /\ UNCHANGED <<edges, embedded, queue, raced>>
    BY <1>6 DEF Absorb
  <2>2. m \in Nodes /\ cons.rows[m] \in Row /\ cons.rows[m].status \in Live
    BY <1>0, <2>1, ConsFacts DEF ConsGood
  <2>3. row \in Row /\ row.status \in Live
    BY <2>2, Absorbed
  <2>4. place \in {"cluster", "derive"}
    OBVIOUS
  <2> HIDE DEF m, row, place
  <2>5. ConsGood(cons')
    BY <1>0, <2>1, <2>2, <2>4, AbsorbsGood
  <2> QED
    BY <1>0, <2>1, <2>2, <2>3, <2>5, UpdateKeeps, ConsWrites
<1> QED
  BY <1>1, <1>2, <1>3, <1>4, <1>5, <1>6 DEF ConsolidatorStep

-----------------------------------------------------------------------------
(* The profiler, the retriever, the process, and the whole.                *)

LEMMA ReviseKeeps == ASSUME MemoryInv, Revise PROVE MemoryInv'
<1>0. QueuesGood
  BY DEF MemoryInv
<1>1. /\ UNCHANGED <<tables, retriever, enricher, cons, thread, outdated, changes, history>>
      /\ queue' \in [Subscribers -> 0 .. Buffer] /\ counter' = (counter + 1) % RegenThreshold
      /\ profile' \subseteq Nodes
  BY <1>0 DEF Revise, QueuesGood, Present
<1>2. counter' \in 0 .. RegenThreshold - 1
  BY <1>0, <1>1 DEF QueuesGood, MemoryAssumption
<1>3. ThreadsGood' /\ JobsGood' /\ QueuesGood' /\ ConsGood(cons') /\ \A m \in Nodes : Flushing(m) => Flushing(m)'
  BY <1>1, <1>2 DEF MemoryInv, ThreadsGood, JobsGood, QueuesGood, Flushing, enricher
<1> QED
  BY <1>1, <1>3, NothingWritten, Assembled

\* What is shown to a user is cached for the user.
LEMMA RetrieveKeeps == ASSUME MemoryInv, NEW u \in Readers, Retrieve(u) PROVE MemoryInv'
<1>1. /\ UNCHANGED <<nodes, edges, embedded, profile, counter, queue, armed, pass, job, cons, thread,
                     outdated, changes, overwritten, raced>>
      /\ filled' = filled \cup {u} /\ cache' = [cache EXCEPT ![u] = Scope(u) \cap embedded]
  BY DEF Retrieve, tables, profiler, enricher, history
<1>2. u \in Users /\ u # NoOne
  BY DEF Users, MemoryAssumption
<1>3. cache \in [Users -> SUBSET Nodes] /\ filled \subseteq Users
  BY DEF MemoryInv, RetrieverGood
<1>4. \A n \in Scope(u) : n \in Nodes /\ nodes[n].status \in Live /\ Visible(nodes[n], u)
  BY <1>2, StoreFacts DEF Scope
<1>5. Scope(u) \cap embedded \in SUBSET Nodes
  BY <1>4
<1>6. /\ cache' \in [Users -> SUBSET Nodes] /\ cache'[u] \subseteq Scope(u)
      /\ \A v \in Users \ {u} : cache'[v] = cache[v]
  BY <1>1, <1>2, <1>3, <1>5
<1>7. RetrieverGood'
  BY <1>1, <1>2, <1>3, <1>4, <1>6 DEF MemoryInv, RetrieverGood, Live
<1>8. CacheHidesPrivate'
  <2>1. \A n \in Nodes : Flushing(n)' <=> Flushing(n)
    BY <1>1 DEF Flushing
  <2>2. Present' = Present
    BY <1>1, StoreFacts
  <2> SUFFICES ASSUME NEW v \in filled', NEW n \in cache'[v] \cap Present'
               PROVE  Visible(nodes'[n], v) \/ n \in overwritten' \/ Flushing(n)'
    BY DEF CacheHidesPrivate
  <2>3. n \in Nodes
    BY DEF Present
  <2>4. CASE v = u
    BY <1>1, <1>4, <1>6, <2>4
  <2>5. CASE v # u
    BY <1>1, <1>3, <1>6, <2>1, <2>2, <2>3, <2>5 DEF MemoryInv, CacheHidesPrivate
  <2> QED
    BY <2>4, <2>5
<1>9. TablesGood' /\ EdgesPrivate'
  BY <1>1, NothingWritten DEF StoreKeeps, tables, history
<1>10. ThreadsGood' /\ JobsGood' /\ QueuesGood' /\ ConsGood(cons')
  BY <1>1 DEF MemoryInv, ThreadsGood, JobsGood, QueuesGood
<1> QED
  BY <1>7, <1>8, <1>9, <1>10 DEF MemoryInv

LEMMA BootingGood ==
  ASSUME NEW old \in BOOLEAN
  PROVE  ThreadGood(Booting(old))
BY IdleGood DEF Booting, ThreadGood, Thread

LEMMA EmptyQueues ==
  /\ 0 \in 0 .. RegenThreshold - 1 /\ 0 \in 0 .. MaxChanges
  /\ [s \in Subscribers |-> 0] \in [Subscribers -> 0 .. Buffer]
  /\ [p \in Passes |-> IF p = "main" THEN "fetch" ELSE "idle"] \in [Passes -> {"idle", "fetch", "wait"}]
<1>1. 0 \in 0 .. RegenThreshold - 1 /\ 0 \in 0 .. MaxChanges /\ 0 \in 0 .. Buffer
  BY DEF MemoryAssumption
<1>2. [s \in Subscribers |-> 0] \in [Subscribers -> 0 .. Buffer]
  BY <1>1
<1>3. [p \in Passes |-> IF p = "main" THEN "fetch" ELSE "idle"] \in [Passes -> {"idle", "fetch", "wait"}]
  OBVIOUS
<1> QED
  BY <1>1, <1>2, <1>3

LEMMA RestartKeeps == ASSUME MemoryInv, Restart PROVE MemoryInv'
<1>0. QueuesGood
  BY DEF MemoryInv
<1>1. /\ UNCHANGED <<tables, profile, outdated, history>> /\ InvalidateCache
      /\ counter' = 0 /\ queue' = [s \in Subscribers |-> 0] /\ armed' = FALSE
      /\ pass' = [p \in Passes |-> IF p = "main" THEN "fetch" ELSE "idle"]
      /\ job' = [j \in Jobs |-> NoJob] /\ cons' = Resting
      /\ thread' = [t \in Threads |-> IF t = Starter THEN Booting(outdated) ELSE Idle]
      /\ changes' \in 0 .. MaxChanges
  BY <1>0, BudgetTyped DEF Restart, InvalidateCache
<1>2. ThreadGood(Booting(outdated)) /\ ThreadGood(Idle)
  BY <1>0, BootingGood, IdleGood DEF QueuesGood
<1>3. Booting(outdated) \in Thread /\ Idle \in Thread
  BY <1>2 DEF ThreadGood
<1>4. ThreadsGood'
  BY <1>1, <1>2, <1>3 DEF ThreadsGood
<1>5. JobsGood'
  <2>1. NoJob \in Job
    BY NoJobGood DEF JobGood
  <2> QED
    BY <1>1, <2>1, NoJobGood DEF JobsGood
<1>6. QueuesGood'
  BY <1>0, <1>1, EmptyQueues DEF QueuesGood
<1> QED
  BY <1>1, <1>4, <1>5, <1>6, ConsStarts, AssembledEmpty

LEMMA MemoryStarts == MemoryInit => MemoryInv
<1> SUFFICES ASSUME MemoryInit PROVE MemoryInv
  OBVIOUS
<1>1. /\ edges = {} /\ embedded = Complete /\ filled = {} /\ cache = [u \in Users |-> {}]
      /\ profile = {} /\ counter = 0 /\ queue = [s \in Subscribers |-> 0] /\ armed = FALSE
      /\ pass = [p \in Passes |-> IF p = "main" THEN "fetch" ELSE "idle"]
      /\ job = [j \in Jobs |-> NoJob] /\ cons = Resting /\ outdated \in BOOLEAN
      /\ thread = [t \in Threads |-> IF t = Starter THEN Booting(outdated) ELSE Idle]
      /\ changes = 0 /\ overwritten = {} /\ raced = {}
  BY DEF MemoryInit
<1>2. nodes \in [Nodes -> Row]
  <2>1. PICK rows \in [1 .. Seeded -> [status : {"pending", "complete"}, owner : Owners \cup {NoOne},
                                      private : Privacy, absorbed : {FALSE}]] :
          nodes = [n \in Nodes |-> IF n <= Seeded THEN rows[n] ELSE NoRow]
    BY DEF MemoryInit
  <2>2. [status : {"pending", "complete"}, owner : Owners \cup {NoOne},
         private : Privacy, absorbed : {FALSE}] \subseteq Row
    BY Rows DEF Row
  <2>3. \A n \in Nodes : n <= Seeded => n \in 1 .. Seeded
    BY DEF Nodes, MemoryAssumption
  <2> QED
    BY <2>1, <2>2, <2>3, Rows
<1>3. TablesGood
  BY <1>1, <1>2 DEF TablesGood, Complete
<1>4. RetrieverGood /\ CacheHidesPrivate /\ EdgesPrivate
  BY <1>1 DEF RetrieverGood, CacheHidesPrivate, EdgesPrivate
<1>5. QueuesGood
  BY <1>1, EmptyQueues DEF QueuesGood
<1>6. ThreadGood(Booting(outdated)) /\ ThreadGood(Idle)
  BY <1>1, BootingGood, IdleGood
<1>7. Booting(outdated) \in Thread /\ Idle \in Thread
  BY <1>6 DEF ThreadGood
<1>8. ThreadsGood
  BY <1>1, <1>6, <1>7 DEF ThreadsGood
<1>9. JobsGood
  <2>1. NoJob \in Job
    BY NoJobGood DEF JobGood
  <2> QED
    BY <1>1, <2>1, NoJobGood DEF JobsGood
<1> QED
  BY <1>1, <1>3, <1>4, <1>5, <1>8, <1>9, ConsStarts DEF MemoryInv

\* Every step keeps the invariant, and so does a stutter.
LEMMA MemoryInvIsInductive == MemoryInv /\ [MemoryNext]_memoryVars => MemoryInv'
<1> SUFFICES ASSUME MemoryInv, [MemoryNext]_memoryVars PROVE MemoryInv'
  OBVIOUS
<1>1. CASE MemoryNext
  BY <1>1, CallsStep, ProceedsStep, EnricherKeeps, JobStepKeeps, ConsolidatorKeeps, ReviseKeeps,
     RetrieveKeeps, RestartKeeps DEF MemoryNext
<1>2. CASE UNCHANGED memoryVars
  <2>1. UNCHANGED <<tables, history, retriever, profile, counter, queue, armed, pass, job, cons, thread,
                    outdated, changes>>
    BY <1>2 DEF memoryVars, profiler, enricher
  <2>2. ThreadsGood' /\ JobsGood' /\ QueuesGood' /\ ConsGood(cons') /\ \A m \in Nodes : Flushing(m) => Flushing(m)'
    BY <2>1 DEF MemoryInv, ThreadsGood, JobsGood, QueuesGood, Flushing
  <2> QED
    BY <2>1, <2>2, NothingWritten, Assembled
<1> QED
  BY <1>1, <1>2

LEMMA MemoryAlways == MemorySpec => []MemoryInv
BY MemoryStarts, MemoryInvIsInductive, PTL DEF MemorySpec

\* Whoever writes to the graph at the same time, the tables, the queues and what each
\* goroutine holds keep their types: no subscription's buffer overflows (Bus.Publish), and
\* no embedding outlives its node (the foreign keys of the schema).
THEOREM MemoryTypeCorrect == MemorySpec => []MemoryTypeOK
<1>1. MemoryInv => MemoryTypeOK
  BY DEF MemoryInv, MemoryTypeOK, TablesGood, RetrieverGood, QueuesGood, ThreadsGood, JobsGood, ConsGood,
         Present
<1> QED
  BY <1>1, MemoryAlways, PTL

\* The retriever's cache shows no user what has become private since (Retriever.InvalidateCache
\* after Store.SetNodeVisibility), but for stale rows.
THEOREM CacheStaysHidden == MemorySpec => []CacheHidesPrivate
<1>1. MemoryInv => CacheHidesPrivate
  BY DEF MemoryInv
<1> QED
  BY <1>1, MemoryAlways, PTL

\* An edge keeps its nodes, and GetVisibleEdges shows no user an edge of a node hidden from
\* him that was not made for a node of his own (Store.CreateEdge, Store.SetNodeVisibility,
\* ON DELETE CASCADE), but for stale rows and privacy that was read too early or not at all.
THEOREM EdgesStayWithNodes == MemorySpec => []EdgesFollowNodes
<1>1. MemoryInv => EdgesFollowNodes
  <2> SUFFICES ASSUME MemoryInv, NEW e \in edges, NEW u \in Users,
                      NEW n \in {e.source, e.target} \ overwritten,
                      Shown(e, u), ~Visible(nodes[n], u)
               PROVE  EdgeUser(e) = u \/ e \in raced
    BY DEF MemoryInv, EdgesPrivate, EdgesFollowNodes
  <2>1. nodes[n].private
    BY DEF Visible
  <2>2. e.private \/ e \in raced
    BY <2>1 DEF MemoryInv, EdgesPrivate
  <2> QED
    BY <2>2 DEF Shown
<1> QED
  BY <1>1, MemoryAlways, PTL
================================================================================
