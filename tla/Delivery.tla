-------------------------------- MODULE Delivery --------------------------------
(***************************************************************************)
(* Notifications: how the result of a task, or a message from one user to  *)
(* another, reaches the notification list, the Tasks sessions and the      *)
(* phones (channel/web.go, notification/, push/, tools/notifier.go).       *)
(*                                                                         *)
(* The result of a task is an event on the bus; the web channel's          *)
(* goroutine makes the rows and the posts of it, one recipient after the   *)
(* other, while the dispatcher's goroutine sends the pushes.  A message of *)
(* a user has its row before its event.  Both goroutines have a queue of   *)
(* their own, which drops what does not fit and does not survive the       *)
(* process.  The users read and delete their rows, register their phones   *)
(* and log out meanwhile; the provider of the pushes is external.          *)
(*                                                                         *)
(* A row that has been read and one that has been deleted are alike here,  *)
(* and rows are kept while their event is on its way: nothing reads them   *)
(* for another reason than to count or show them.                          *)
(***************************************************************************)
EXTENDS Naturals, Sequences, Functions

CONSTANTS
  Users, Devices,
  Results,      \* the tasks whose results are notified: owner, users to notify, "*"
  Numbers,      \* bound: what tells apart the events that are on their way at one time
  Capacity,     \* the length of a subscriber's queue
  Nobody          \* no user: rows without one are everybody's

People == Users \cup {Nobody}
Task == [owner : People, to : SUBSET Users, all : BOOLEAN]

ASSUME DeliveryAssumption ==
  /\ Nobody \notin Users
  /\ Results \subseteq Task
  /\ Nobody \notin Numbers
  /\ Capacity \in Nat \ {0}

VARIABLES
  users,        \* the accounts that exist
  note,         \* the event whose row NotifyUser has made, and which it is about to publish
  webq, pushq,  \* the queues of the two subscribers
  web,          \* where the web channel's goroutine stands
  push,         \* where the dispatcher's goroutine stands
  unread,       \* table notifications, the unread rows
  phone,        \* table push_tokens: device |-> its user, or Nobody
  told,         \* history: the recipients of the event the web channel handles, as it found them
  done, failed, \* history: whose row, or then whose post, it has made or failed to make
  seen          \* history: messages whose row was read or deleted before they were pushed

queues == <<webq, pushq>>
handled == <<told, done, failed>>
deliveryVars == <<users, note, queues, web, push, unread, phone, handled, seen>>

Event == [n : Numbers, kind : {"task", "message"}, owner : People, to : SUBSET Users, all : BOOLEAN]
NoEvent == [n |-> Nobody, kind |-> "none", owner |-> Nobody, to |-> {}, all |-> FALSE]
Row == [n : Numbers, user : People]

WebIdle == [at |-> "idle", ev |-> NoEvent, left |-> {}]
PushIdle == [at |-> "idle", ev |-> NoEvent, left |-> {}, user |-> Nobody,
             list |-> {}, badge |-> "none"]

DeliveryTypeOK ==
  /\ seen \subseteq Numbers
  /\ users \subseteq Users
  /\ note \in Event \cup {NoEvent}
  /\ \A q \in {webq, pushq} : q \in Seq(Event) /\ Len(q) <= Capacity
  /\ web \in [at : {"idle", "create", "post", "send"}, ev : Event \cup {NoEvent}, left : SUBSET People]
  /\ push \in [at : {"idle", "badge", "send"}, ev : Event \cup {NoEvent},
               left : SUBSET Users, user : People, list : SUBSET Devices,
               badge : {"none", "counts it", "misses it", "zero"}]
  /\ unread \subseteq Row
  /\ phone \in [Devices -> People]
  /\ \A h \in {told, done, failed} : h \subseteq People

DeliveryInit ==
  /\ users = Users
  /\ note = NoEvent /\ webq = <<>> /\ pushq = <<>>
  /\ web = WebIdle /\ push = PushIdle
  /\ unread = {} /\ phone = [d \in Devices |-> Nobody]
  /\ told = {} /\ done = {} /\ failed = {} /\ seen = {}

-----------------------------------------------------------------------------
(* The bus.                                                                *)

Pending == {note, web.ev, push.ev} \cup Range(webq) \cup Range(pushq)
InUse == {ev.n : ev \in Pending}
TaskResults == {ev.n : ev \in {e \in Pending : e.kind = "task"}}

\* What is known of the events that are still on their way.
Forget ==
  LET kept == InUse' IN
  /\ unread' = {r \in unread : r.n \in kept}
  /\ seen' = seen \cap kept

\* Mutant: no queue misses it.
PublishAnyway(ev) == webq' = Append(webq, ev) /\ pushq' = Append(pushq, ev)

\* Bus.Publish: whichever queue is full misses the event.
Publish(ev) ==
  /\ webq' = IF Len(webq) < Capacity THEN Append(webq, ev) ELSE webq
  /\ pushq' = IF Len(pushq) < Capacity THEN Append(pushq, ev) ELSE pushq

\* The end of Executor.Execute, for a task that notifies.
NotifyResult(t, n) ==
  /\ n \notin InUse
  /\ Publish([n |-> n, kind |-> "task", owner |-> t.owner, to |-> t.to, all |-> t.all])
  /\ UNCHANGED <<users, note, web, push, unread, phone, handled, seen>>

Message(u, n) == [n |-> n, kind |-> "message", owner |-> Nobody, to |-> {u}, all |-> FALSE]

\* Mutant: the row is left to the subscriber.
NotifyWithoutRow(u, n) ==
  /\ note = NoEvent /\ u \in users /\ n \notin InUse
  /\ note' = Message(u, n)
  /\ UNCHANGED <<users, queues, web, push, unread, phone, handled, seen>>

\* NotifyUser, for a recipient that the list of users held: the row first.
NotifyUser(u, n) ==
  /\ note = NoEvent /\ u \in users /\ n \notin InUse
  /\ note' = Message(u, n)
  /\ unread' = unread \cup {[n |-> n, user |-> u]}
  /\ UNCHANGED <<users, queues, web, push, phone, handled, seen>>

PublishNote ==
  /\ note # NoEvent
  /\ Publish(note)
  /\ note' = NoEvent
  /\ UNCHANGED <<users, web, push, phone, handled>> /\ Forget

\* The user is deleted, with his sessions (Accounts tells how): his rows and phones stay.
DeleteUser(u) ==
  /\ users' = users \ {u}
  /\ UNCHANGED <<note, queues, web, push, unread, phone, handled, seen>>

-----------------------------------------------------------------------------
(* The web channel's goroutine.                                            *)

\* Who is to be notified of the result: the users the task names, or everybody, as the
\* list of users has it now (nobody when it cannot be read), or the owner.
Recipients(ev) ==
  IF ev.all THEN {users, {}} ELSE {IF ev.to # {} THEN ev.to ELSE {ev.owner}}

TakeResult ==
  /\ web = WebIdle /\ webq # <<>> /\ Head(webq).kind = "task"
  /\ told' \in Recipients(Head(webq))
  /\ web' = [at |-> "create", ev |-> Head(webq), left |-> told']
  /\ webq' = Tail(webq)
  /\ UNCHANGED <<users, note, pushq, push, unread, phone, done, failed, seen>>

TakeMessage ==
  /\ web = WebIdle /\ webq # <<>> /\ Head(webq).kind = "message"
  /\ told' = Head(webq).to
  /\ web' = [at |-> "post", ev |-> Head(webq), left |-> told']
  /\ webq' = Tail(webq)
  /\ UNCHANGED <<users, note, pushq, push, unread, phone, done, failed, seen>>

\* Store.Create: the row refers to the user by name only, and to the task, which may have
\* been deleted; that or another failure is logged.
CreateRow(u, ok) ==
  IF ok
  THEN /\ unread' = unread \cup {[n |-> web.ev.n, user |-> u]}
       /\ done' = done \cup {u}
       /\ UNCHANGED failed
  ELSE /\ failed' = failed \cup {u}
       /\ UNCHANGED <<unread, done>>

Create(u, ok) ==
  /\ web.at = "create" /\ u \in web.left
  /\ CreateRow(u, ok)
  /\ web' = [web EXCEPT !.left = @ \ {u}]
  /\ UNCHANGED <<users, note, queues, push, phone, told, seen>>

\* The posts are next; without recipients they are the owner's.
Posting ==
  /\ web' = [web EXCEPT !.at = "post", !.left = IF told = {} THEN {web.ev.owner} ELSE told]
  /\ done' = {} /\ failed' = {}

Created ==
  /\ web.at = "create" /\ web.left = {}
  /\ done # {} \/ web.ev.owner = Nobody
  /\ Posting
  /\ UNCHANGED <<users, note, queues, push, unread, phone, told, seen>>

\* No row at all: one for the owner, which may fail as the others did.
Fallback ==
  /\ web.at = "create" /\ web.left = {}
  /\ done = {} /\ web.ev.owner # Nobody
  /\ \/ unread' = unread \cup {[n |-> web.ev.n, user |-> web.ev.owner]}
     \/ UNCHANGED unread
  /\ Posting
  /\ UNCHANGED <<users, note, queues, push, phone, told, seen>>

\* The Tasks session, made when it is missing, and its message: both refer to the user.
AddPost(u, ok) ==
  /\ web.at = "post" /\ u \in web.left
  /\ IF ok
     THEN /\ u \in users \cup {Nobody}
          /\ done' = done \cup {u}
          /\ UNCHANGED failed
     ELSE /\ failed' = failed \cup {u}
          /\ UNCHANGED done
  /\ UNCHANGED <<users, note, queues, push, unread, phone, told, seen>>

\* The next recipient's post, or the message to the browsers.
After(u) == [web EXCEPT !.left = @ \ {u}, !.at = IF web.left = {u} THEN "send" ELSE "post"]

\* Mutant: a post that fails ends the loop.
PostOrReturn(u, ok) ==
  /\ AddPost(u, ok)
  /\ web' = IF ok THEN After(u) ELSE [web EXCEPT !.at = "send", !.left = {}]

\* A failure is logged, and the next one follows.
Post(u, ok) ==
  /\ AddPost(u, ok)
  /\ web' = After(u)

Handled == told' = {} /\ done' = {} /\ failed' = {}

\* broadcast and sendToUsers write to the connections in turn, with no deadline: the
\* step is taken when the last of them has taken its message or is closed.
Sent ==
  /\ web.at = "send"
  /\ web' = WebIdle /\ Handled
  /\ UNCHANGED <<users, note, queues, push, phone>> /\ Forget

-----------------------------------------------------------------------------
(* The dispatcher's goroutine.                                             *)

\* Whose phones are told; a result without an owner is not told at all.
Targets(ev) ==
  IF ev.kind = "task" /\ (ev.owner = Nobody \/ ev.to = {}) THEN {ev.owner} \ {Nobody} ELSE ev.to

\* The users who are still to be told; everybody is told at once.
NextTarget(us) ==
  IF us = {} THEN PushIdle ELSE [PushIdle EXCEPT !.at = "badge", !.ev = push.ev, !.left = us]

\* ListAll and ListByUser.
Phones(us) == {d \in Devices : phone[d] \in us}

TakePush ==
  /\ push = PushIdle /\ pushq # <<>>
  /\ LET ev == Head(pushq) IN
     \/ /\ ~ev.all /\ Targets(ev) # {}
        /\ push' = [PushIdle EXCEPT !.at = "badge", !.ev = ev, !.left = Targets(ev)]
     \/ /\ ev.all /\ ev.owner # Nobody /\ Phones(Users) # {}
        /\ push' = [PushIdle EXCEPT !.at = "send", !.ev = ev, !.list = Phones(Users)]
     \/ /\ ev.all \/ Targets(ev) = {}        \* nobody is told, or ListAll fails
        /\ push' = PushIdle
  /\ pushq' = Tail(pushq)
  /\ UNCHANGED <<users, note, webq, web, phone, handled>> /\ Forget

\* The rows that count for a user: his and everybody's.
Unread(u) == {r \in unread : r.user \in {u, Nobody}}

\* UnreadCount for the next user, as its badge tells of the event's row.
BadgeOf(u) == IF \E r \in Unread(u) : r.n = push.ev.n THEN "counts it" ELSE "misses it"

\* UnreadCount, whose error is dropped: the badge is 0 then.  The list of the user's phones
\* follows; when it is empty or cannot be read there is no push.
Badge(u, badge) ==
  /\ push.at = "badge" /\ u \in push.left
  /\ badge \in {BadgeOf(u), "zero"}
  /\ \/ push' = NextTarget(push.left \ {u})
     \/ /\ Phones({u}) # {}
        /\ push' = [push EXCEPT !.at = "send", !.left = @ \ {u}, !.user = u, !.list = Phones({u}),
                                !.badge = badge]
  /\ UNCHANGED <<users, note, queues, web, phone, handled>> /\ Forget

\* The provider takes the pushes or refuses some of the phones, or the request fails.  A
\* phone that is refused is forgotten, whoever has registered it by now; a push to
\* everybody does not look at the answer.
Send(bad) ==
  /\ push.at = "send"
  /\ bad \subseteq push.list /\ (push.user = Nobody => bad = {})
  /\ phone' = [d \in Devices |-> IF d \in bad THEN Nobody ELSE phone[d]]
  /\ push' = NextTarget(push.left)
  /\ UNCHANGED <<users, note, queues, web, handled>> /\ Forget

-----------------------------------------------------------------------------
(* What the users do.                                                      *)

Register(u, d) ==
  /\ u \in users
  /\ phone' = [phone EXCEPT ![d] = u]
  /\ UNCHANGED <<users, note, queues, web, push, unread, handled, seen>>

\* Unregister: all the phones of the user, whichever he logs out of.
Unregister(u) ==
  /\ u \in users
  /\ phone' = [d \in Devices |-> IF phone[d] = u THEN Nobody ELSE phone[d]]
  /\ UNCHANGED <<users, note, queues, web, push, unread, handled, seen>>

\* Rows are marked read, or deleted.
Touch(rs) ==
  /\ rs # {}
  /\ unread' = unread \ rs
  /\ seen' = seen \cup {r.n : r \in rs}
  /\ UNCHANGED <<users, note, queues, web, push, phone, handled>>

\* By its number, whosever it is.
MarkRead(r) == Touch({r})

\* The user's rows and everybody's, for everybody.
MarkAllRead(u) == Touch(Unread(u))

\* Messages, and the results of the tasks that have not been deleted.
MarkTaskNotificationsRead(u, deleted) == Touch({r \in Unread(u) : r.n \notin deleted})

-----------------------------------------------------------------------------
(* The process.                                                            *)

\* The end of the process takes the queues and what is being done.
Restart ==
  /\ note' = NoEvent /\ webq' = <<>> /\ pushq' = <<>>
  /\ web' = WebIdle /\ push' = PushIdle /\ Handled
  /\ UNCHANGED <<users, phone>> /\ Forget

Web ==
  \/ TakeResult \/ TakeMessage
  \/ \E u \in People, ok \in BOOLEAN : Create(u, ok) \/ Post(u, ok)
  \/ Created \/ Fallback
  \/ Sent

Dispatcher ==
  \/ TakePush
  \/ \E u \in Users, badge \in {"counts it", "misses it", "zero"} : Badge(u, badge)
  \/ \E bad \in SUBSET push.list : Send(bad)

User ==
  \/ \E u \in Users, n \in Numbers : NotifyUser(u, n)
  \/ PublishNote
  \/ \E u \in Users : DeleteUser(u) \/ Unregister(u)
  \/ \E u \in Users : MarkAllRead(u)
  \/ \E u \in Users, deleted \in SUBSET TaskResults : MarkTaskNotificationsRead(u, deleted)
  \/ \E u \in Users, d \in Devices : Register(u, d)
  \/ \E r \in unread : MarkRead(r)

DeliveryNext ==
  \/ \E t \in Results, n \in Numbers : NotifyResult(t, n)
  \/ User \/ Web \/ Dispatcher \/ Restart

DeliverySpec == DeliveryInit /\ [][DeliveryNext]_deliveryVars

-----------------------------------------------------------------------------
(* Properties.                                                             *)

\* Everyone the web channel is to notify gets his row, and then his post, unless that
\* very statement failed: one recipient's failure, a deleted user or a deleted task does
\* not stop the others' share.
NothingVanishes == \A u \in told : u \in done \cup failed \cup web.left

\* The number on a phone that shows a message counts that message, unless the count failed
\* and 0 is sent, or its recipient has seen it already: its row is there before its event.
BadgeCountsMessage ==
  push.at = "send" /\ push.ev.kind = "message" =>
    push.badge \in {"counts it", "zero"} \/ push.ev.n \in seen
=================================================================================
