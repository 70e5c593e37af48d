-------------------------------- MODULE Telegram --------------------------------
(***************************************************************************)
(* The Telegram channel (channel/telegram.go, telegram_api.go).  Each      *)
(* start makes a pair of goroutines under one context: a loop that polls   *)
(* Telegram for updates, and answers them one after the other, and one     *)
(* that passes on the results of tasks.  Saving settings of this channel   *)
(* makes a goroutine that restarts it: it cancels the context, waits for   *)
(* the pair and starts another.  The wait may time out, and two restarts   *)
(* may overlap.                                                            *)
(*                                                                         *)
(* A request that saves any settings reads them all and writes them all    *)
(* back later, this channel's included, which may be old by then; unless   *)
(* it was about this channel it restarts nothing.                          *)
(*                                                                         *)
(* Telegram (external) keeps an update until a request comes whose offset  *)
(* is beyond it.  The offset is the loop's own, so what was not confirmed  *)
(* comes again after a restart.                                            *)
(*                                                                         *)
(* What an update holds and which chats are allowed is not told apart: the *)
(* loop finds in an update whatever it may hold.  What is kept in the      *)
(* sessions is left out.                                                   *)
(***************************************************************************)
EXTENDS Naturals, FiniteSets

CONSTANTS
  Settings,     \* what may be saved for a channel that is on: the chats allowed, for one bot
  Loops,        \* bound: the pairs of goroutines at one time
  Restarters,   \* bound: the restarts at one time
  MaxUpdates,   \* bound: the updates of a behaviour
  None

Off == None     \* the channel is off, or has no token
Configs == Settings \cup {Off}

ASSUME TelegramAssumption ==
  /\ None \notin Loops \cup Settings
  /\ MaxUpdates \in Nat

VARIABLES
  cfg,          \* the settings, saved
  restart,      \* where each restart stands
  cancel,       \* TelegramChannel.cancel: the pair whose context it cancels, or None
  loop,         \* the pairs of goroutines
  updates,      \* how many updates there have been
  confirmed,    \* how many of them Telegram has forgotten
  dealt,        \* history: the updates that were dealt with under a live context
  crossed,      \* history: restarts have overlapped since the process started
  silent        \* history: the settings were changed without a restart, and none has read them yet

vars == <<cfg, silent, restart, cancel, loop, updates, confirmed, dealt, crossed>>

Dead == [poll |-> "none", next |-> 1, last |-> 0, note |-> "none",
         cfg |-> Off, cancelled |-> FALSE, late |-> FALSE]
Idle == [at |-> "idle", cfg |-> Off]

TypeOK ==
  /\ cfg \in Configs
  /\ restart \in [Restarters -> [at : {"idle", "stop", "wait", "start", "wait again", "get", "launch"},
                                 cfg : Configs]]
  /\ cancel \in Loops \cup {None}
  /\ loop \in [Loops -> [poll : {"none", "poll", "batch", "answer"},
                         next : 1 .. MaxUpdates + 1, last : 0 .. MaxUpdates,
                         note : {"none", "idle", "due"}, cfg : Configs,
                         cancelled : BOOLEAN, late : BOOLEAN]]
  /\ updates \in 0 .. MaxUpdates
  /\ confirmed \in 0 .. updates /\ dealt \subseteq 1 .. updates
  /\ \A l \in Loops : loop[l].last <= updates /\ loop[l].next <= updates + 1
  /\ crossed \in BOOLEAN /\ silent \in BOOLEAN

Live(l) == loop[l].poll # "none" \/ loop[l].note # "none"

-----------------------------------------------------------------------------
(* Starting and stopping.                                                  *)

\* Mutant: a new loop leaves out what came before it.
FreshWithoutBacklog(c) ==
  [Dead EXCEPT !.poll = "poll", !.note = "idle", !.cfg = c, !.next = updates + 1]

\* The pair as startPolling makes it: the offset is 0 and the context a new one.
Fresh(c) == [Dead EXCEPT !.poll = "poll", !.note = "idle", !.cfg = c]

StartPolling(l, c) ==
  /\ cancel' = l
  /\ loop' = [loop EXCEPT ![l] = Fresh(c)]

\* The start of the process; nothing else runs yet.
Booted(l) ==
  IF cfg # Off
  THEN [cancel |-> l, loop |-> [k \in Loops |-> IF k = l THEN Fresh(cfg) ELSE Dead]]
  ELSE [cancel |-> None, loop |-> [k \in Loops |-> Dead]]

Init ==
  /\ cfg \in Configs
  /\ updates = 0 /\ confirmed = 0
  /\ \E l \in Loops : cancel = Booted(l).cancel /\ loop = Booted(l).loop
  /\ restart = [r \in Restarters |-> Idle]
  /\ dealt = {} /\ crossed = FALSE /\ silent = FALSE

\* handleUpdateSettings, of a request about this channel: its settings are saved with the
\* rest, and a goroutine is made for the restart.
SaveSettings(r, c) ==
  /\ restart[r] = Idle
  /\ cfg' = c
  /\ restart' = [restart EXCEPT ![r].at = "stop"]
  /\ crossed' = (crossed \/ \E q \in Restarters : restart[q] # Idle)
  /\ UNCHANGED <<silent, cancel, loop, updates, confirmed, dealt>>

\* The same without a restart: the request was about others, and writes back what it read
\* of this channel's settings before somebody else saved new ones; or it was about this
\* channel, but a provider turns out invalid once all is saved, or its restart is yet to be
\* made (SaveSettings then saves the same again).
SaveOnly(c) ==
  /\ c # cfg
  /\ cfg' = c
  /\ silent' = TRUE
  /\ UNCHANGED <<restart, cancel, loop, updates, confirmed, dealt, crossed>>

\* Stop takes the cancel function and calls it; without one it is done.
Stop(r, wait, then) ==
  /\ restart' = [restart EXCEPT ![r].at = IF cancel = None THEN then ELSE wait]
  /\ cancel' = None
  /\ loop' = IF cancel = None THEN loop ELSE [loop EXCEPT ![cancel].cancelled = Live(cancel)]
  /\ UNCHANGED <<cfg, silent, updates, confirmed, dealt, crossed>>

\* Restart.
RestartStops(r) ==
  /\ restart[r].at = "stop"
  /\ Stop(r, "wait", "start")

AfterWait(r) == [restart EXCEPT ![r].at = IF @ = "wait" THEN "start" ELSE "get"]

\* Mutant: Stop does not wait.
WaitForNobody(r) ==
  /\ restart[r].at \in {"wait", "wait again"}
  /\ restart' = AfterWait(r)
  /\ UNCHANGED <<cfg, silent, cancel, loop, updates, confirmed, dealt, crossed>>

\* The wait group counts all the goroutines there are.
Waited(r) ==
  /\ restart[r].at \in {"wait", "wait again"}
  /\ \A l \in Loops : ~Live(l)
  /\ restart' = AfterWait(r)
  /\ UNCHANGED <<cfg, silent, cancel, loop, updates, confirmed, dealt, crossed>>

\* Ten seconds are over: the pairs go on, cancelled.
TimedOut(r) ==
  /\ restart[r].at \in {"wait", "wait again"}
  /\ \E l \in Loops : Live(l)
  /\ restart' = AfterWait(r)
  /\ loop' = [l \in Loops |-> [loop[l] EXCEPT !.late = loop[l].cancelled]]
  /\ UNCHANGED <<cfg, silent, cancel, updates, confirmed, dealt, crossed>>

\* Start, which stops a channel that runs once more.
Start(r) ==
  /\ restart[r].at = "start"
  /\ Stop(r, "wait again", "get")

\* configStore.Get.
GetConfig(r) ==
  /\ restart[r].at = "get"
  /\ restart' = [restart EXCEPT ![r] = IF cfg # Off THEN [at |-> "launch", cfg |-> cfg] ELSE Idle]
  /\ silent' = FALSE
  /\ UNCHANGED <<cfg, cancel, loop, updates, confirmed, dealt, crossed>>

Launch(r, l) ==
  /\ restart[r].at = "launch"
  /\ ~Live(l)
  /\ StartPolling(l, restart[r].cfg)
  /\ restart' = [restart EXCEPT ![r] = Idle]
  /\ UNCHANGED <<cfg, silent, updates, confirmed, dealt, crossed>>

\* The process ends, cleanly or not, and another begins.
Reboot(l) ==
  /\ restart' = [r \in Restarters |-> Idle]
  /\ cancel' = Booted(l).cancel /\ loop' = Booted(l).loop
  /\ crossed' = FALSE /\ silent' = FALSE
  /\ UNCHANGED <<cfg, updates, confirmed, dealt>>

-----------------------------------------------------------------------------
(* Telegram, and the loop that polls it.                                   *)

Arrives ==
  /\ updates < MaxUpdates
  /\ updates' = updates + 1
  /\ UNCHANGED <<cfg, silent, restart, cancel, loop, confirmed, dealt, crossed>>

Highest(a, b) == IF a < b THEN b ELSE a

\* getUpdates, whose offset is what is next for the loop: Telegram forgets what comes
\* before it.  The answer holds some of the rest, from the first; when it is empty or gets
\* lost the loop tries again.  Nothing is sent under a context that has been cancelled.
GetUpdates(l, last) ==
  /\ loop[l].poll = "poll" /\ ~loop[l].cancelled
  /\ confirmed' = Highest(confirmed, loop[l].next - 1)
  /\ loop' = IF last \in confirmed' + 1 .. updates
             THEN [loop EXCEPT ![l].poll = "batch", ![l].next = confirmed' + 1, ![l].last = last]
             ELSE loop
  /\ UNCHANGED <<cfg, silent, restart, cancel, updates, dealt, crossed>>

\* The pair's first goroutine returns: the context has been cancelled.
Ended(p) == IF p.note = "none" THEN Dead ELSE [p EXCEPT !.poll = "none", !.next = 1, !.last = 0]

PollEnds(l) ==
  /\ loop[l].poll = "poll" /\ loop[l].cancelled
  /\ loop' = [loop EXCEPT ![l] = Ended(@)]
  /\ UNCHANGED <<cfg, silent, restart, cancel, updates, confirmed, dealt, crossed>>

\* Mutant: the end of the batch is missed.
MovedTooFar(l) == [loop[l] EXCEPT !.next = @ + 1, !.poll = IF loop[l].next > loop[l].last
                                                          THEN "poll" ELSE "batch"]

\* The offset moves on, and after the last update of the batch comes a request.
Moved(l) == [loop[l] EXCEPT !.next = @ + 1, !.poll = IF loop[l].next = loop[l].last
                                                    THEN "poll" ELSE "batch"]

\* What is sent under a cancelled context fails.
Dealt(l, n) == IF loop[l].cancelled THEN dealt ELSE dealt \cup {n}

\* A message without text, or of a chat that is not allowed.
Skip(l) ==
  /\ loop[l].poll = "batch"
  /\ dealt' = dealt \cup {loop[l].next}
  /\ loop' = [loop EXCEPT ![l] = Moved(l)]
  /\ UNCHANGED <<cfg, silent, restart, cancel, updates, confirmed, crossed>>

\* A command is dealt with here and its answer sent, once, whatever comes of it.
Command(l) ==
  /\ loop[l].poll = "batch"
  /\ dealt' = Dealt(l, loop[l].next)
  /\ loop' = [loop EXCEPT ![l] = Moved(l)]
  /\ UNCHANGED <<cfg, silent, restart, cancel, updates, confirmed, crossed>>

\* The handler is called: Agent.Chat, with the loop's context.
Handle(l) ==
  /\ loop[l].poll = "batch"
  /\ loop' = [loop EXCEPT ![l].poll = "answer"]
  /\ UNCHANGED <<cfg, silent, restart, cancel, updates, confirmed, dealt, crossed>>

\* It returns, and the answer or an apology is sent.
Answer(l) ==
  /\ loop[l].poll = "answer"
  /\ dealt' = Dealt(l, loop[l].next)
  /\ loop' = [loop EXCEPT ![l] = Moved(l)]
  /\ UNCHANGED <<cfg, silent, restart, cancel, updates, confirmed, crossed>>

\* An answer that could not be sent because the context was cancelled ends the loop.
AnswerEnds(l) ==
  /\ loop[l].poll = "answer" /\ loop[l].cancelled
  /\ loop' = [loop EXCEPT ![l] = Ended(@)]
  /\ UNCHANGED <<cfg, silent, restart, cancel, updates, confirmed, dealt, crossed>>

-----------------------------------------------------------------------------
(* The loop that passes on the results of tasks.                           *)

\* A result is published to those who listen.
ResultComes ==
  /\ loop' = [l \in Loops |-> IF loop[l].note = "idle" THEN [loop[l] EXCEPT !.note = "due"] ELSE loop[l]]
  /\ UNCHANGED <<cfg, silent, restart, cancel, updates, confirmed, dealt, crossed>>

\* deliverNotification: a message in the active session and one to its chat.
Deliver(l) ==
  /\ loop[l].note = "due"
  /\ loop' = [loop EXCEPT ![l].note = "idle"]
  /\ UNCHANGED <<cfg, silent, restart, cancel, updates, confirmed, dealt, crossed>>

\* select takes the end of the context, even when there is a result.
NotesEnd(l) ==
  /\ loop[l].note # "none" /\ loop[l].cancelled
  /\ loop' = [loop EXCEPT ![l] = IF @.poll = "none" THEN Dead ELSE [@ EXCEPT !.note = "none"]]
  /\ UNCHANGED <<cfg, silent, restart, cancel, updates, confirmed, dealt, crossed>>

-----------------------------------------------------------------------------
Restarting ==
  \/ \E r \in Restarters, c \in Configs : SaveSettings(r, c)
  \/ \E c \in Configs : SaveOnly(c)
  \/ \E r \in Restarters : RestartStops(r) \/ Waited(r) \/ TimedOut(r) \/ Start(r) \/ GetConfig(r)
  \/ \E r \in Restarters, l \in Loops : Launch(r, l)
  \/ \E l \in Loops : Reboot(l)

Polling ==
  \/ Arrives
  \/ \E l \in Loops, last \in 0 .. MaxUpdates : GetUpdates(l, last)
  \/ \E l \in Loops : PollEnds(l) \/ Skip(l) \/ Command(l) \/ Handle(l) \/ Answer(l) \/ AnswerEnds(l)

Next == Restarting \/ Polling \/ ResultComes \/ \E l \in Loops : Deliver(l) \/ NotesEnd(l)

Spec == Init /\ [][Next]_vars

-----------------------------------------------------------------------------
(* Properties.                                                             *)

\* Telegram forgets an update only after a loop has dealt with it while it could still
\* answer: restarts, time-outs, crashes and lost requests lose no message, though they may
\* repeat one.
NoUpdateLost == 1 .. confirmed \subseteq dealt

\* While restarts do not overlap, a pair of goroutines is alone but for those Stop has given
\* up waiting for, and can be stopped; once no restart is under way, it is there when the
\* settings ask for it and was made for them, unless a save that restarts nothing has
\* changed them since they were read.
RestartReplaces ==
  ~crossed =>
    /\ Cardinality({l \in Loops : Live(l) /\ ~loop[l].late}) <= 1
    /\ \A l \in Loops : Live(l) => loop[l].cancelled \/ cancel = l
    /\ ~silent /\ (\A r \in Restarters : restart[r] = Idle) =>
         IF cfg # Off THEN cancel # None /\ loop[cancel].cfg = cfg ELSE cancel = None
=================================================================================
