---------------------------- MODULE ChannelProofs ------------------------------
(***************************************************************************)
(* Proofs about what connects Cogitator with its users, however many       *)
(* restarts, loops, updates, users, devices and events there are:         *)
(*   - Telegram: its variables keep their types, Telegram forgets no       *)
(*     update that no loop has dealt with, and a restart replaces the pair *)
(*     of goroutines;                                                      *)
(*   - Delivery: every recipient of a note is served, or is still to be,   *)
(*     by the web channel and by push, and a badge counts its message.     *)
(* Neither part uses the other: the two components share only the bus.     *)
(***************************************************************************)
EXTENDS Telegram, Delivery, FiniteSetTheorems, SequenceTheorems, TLAPS

Pair == [poll : {"none", "poll", "batch", "answer"},
         next : 1 .. MaxUpdates + 1, last : 0 .. MaxUpdates,
         note : {"none", "idle", "due"}, cfg : Configs,
         cancelled : BOOLEAN, late : BOOLEAN]
RestartState == [at : {"idle", "stop", "wait", "start", "wait again", "get", "launch"},
                 cfg : Configs]

\* A pair of goroutines, when u updates have come and those of d were dealt with: in a
\* batch there is an update left, and a loop that can still answer has dealt with all that
\* it leaves behind.
Good(p, u, d) ==
  /\ p \in Pair
  /\ p.last <= u /\ p.next <= u + 1
  /\ p.poll \in {"batch", "answer"} => p.next <= p.last
  /\ p.poll # "none" /\ ~p.cancelled => 1 .. p.next - 1 \subseteq d

Counters ==
  /\ updates \in 0 .. MaxUpdates
  /\ confirmed \in 0 .. updates /\ dealt \subseteq 1 .. updates

Flags ==
  /\ cfg \in Configs /\ crossed \in BOOLEAN /\ silent \in BOOLEAN
  /\ cancel \in Loops \cup {None}
  /\ restart \in [Restarters -> RestartState]

LoopsGood ==
  /\ loop \in [Loops -> Pair]
  /\ \A l \in Loops : Good(loop[l], updates, dealt)

IInv == Counters /\ Flags /\ LoopsGood /\ NoUpdateLost

USE TelegramAssumption

LEMMA IInvTyped == IInv => TypeOK
BY DEF IInv, Counters, Flags, LoopsGood, Good, TypeOK, Pair, RestartState

-----------------------------------------------------------------------------
(* What the steps make of one pair.                                        *)

LEMMA Ranges == MaxUpdates \in Nat /\ 1 \in 1 .. MaxUpdates + 1 /\ 0 \in 0 .. MaxUpdates
OBVIOUS

LEMMA NextInRange ==
  ASSUME NEW a \in Nat, NEW b \in Nat, a <= b, b <= MaxUpdates
  PROVE  a + 1 \in 1 .. MaxUpdates + 1 /\ a + 1 <= b + 1
OBVIOUS

LEMMA FreshIsGood ==
  ASSUME NEW c \in Configs, NEW u \in Nat, NEW d
  PROVE  Good(Dead, u, d) /\ Good(Fresh(c), u, d)
<1>1. Off \in Configs
  BY DEF Configs
<1>2. Dead \in Pair /\ Fresh(c) \in Pair
  BY <1>1, Ranges DEF Dead, Fresh, Pair
<1> QED BY <1>2 DEF Dead, Fresh, Good

LEMMA GoodGrows ==
  ASSUME NEW u \in Nat, NEW v \in Nat, u <= v, NEW d, NEW e, d \subseteq e,
         NEW p, Good(p, u, d)
  PROVE  Good(p, v, e)
BY DEF Good, Pair

\* Whatever changes but the place of the loop and its offset, or revives its context.
LEMMA SameLoop ==
  ASSUME NEW u \in Nat, NEW d, NEW p, Good(p, u, d), NEW q \in Pair,
         q.poll = p.poll, q.next = p.next, q.last = p.last,
         p.cancelled => q.cancelled \/ p.poll = "none"
  PROVE  Good(q, u, d)
BY DEF Good, Pair

LEMMA EndedIsGood ==
  ASSUME NEW u \in Nat, NEW d, NEW p, Good(p, u, d)
  PROVE  Good(Ended(p), u, d)
<1>1. CASE p.note = "none"
  <2>1. Off \in Configs
    BY DEF Configs
  <2> QED BY <1>1, <2>1, FreshIsGood DEF Ended
<1>2. CASE p.note # "none"
  <2>1. Ended(p) \in Pair /\ Ended(p).poll = "none" /\ Ended(p).next = 1 /\ Ended(p).last = 0
    BY <1>2, Ranges DEF Ended, Good, Pair
  <2> QED BY <2>1 DEF Good
<1> QED BY <1>1, <1>2

LEMMA MovedIsGood ==
  ASSUME NEW u \in Nat, u <= MaxUpdates, NEW d, NEW e, d \subseteq e,
         NEW l \in Loops, Good(loop[l], u, d), loop[l].poll \in {"batch", "answer"},
         loop[l].cancelled \/ loop[l].next \in e
  PROVE  Good(Moved(l), u, e) /\ loop[l].next \in 1 .. u
<1> DEFINE p == loop[l]
<1>1. p \in Pair /\ p.next \in Nat \ {0} /\ p.last \in Nat /\ p.next <= p.last /\ p.last <= u
  BY DEF Good, Pair
<1>2. p.next + 1 \in 1 .. MaxUpdates + 1 /\ p.next \in 1 .. u
  BY <1>1
<1>3. Moved(l) \in Pair
  BY <1>1, <1>2 DEF Moved, Pair
<1>4. /\ Moved(l).next = p.next + 1 /\ Moved(l).last = p.last /\ Moved(l).cancelled = p.cancelled
      /\ Moved(l).poll = (IF p.next = p.last THEN "poll" ELSE "batch")
  BY <1>1 DEF Moved, Pair
<1>5. ~p.cancelled => 1 .. p.next \subseteq e
  BY <1>1 DEF Good
<1> QED BY <1>1, <1>2, <1>3, <1>4, <1>5 DEF Good

-----------------------------------------------------------------------------
(* The invariant.                                                          *)

LEMMA BootedGood ==
  ASSUME cfg \in Configs, NEW u \in Nat, NEW d, NEW l \in Loops
  PROVE  /\ Booted(l).cancel \in Loops \cup {None}
         /\ Booted(l).loop \in [Loops -> Pair]
         /\ \A k \in Loops : Good(Booted(l).loop[k], u, d)
<1>1. /\ Dead \in Pair /\ Fresh(cfg) \in Pair
      /\ Good(Dead, u, d) /\ Good(Fresh(cfg), u, d)
  BY FreshIsGood DEF Good
<1>2. CASE cfg = Off
  BY <1>1, <1>2 DEF Booted
<1>3. CASE cfg # Off
  BY <1>1, <1>3 DEF Booted
<1> QED BY <1>2, <1>3

LEMMA InitIInv == Init => IInv
<1> SUFFICES ASSUME Init PROVE IInv
  OBVIOUS
<1>1. PICK l \in Loops : cancel = Booted(l).cancel /\ loop = Booted(l).loop
  BY DEF Init
<1>2. cfg \in Configs /\ updates = 0 /\ confirmed = 0 /\ dealt = {} /\ crossed = FALSE /\ silent = FALSE
  BY DEF Init
<1>3. Idle \in RestartState
  BY DEF Idle, RestartState, Configs
<1>4. Counters /\ NoUpdateLost
  BY <1>2 DEF Counters, NoUpdateLost
<1>5. Flags
  BY <1>1, <1>2, <1>3, BootedGood DEF Flags, Init
<1>6. LoopsGood
  BY <1>1, <1>2, BootedGood DEF LoopsGood
<1> QED BY <1>4, <1>5, <1>6 DEF IInv

\* Where neither Telegram nor the history moves, the counters stay as they are.
LEMMA CountersStay ==
  ASSUME IInv, UNCHANGED <<updates, confirmed, dealt>>
  PROVE  (Counters /\ NoUpdateLost)'
BY DEF IInv, Counters, NoUpdateLost

LEMMA FlagsStay ==
  ASSUME IInv, UNCHANGED <<cfg, silent, cancel, crossed, restart>>
  PROVE  Flags'
BY DEF IInv, Flags

LEMMA LoopsStay ==
  ASSUME IInv, UNCHANGED <<loop, updates, dealt>>
  PROVE  LoopsGood'
BY DEF IInv, LoopsGood

\* One pair moves, and the history with it.
LEMMA OneMoves ==
  ASSUME IInv, NEW l \in Loops, NEW p, loop' = [loop EXCEPT ![l] = p],
         updates' = updates, dealt \subseteq dealt', Good(p, updates, dealt')
  PROVE  LoopsGood'
<1>1. p \in Pair /\ updates \in Nat
  BY DEF Good, IInv, Counters
<1>2. \A k \in Loops : Good(loop[k], updates, dealt')
  BY <1>1, GoodGrows DEF IInv, LoopsGood
<1> QED BY <1>1, <1>2 DEF IInv, LoopsGood

\* A restart moves on, and nothing else.
LEMMA RestartMoves ==
  ASSUME IInv, NEW r \in Restarters, NEW a \in {"start", "get", "wait", "wait again"},
         restart' = [restart EXCEPT ![r].at = a]
  PROVE  restart' \in [Restarters -> RestartState]
<1>1. [restart[r] EXCEPT !.at = a] \in RestartState
  BY DEF IInv, Flags, RestartState
<1> QED BY <1>1 DEF IInv, Flags

LEMMA UpdatesCount == IInv => updates \in Nat /\ updates <= MaxUpdates /\ confirmed \in Nat
BY DEF IInv, Counters

LEMMA StopKeeps ==
  ASSUME IInv, NEW r \in Restarters, NEW wait \in {"wait", "wait again"},
         NEW then \in {"start", "get"}, Stop(r, wait, then)
  PROVE  IInv'
<1>1. (Counters /\ NoUpdateLost)'
  BY CountersStay DEF Stop
<1>2. Flags'
  <2>1. restart' \in [Restarters -> RestartState]
    BY RestartMoves DEF Stop
  <2> QED BY <2>1 DEF Stop, IInv, Flags
<1>3. LoopsGood'
  <2>1. CASE cancel = None
    BY <2>1, LoopsStay DEF Stop
  <2>2. CASE cancel # None
    <3>1. cancel \in Loops /\ updates \in Nat /\ Good(loop[cancel], updates, dealt)
      <4>1. cancel \in Loops
        BY <2>2 DEF IInv, Flags
      <4>2. updates \in Nat
        BY UpdatesCount
      <4> QED BY <4>1, <4>2 DEF IInv, LoopsGood
    <3> DEFINE live == Live(cancel)
    <3>5. live \in BOOLEAN
      BY DEF Live
    <3> HIDE DEF live
    <3> DEFINE p == [loop[cancel] EXCEPT !.cancelled = live]
    <3>2. p \in Pair /\ p.poll = loop[cancel].poll /\ p.next = loop[cancel].next
          /\ p.last = loop[cancel].last /\ p.cancelled = live
      BY <3>1, <3>5 DEF Good, Pair
    <3>3. Good(p, updates, dealt)
      <4>1. loop[cancel].cancelled => live \/ loop[cancel].poll = "none"
        BY DEF live, Live
      <4> QED BY <3>1, <3>2, <4>1, SameLoop
    <3>4. loop' = [loop EXCEPT ![cancel] = p] /\ updates' = updates /\ dealt' = dealt
      BY <2>2 DEF Stop, live
    <3> HIDE DEF p
    <3> QED BY <3>1, <3>3, <3>4, OneMoves
  <2> QED BY <2>1, <2>2
<1> QED BY <1>1, <1>2, <1>3 DEF IInv

LEMMA RestartingKeeps == ASSUME IInv, Restarting PROVE IInv'
<1>0. ASSUME NEW c \in Configs, SaveOnly(c) PROVE IInv'
  <2>1. (Counters /\ NoUpdateLost)' /\ LoopsGood'
    BY <1>0, CountersStay, LoopsStay DEF SaveOnly
  <2>2. Flags'
    BY <1>0 DEF SaveOnly, IInv, Flags
  <2> QED BY <2>1, <2>2 DEF IInv
<1>1. ASSUME NEW r \in Restarters, NEW c \in Configs, SaveSettings(r, c) PROVE IInv'
  <2>1. (Counters /\ NoUpdateLost)' /\ LoopsGood'
    BY <1>1, CountersStay, LoopsStay DEF SaveSettings
  <2>2. [restart[r] EXCEPT !.at = "stop"] \in RestartState
    BY DEF IInv, Flags, RestartState
  <2>3. Flags'
    BY <1>1, <2>2 DEF SaveSettings, IInv, Flags
  <2> QED BY <2>1, <2>3 DEF IInv
<1>2. ASSUME NEW r \in Restarters, RestartStops(r) \/ Start(r) PROVE IInv'
  BY <1>2, StopKeeps DEF RestartStops, Start
<1>3. ASSUME NEW r \in Restarters, Waited(r) \/ TimedOut(r) PROVE IInv'
  <2>1. (Counters /\ NoUpdateLost)'
    BY <1>3, CountersStay DEF Waited, TimedOut
  <2>2. Flags'
    <3>1. restart' \in [Restarters -> RestartState]
      BY <1>3, RestartMoves DEF Waited, TimedOut, AfterWait
    <3> QED BY <1>3, <3>1 DEF Waited, TimedOut, IInv, Flags
  <2>3. CASE Waited(r)
    BY <2>1, <2>2, <2>3, LoopsStay DEF Waited, IInv
  <2>4. CASE TimedOut(r)
    <3>1. \A l \in Loops : Good([loop[l] EXCEPT !.late = loop[l].cancelled], updates, dealt)
      <4> SUFFICES ASSUME NEW l \in Loops
                   PROVE  Good([loop[l] EXCEPT !.late = loop[l].cancelled], updates, dealt)
        OBVIOUS
      <4> DEFINE q == [loop[l] EXCEPT !.late = loop[l].cancelled]
      <4>1. Good(loop[l], updates, dealt) /\ updates \in Nat
        BY UpdatesCount DEF IInv, LoopsGood
      <4>2. q \in Pair /\ q.poll = loop[l].poll /\ q.next = loop[l].next
            /\ q.last = loop[l].last /\ q.cancelled = loop[l].cancelled
        BY <4>1 DEF Good, Pair
      <4> HIDE DEF q
      <4>3. Good(q, updates, dealt)
        BY <4>1, <4>2, SameLoop
      <4> QED BY <4>3 DEF q
    <3>2. loop' = [l \in Loops |-> [loop[l] EXCEPT !.late = loop[l].cancelled]]
          /\ updates' = updates /\ dealt' = dealt
      BY <2>4 DEF TimedOut
    <3>3. LoopsGood'
      BY <3>1, <3>2 DEF LoopsGood, Good
    <3> QED BY <2>1, <2>2, <3>3 DEF IInv
  <2> QED BY <1>3, <2>3, <2>4
<1>4. ASSUME NEW r \in Restarters, GetConfig(r) PROVE IInv'
  <2>1. (Counters /\ NoUpdateLost)' /\ LoopsGood'
    BY <1>4, CountersStay, LoopsStay DEF GetConfig
  <2>2. cfg \in Configs /\ Idle \in RestartState /\ [at |-> "launch", cfg |-> cfg] \in RestartState
    BY DEF IInv, Flags, RestartState, Idle, Configs
  <2>3. Flags'
    BY <1>4, <2>2 DEF GetConfig, IInv, Flags
  <2> QED BY <2>1, <2>3 DEF IInv
<1>5. ASSUME NEW r \in Restarters, NEW l \in Loops, Launch(r, l) PROVE IInv'
  <2>1. (Counters /\ NoUpdateLost)'
    BY <1>5, CountersStay DEF Launch, StartPolling
  <2>2. Idle \in RestartState /\ restart[r].cfg \in Configs
    BY DEF IInv, Flags, RestartState, Idle, Configs
  <2>3. Flags'
    BY <1>5, <2>2 DEF Launch, StartPolling, IInv, Flags
  <2>4. LoopsGood'
    <3>1. loop' = [loop EXCEPT ![l] = Fresh(restart[r].cfg)] /\ updates' = updates /\ dealt' = dealt
      BY <1>5 DEF Launch, StartPolling
    <3>2. Good(Fresh(restart[r].cfg), updates, dealt)
      BY <2>2, UpdatesCount, FreshIsGood
    <3> QED BY <3>1, <3>2, OneMoves
  <2> QED BY <2>1, <2>3, <2>4 DEF IInv
<1>6. ASSUME NEW l \in Loops, Reboot(l) PROVE IInv'
  <2>1. (Counters /\ NoUpdateLost)'
    BY <1>6, CountersStay DEF Reboot
  <2>2. cfg \in Configs /\ Idle \in RestartState
    BY DEF IInv, Flags, RestartState, Idle, Configs
  <2>3. Flags' /\ LoopsGood'
    BY <1>6, <2>2, BootedGood, UpdatesCount DEF Reboot, IInv, Flags, LoopsGood
  <2> QED BY <2>1, <2>3 DEF IInv
<1> QED
  BY <1>0, <1>1, <1>2, <1>3, <1>4, <1>5, <1>6 DEF Restarting

\* The pair of a loop and what is known of it.
LEMMA PairOf ==
  ASSUME IInv, NEW l \in Loops
  PROVE  Good(loop[l], updates, dealt) /\ loop[l] \in Pair
BY DEF IInv, LoopsGood, Good

\* A step of the first goroutine that may have dealt with the update at hand.
LEMMA AfterUpdate ==
  ASSUME IInv, NEW l \in Loops, loop[l].poll \in {"batch", "answer"},
         dealt' = dealt \/ dealt' = dealt \cup {loop[l].next},
         loop[l].cancelled \/ loop[l].next \in dealt',
         loop' = [loop EXCEPT ![l] = Moved(l)],
         UNCHANGED <<cfg, silent, restart, cancel, updates, confirmed, crossed>>
  PROVE  IInv'
<1>1. Good(Moved(l), updates, dealt') /\ loop[l].next \in 1 .. updates /\ dealt \subseteq dealt'
  BY PairOf, UpdatesCount, MovedIsGood
<1>2. LoopsGood'
  BY <1>1, OneMoves
<1>3. Counters' /\ NoUpdateLost'
  BY <1>1 DEF IInv, Counters, NoUpdateLost
<1>4. Flags'
  BY FlagsStay
<1> QED BY <1>2, <1>3, <1>4 DEF IInv

LEMMA RequestKeeps ==
  ASSUME IInv, NEW l \in Loops, NEW last \in 0 .. MaxUpdates, GetUpdates(l, last)
  PROVE  IInv'
<1>1. loop[l] \in Pair /\ Good(loop[l], updates, dealt) /\ updates \in Nat /\ updates <= MaxUpdates
      /\ confirmed \in 0 .. updates
  BY PairOf, UpdatesCount DEF IInv, Counters
<1>2. loop[l].next - 1 \in 0 .. updates /\ 1 .. loop[l].next - 1 \subseteq dealt
  BY <1>1 DEF GetUpdates, Good, Pair
<1>3. confirmed' \in 0 .. updates /\ 1 .. confirmed' \subseteq dealt
  <2>1. 1 .. confirmed \subseteq dealt
    BY DEF IInv, NoUpdateLost
  <2>2. confirmed' = confirmed \/ confirmed' = loop[l].next - 1
    BY DEF GetUpdates, Highest
  <2> QED BY <1>1, <1>2, <2>1, <2>2
<1>4. Counters' /\ NoUpdateLost'
  BY <1>3 DEF GetUpdates, IInv, Counters, NoUpdateLost
<1>5. Flags'
  BY FlagsStay DEF GetUpdates
<1>6. LoopsGood'
  <2>1. CASE last \in confirmed' + 1 .. updates
    <3> DEFINE p == [loop[l] EXCEPT !.poll = "batch", !.next = confirmed' + 1, !.last = last]
    <3>1. confirmed' + 1 \in 1 .. MaxUpdates + 1 /\ confirmed' + 1 <= updates + 1
      <4>1. confirmed' \in Nat /\ confirmed' <= updates
        BY <1>1, <1>3
      <4> QED BY <1>1, <4>1, NextInRange
    <3>2. /\ p \in Pair /\ p.next = confirmed' + 1 /\ p.last = last /\ p.poll = "batch"
      BY <1>1, <3>1 DEF Pair
    <3>3. p.next - 1 = confirmed' /\ p.last <= updates /\ p.next <= p.last
      BY <1>1, <1>3, <2>1, <3>2
    <3>4. loop' = [loop EXCEPT ![l] = p] /\ updates' = updates /\ dealt' = dealt
      BY <2>1 DEF GetUpdates
    <3> HIDE DEF p
    <3>5. Good(p, updates, dealt)
      <4>1. p.next <= updates + 1
        BY <3>1, <3>2
      <4>2. 1 .. p.next - 1 \subseteq dealt
        BY <1>3, <3>3
      <4> QED BY <3>2, <3>3, <4>1, <4>2 DEF Good
    <3> QED BY <3>4, <3>5, OneMoves
  <2>2. CASE last \notin confirmed' + 1 .. updates
    BY <2>2, LoopsStay DEF GetUpdates
  <2> QED BY <2>1, <2>2
<1> QED BY <1>4, <1>5, <1>6 DEF IInv

LEMMA PollingKeeps == ASSUME IInv, Polling PROVE IInv'
<1>1. ASSUME Arrives PROVE IInv'
  <2>1. Flags'
    BY <1>1, FlagsStay DEF Arrives
  <2>2. Counters' /\ NoUpdateLost'
    BY <1>1 DEF Arrives, IInv, Counters, NoUpdateLost
  <2>3. LoopsGood'
    <3>1. updates \in Nat /\ updates' \in Nat /\ updates <= updates'
      BY <1>1, UpdatesCount DEF Arrives
    <3> QED BY <1>1, <3>1, GoodGrows DEF Arrives, IInv, LoopsGood
  <2> QED BY <2>1, <2>2, <2>3 DEF IInv
<1>2. ASSUME NEW l \in Loops, PollEnds(l) \/ AnswerEnds(l) PROVE IInv'
  <2>1. (Counters /\ NoUpdateLost)' /\ Flags'
    BY <1>2, CountersStay, FlagsStay DEF PollEnds, AnswerEnds
  <2>2. LoopsGood'
    <3>1. Good(Ended(loop[l]), updates, dealt)
      BY PairOf, UpdatesCount, EndedIsGood
    <3>2. loop' = [loop EXCEPT ![l] = Ended(loop[l])] /\ updates' = updates /\ dealt' = dealt
      BY <1>2 DEF PollEnds, AnswerEnds, IInv, LoopsGood
    <3> QED BY <3>1, <3>2, OneMoves
  <2> QED BY <2>1, <2>2 DEF IInv
<1>3. ASSUME NEW l \in Loops, Skip(l) \/ Command(l) \/ Answer(l) PROVE IInv'
  BY <1>3, AfterUpdate DEF Skip, Command, Answer, Dealt
<1>4. ASSUME NEW l \in Loops, Handle(l) PROVE IInv'
  <2>1. (Counters /\ NoUpdateLost)' /\ Flags'
    BY <1>4, CountersStay, FlagsStay DEF Handle
  <2>2. LoopsGood'
    <3> DEFINE p == [loop[l] EXCEPT !.poll = "answer"]
    <3>1. Good(p, updates, dealt)
      BY <1>4, PairOf DEF Handle, Good, Pair
    <3>2. loop' = [loop EXCEPT ![l] = p] /\ updates' = updates /\ dealt' = dealt
      BY <1>4 DEF Handle, IInv, LoopsGood
    <3> HIDE DEF p
    <3> QED BY <3>1, <3>2, OneMoves
  <2> QED BY <2>1, <2>2 DEF IInv
<1> QED
  BY <1>1, <1>2, <1>3, <1>4, RequestKeeps DEF Polling

\* The second goroutine leaves the first one's place alone.
LEMMA NotesKeep ==
  ASSUME IInv, ResultComes \/ \E l \in Loops : Deliver(l) \/ NotesEnd(l)
  PROVE  IInv'
<1>1. (Counters /\ NoUpdateLost)' /\ Flags'
  BY CountersStay, FlagsStay DEF ResultComes, Deliver, NotesEnd
<1>2. ASSUME NEW l \in Loops, NEW n \in {"none", "idle", "due"}
      PROVE  Good([loop[l] EXCEPT !.note = n], updates, dealt)
  BY PairOf DEF Good, Pair
<1>3. ASSUME ResultComes PROVE LoopsGood'
  <2>1. /\ loop' = [l \in Loops |-> IF loop[l].note = "idle"
                                    THEN [loop[l] EXCEPT !.note = "due"] ELSE loop[l]]
        /\ updates' = updates /\ dealt' = dealt
    BY <1>3 DEF ResultComes
  <2>2. \A l \in Loops : Good(loop'[l], updates, dealt)
    BY <1>2, <2>1, PairOf
  <2> QED BY <2>1, <2>2 DEF LoopsGood, Good
<1>4. ASSUME NEW l \in Loops, Deliver(l) \/ NotesEnd(l) PROVE LoopsGood'
  <2>1. updates' = updates /\ dealt' = dealt /\ Good(Dead, updates, dealt)
    BY <1>4, UpdatesCount, FreshIsGood DEF Deliver, NotesEnd, Configs
  <2>2. PICK p : loop' = [loop EXCEPT ![l] = p] /\ Good(p, updates, dealt)
    BY <1>2, <1>4, <2>1 DEF Deliver, NotesEnd
  <2> QED BY <2>1, <2>2, OneMoves
<1> QED
  BY <1>1, <1>3, <1>4 DEF IInv

LEMMA IInvIsInductive == IInv /\ [Next]_vars => IInv'
<1> SUFFICES ASSUME IInv, [Next]_vars PROVE IInv'
  OBVIOUS
<1>1. CASE UNCHANGED vars
  BY <1>1, CountersStay, FlagsStay, LoopsStay DEF vars, IInv
<1> QED
  BY <1>1, RestartingKeeps, PollingKeeps, NotesKeep DEF Next

-----------------------------------------------------------------------------
LEMMA Invariant == Spec => []IInv
<1> QED
  BY InitIInv, IInvIsInductive, PTL DEF Spec

\* Every variable keeps its type; in particular no loop's offset passes the updates that
\* have come.
THEOREM TypeCorrect == Spec => []TypeOK
<1> QED
  BY Invariant, IInvTyped, PTL

\* Telegram forgets only what some loop dealt with while it could still answer, whatever
\* restarts, time-outs and crashes come in between.
THEOREM NothingIsLost == Spec => []NoUpdateLost
<1>1. IInv => NoUpdateLost
  BY DEF IInv
<1> QED
  BY <1>1, Invariant, PTL

-----------------------------------------------------------------------------
(* A restart replaces the pair, unless another is under way.               *)

\* A pair that Stop has not given up waiting for.
Working(l) == Live(l) /\ ~loop[l].late
AllIdle == \A r \in Restarters : restart[r] = Idle
OnlyCurrent == \A l \in Loops : Working(l) => cancel = l

Alone == \A q, r \in Restarters : restart[q] # Idle /\ restart[r] # Idle => q = r
Flagged ==
  \A l \in Loops :
    /\ loop[l].late => loop[l].cancelled
    /\ loop[l].cancelled => Live(l)
    /\ Live(l) => loop[l].cancelled \/ cancel = l
Reachable == cancel # None => Live(cancel) /\ ~loop[cancel].cancelled
OnePair == \A k, l \in Loops : Working(k) /\ Working(l) => k = l

\* Where a restart stands, and what it has done by then.
Stage(r) ==
  /\ restart[r].at = "stop" => OnlyCurrent
  /\ restart[r].at \in {"wait", "wait again"} => cancel = None
  /\ restart[r].at \in {"start", "get", "launch"} => cancel = None /\ \A l \in Loops : ~Working(l)
  /\ restart[r].at = "launch" => restart[r].cfg # Off /\ (silent \/ restart[r].cfg = cfg)

Served ==
  AllIdle =>
    /\ OnlyCurrent
    /\ ~silent => IF cfg # Off THEN cancel # None /\ loop[cancel].cfg = cfg ELSE cancel = None

Replacing ==
  /\ Alone /\ Flagged /\ Reachable /\ OnePair /\ Served
  /\ \A r \in Restarters : Stage(r)

RestartInv == ~crossed => Replacing

LEMMA ReplacingSuffices ==
  ASSUME Replacing
  PROVE  /\ Cardinality({l \in Loops : Live(l) /\ ~loop[l].late}) <= 1
         /\ \A l \in Loops : Live(l) => loop[l].cancelled \/ cancel = l
         /\ ~silent /\ (\A r \in Restarters : restart[r] = Idle) =>
              IF cfg # Off THEN cancel # None /\ loop[cancel].cfg = cfg ELSE cancel = None
<1> DEFINE W == {l \in Loops : Live(l) /\ ~loop[l].late}
<1>1. W = {} \/ \E l : W = {l}
  BY DEF Replacing, OnePair, Working
<1>2. Cardinality(W) <= 1
  <2>1. CASE W = {}
    BY <2>1, FS_EmptySet
  <2>2. ASSUME NEW l, W = {l} PROVE Cardinality(W) <= 1
    BY <2>2, FS_Singleton
  <2> QED
    BY <1>1, <2>1, <2>2
<1> QED
  BY <1>2 DEF Replacing, Flagged, Served, AllIdle

\* The pair that a restart or a start makes.
LEMMA FreshLives ==
  ASSUME NEW c
  PROVE  /\ Fresh(c).poll = "poll" /\ Fresh(c).note = "idle" /\ Fresh(c).cfg = c
         /\ ~Fresh(c).cancelled /\ ~Fresh(c).late
         /\ Dead.poll = "none" /\ Dead.note = "none" /\ ~Dead.cancelled /\ ~Dead.late
BY DEF Fresh, Dead

\* A step of the pairs: one goes on as what it is, or ends, cancelled.
LEMMA PairsStep ==
  ASSUME IInv, Replacing, UNCHANGED <<cfg, silent, restart, cancel>>, NEW S \in SUBSET Loops,
         \A l \in Loops \ S : /\ Live(l)' <=> Live(l)
                              /\ loop'[l].cancelled = loop[l].cancelled
                              /\ loop'[l].late = loop[l].late /\ loop'[l].cfg = loop[l].cfg,
         \A l \in S : loop[l].cancelled /\ loop'[l] = Dead
  PROVE  Replacing'
<1>1. \A l \in S : ~Live(l)' /\ ~loop'[l].cancelled /\ ~loop'[l].late
  BY FreshLives DEF Live
<1>2. \A l \in Loops : Working(l)' => Working(l)
  BY <1>1 DEF Working
<1>3. cancel # None => cancel \in Loops \ S
  BY DEF Replacing, Reachable, IInv, Flags
<1>4. Alone' /\ Flagged'
  BY <1>1 DEF Replacing, Alone, Flagged
<1>5. Reachable'
  BY <1>3 DEF Replacing, Reachable
<1>6. OnePair'
  BY <1>2 DEF Replacing, OnePair
<1>7. OnlyCurrent => OnlyCurrent'
  BY <1>2 DEF OnlyCurrent
<1>8. Served'
  BY <1>3, <1>7 DEF Replacing, Served, AllIdle
<1>9. ASSUME NEW r \in Restarters PROVE Stage(r)'
  BY <1>2, <1>7 DEF Replacing, Stage
<1> QED
  BY <1>4, <1>5, <1>6, <1>8, <1>9 DEF Replacing

\* A step of the one restart there is.
LEMMA OneRestart ==
  ASSUME IInv, Alone, NEW r \in Restarters, restart[r] # Idle, NEW x,
         restart' = [restart EXCEPT ![r] = x]
  PROVE  /\ restart'[r] = x /\ Alone' /\ (AllIdle' <=> x = Idle)
         /\ \A q \in Restarters \ {r} : restart'[q] = Idle /\ Idle.at = "idle"
<1>1. restart'[r] = x /\ \A q \in Restarters \ {r} : restart'[q] = restart[q]
  BY DEF IInv, Flags
<1>2. \A q \in Restarters \ {r} : restart[q] = Idle
  BY DEF Alone
<1>3. Idle.at = "idle"
  BY DEF Idle
<1> QED
  BY <1>1, <1>2, <1>3 DEF Alone, AllIdle

\* It may change where it stands, and the pairs, as long as its stage holds.
LEMMA RestartStep ==
  ASSUME IInv, Replacing, NEW r \in Restarters, restart[r].at # "idle", NEW x,
         restart' = [restart EXCEPT ![r] = x], x # Idle,
         Flagged', Reachable', OnePair', Stage(r)'
  PROVE  Replacing'
<1>1. restart[r] # Idle
  BY DEF Idle
<1>2. Alone' /\ ~AllIdle' /\ \A q \in Restarters \ {r} : restart'[q].at = "idle"
  BY <1>1, OneRestart DEF Replacing
<1>3. \A q \in Restarters \ {r} : Stage(q)'
  BY <1>2 DEF Stage
<1> QED
  BY <1>2, <1>3 DEF Replacing, Served

LEMMA PlaceOf ==
  ASSUME IInv, NEW r \in Restarters, NEW place, NEW x, x = [restart[r] EXCEPT !.at = place]
  PROVE  x.at = place /\ x.cfg = restart[r].cfg /\ (place # "idle" => x # Idle)
<1>1. restart[r] \in RestartState
  BY DEF IInv, Flags
<1>2. x.at = place /\ x.cfg = restart[r].cfg
  BY <1>1 DEF RestartState
<1> QED
  BY <1>2 DEF Idle

\* Stop, from a stage in which the current pair is the only one.
LEMMA StopReplaces ==
  ASSUME IInv, Replacing, NEW r \in Restarters, restart[r].at \in {"stop", "start"}, OnlyCurrent,
         NEW wait \in {"wait", "wait again"}, NEW then \in {"start", "get"}, Stop(r, wait, then)
  PROVE  Replacing'
<1> DEFINE x == [restart[r] EXCEPT !.at = IF cancel = None THEN then ELSE wait]
<1>1. restart' = [restart EXCEPT ![r] = x] /\ cancel' = None
  BY DEF Stop, IInv, Flags
<1>2. x.at = (IF cancel = None THEN then ELSE wait) /\ x # Idle
  <2>1. restart[r] \in RestartState
    BY DEF IInv, Flags
  <2>2. x.at = IF cancel = None THEN then ELSE wait
    BY <2>1 DEF RestartState
  <2> HIDE DEF x
  <2>3. x.at # "idle"
    BY <2>2
  <2>4. Idle.at = "idle"
    BY DEF Idle
  <2>5. x # Idle
    BY <2>3, <2>4
  <2> QED
    BY <2>2, <2>5
<1> HIDE DEF x
<1>3. restart'[r] = x
  BY <1>1 DEF IInv, Flags
<1>4. CASE cancel = None
  <2>1. loop' = loop
    BY <1>4 DEF Stop
  <2>2. \A l \in Loops : ~Working(l)
    BY <1>4 DEF OnlyCurrent, IInv, Flags
  <2>3. \A l \in Loops : (Live(l)' <=> Live(l)) /\ (Working(l)' <=> Working(l))
    BY <2>1 DEF Live, Working
  <2>4. Flagged' /\ Reachable' /\ OnePair'
    BY <1>1, <1>4, <2>1, <2>2, <2>3 DEF Replacing, Flagged, Reachable, OnePair
  <2>5. Stage(r)'
    BY <1>1, <1>2, <1>3, <1>4, <2>2, <2>3 DEF Stage
  <2> QED
    BY <1>1, <1>2, <2>4, <2>5, RestartStep
<1>5. CASE cancel # None
  <2>1. cancel \in Loops /\ Live(cancel) /\ loop \in [Loops -> Pair]
    BY <1>5 DEF Replacing, Reachable, IInv, Flags, LoopsGood
  <2>2. loop' = [loop EXCEPT ![cancel].cancelled = TRUE]
    BY <1>5, <2>1 DEF Stop, Live
  <2>3. \A l \in Loops \ {cancel} : loop'[l] = loop[l]
    BY <2>1, <2>2
  <2>4. /\ loop'[cancel].cancelled /\ loop'[cancel].late = loop[cancel].late
        /\ loop'[cancel].poll = loop[cancel].poll /\ loop'[cancel].note = loop[cancel].note
    BY <2>1, <2>2 DEF Pair
  <2>5. \A l \in Loops : (Live(l)' <=> Live(l)) /\ (Working(l)' <=> Working(l))
    BY <2>3, <2>4 DEF Live, Working
  <2>6. Flagged'
    BY <1>1, <2>1, <2>3, <2>4, <2>5 DEF Replacing, Flagged
  <2>7. Reachable' /\ OnePair'
    BY <1>1, <2>5 DEF Replacing, Reachable, OnePair
  <2>8. Stage(r)'
    BY <1>1, <1>2, <1>3, <1>5 DEF Stage
  <2> QED
    BY <1>1, <1>2, <2>6, <2>7, <2>8, RestartStep
<1> QED
  BY <1>4, <1>5

\* The wait is over: nobody is left, or those who are have been given up.
LEMMA WaitReplaces ==
  ASSUME IInv, Replacing, NEW r \in Restarters, Waited(r) \/ TimedOut(r)
  PROVE  Replacing'
<1> DEFINE x == [restart[r] EXCEPT !.at = IF restart[r].at = "wait" THEN "start" ELSE "get"]
<1>1. restart' = [restart EXCEPT ![r] = x] /\ restart[r].at \in {"wait", "wait again"} /\ cancel' = cancel
  BY DEF Waited, TimedOut, AfterWait, IInv, Flags
<1>2. x.at \in {"start", "get"} /\ x # Idle
  BY PlaceOf
<1> HIDE DEF x
<1>3. restart'[r] = x /\ cancel = None
  BY <1>1 DEF IInv, Flags, Replacing, Stage
<1>4. /\ \A l \in Loops : loop'[l].late => loop'[l].cancelled
      /\ \A l \in Loops : (Live(l)' <=> Live(l)) /\ loop'[l].cancelled = loop[l].cancelled
      /\ \A l \in Loops : ~Working(l)'
  <2>1. CASE Waited(r)
    BY <2>1 DEF Waited, Live, Working, Replacing, Flagged
  <2>2. CASE TimedOut(r)
    <3>1. /\ loop \in [Loops -> Pair]
          /\ loop' = [l \in Loops |-> [loop[l] EXCEPT !.late = loop[l].cancelled]]
      BY <2>2 DEF TimedOut, IInv, LoopsGood
    <3>2. \A l \in Loops : /\ loop'[l].late = loop[l].cancelled /\ loop'[l].cancelled = loop[l].cancelled
                           /\ loop'[l].poll = loop[l].poll /\ loop'[l].note = loop[l].note
      BY <3>1 DEF Pair
    <3>3. \A l \in Loops : Live(l) => loop[l].cancelled
      BY <1>3 DEF Replacing, Flagged, IInv, Flags
    <3> QED
      BY <3>2, <3>3 DEF Live, Working
  <2> QED
    BY <2>1, <2>2
<1>5. Flagged' /\ Reachable' /\ OnePair'
  BY <1>1, <1>3, <1>4 DEF Replacing, Flagged, Reachable, OnePair
<1>6. Stage(r)'
  BY <1>1, <1>2, <1>3, <1>4 DEF Stage
<1> QED
  BY <1>1, <1>2, <1>5, <1>6, RestartStep

LEMMA SaveReplaces ==
  ASSUME IInv, RestartInv, NEW r \in Restarters, NEW c \in Configs, SaveSettings(r, c)
  PROVE  RestartInv'
<1> SUFFICES ASSUME ~crossed' PROVE Replacing'
  BY DEF RestartInv
<1>1. Replacing /\ AllIdle
  BY DEF SaveSettings, RestartInv, AllIdle
<1> DEFINE x == [restart[r] EXCEPT !.at = "stop"]
<1>2. restart' = [restart EXCEPT ![r] = x] /\ cancel' = cancel /\ loop' = loop
  BY DEF SaveSettings, IInv, Flags
<1>3. x.at = "stop" /\ x # Idle
  BY PlaceOf
<1> HIDE DEF x
<1>4. restart'[r] = x /\ \A q \in Restarters \ {r} : restart'[q] = Idle /\ Idle.at = "idle"
  BY <1>1, <1>2 DEF AllIdle, IInv, Flags, Idle
<1>5. \A l \in Loops : (Live(l)' <=> Live(l)) /\ (Working(l)' <=> Working(l))
  BY <1>2 DEF Live, Working
<1>6. Flagged' /\ Reachable' /\ OnePair' /\ OnlyCurrent'
  <2>0. Flagged /\ Reachable
    BY <1>1 DEF Replacing
  <2>5. Flagged'
    BY <1>2, <1>5, <2>0 DEF Flagged
  <2>1. Flagged' /\ Reachable'
    BY <1>2, <2>0, <2>5 DEF Reachable, Live
  <2>2. OnePair'
    BY <1>1, <1>5 DEF Replacing, OnePair
  <2>3. OnlyCurrent
    BY <1>1 DEF Replacing, Served
  <2>4. OnlyCurrent'
    BY <1>2, <1>5, <2>3 DEF OnlyCurrent
  <2> QED
    BY <2>1, <2>2, <2>4
<1>7. Alone' /\ Served'
  BY <1>3, <1>4 DEF Alone, Served, AllIdle
<1>8. \A q \in Restarters : Stage(q)'
  BY <1>3, <1>4, <1>6 DEF Stage
<1> QED
  BY <1>6, <1>7, <1>8 DEF Replacing

\* Settings that are saved without a restart leave the pairs alone.
LEMMA SilentSaveReplaces ==
  ASSUME IInv, Replacing, NEW c \in Configs, SaveOnly(c)
  PROVE  Replacing'
<1>1. UNCHANGED <<restart, cancel, loop>> /\ silent'
  BY DEF SaveOnly
<1>2. \A l \in Loops : (Live(l)' <=> Live(l)) /\ (Working(l)' <=> Working(l))
  BY <1>1 DEF Live, Working
<1>3. Alone' /\ Flagged' /\ OnePair'
  BY <1>1, <1>2 DEF Replacing, Alone, Flagged, OnePair
<1>4. Reachable'
  BY <1>1 DEF Replacing, Reachable, Live
<1>5. Served'
  BY <1>1, <1>2 DEF Replacing, Served, AllIdle, OnlyCurrent
<1>6. ASSUME NEW r \in Restarters PROVE Stage(r)'
  <2>1. Stage(r)
    BY DEF Replacing
  <2> QED
    BY <1>1, <1>2, <2>1 DEF Stage, OnlyCurrent
<1> QED
  BY <1>3, <1>4, <1>5, <1>6 DEF Replacing

\* The settings are read: the channel is off, or a launch is next.
LEMMA GetReplaces ==
  ASSUME IInv, Replacing, NEW r \in Restarters, GetConfig(r)
  PROVE  Replacing'
<1>1. restart[r].at = "get" /\ UNCHANGED <<cfg, cancel, loop>>
  BY DEF GetConfig
<1>2. cancel = None /\ \A l \in Loops : ~Working(l)
  BY <1>1 DEF Replacing, Stage
<1>3. \A l \in Loops : (Live(l)' <=> Live(l)) /\ (Working(l)' <=> Working(l))
  BY <1>1 DEF Live, Working
<1>4. Flagged' /\ Reachable'
  BY <1>1, <1>2, <1>3 DEF Replacing, Flagged, Reachable
<1>5. OnePair' /\ OnlyCurrent'
  BY <1>2, <1>3 DEF OnePair, OnlyCurrent
<1>6. CASE cfg # Off
  <2> DEFINE x == [at |-> "launch", cfg |-> cfg]
  <2>1. restart' = [restart EXCEPT ![r] = x] /\ x # Idle
    BY <1>6 DEF GetConfig, Idle
  <2>2. restart'[r] = x
    BY <2>1 DEF IInv, Flags
  <2>3. Stage(r)'
    BY <1>1, <1>2, <1>3, <1>6, <2>2 DEF Stage
  <2> HIDE DEF x
  <2> QED
    BY <1>1, <1>4, <1>5, <2>1, <2>3, RestartStep
<1>7. CASE cfg = Off
  <2>1. restart' = [restart EXCEPT ![r] = Idle] /\ restart[r] # Idle
    BY <1>1, <1>7 DEF GetConfig, Idle
  <2>2. Alone' /\ \A q \in Restarters : restart'[q] = Idle /\ Idle.at = "idle"
    BY <2>1, OneRestart DEF Replacing, Idle
  <2>3. \A q \in Restarters : Stage(q)'
    BY <2>2 DEF Stage
  <2>4. Served'
    BY <1>1, <1>2, <1>5, <1>7 DEF Served
  <2> QED
    BY <1>4, <1>5, <2>2, <2>3, <2>4 DEF Replacing
<1> QED
  BY <1>6, <1>7

LEMMA LaunchReplaces ==
  ASSUME IInv, Replacing, NEW r \in Restarters, NEW l \in Loops, Launch(r, l)
  PROVE  Replacing'
<1>1. /\ restart[r].at = "launch" /\ ~Live(l) /\ cancel' = l /\ cfg' = cfg /\ silent' = silent
      /\ restart' = [restart EXCEPT ![r] = Idle] /\ restart[r] # Idle
  BY DEF Launch, StartPolling, Idle
<1>2. /\ cancel = None /\ (\A k \in Loops : ~Working(k)) /\ restart[r].cfg # Off
      /\ silent \/ restart[r].cfg = cfg
  BY <1>1 DEF Replacing, Stage
<1>3. loop'[l] = Fresh(restart[r].cfg) /\ \A k \in Loops \ {l} : loop'[k] = loop[k]
  BY DEF Launch, StartPolling, IInv, LoopsGood
<1>4. Live(l)' /\ ~loop'[l].cancelled /\ ~loop'[l].late /\ loop'[l].cfg = restart[r].cfg /\ l # None
  BY <1>3, FreshLives DEF Live
<1>5. \A k \in Loops \ {l} : (Live(k)' <=> Live(k)) /\ ~Working(k)'
  BY <1>2, <1>3 DEF Live, Working
<1>6. Flagged'
  <2>1. \A k \in Loops \ {l} : Live(k) => loop[k].cancelled
    BY <1>2 DEF Replacing, Flagged, IInv, Flags
  <2>2. Flagged
    BY DEF Replacing
  <2>3. ASSUME NEW k \in Loops \ {l}
        PROVE  /\ loop'[k].late => loop'[k].cancelled
               /\ loop'[k].cancelled => Live(k)'
               /\ Live(k)' => loop'[k].cancelled
    BY <1>3, <1>5, <2>1, <2>2 DEF Flagged
  <2>4. ASSUME NEW k \in Loops
        PROVE  /\ loop'[k].late => loop'[k].cancelled
               /\ loop'[k].cancelled => Live(k)'
               /\ Live(k)' => loop'[k].cancelled \/ cancel' = k
    <3>1. CASE k = l
      BY <1>1, <1>4, <3>1
    <3>2. CASE k # l
      BY <2>3, <3>2
    <3> QED
      BY <3>1, <3>2
  <2> QED
    BY <2>4 DEF Flagged
<1>7. Reachable' /\ OnePair' /\ OnlyCurrent'
  BY <1>1, <1>4, <1>5 DEF Reachable, OnePair, OnlyCurrent
<1>8. Alone' /\ \A q \in Restarters : restart'[q] = Idle /\ Idle.at = "idle"
  BY <1>1, OneRestart DEF Replacing, Idle
<1>9. \A q \in Restarters : Stage(q)'
  BY <1>8 DEF Stage
<1>10. Served'
  BY <1>1, <1>2, <1>4, <1>7 DEF Served
<1> QED
  BY <1>6, <1>7, <1>8, <1>9, <1>10 DEF Replacing

\* A process that starts has one pair, or none when the channel is off.
Started ==
  /\ AllIdle
  /\ \E l \in Loops : cancel = Booted(l).cancel /\ loop = Booted(l).loop

LEMMA StartedReplaces == Started => Replacing
<1> SUFFICES ASSUME AllIdle, NEW l \in Loops, cancel = Booted(l).cancel, loop = Booted(l).loop
             PROVE  Replacing
  BY DEF Started
<1>1. /\ \A k \in Loops : cfg # Off /\ k = l => loop[k] = Fresh(cfg)
      /\ \A k \in Loops : cfg = Off \/ k # l => loop[k] = Dead
      /\ cancel = IF cfg # Off THEN l ELSE None
  BY DEF Booted
<1>2. \A k \in Loops :
        /\ ~loop[k].cancelled /\ ~loop[k].late
        /\ Live(k) <=> cfg # Off /\ k = l
        /\ Live(k) => loop[k].cfg = cfg
  BY <1>1, FreshLives DEF Live
<1>3. l # None
  BY TelegramAssumption
<1>4. Flagged /\ Reachable /\ OnePair /\ OnlyCurrent
  BY <1>1, <1>2, <1>3 DEF Flagged, Reachable, OnePair, OnlyCurrent, Working
<1>5. Alone /\ Served
  BY <1>1, <1>2, <1>3, <1>4 DEF Alone, Served, AllIdle
<1>6. \A r \in Restarters : Stage(r)
  <2>1. \A r \in Restarters : restart[r].at = "idle"
    BY DEF AllIdle, Idle
  <2> QED
    BY <2>1 DEF Stage
<1> QED
  BY <1>4, <1>5, <1>6 DEF Replacing

LEMMA RestartingReplaces ==
  ASSUME IInv, RestartInv, Restarting
  PROVE  RestartInv'
<1>1. ASSUME NEW l \in Loops, Reboot(l) PROVE Replacing'
  <2>1. Started' => Replacing'
    BY StartedReplaces, PTL
  <2>2. Started'
    BY <1>1 DEF Started, AllIdle, Reboot, Booted, IInv, Flags
  <2> QED
    BY <2>1, <2>2
<1>2. ASSUME NEW r \in Restarters, RestartStops(r), Replacing PROVE Replacing'
  BY <1>2, StopReplaces DEF RestartStops, Replacing, Stage
<1>3. ASSUME NEW r \in Restarters, Start(r), Replacing PROVE Replacing'
  <2>1. restart[r].at = "start" /\ OnlyCurrent /\ Stop(r, "wait again", "get")
    BY <1>3 DEF Start, Replacing, Stage, OnlyCurrent
  <2> QED
    BY <1>3, <2>1, StopReplaces
<1>4. ASSUME NEW r \in Restarters,
             RestartStops(r) \/ Waited(r) \/ TimedOut(r) \/ Start(r) \/ GetConfig(r)
      PROVE  RestartInv'
  <2>1. crossed' = crossed
    BY <1>4 DEF RestartStops, Waited, TimedOut, Start, GetConfig, Stop
  <2>2. ASSUME Replacing PROVE Replacing'
    BY <1>2, <1>3, <1>4, <2>2, WaitReplaces, GetReplaces
  <2> QED
    BY <2>1, <2>2 DEF RestartInv
<1>5. ASSUME NEW r \in Restarters, NEW l \in Loops, Launch(r, l) PROVE RestartInv'
  <2>1. crossed' = crossed
    BY <1>5 DEF Launch
  <2>2. Replacing => Replacing'
    BY <1>5, LaunchReplaces
  <2> QED
    BY <2>1, <2>2 DEF RestartInv
<1>6. ASSUME NEW c \in Configs, SaveOnly(c) PROVE RestartInv'
  <2>1. crossed' = crossed
    BY <1>6 DEF SaveOnly
  <2>2. Replacing => Replacing'
    BY <1>6, SilentSaveReplaces
  <2> QED
    BY <2>1, <2>2 DEF RestartInv
<1> QED
  BY <1>1, <1>4, <1>5, <1>6, SaveReplaces DEF Restarting, RestartInv

-----------------------------------------------------------------------------
(* The two goroutines of a pair leave the restarts alone.                  *)

\* A pair that goes on stays what it is to a restart.
SamePair(p, q) ==
  /\ (p.poll # "none" \/ p.note # "none") <=> (q.poll # "none" \/ q.note # "none")
  /\ p.cancelled = q.cancelled /\ p.late = q.late /\ p.cfg = q.cfg

LEMMA OneGoesOn ==
  ASSUME IInv, Replacing, UNCHANGED <<cfg, silent, restart, cancel>>, NEW l \in Loops, NEW p,
         loop' = [loop EXCEPT ![l] = p],
         SamePair(p, loop[l]) \/ (loop[l].cancelled /\ p = Dead)
  PROVE  Replacing'
<1>1. loop'[l] = p /\ \A k \in Loops \ {l} : loop'[k] = loop[k]
  BY DEF IInv, LoopsGood
<1>2. \A k \in Loops \ {l} : Live(k)' <=> Live(k)
  BY <1>1 DEF Live
<1>3. CASE SamePair(p, loop[l])
  <2>1. /\ Live(l)' <=> Live(l)
        /\ loop'[l].cancelled = loop[l].cancelled
        /\ loop'[l].late = loop[l].late /\ loop'[l].cfg = loop[l].cfg
    BY <1>1, <1>3 DEF SamePair, Live
  <2> DEFINE S == {}
  <2>2. S \in SUBSET Loops
    OBVIOUS
  <2>3. \A k \in Loops \ S : /\ Live(k)' <=> Live(k)
                             /\ loop'[k].cancelled = loop[k].cancelled
                             /\ loop'[k].late = loop[k].late /\ loop'[k].cfg = loop[k].cfg
    BY <1>1, <1>2, <2>1
  <2>4. \A k \in S : loop[k].cancelled /\ loop'[k] = Dead
    OBVIOUS
  <2> HIDE DEF S
  <2> QED
    BY <2>2, <2>3, <2>4, PairsStep
<1>4. CASE loop[l].cancelled /\ p = Dead
  <2> DEFINE S == {l}
  <2>2. S \in SUBSET Loops
    OBVIOUS
  <2>3. \A k \in Loops \ S : /\ Live(k)' <=> Live(k)
                             /\ loop'[k].cancelled = loop[k].cancelled
                             /\ loop'[k].late = loop[k].late /\ loop'[k].cfg = loop[k].cfg
    BY <1>1, <1>2
  <2>4. \A k \in S : loop[k].cancelled /\ loop'[k] = Dead
    BY <1>1, <1>4
  <2> HIDE DEF S
  <2> QED
    BY <2>2, <2>3, <2>4, PairsStep
<1> QED
  BY <1>3, <1>4

LEMMA AllGoOn ==
  ASSUME IInv, Replacing, UNCHANGED <<cfg, silent, restart, cancel>>,
         \A l \in Loops : SamePair(loop'[l], loop[l])
  PROVE  Replacing'
<1> DEFINE S == {}
<1>1. S \in SUBSET Loops
  OBVIOUS
<1>2. \A k \in Loops \ S : /\ Live(k)' <=> Live(k)
                           /\ loop'[k].cancelled = loop[k].cancelled
                           /\ loop'[k].late = loop[k].late /\ loop'[k].cfg = loop[k].cfg
  BY DEF SamePair, Live
<1>3. \A k \in S : loop[k].cancelled /\ loop'[k] = Dead
  OBVIOUS
<1> HIDE DEF S
<1> QED
  BY <1>1, <1>2, <1>3, PairsStep

\* Where the first goroutine stands, if it runs, does not matter to a restart.
LEMMA PlaceDoesNotMatter ==
  ASSUME NEW q \in Pair, q.poll # "none", NEW a \in {"poll", "batch", "answer"}, NEW n, NEW m
  PROVE  SamePair([q EXCEPT !.poll = a, !.next = n, !.last = m], q)
BY DEF SamePair, Pair

LEMMA PollingReplaces == ASSUME IInv, Replacing, Polling PROVE Replacing'
<1>1. UNCHANGED <<cfg, silent, restart, cancel>> /\ loop \in [Loops -> Pair]
  BY DEF Polling, Arrives, GetUpdates, PollEnds, Skip, Command, Handle, Answer, AnswerEnds,
         IInv, LoopsGood
<1>2. CASE loop' = loop
  BY <1>1, <1>2, AllGoOn DEF SamePair
<1>3. ASSUME NEW l \in Loops, NEW last \in 0 .. MaxUpdates, GetUpdates(l, last)
      PROVE  Replacing'
  <2> DEFINE p == [loop[l] EXCEPT !.poll = "batch", !.next = confirmed' + 1, !.last = last]
  <2>1. loop' = loop \/ loop' = [loop EXCEPT ![l] = p]
    BY <1>1, <1>3 DEF GetUpdates
  <2>2. SamePair(p, loop[l])
    BY <1>1, <1>3, PlaceDoesNotMatter DEF GetUpdates
  <2> HIDE DEF p
  <2> QED
    BY <1>1, <1>2, <2>1, <2>2, OneGoesOn
<1>4. ASSUME NEW l \in Loops, Skip(l) \/ Command(l) \/ Answer(l) PROVE Replacing'
  <2>1. loop' = [loop EXCEPT ![l] = Moved(l)] /\ loop[l].poll # "none"
    BY <1>4 DEF Skip, Command, Answer
  <2>2. SamePair(Moved(l), loop[l])
    BY <1>1, <2>1 DEF SamePair, Moved, Pair
  <2> QED
    BY <1>1, <2>1, <2>2, OneGoesOn
<1>5. ASSUME NEW l \in Loops, Handle(l) PROVE Replacing'
  <2> DEFINE p == [loop[l] EXCEPT !.poll = "answer"]
  <2>1. loop' = [loop EXCEPT ![l] = p] /\ loop[l].poll # "none"
    BY <1>1, <1>5 DEF Handle
  <2>2. SamePair(p, loop[l])
    BY <1>1, <2>1 DEF SamePair, Pair
  <2> HIDE DEF p
  <2> QED
    BY <1>1, <2>1, <2>2, OneGoesOn
<1>6. ASSUME NEW l \in Loops, PollEnds(l) \/ AnswerEnds(l) PROVE Replacing'
  <2> DEFINE p == Ended(loop[l])
  <2>1. loop' = [loop EXCEPT ![l] = p] /\ loop[l].poll # "none" /\ loop[l].cancelled
    BY <1>1, <1>6 DEF PollEnds, AnswerEnds
  <2>2. SamePair(p, loop[l]) \/ p = Dead
    BY <1>1, <2>1 DEF Ended, SamePair, Pair
  <2> HIDE DEF p
  <2> QED
    BY <1>1, <2>1, <2>2, OneGoesOn
<1>7. ASSUME Arrives PROVE loop' = loop
  BY <1>7 DEF Arrives
<1> QED
  BY <1>2, <1>3, <1>4, <1>5, <1>6, <1>7 DEF Polling

LEMMA NotesReplace ==
  ASSUME IInv, Replacing, ResultComes \/ \E l \in Loops : Deliver(l) \/ NotesEnd(l)
  PROVE  Replacing'
<1>1. UNCHANGED <<cfg, silent, restart, cancel>> /\ loop \in [Loops -> Pair]
  BY DEF ResultComes, Deliver, NotesEnd, IInv, LoopsGood
<1>2. CASE ResultComes
  <2>1. \A l \in Loops : loop'[l] = IF loop[l].note = "idle"
                                    THEN [loop[l] EXCEPT !.note = "due"] ELSE loop[l]
    BY <1>2 DEF ResultComes
  <2>2. ASSUME NEW q \in Pair, q.note = "idle" PROVE SamePair([q EXCEPT !.note = "due"], q)
    BY <2>2 DEF SamePair, Pair
  <2>3. \A l \in Loops : SamePair(loop[l], loop[l])
    BY DEF SamePair
  <2>4. \A l \in Loops : SamePair(loop'[l], loop[l])
    BY <1>1, <2>1, <2>2, <2>3
  <2> QED
    BY <1>1, <2>4, AllGoOn
<1>3. ASSUME NEW l \in Loops, Deliver(l) PROVE Replacing'
  <2> DEFINE p == [loop[l] EXCEPT !.note = "idle"]
  <2>1. loop' = [loop EXCEPT ![l] = p] /\ loop[l].note # "none"
    BY <1>1, <1>3 DEF Deliver
  <2>2. SamePair(p, loop[l])
    BY <1>1, <2>1 DEF SamePair, Pair
  <2> HIDE DEF p
  <2> QED
    BY <1>1, <2>1, <2>2, OneGoesOn
<1>4. ASSUME NEW l \in Loops, NotesEnd(l) PROVE Replacing'
  <2> DEFINE p == IF loop[l].poll = "none" THEN Dead ELSE [loop[l] EXCEPT !.note = "none"]
  <2>1. loop' = [loop EXCEPT ![l] = p] /\ loop[l].note # "none" /\ loop[l].cancelled
    BY <1>1, <1>4 DEF NotesEnd
  <2>2. SamePair(p, loop[l]) \/ p = Dead
    BY <1>1, <2>1 DEF SamePair, Pair
  <2> HIDE DEF p
  <2> QED
    BY <1>1, <2>1, <2>2, OneGoesOn
<1> QED
  BY <1>2, <1>3, <1>4

LEMMA RestartInvIsInductive == IInv /\ RestartInv /\ [Next]_vars => RestartInv'
<1> SUFFICES ASSUME IInv, RestartInv, [Next]_vars PROVE RestartInv'
  OBVIOUS
<1>1. CASE UNCHANGED vars
  <2>1. UNCHANGED <<cfg, silent, restart, cancel>> /\ loop' = loop /\ crossed' = crossed
    BY <1>1 DEF vars
  <2>2. Replacing => Replacing'
    BY <2>1, AllGoOn DEF SamePair
  <2> QED
    BY <2>1, <2>2 DEF RestartInv
<1>2. CASE Polling
  <2>1. crossed' = crossed
    BY <1>2 DEF Polling, Arrives, GetUpdates, PollEnds, Skip, Command, Handle, Answer, AnswerEnds
  <2>2. Replacing => Replacing'
    BY <1>2, PollingReplaces
  <2> QED
    BY <2>1, <2>2 DEF RestartInv
<1>3. CASE ResultComes \/ \E l \in Loops : Deliver(l) \/ NotesEnd(l)
  <2>1. crossed' = crossed
    BY <1>3 DEF ResultComes, Deliver, NotesEnd
  <2>2. Replacing => Replacing'
    BY <1>3, NotesReplace
  <2> QED
    BY <2>1, <2>2 DEF RestartInv
<1>4. CASE Restarting
  BY <1>4, RestartingReplaces
<1> QED
  BY <1>1, <1>2, <1>3, <1>4 DEF Next

\* While restarts do not overlap, a pair is alone but for those Stop has given up waiting
\* for, each can be stopped or is being so, and when all is quiet the pair the settings ask
\* for is there, unless a save without a restart has changed them since they were read.
THEOREM RestartsReplace == Spec => []RestartReplaces
<1>1. Init => RestartInv
  <2>1. Init => Started
    BY DEF Init, Started, AllIdle
  <2> QED
    BY <2>1, StartedReplaces DEF RestartInv
<1>2. RestartInv => RestartReplaces
  BY ReplacingSuffices DEF RestartInv, RestartReplaces
<1> QED
  BY <1>1, <1>2, Invariant, RestartInvIsInductive, PTL DEF Spec

-----------------------------------------------------------------------------
(* Delivery.                                                               *)

USE DeliveryAssumption

\* The goroutines and the queues, one part for each.
WebGood ==
  /\ web \in [at : {"idle", "create", "post", "send"}, ev : Event \cup {NoEvent}, left : SUBSET People]
  /\ web.at # "idle" => web.ev \in Event

Badges == {"none", "counts it", "misses it", "zero"}

PushGood ==
  /\ push \in [at : {"idle", "badge", "send"}, ev : Event \cup {NoEvent},
               left : SUBSET Users, user : People, list : SUBSET Devices, badge : Badges]
  /\ push.at # "idle" => push.ev \in Event

QueuesGood ==
  /\ note \in Event \cup {NoEvent}
  /\ webq \in Seq(Event) /\ Len(webq) <= Capacity
  /\ pushq \in Seq(Event) /\ Len(pushq) <= Capacity

TablesGood ==
  /\ users \subseteq Users
  /\ unread \subseteq Row /\ seen \subseteq Numbers
  /\ phone \in [Devices -> People]

HandledGood == told \subseteq People /\ done \subseteq People /\ failed \subseteq People

DeliveryTypes == WebGood /\ PushGood /\ QueuesGood /\ TablesGood /\ HandledGood

\* A message that the dispatcher has not counted yet has its row, or its recipient saw it.
Counted(ev, rows, read) ==
  ev.kind = "message" =>
    /\ ~ev.all
    /\ \A u \in ev.to : [n |-> ev.n, user |-> u] \in rows \/ ev.n \in read

BadgesGood ==
  /\ \A ev \in {note} \cup Range(pushq) : Counted(ev, unread, seen)
  /\ push.at # "idle" /\ push.ev.kind = "message" => push.left \subseteq push.ev.to
  /\ push.at # "idle" /\ push.left # {} => Counted(push.ev, unread, seen)

DeliveryInv == DeliveryTypes /\ NothingVanishes /\ BadgesGood /\ BadgeCountsMessage

LEMMA DeliveryInvTyped == DeliveryInv => DeliveryTypeOK
BY DEF Badges, DeliveryInv, DeliveryTypes, WebGood, PushGood, QueuesGood, TablesGood, HandledGood, DeliveryTypeOK

-----------------------------------------------------------------------------
(* Events and queues.                                                      *)

LEMMA NoEventIsNone ==
  /\ NoEvent.n = Nobody /\ NoEvent.kind = "none" /\ Nobody \notin Numbers
  /\ Nobody \in People /\ Users \subseteq People
  /\ WebIdle.at = "idle" /\ WebIdle.ev = NoEvent /\ WebIdle.left = {}
  /\ PushIdle.at = "idle" /\ PushIdle.ev = NoEvent /\ PushIdle.left = {} /\ PushIdle.user = Nobody
  /\ PushIdle.list = {} /\ PushIdle.badge = "none"
BY DEF NoEvent, People, WebIdle, PushIdle

LEMMA IdleIsTyped ==
  /\ WebIdle \in [at : {"idle", "create", "post", "send"}, ev : Event \cup {NoEvent}, left : SUBSET People]
  /\ PushIdle \in [at : {"idle", "badge", "send"}, ev : Event \cup {NoEvent},
                   left : SUBSET Users, user : People, list : SUBSET Devices, badge : Badges]
BY DEF WebIdle, PushIdle, People, Badges

\* Bus.Publish to one queue.
LEMMA Queued ==
  ASSUME NEW q \in Seq(Event), Len(q) <= Capacity, NEW ev \in Event,
         NEW p, p = IF Len(q) < Capacity THEN Append(q, ev) ELSE q
  PROVE  p \in Seq(Event) /\ Len(p) <= Capacity /\ Range(p) \subseteq Range(q) \cup {ev}
<1>1. CASE Len(q) < Capacity
  <2>1. /\ p \in Seq(Event) /\ Len(p) = Len(q) + 1
        /\ \A i \in 1 .. Len(q) : p[i] = q[i]
        /\ p[Len(q) + 1] = ev
    BY <1>1, AppendProperties
  <2>2. Len(q) \in Nat /\ DOMAIN p = 1 .. Len(p) /\ DOMAIN q = 1 .. Len(q)
    BY <2>1, LenProperties
  <2>3. \A i \in DOMAIN p : p[i] \in Range(q) \cup {ev}
    BY <2>1, <2>2 DEF Range
  <2> QED
    BY <1>1, <2>1, <2>2, <2>3 DEF Range
<1>2. CASE ~(Len(q) < Capacity)
  BY <1>2
<1> QED
  BY <1>1, <1>2

\* The first event of a queue is taken.
LEMMA Taken ==
  ASSUME NEW q \in Seq(Event), q # <<>>
  PROVE  /\ Head(q) \in Event /\ Head(q) \in Range(q)
         /\ Tail(q) \in Seq(Event) /\ Len(Tail(q)) <= Len(q) /\ Range(Tail(q)) \subseteq Range(q)
<1>1. /\ Head(q) \in Event /\ Head(q) = q[1]
      /\ Tail(q) \in Seq(Event) /\ Len(Tail(q)) = Len(q) - 1
      /\ \A i \in 1 .. Len(Tail(q)) : Tail(q)[i] = q[i + 1]
  BY HeadTailProperties
<1>2. /\ Len(q) \in Nat \ {0} /\ DOMAIN q = 1 .. Len(q)
      /\ DOMAIN Tail(q) = 1 .. Len(Tail(q))
  BY <1>1, LenProperties, EmptySeq
<1>3. 1 \in DOMAIN q
  BY <1>2
<1>4. \A i \in DOMAIN Tail(q) : i + 1 \in DOMAIN q /\ Tail(q)[i] = q[i + 1]
  BY <1>1, <1>2
<1> QED
  BY <1>1, <1>2, <1>3, <1>4 DEF Range

LEMMA MessageIsEvent ==
  ASSUME NEW u \in Users, NEW n \in Numbers
  PROVE  /\ Message(u, n) \in Event /\ Message(u, n).n = n /\ Message(u, n).kind = "message"
         /\ ~Message(u, n).all /\ Message(u, n).to = {u}
BY DEF Message, Event, People

LEMMA EventFields ==
  ASSUME NEW ev \in Event
  PROVE  /\ ev.n \in Numbers /\ ev.kind \in {"task", "message"} /\ ev.owner \in People
         /\ ev.to \subseteq Users /\ ev.all \in BOOLEAN
BY DEF Event

\* What is forgotten is nobody's business any more.
LEMMA ForgetKeeps ==
  ASSUME Forget, TablesGood
  PROVE  /\ unread' \subseteq unread /\ seen' \subseteq seen
         /\ \A ev \in Pending' : Counted(ev, unread, seen) => Counted(ev, unread', seen')
         /\ \A ev \in Pending' : ev.n \in seen => ev.n \in seen'
<1>1. unread' = {r \in unread : r.n \in InUse'} /\ seen' = seen \cap InUse'
  BY DEF Forget
<1>2. ASSUME NEW ev \in Pending', Counted(ev, unread, seen) PROVE Counted(ev, unread', seen')
  <2>1. ev.n \in InUse'
    BY <1>2 DEF InUse
  <2> QED
    BY <1>1, <1>2, <2>1 DEF Counted
<1>3. \A ev \in Pending' : ev.n \in seen => ev.n \in seen'
  BY <1>1 DEF InUse
<1> QED
  BY <1>1, <1>2, <1>3

LEMMA RowsGrow ==
  ASSUME unread \subseteq unread', seen \subseteq seen'
  PROVE  \A ev : Counted(ev, unread, seen) => Counted(ev, unread', seen')
BY DEF Counted

LEMMA TouchKeeps ==
  ASSUME NEW rs, Touch(rs)
  PROVE  \A ev : Counted(ev, unread, seen) => Counted(ev, unread', seen')
<1>1. unread' = unread \ rs /\ seen' = seen \cup {r.n : r \in rs}
  BY DEF Touch
<1> SUFFICES ASSUME NEW ev, Counted(ev, unread, seen), ev.kind = "message", NEW u \in ev.to
             PROVE  ~ev.all /\ ([n |-> ev.n, user |-> u] \in unread' \/ ev.n \in seen')
  BY DEF Counted
<1>2. CASE [n |-> ev.n, user |-> u] \in rs
  <2>1. [n |-> ev.n, user |-> u].n \in {r.n : r \in rs}
    BY <1>2
  <2> QED
    BY <1>1, <2>1 DEF Counted
<1>3. CASE [n |-> ev.n, user |-> u] \notin rs
  BY <1>1, <1>3 DEF Counted
<1> QED
  BY <1>2, <1>3

-----------------------------------------------------------------------------
(* The invariant.                                                          *)

\* The dispatcher and its queue stand still.
LEMMA BadgesStay ==
  ASSUME BadgesGood, BadgeCountsMessage, UNCHANGED <<note, pushq, push>>,
         \A ev \in {note, push.ev} \cup Range(pushq) :
           /\ Counted(ev, unread, seen) => Counted(ev, unread', seen')
           /\ ev.n \in seen => ev.n \in seen'
  PROVE  BadgesGood' /\ BadgeCountsMessage'
BY DEF BadgesGood, BadgeCountsMessage

LEMMA ResultStep ==
  ASSUME DeliveryInv, NEW t \in Results, NEW n \in Numbers, NotifyResult(t, n)
  PROVE  DeliveryInv'
<1> DEFINE e == [n |-> n, kind |-> "task", owner |-> t.owner, to |-> t.to, all |-> t.all]
<1>1. t \in Task
  OBVIOUS
<1>2. e \in Event /\ e.kind = "task"
  BY <1>1 DEF Task, Event
<1> HIDE DEF e
<1>3. Publish(e) /\ UNCHANGED <<users, note, web, push, unread, phone, handled, seen>>
  BY DEF NotifyResult, e
<1>4. /\ webq' \in Seq(Event) /\ Len(webq') <= Capacity
      /\ pushq' \in Seq(Event) /\ Len(pushq') <= Capacity
      /\ Range(pushq') \subseteq Range(pushq) \cup {e}
  BY <1>2, <1>3, Queued DEF Publish, DeliveryInv, DeliveryTypes, QueuesGood
<1>5. DeliveryTypes'
  BY <1>3, <1>4 DEF DeliveryInv, DeliveryTypes, WebGood, PushGood, QueuesGood, TablesGood,
                    HandledGood, handled
<1>6. NothingVanishes'
  BY <1>3 DEF DeliveryInv, NothingVanishes, handled
<1>7. BadgesGood' /\ BadgeCountsMessage'
  BY <1>2, <1>3, <1>4 DEF DeliveryInv, BadgesGood, BadgeCountsMessage, Counted
<1> QED
  BY <1>5, <1>6, <1>7 DEF DeliveryInv

LEMMA NoteStep ==
  ASSUME DeliveryInv, NEW u \in Users, NEW n \in Numbers, NotifyUser(u, n)
  PROVE  DeliveryInv'
<1>1. /\ note' = Message(u, n) /\ unread' = unread \cup {[n |-> n, user |-> u]}
      /\ UNCHANGED <<users, webq, pushq, web, push, phone, handled, seen>>
  BY DEF NotifyUser, queues
<1>2. [n |-> n, user |-> u] \in Row
  BY DEF Row, People
<1>3. DeliveryTypes'
  BY <1>1, <1>2, MessageIsEvent DEF DeliveryInv, DeliveryTypes, WebGood, PushGood, QueuesGood,
                                    TablesGood, HandledGood, handled
<1>4. NothingVanishes'
  BY <1>1 DEF DeliveryInv, NothingVanishes, handled
<1>5. \A ev : Counted(ev, unread, seen) => Counted(ev, unread', seen')
  BY <1>1, RowsGrow
<1>6. Counted(note', unread', seen')
  BY <1>1, MessageIsEvent DEF Counted
<1>7. BadgesGood' /\ BadgeCountsMessage'
  BY <1>1, <1>5, <1>6 DEF DeliveryInv, BadgesGood, BadgeCountsMessage
<1> QED
  BY <1>3, <1>4, <1>7 DEF DeliveryInv

LEMMA PublishStep ==
  ASSUME DeliveryInv, PublishNote
  PROVE  DeliveryInv'
<1>1. /\ note \in Event /\ note' = NoEvent /\ Publish(note) /\ Forget
      /\ UNCHANGED <<users, web, push, phone, handled>>
  BY DEF PublishNote, DeliveryInv, DeliveryTypes, QueuesGood
<1>2. /\ webq' \in Seq(Event) /\ Len(webq') <= Capacity
      /\ pushq' \in Seq(Event) /\ Len(pushq') <= Capacity
      /\ Range(pushq') \subseteq Range(pushq) \cup {note}
  BY <1>1, Queued DEF Publish, DeliveryInv, DeliveryTypes, QueuesGood
<1>3. unread' \subseteq unread /\ seen' \subseteq seen
  BY <1>1, ForgetKeeps DEF DeliveryInv, DeliveryTypes
<1>4. DeliveryTypes'
  BY <1>1, <1>2, <1>3 DEF DeliveryInv, DeliveryTypes, WebGood, PushGood, QueuesGood, TablesGood,
                          HandledGood, handled
<1>5. NothingVanishes'
  BY <1>1 DEF DeliveryInv, NothingVanishes, handled
<1>6. /\ \A ev \in Pending' : Counted(ev, unread, seen) => Counted(ev, unread', seen')
      /\ \A ev \in Pending' : ev.n \in seen => ev.n \in seen'
  BY <1>1, ForgetKeeps DEF DeliveryInv, DeliveryTypes
<1>7. push.ev \in Pending' /\ Range(pushq') \subseteq Pending'
  BY <1>1 DEF Pending
<1>8. Counted(note', unread', seen')
  BY <1>1, NoEventIsNone DEF Counted
<1>9. BadgesGood' /\ BadgeCountsMessage'
  BY <1>1, <1>2, <1>6, <1>7, <1>8 DEF DeliveryInv, BadgesGood, BadgeCountsMessage
<1> QED
  BY <1>4, <1>5, <1>9 DEF DeliveryInv

\* The users and their phones.
LEMMA PhoneStep ==
  ASSUME DeliveryInv, NEW u \in Users,
         DeleteUser(u) \/ Unregister(u) \/ \E d \in Devices : Register(u, d)
  PROVE  DeliveryInv'
<1>1. UNCHANGED <<note, webq, pushq, web, push, unread, handled, seen>>
  BY DEF DeleteUser, Unregister, Register, queues
<1>2. users' \subseteq Users /\ phone' \in [Devices -> People]
  BY DEF DeleteUser, Unregister, Register, DeliveryInv, DeliveryTypes, TablesGood, People
<1>3. DeliveryTypes'
  BY <1>1, <1>2 DEF DeliveryInv, DeliveryTypes, WebGood, PushGood, QueuesGood, TablesGood,
                    HandledGood, handled
<1>4. NothingVanishes'
  BY <1>1 DEF DeliveryInv, NothingVanishes, handled
<1>5. BadgesGood' /\ BadgeCountsMessage'
  BY <1>1, BadgesStay DEF DeliveryInv
<1> QED
  BY <1>3, <1>4, <1>5 DEF DeliveryInv

LEMMA TouchStep ==
  ASSUME DeliveryInv, NEW rs \in SUBSET unread, Touch(rs)
  PROVE  DeliveryInv'
<1>1. /\ UNCHANGED <<users, note, webq, pushq, web, push, phone, handled>>
      /\ unread' = unread \ rs /\ seen' = seen \cup {r.n : r \in rs}
  BY DEF Touch, queues
<1>2. \A r \in rs : r.n \in Numbers
  BY DEF DeliveryInv, DeliveryTypes, TablesGood, Row
<1>3. DeliveryTypes'
  BY <1>1, <1>2 DEF DeliveryInv, DeliveryTypes, WebGood, PushGood, QueuesGood, TablesGood,
                    HandledGood, handled
<1>4. NothingVanishes'
  BY <1>1 DEF DeliveryInv, NothingVanishes, handled
<1>5. BadgesGood' /\ BadgeCountsMessage'
  BY <1>1, TouchKeeps, BadgesStay DEF DeliveryInv
<1> QED
  BY <1>3, <1>4, <1>5 DEF DeliveryInv

LEMMA UserStep == ASSUME DeliveryInv, User PROVE DeliveryInv'
<1>1. ASSUME NEW r \in unread, MarkRead(r) PROVE DeliveryInv'
  BY <1>1, TouchStep DEF MarkRead
<1>2. ASSUME NEW u \in Users, MarkAllRead(u) PROVE DeliveryInv'
  BY <1>2, TouchStep DEF MarkAllRead, Unread
<1>3. ASSUME NEW u \in Users, NEW deleted, MarkTaskNotificationsRead(u, deleted) PROVE DeliveryInv'
  <2>1. {r \in Unread(u) : r.n \notin deleted} \in SUBSET unread
    BY DEF Unread
  <2> QED
    BY <1>3, <2>1, TouchStep DEF MarkTaskNotificationsRead
<1> QED
  BY <1>1, <1>2, <1>3, NoteStep, PublishStep, PhoneStep DEF User

\* The web channel's goroutine takes an event.
LEMMA TakeStep ==
  ASSUME DeliveryInv, TakeResult \/ TakeMessage
  PROVE  DeliveryInv'
<1> DEFINE e == Head(webq)
<1>1. /\ web = WebIdle /\ webq # <<>> /\ webq' = Tail(webq)
      /\ web'.ev = e /\ web'.left = told' /\ web'.at \in {"create", "post"}
      /\ web' = [at |-> web'.at, ev |-> web'.ev, left |-> web'.left]
      /\ UNCHANGED <<users, note, pushq, push, unread, phone, done, failed, seen>>
  BY DEF TakeResult, TakeMessage
<1>2. e \in Event /\ webq' \in Seq(Event) /\ Len(webq') <= Capacity
  BY <1>1, Taken, LenProperties DEF DeliveryInv, DeliveryTypes, QueuesGood
<1>3. told' \in Recipients(e) \/ told' = e.to
  BY DEF TakeResult, TakeMessage
<1> HIDE DEF e
<1>4. told' \subseteq People
  BY <1>2, <1>3, EventFields, NoEventIsNone DEF Recipients, DeliveryInv, DeliveryTypes, TablesGood
<1>5. WebGood'
  BY <1>1, <1>2, <1>4 DEF WebGood
<1>6. DeliveryTypes'
  BY <1>1, <1>2, <1>4, <1>5 DEF DeliveryInv, DeliveryTypes, PushGood, QueuesGood, TablesGood, HandledGood
<1>7. NothingVanishes'
  BY <1>1 DEF NothingVanishes
<1>8. BadgesGood' /\ BadgeCountsMessage'
  BY <1>1, BadgesStay DEF DeliveryInv
<1> QED
  BY <1>6, <1>7, <1>8 DEF DeliveryInv

\* It goes from one recipient to the next.
LEMMA WebMoves ==
  ASSUME DeliveryInv, web.at # "idle", NEW at \in {"create", "post", "send"}, NEW left \in SUBSET People,
         web' = [web EXCEPT !.at = at, !.left = left]
  PROVE  WebGood' /\ web'.left = left
BY DEF DeliveryInv, DeliveryTypes, WebGood

LEMMA CreateStep ==
  ASSUME DeliveryInv, NEW u \in People, NEW ok \in BOOLEAN, Create(u, ok)
  PROVE  DeliveryInv'
<1>1. /\ web.at = "create" /\ web' = [web EXCEPT !.left = @ \ {u}] /\ CreateRow(u, ok)
      /\ UNCHANGED <<users, note, webq, pushq, push, phone, told, seen>>
  BY DEF Create, queues
<1>2. WebGood' /\ web'.left = web.left \ {u} /\ web.ev.n \in Numbers
  BY <1>1, EventFields DEF DeliveryInv, DeliveryTypes, WebGood
<1>3. [n |-> web.ev.n, user |-> u] \in Row
  BY <1>2 DEF Row
<1>4. /\ unread \subseteq unread' /\ unread' \subseteq Row
      /\ done' \subseteq People /\ failed' \subseteq People
      /\ done \cup failed \cup {u} \subseteq done' \cup failed'
  BY <1>1, <1>3 DEF CreateRow, DeliveryInv, DeliveryTypes, TablesGood, HandledGood
<1>5. DeliveryTypes'
  BY <1>1, <1>2, <1>4 DEF DeliveryInv, DeliveryTypes, PushGood, QueuesGood, TablesGood, HandledGood
<1>6. NothingVanishes'
  BY <1>1, <1>2, <1>4 DEF DeliveryInv, NothingVanishes
<1>7. BadgesGood' /\ BadgeCountsMessage'
  BY <1>1, <1>4, RowsGrow, BadgesStay DEF DeliveryInv
<1> QED
  BY <1>5, <1>6, <1>7 DEF DeliveryInv

LEMMA CreatedStep ==
  ASSUME DeliveryInv, Created \/ Fallback
  PROVE  DeliveryInv'
<1> DEFINE left == IF told = {} THEN {web.ev.owner} ELSE told
<1>1. /\ web.at = "create" /\ web' = [web EXCEPT !.at = "post", !.left = left]
      /\ done' = {} /\ failed' = {}
      /\ UNCHANGED <<users, note, webq, pushq, push, phone, told, seen>>
  BY DEF Created, Fallback, Posting, queues
<1>2. web.ev.n \in Numbers /\ web.ev.owner \in People /\ left \in SUBSET People /\ told \subseteq left
  BY <1>1, EventFields DEF DeliveryInv, DeliveryTypes, WebGood, HandledGood
<1> HIDE DEF left
<1>3. WebGood' /\ web'.left = left
  BY <1>1, <1>2, WebMoves
<1>4. [n |-> web.ev.n, user |-> web.ev.owner] \in Row
  BY <1>2 DEF Row
<1>5. unread \subseteq unread' /\ unread' \subseteq Row
  BY <1>4 DEF Created, Fallback, DeliveryInv, DeliveryTypes, TablesGood
<1>6. DeliveryTypes'
  BY <1>1, <1>3, <1>5 DEF DeliveryInv, DeliveryTypes, PushGood, QueuesGood, TablesGood, HandledGood
<1>7. NothingVanishes'
  BY <1>1, <1>2, <1>3 DEF NothingVanishes
<1>8. BadgesGood' /\ BadgeCountsMessage'
  BY <1>1, <1>5, RowsGrow, BadgesStay DEF DeliveryInv
<1> QED
  BY <1>6, <1>7, <1>8 DEF DeliveryInv

LEMMA PostStep ==
  ASSUME DeliveryInv, NEW u \in People, NEW ok \in BOOLEAN, Post(u, ok)
  PROVE  DeliveryInv'
<1>1. /\ web.at = "post" /\ web' = After(u)
      /\ UNCHANGED <<users, note, webq, pushq, push, unread, phone, told, seen>>
  BY DEF Post, AddPost, queues
<1>2. /\ done' \subseteq People /\ failed' \subseteq People
      /\ done \cup failed \cup {u} \subseteq done' \cup failed'
  BY DEF Post, AddPost, DeliveryInv, DeliveryTypes, HandledGood
<1>3. WebGood' /\ web'.left = web.left \ {u}
  <2> DEFINE at == IF web.left = {u} THEN "send" ELSE "post"
  <2>1. web' = [web EXCEPT !.at = at, !.left = web.left \ {u}]
    BY <1>1 DEF After, DeliveryInv, DeliveryTypes, WebGood
  <2>2. at \in {"create", "post", "send"} /\ web.left \ {u} \in SUBSET People
    BY DEF DeliveryInv, DeliveryTypes, WebGood
  <2> HIDE DEF at
  <2> QED
    BY <1>1, <2>1, <2>2, WebMoves
<1>4. DeliveryTypes'
  BY <1>1, <1>2, <1>3 DEF DeliveryInv, DeliveryTypes, PushGood, QueuesGood, TablesGood, HandledGood
<1>5. NothingVanishes'
  BY <1>1, <1>2, <1>3 DEF DeliveryInv, NothingVanishes
<1>6. BadgesGood' /\ BadgeCountsMessage'
  BY <1>1, BadgesStay DEF DeliveryInv
<1> QED
  BY <1>4, <1>5, <1>6 DEF DeliveryInv

LEMMA SentStep == ASSUME DeliveryInv, Sent PROVE DeliveryInv'
<1>1. /\ web' = WebIdle /\ told' = {} /\ done' = {} /\ failed' = {} /\ Forget
      /\ UNCHANGED <<users, note, webq, pushq, push, phone>>
  BY DEF Sent, Handled, queues
<1>2. /\ unread' \subseteq unread /\ seen' \subseteq seen
      /\ \A ev \in Pending' : Counted(ev, unread, seen) => Counted(ev, unread', seen')
      /\ \A ev \in Pending' : ev.n \in seen => ev.n \in seen'
  BY <1>1, ForgetKeeps DEF DeliveryInv, DeliveryTypes
<1>3. WebGood'
  BY <1>1, IdleIsTyped, NoEventIsNone DEF WebGood
<1>4. DeliveryTypes'
  BY <1>1, <1>2, <1>3 DEF DeliveryInv, DeliveryTypes, PushGood, QueuesGood, TablesGood, HandledGood
<1>5. NothingVanishes'
  BY <1>1 DEF NothingVanishes
<1>6. {note, push.ev} \cup Range(pushq) \subseteq Pending'
  BY <1>1 DEF Pending
<1>7. BadgesGood' /\ BadgeCountsMessage'
  BY <1>1, <1>2, <1>6, BadgesStay DEF DeliveryInv
<1> QED
  BY <1>4, <1>5, <1>7 DEF DeliveryInv

-----------------------------------------------------------------------------
(* The dispatcher.                                                         *)

\* It moves on: what it is about to count has its row, and what it shows was counted.
LEMMA DispatcherStep ==
  ASSUME DeliveryInv, Forget, UNCHANGED <<users, note, webq, web, handled>>,
         phone' \in [Devices -> People],
         pushq' \in Seq(Event), Len(pushq') <= Capacity, Range(pushq') \subseteq Range(pushq),
         PushGood',
         push'.at # "idle" /\ push'.ev.kind = "message" => push'.left \subseteq push'.ev.to,
         push'.at # "idle" /\ push'.left # {} => Counted(push'.ev, unread, seen),
         push'.at = "send" /\ push'.ev.kind = "message" => push'.badge \in {"counts it", "zero"} \/ push'.ev.n \in seen
  PROVE  DeliveryInv'
<1>1. /\ unread' \subseteq unread /\ seen' \subseteq seen
      /\ \A ev \in Pending' : Counted(ev, unread, seen) => Counted(ev, unread', seen')
      /\ \A ev \in Pending' : ev.n \in seen => ev.n \in seen'
  BY ForgetKeeps DEF DeliveryInv, DeliveryTypes
<1>2. DeliveryTypes'
  BY <1>1 DEF DeliveryInv, DeliveryTypes, WebGood, QueuesGood, TablesGood, HandledGood, handled
<1>3. NothingVanishes'
  BY DEF DeliveryInv, NothingVanishes, handled
<1>4. {note', push'.ev} \cup Range(pushq') \subseteq Pending'
  BY DEF Pending
<1>5. BadgesGood'
  <2>1. \A ev \in {note'} \cup Range(pushq') : Counted(ev, unread', seen')
    BY <1>1, <1>4 DEF DeliveryInv, BadgesGood
  <2>2. push'.at # "idle" /\ push'.left # {} => Counted(push'.ev, unread', seen')
    BY <1>1, <1>4
  <2> QED
    BY <2>1, <2>2 DEF BadgesGood
<1>6. BadgeCountsMessage'
  BY <1>1, <1>4 DEF BadgeCountsMessage
<1> QED
  BY <1>2, <1>3, <1>5, <1>6 DEF DeliveryInv

LEMMA TargetsAreUsers ==
  ASSUME NEW ev \in Event
  PROVE  Targets(ev) \subseteq Users /\ (ev.kind = "message" => Targets(ev) = ev.to)
BY EventFields DEF Targets, People

LEMMA TakePushStep == ASSUME DeliveryInv, TakePush PROVE DeliveryInv'
<1> DEFINE e == Head(pushq)
<1>1. /\ push = PushIdle /\ pushq # <<>> /\ pushq' = Tail(pushq) /\ Forget
      /\ UNCHANGED <<users, note, webq, web, phone, handled>>
      /\ \/ push' = [PushIdle EXCEPT !.at = "badge", !.ev = e, !.left = Targets(e)]
         \/ e.all /\ push' = [PushIdle EXCEPT !.at = "send", !.ev = e, !.list = Phones(Users)]
         \/ push' = PushIdle
  BY DEF TakePush
<1>2. /\ e \in Event /\ e \in Range(pushq)
      /\ pushq' \in Seq(Event) /\ Len(pushq') <= Capacity /\ Range(pushq') \subseteq Range(pushq)
  BY <1>1, Taken, LenProperties DEF DeliveryInv, DeliveryTypes, QueuesGood
<1> HIDE DEF e
<1>3. Counted(e, unread, seen)
  BY <1>2 DEF DeliveryInv, BadgesGood
<1>4. phone' \in [Devices -> People] /\ Phones(Users) \subseteq Devices
  BY <1>1 DEF DeliveryInv, DeliveryTypes, TablesGood, Phones
<1>5. Targets(e) \subseteq Users /\ (e.kind = "message" => Targets(e) = e.to)
  BY <1>2, TargetsAreUsers
<1>6. CASE push' = PushIdle
  <2>1. push'.at = "idle" /\ PushGood'
    BY <1>6, IdleIsTyped, NoEventIsNone DEF PushGood
  <2> QED
    BY <1>1, <1>2, <1>4, <2>1, DispatcherStep
<1>7. CASE push' = [PushIdle EXCEPT !.at = "badge", !.ev = e, !.left = Targets(e)]
  <2>1. push'.at = "badge" /\ push'.ev = e /\ push'.left = Targets(e)
    BY <1>7 DEF PushIdle
  <2>2. PushGood'
    BY <1>2, <1>5, <1>7, <2>1, IdleIsTyped DEF PushGood
  <2> QED
    BY <1>1, <1>2, <1>3, <1>4, <1>5, <2>1, <2>2, DispatcherStep
<1>8. CASE e.all /\ push' = [PushIdle EXCEPT !.at = "send", !.ev = e, !.list = Phones(Users)]
  <2>1. push'.at = "send" /\ push'.ev = e /\ push'.left = {}
    BY <1>8 DEF PushIdle
  <2>2. PushGood'
    BY <1>2, <1>4, <1>8, <2>1, IdleIsTyped DEF PushGood
  <2>3. e.kind # "message"
    BY <1>3, <1>8 DEF Counted
  <2> QED
    BY <1>1, <1>2, <1>4, <2>1, <2>2, <2>3, DispatcherStep
<1> QED
  BY <1>1, <1>6, <1>7, <1>8

\* The targets that are left.
LEMMA NextTargetGood ==
  ASSUME DeliveryInv, push.at # "idle", NEW us \in SUBSET push.left, push' = NextTarget(us)
  PROVE  /\ PushGood' /\ push'.at # "send"
         /\ push'.at # "idle" /\ push'.ev.kind = "message" => push'.left \subseteq push'.ev.to
         /\ push'.at # "idle" /\ push'.left # {} => Counted(push'.ev, unread, seen)
<1>1. push.ev \in Event /\ us \subseteq Users
  BY DEF DeliveryInv, DeliveryTypes, PushGood
<1>2. CASE us = {}
  BY <1>2, IdleIsTyped, NoEventIsNone DEF NextTarget, PushGood
<1>3. CASE us # {}
  <2>1. push' = [PushIdle EXCEPT !.at = "badge", !.ev = push.ev, !.left = us]
    BY <1>3 DEF NextTarget
  <2>2. push'.at = "badge" /\ push'.ev = push.ev /\ push'.left = us
    BY <2>1 DEF PushIdle
  <2>3. PushGood'
    BY <1>1, <2>1, <2>2, IdleIsTyped DEF PushGood
  <2>4. push.left # {} /\ Counted(push.ev, unread, seen)
    BY <1>3 DEF DeliveryInv, BadgesGood
  <2>5. push.ev.kind = "message" => us \subseteq push.ev.to
    BY DEF DeliveryInv, BadgesGood
  <2> QED
    BY <2>2, <2>3, <2>4, <2>5
<1> QED
  BY <1>2, <1>3

LEMMA SamePushq ==
  ASSUME DeliveryInv, pushq' = pushq
  PROVE  pushq' \in Seq(Event) /\ Len(pushq') <= Capacity /\ Range(pushq') \subseteq Range(pushq)
BY DEF DeliveryInv, DeliveryTypes, QueuesGood

LEMMA BadgeStep ==
  ASSUME DeliveryInv, NEW u \in Users, NEW badge \in Badges, Badge(u, badge)
  PROVE  DeliveryInv'
<1>1. /\ push.at = "badge" /\ u \in push.left /\ Forget
      /\ UNCHANGED <<users, note, webq, pushq, web, phone, handled>>
  BY DEF Badge, queues
<1>2. phone' \in [Devices -> People] /\ Phones({u}) \subseteq Devices /\ u \in People
  BY <1>1, NoEventIsNone DEF DeliveryInv, DeliveryTypes, TablesGood, Phones
<1>3. CASE push' = NextTarget(push.left \ {u})
  <2>1. push.left \ {u} \in SUBSET push.left
    OBVIOUS
  <2> QED
    BY <1>1, <1>2, <1>3, <2>1, NextTargetGood, SamePushq, DispatcherStep
<1>4. CASE push' = [push EXCEPT !.at = "send", !.left = @ \ {u}, !.user = u, !.list = Phones({u}),
                                !.badge = badge]
  <2>1. push' = [push EXCEPT !.at = "send", !.left = push.left \ {u}, !.user = u, !.list = Phones({u}),
                             !.badge = badge]
    BY <1>4 DEF DeliveryInv, DeliveryTypes, PushGood
  <2>2. /\ push'.at = "send" /\ push'.ev = push.ev /\ push'.left = push.left \ {u}
        /\ push'.badge = badge /\ PushGood'
    BY <1>1, <1>2, <2>1 DEF DeliveryInv, DeliveryTypes, PushGood
  <2>3. Counted(push.ev, unread, seen) /\ (push.ev.kind = "message" => push.left \subseteq push.ev.to)
    BY <1>1 DEF DeliveryInv, BadgesGood
  <2>4. ASSUME push.ev.kind = "message", push.ev.n \notin seen PROVE badge \in {"counts it", "zero"}
    <3>1. [n |-> push.ev.n, user |-> u] \in unread
      BY <1>1, <2>3, <2>4 DEF Counted
    <3>2. \E r \in Unread(u) : r.n = push.ev.n
      BY <3>1 DEF Unread
    <3> QED
      BY <3>2 DEF Badge, BadgeOf
  <2> QED
    BY <1>1, <1>2, <2>2, <2>3, <2>4, SamePushq, DispatcherStep
<1> QED
  BY <1>3, <1>4 DEF Badge

LEMMA SendStep ==
  ASSUME DeliveryInv, NEW bad, Send(bad)
  PROVE  DeliveryInv'
<1>1. /\ push.at = "send" /\ push' = NextTarget(push.left) /\ Forget
      /\ phone' = [d \in Devices |-> IF d \in bad THEN Nobody ELSE phone[d]]
      /\ UNCHANGED <<users, note, webq, pushq, web, handled>>
  BY DEF Send, queues
<1>2. phone' \in [Devices -> People]
  BY <1>1, NoEventIsNone DEF DeliveryInv, DeliveryTypes, TablesGood
<1> QED
  BY <1>1, <1>2, NextTargetGood, SamePushq, DispatcherStep

-----------------------------------------------------------------------------
(* The theorems.                                                           *)

LEMMA DeliveryRestarts == ASSUME DeliveryInv, Restart PROVE DeliveryInv'
<1>1. /\ note' = NoEvent /\ webq' = <<>> /\ pushq' = <<>>
      /\ web' = WebIdle /\ push' = PushIdle /\ told' = {} /\ done' = {} /\ failed' = {}
      /\ UNCHANGED <<users, phone>> /\ Forget
  BY DEF Restart, Handled
<1>2. unread' \subseteq unread /\ seen' \subseteq seen
  BY <1>1, ForgetKeeps DEF DeliveryInv, DeliveryTypes
<1>3. <<>> \in Seq(Event) /\ Len(<<>>) = 0 /\ Range(<<>>) = {}
  BY EmptySeq DEF Range
<1>4. DeliveryTypes'
  BY <1>1, <1>2, <1>3, IdleIsTyped, NoEventIsNone
     DEF DeliveryInv, DeliveryTypes, WebGood, PushGood, QueuesGood, TablesGood, HandledGood
<1>5. NothingVanishes'
  BY <1>1 DEF NothingVanishes
<1>6. Counted(NoEvent, unread', seen')
  BY NoEventIsNone DEF Counted
<1>7. BadgesGood' /\ BadgeCountsMessage'
  BY <1>1, <1>3, <1>6, NoEventIsNone DEF BadgesGood, BadgeCountsMessage
<1> QED
  BY <1>4, <1>5, <1>7 DEF DeliveryInv

LEMMA DeliveryInitInv == DeliveryInit => DeliveryInv
<1> SUFFICES ASSUME DeliveryInit PROVE DeliveryInv
  OBVIOUS
<1>1. <<>> \in Seq(Event) /\ Len(<<>>) = 0 /\ Range(<<>>) = {}
  BY EmptySeq DEF Range
<1>2. DeliveryTypes
  BY <1>1, IdleIsTyped, NoEventIsNone
     DEF DeliveryInit, DeliveryTypes, WebGood, PushGood, QueuesGood, TablesGood, HandledGood
<1>3. Counted(NoEvent, unread, seen)
  BY NoEventIsNone DEF Counted
<1>4. BadgesGood /\ BadgeCountsMessage /\ NothingVanishes
  BY <1>1, <1>3, NoEventIsNone DEF DeliveryInit, BadgesGood, BadgeCountsMessage, NothingVanishes
<1> QED
  BY <1>2, <1>4 DEF DeliveryInv

LEMMA DeliveryInvIsInductive == DeliveryInv /\ [DeliveryNext]_deliveryVars => DeliveryInv'
<1> SUFFICES ASSUME DeliveryInv, [DeliveryNext]_deliveryVars PROVE DeliveryInv'
  OBVIOUS
<1>1. CASE UNCHANGED deliveryVars
  BY <1>1 DEF deliveryVars, queues, handled, DeliveryInv, DeliveryTypes, WebGood, PushGood, QueuesGood,
              TablesGood, HandledGood, NothingVanishes, BadgesGood, BadgeCountsMessage
<1>2. CASE Web
  BY <1>2, TakeStep, CreateStep, CreatedStep, PostStep, SentStep DEF Web
<1>3. CASE Dispatcher
  BY <1>3, TakePushStep, BadgeStep, SendStep DEF Dispatcher, Badges
<1> QED
  BY <1>1, <1>2, <1>3, ResultStep, UserStep, DeliveryRestarts DEF DeliveryNext

LEMMA DeliveryInvariant == DeliverySpec => []DeliveryInv
<1> QED
  BY DeliveryInitInv, DeliveryInvIsInductive, PTL DEF DeliverySpec

\* Every variable keeps its type: the queues fit, and rows and phones name people.
THEOREM DeliveryTypeCorrect == DeliverySpec => []DeliveryTypeOK
<1> QED
  BY DeliveryInvariant, DeliveryInvTyped, PTL

\* Whoever is to be notified has been served, his statement failed, or is still to come.
THEOREM EveryRecipientIsServed == DeliverySpec => []NothingVanishes
<1>1. DeliveryInv => NothingVanishes
  BY DEF DeliveryInv
<1> QED
  BY <1>1, DeliveryInvariant, PTL

\* A badge counts the message it announces, unless the count failed or that has been seen.
THEOREM BadgesCount == DeliverySpec => []BadgeCountsMessage
<1>1. DeliveryInv => BadgeCountsMessage
  BY DEF DeliveryInv
<1> QED
  BY <1>1, DeliveryInvariant, PTL
================================================================================
