---------------------------- MODULE TimerService ----------------------------
(***************************************************************************)
(* The software timers (DelegateMQ/extras/util: Timer.cpp, TimerDelegate.h;*)
(* delegate/Signal.h) and one owner that uses them across threads,         *)
(* NetworkNode (extras/databus/NetworkNode.h).                             *)
(*                                                                         *)
(* Any thread starts, stops and destroys timers.  One thread calls         *)
(* ProcessTimers(), which takes snapshots of the subscribers of expired    *)
(* timers under the lock and invokes them after it.  The slot of the timer *)
(* NodeTimer is a TimerDelegate, which queues a tick to the node's thread; *)
(* the node is started and stopped once.  The slots of the other timers    *)
(* are called in place; what they do to timers is what any thread may do.  *)
(***************************************************************************)
EXTENDS Naturals, Sequences, FiniteSets

CONSTANTS
    Timers,
    NodeTimer,      \* m_recvTimer of the node
    Periods,        \* timeouts asked for
    BatchSize,      \* MAX_TIMER_EXPIRED
    MaxTime         \* bound: where the clock stops

ASSUME TimerAssumption ==
    /\ NodeTimer \in Timers
    /\ Periods \subseteq Nat \ {0}
    /\ BatchSize \in Nat \ {0} /\ MaxTime \in Nat

VARIABLES
    now,                                \* GetNow()
    list,                               \* the intrusive list from GetTimersHead()
    alive,                              \* timers not destroyed
    enabled, once, period, expireTime,  \* m_enabled, m_once, m_timeout, m_expireTime
    timerStopped,                       \* m_timerStopped
    tpc, batch, full,                   \* ProcessTimers(): place, snapshots, count == MAX
    owner,                              \* where the node is in its life
    connected,                          \* whether the TimerDelegate is in OnExpired's list
    accepting, queued, running,         \* m_thread of the node: exit flag and its ticks
    startTime, fires, due               \* history: last Start(), expirations since, and
                                        \* timers due when ProcessTimers() was called

timerVars == <<list, alive, enabled, once, period, expireTime, timerStopped>>
processVars == <<tpc, batch, full>>
nodeVars == <<owner, connected, accepting, queued, running>>
historyVars == <<startTime, fires, due>>
vars == <<now, timerVars, processVars, nodeVars, historyVars>>

InBatch(t) == \E i \in 1 .. Len(batch) : batch[i] = t
Linked == {list[i] : i \in 1 .. Len(list)}

\* The types of all variables; the list links every timer at most once, and no
\* destroyed one.
TypeOK ==
    /\ now \in 0 .. MaxTime
    /\ list \in Seq(Timers) /\ Linked \subseteq alive /\ Cardinality(Linked) = Len(list)
    /\ alive \subseteq Timers /\ enabled \subseteq Timers /\ once \subseteq Timers
    /\ period \in [Timers -> Periods \cup {0}]
    /\ expireTime \in [Timers -> Nat]
    /\ timerStopped \in BOOLEAN
    /\ tpc \in {"idle", "scan", "invoke"}
    /\ batch \in Seq(Timers) /\ Len(batch) <= BatchSize /\ full \in BOOLEAN
    /\ owner \in {"new", "up", "exiting", "joining", "drained", "down"}
    /\ connected \in BOOLEAN /\ accepting \in BOOLEAN /\ running \in BOOLEAN
    /\ queued \in Nat
    /\ startTime \in [Timers -> Nat] /\ fires \in [Timers -> Nat]
    /\ due \subseteq alive

Init ==
    /\ now = 0
    /\ list = <<>> /\ alive = Timers /\ enabled = {} /\ once = {}
    /\ period = [t \in Timers |-> 0] /\ expireTime = [t \in Timers |-> 0]
    /\ timerStopped = FALSE
    /\ tpc = "idle" /\ batch = <<>> /\ full = FALSE
    /\ owner = "new" /\ connected = FALSE
    /\ accepting = FALSE /\ queued = 0 /\ running = FALSE
    /\ startTime = [t \in Timers |-> 0] /\ fires = [t \in Timers |-> 0]
    /\ due = {}

-----------------------------------------------------------------------------
\* What of a list is in S, in the order of the list: SelectSeq, defined by the
\* rank that a kept element has among the kept ones, without recursion.
Keep(seq, S) ==
    LET kept == {i \in DOMAIN seq : seq[i] \in S}
        Rank(i) == Cardinality({j \in kept : j <= i})
    IN  [k \in 1 .. Cardinality(kept) |-> seq[CHOOSE i \in kept : Rank(i) = k]]

(* Timer: Start, Stop, the destructor                                      *)

\* Mutant: a timer that was stopped is linked a second time.
LinkAgain(t) == IF t \in enabled THEN list ELSE <<t>> \o list

LinkFront(t) == IF t \in Linked THEN list ELSE <<t>> \o list

Start(t, p, isOnce) ==
    /\ period' = [period EXCEPT ![t] = p]
    /\ once' = IF isOnce THEN once \cup {t} ELSE once \ {t}
    /\ expireTime' = [expireTime EXCEPT ![t] = now + p]
    /\ enabled' = enabled \cup {t}
    /\ list' = LinkFront(t)
    /\ startTime' = [startTime EXCEPT ![t] = now]
    /\ fires' = [fires EXCEPT ![t] = 0]
    /\ due' = due \ {t}
    /\ UNCHANGED <<alive, timerStopped>>

\* The list is left to ProcessTimers().
Stop(t) ==
    /\ enabled' = enabled \ {t}
    /\ timerStopped' = TRUE
    /\ due' = due \ {t}
    /\ UNCHANGED <<list, alive, once, period, expireTime, startTime, fires>>

Destroy(t) ==
    /\ list' = Keep(list, Timers \ {t})
    /\ alive' = alive \ {t}
    /\ enabled' = enabled \ {t}
    /\ due' = due \ {t}
    /\ UNCHANGED <<once, period, expireTime, timerStopped, startTime, fires>>

UserStart(t) ==
    /\ t \in alive \ {NodeTimer}
    /\ \E p \in Periods, isOnce \in BOOLEAN : Start(t, p, isOnce)
    /\ UNCHANGED <<now, processVars, nodeVars>>

UserStop(t) ==
    /\ t \in alive \ {NodeTimer}
    /\ Stop(t)
    /\ UNCHANGED <<now, processVars, nodeVars>>

UserDestroy(t) ==
    /\ t \in alive \ {NodeTimer}
    /\ Destroy(t)
    /\ UNCHANGED <<now, processVars, nodeVars>>

Tick ==
    /\ now < MaxTime
    /\ now' = now + 1
    /\ UNCHANGED <<timerVars, processVars, nodeVars, historyVars>>

-----------------------------------------------------------------------------
(* ProcessTimers                                                           *)

Expired(t) == t \in enabled /\ now >= expireTime[t]

\* Mutant: a periodic timer keeps its expiration when it is behind.
StayBehind(t) == IF now > expireTime[t] + period[t] THEN expireTime[t] ELSE expireTime[t] + period[t]

\* CheckExpired(): the next expiration of a periodic timer, or now when it is behind.
NextExpiration(t) ==
    IF now > expireTime[t] + period[t] THEN now ELSE expireTime[t] + period[t]

\* Disabled timers leave the list, but only after a Stop() or a one-shot.
Unlinked == IF timerStopped THEN Keep(list, enabled) ELSE list

\* The snapshots of a pass.  CheckExpired() is not called on the timers behind a
\* full batch, which keep their expirations.
Batch(expired) ==
    SubSeq(expired, 1, IF Len(expired) < BatchSize THEN Len(expired) ELSE BatchSize)

Call ==
    /\ tpc = "idle"
    /\ tpc' = "scan"
    /\ due' = {t \in alive : Expired(t)}
    /\ UNCHANGED <<now, timerVars, batch, full, nodeVars, startTime, fires>>

\* One pass under the lock.
Scan ==
    /\ tpc = "scan"
    /\ batch' = Batch(Keep(Unlinked, {t \in Timers : Expired(t)}))
    /\ full' = (Len(batch') = BatchSize)
    /\ LET fired == {batch'[i] : i \in 1 .. Len(batch')}
           oneShots == fired \cap once
       IN  /\ enabled' = enabled \ oneShots
           /\ timerStopped' = (oneShots # {})
           /\ expireTime' = [t \in Timers |-> IF t \in fired \ once THEN NextExpiration(t)
                                              ELSE expireTime[t]]
           /\ fires' = [t \in Timers |-> IF t \in fired THEN fires[t] + 1 ELSE fires[t]]
           /\ due' = due \ fired
    /\ list' = Unlinked
    /\ tpc' = "invoke"
    /\ UNCHANGED <<now, alive, once, period, nodeVars, startTime>>

\* PacedDispatch: the token of the last tick is gone with its message.
CanFire == queued = 0 /\ ~running

\* The next snapshot: a slot called in place, or TimerDelegate::operator().
Invoke ==
    /\ tpc = "invoke" /\ batch # <<>>
    /\ batch' = Tail(batch)
    /\ queued' = IF Head(batch) = NodeTimer /\ CanFire /\ accepting
                 THEN queued + 1 ELSE queued
    /\ UNCHANGED <<now, timerVars, tpc, full, owner, connected, accepting, running, historyVars>>

\* Mutant: one pass is enough.
NeverAgain == FALSE

Again == full

EndPass ==
    /\ tpc = "invoke" /\ batch = <<>>
    /\ tpc' = IF Again THEN "scan" ELSE "idle"
    /\ UNCHANGED <<now, timerVars, batch, full, nodeVars, historyVars>>

-----------------------------------------------------------------------------
(* The node's thread                                                       *)

RunTick ==
    /\ queued > 0 /\ ~running
    /\ queued' = queued - 1
    /\ running' = TRUE
    /\ UNCHANGED <<now, timerVars, processVars, owner, connected, accepting, historyVars>>

EndTick ==
    /\ running
    /\ running' = FALSE
    /\ UNCHANGED <<now, timerVars, processVars, owner, connected, accepting, queued, historyVars>>

(* NetworkNode::Start and Stop                                             *)

NodeStart ==
    /\ owner = "new"
    /\ accepting' = TRUE /\ connected' = TRUE
    /\ \E p \in Periods : Start(NodeTimer, p, FALSE)
    /\ owner' = "up"
    /\ UNCHANGED <<now, processVars, queued, running>>

\* The locked part: m_running and the timer.
NodeStop ==
    /\ owner = "up"
    /\ Stop(NodeTimer)
    /\ owner' = "exiting"
    /\ UNCHANGED <<now, processVars, connected, accepting, queued, running>>

\* ExitThread(): no tick is accepted any more ...
NodeExit ==
    /\ owner = "exiting"
    /\ accepting' = FALSE
    /\ owner' = "joining"
    /\ UNCHANGED <<now, timerVars, processVars, connected, queued, running, historyVars>>

\* Mutant: the slot is disconnected without waiting for the thread.
NotJoined == TRUE

Joined == queued = 0 /\ ~running

\* ... and the thread has run those it had.
NodeJoined ==
    /\ owner = "joining" /\ Joined
    /\ owner' = "drained"
    /\ UNCHANGED <<now, timerVars, processVars, connected, accepting, queued, running, historyVars>>

NodeDisconnect ==
    /\ owner = "drained"
    /\ connected' = FALSE
    /\ owner' = "down"
    /\ UNCHANGED <<now, timerVars, processVars, accepting, queued, running, historyVars>>

-----------------------------------------------------------------------------
Next ==
    \/ \E t \in Timers : UserStart(t) \/ UserStop(t) \/ UserDestroy(t)
    \/ Tick
    \/ Call \/ Scan \/ Invoke \/ EndPass
    \/ RunTick \/ EndTick
    \/ NodeStart \/ NodeStop \/ NodeExit \/ NodeJoined \/ NodeDisconnect

Spec == Init /\ [][Next]_vars

-----------------------------------------------------------------------------
(* Properties                                                              *)

\* A timer never expires more often than its timeout allows since it was last
\* started, not even while it catches up after falling behind or is started while
\* its snapshot waits; a one-shot expires once.
RateBound ==
    \A t \in Timers :
        /\ fires[t] * period[t] <= now - startTime[t]
        /\ t \in once => fires[t] <= 1

\* ProcessTimers() leaves no timer behind, however many expire in one tick: one
\* that was due when it was called, and that nobody touched since, got its turn.
DrainedOnReturn == tpc = "idle" => due = {}

\* The messages of a TimerDelegate point to it.  At most one is in flight, none
\* outlives it, and none is left when the node's Stop() has returned, although a
\* snapshot taken before can be invoked after.
TargetSafe ==
    LET ticks == queued + (IF running THEN 1 ELSE 0)
    IN  /\ ticks <= 1
        /\ ticks > 0 => connected \/ InBatch(NodeTimer)
        /\ owner = "down" => ticks = 0
=============================================================================
