------------------------------- MODULE Chain -------------------------------
(***************************************************************************)
(* The event loop (ILibStartChain, called the chain) and the base timer    *)
(* (ILibLifeTime) every component runs on: one thread calls the handlers;  *)
(* the others hand it calls (ILibChain_RunOnMicrostackThreadEx3) and add   *)
(* or remove timers, and write to a pipe to wake it.  A handler may run    *)
(* the loop inside itself (ILibChain_Continue, used by waitExit() and      *)
(* promise.wait()).  The branch modelled is the one for POSIX.             *)
(*                                                                         *)
(* Time is kept as what a comparison can tell: an ExpirationTick is "now"  *)
(* (the 0 of a delay of 0), "later" or "past".  Among timers that are      *)
(* past the order of the calls is left open; those of delay 0 come first,  *)
(* in the order they were added.                                           *)
(***************************************************************************)
EXTENDS Integers, FiniteSets

CONSTANTS
    Threads,   \* the threads other than the chain's
    Keys,      \* the objects timers are added for and removed by
    Post,      \* the key of a posted call: a block of its own, which nobody removes
    None,
    MaxAdds,   \* timers and calls added in a behaviour
    MaxDepth   \* the loop and the loops inside it

Due == {"now", "later", "past"}

ASSUME ChainAssumption ==
    /\ Post \notin Keys /\ None \notin Threads \cup Due /\ IsFiniteSet(Threads)
    /\ MaxAdds \in Nat /\ MaxDepth \in Nat \ {0}

Levels == 1 .. MaxDepth
Ids == 1 .. MaxAdds
Timer == [id : Ids, key : Keys \cup {Post}, due : Due]
NoTimer == [id |-> 0, key |-> None, due |-> "now"]

VARIABLES
    objects,       \* ObjectList: the timers that wait, ordered by First
    deletes,       \* DeleteList: keys other threads want removed
    nextTrigger,   \* NextTriggerTick; None is -1
    lock,          \* the thread inside ObjectList's lock
    pipe,          \* a byte in TerminatePipe
    depth,         \* 1 in ILibStartChain, one more in each ILibChain_Continue
    pc,            \* what the loop of each level is doing
    queue,         \* the EventQueue of each level's ILibLifeTime_Check
    running,       \* the timer whose callback each level is in
    active,        \* ActiveList: the level whose EventQueue it is; 0 is NULL
    continuation,  \* continuationState
    terminate,     \* TerminateFlag is set
    call,          \* what each other thread is doing
    adds,          \* timers added so far
    gone,          \* history: timers of this key up to this id were removed on the chain
    ran,           \* history: the posted calls that were made
    missed         \* history: since the last search of ObjectList a check has read NextTriggerTick
                   \*   during an insertion, or a loop inside a handler has emptied the pipe and ended

timers == <<objects, deletes, nextTrigger, adds>>
loop == <<depth, pc, queue, running, active, continuation, terminate>>
history == <<gone, ran, missed>>
vars == <<timers, loop, history, lock, pipe, call>>

Idle == [at |-> "idle", op |-> "none", key |-> Post, due |-> "now"]
Ops == {"none", "add", "remove", "stop"}
Steps == {"idle", "scan", "defer", "wake", "insert", "force", "trigger"}
Phases == {"top", "test", "collect", "fire", "calling", "before", "sleep", "after", "destroy", "ended"}

TypeOK ==
    /\ objects \in SUBSET Timer
    /\ deletes \in SUBSET Keys
    /\ nextTrigger \in Due \cup {None}
    /\ lock \in Threads \cup {None}
    /\ pipe \in BOOLEAN
    /\ depth \in Levels
    /\ pc \in [Levels -> Phases]
    /\ queue \in [Levels -> SUBSET Timer]
    /\ running \in [Levels -> Timer \cup {NoTimer}]
    /\ active \in Levels \cup {0}
    /\ continuation \in {"inactive", "continue", "end"}
    /\ terminate \in BOOLEAN
    /\ call \in [Threads -> [at : Steps, op : Ops, key : Keys \cup {Post}, due : Due]]
    /\ adds \in Nat /\ adds <= MaxAdds
    /\ gone \in [Keys -> Nat]
    /\ ran \in SUBSET Ids
    /\ missed \in BOOLEAN

Init ==
    /\ objects = {} /\ deletes = {} /\ nextTrigger = None /\ adds = 0
    /\ lock = None /\ pipe = FALSE
    /\ depth = 1
    /\ pc = [l \in Levels |-> "top"]
    /\ queue = [l \in Levels |-> {}]
    /\ running = [l \in Levels |-> NoTimer]
    /\ active = 0
    /\ continuation = "inactive" /\ terminate = FALSE
    /\ call = [t \in Threads |-> Idle]
    /\ gone = [k \in Keys |-> 0] /\ ran = {} /\ missed = FALSE

-----------------------------------------------------------------------------
(* The list of timers.                                                     *)

Pending == objects \cup UNION {queue[l] : l \in Levels}

\* Adding stays within MaxAdds, the calls under way included.
MayAdd == adds + Cardinality({t \in Threads : call[t].op = "add"}) < MaxAdds

\* Mutant: a timer goes before those of the same time.
BeforeEqual(r, s) ==
    \/ r.due = "now" /\ s.due # "now"
    \/ r.due = "now" /\ s.due = "now" /\ r.id > s.id

\* r is called before s.
Before(r, s) ==
    \/ r.due = "now" /\ s.due # "now"
    \/ r.due = "now" /\ s.due = "now" /\ r.id < s.id

First(r, S) == r \in S /\ ~ \E s \in S : Before(s, r)

\* Mutant: the chain is woken only for the first timer of an empty list.
LeadsEmpty(due, S) == {S = {}}

\* Whether a timer becomes the head of the list; two that are "later" may come in any order.
Leads(due, S) ==
    IF due = "now" THEN {\A s \in S : s.due # "now"}
    ELSE IF S = {} THEN {TRUE}
    ELSE IF \A s \in S : s.due = "later" THEN BOOLEAN ELSE {FALSE}

\* Mutant: an earlier time does not replace NextTriggerTick.
SoonerKept(due) == IF nextTrigger = None THEN due ELSE nextTrigger

\* NextTriggerTick once a timer with this expiration was inserted.
Sooner(due) == IF due = "now" \/ nextTrigger = None THEN due ELSE nextTrigger

\* Mutant: the posted calls are removed with the timers of an object.
WithoutPosted(S, K) == {r \in S : r.key \notin K /\ (K # {} => r.key # Post)}

Without(S, K) == {r \in S : r.key \notin K}

\* Mutant: ActiveList is not searched.
RemoveInactive(K) ==
    /\ UNCHANGED queue
    /\ gone' = [k \in Keys |-> IF k \in K THEN adds ELSE gone[k]]

\* ILibLifeTime_Remove on the chain's thread, for the keys K.
Remove(K) ==
    /\ queue' = [l \in Levels |-> IF l = active THEN Without(queue[l], K) ELSE queue[l]]
    /\ gone' = [k \in Keys |-> IF k \in K THEN adds ELSE gone[k]]

-----------------------------------------------------------------------------
(* The loop.  l is the level whose loop is running.                        *)

At(l, p) == l = depth /\ pc[l] = p
Goto(l, p) == pc' = [pc EXCEPT ![l] = p]

\* The top of the loop of ILibStartChain.
Top(l) ==
    /\ At(l, "top") /\ l = 1
    /\ Goto(l, IF terminate THEN "destroy" ELSE "test")
    /\ continuation' = IF ~ terminate /\ continuation = "end" THEN "inactive" ELSE continuation
    /\ UNCHANGED <<timers, history, lock, pipe, call, depth, queue, running, active, terminate>>

\* The top of the loop of ILibChain_Continue, which returns to the handler it was called from.
TopInner(l) ==
    /\ At(l, "top") /\ l > 1
    /\ \/ /\ ~ terminate /\ continuation = "continue"
          /\ Goto(l, "test")
          /\ UNCHANGED <<depth, continuation, missed>>
       \/ /\ terminate \/ continuation # "continue"
          /\ depth' = l - 1 /\ missed' = TRUE
          /\ UNCHANGED <<pc, continuation>>
       \/ /\ ~ terminate /\ continuation = "continue"  \* maxTimeout is over
          /\ continuation' = "end"
          /\ depth' = l - 1 /\ missed' = TRUE
          /\ UNCHANGED pc
    /\ UNCHANGED <<timers, gone, ran, lock, pipe, call, queue, running, active, terminate>>

\* ILibLifeTime_Check: the deferred removals, then the test of NextTriggerTick, which takes no lock.
Test(l) ==
    /\ At(l, "test")
    /\ deletes # {} => lock = None
    /\ objects' = Without(objects, deletes)
    /\ Remove(deletes)
    /\ deletes' = {}
    /\ \/ /\ nextTrigger = "later"
          /\ Goto(l, "before")
          /\ missed' = (missed \/ lock # None)
          /\ UNCHANGED nextTrigger
       \/ /\ nextTrigger # "later" \/ l > 1      \* an inner loop may wait less than that
          /\ Goto(l, "collect")
          /\ nextTrigger' = None
          /\ UNCHANGED missed
    /\ UNCHANGED <<adds, ran, lock, pipe, call, depth, running, active, continuation, terminate>>

\* Mutant: what is due stays in ObjectList.
CollectKeeps(l) ==
    /\ At(l, "collect") /\ lock = None
    /\ LET due == {r \in objects : r.due # "later"}
       IN /\ queue' = [queue EXCEPT ![l] = due]
          /\ nextTrigger' = IF nextTrigger # None \/ objects = due THEN nextTrigger ELSE "later"
    /\ active' = l
    /\ missed' = FALSE
    /\ Goto(l, "fire")
    /\ UNCHANGED <<objects, deletes, adds, gone, ran, lock, pipe, call, depth, running, continuation,
                   terminate>>

\* ILibLifeTime_Check, under the lock: what is due moves to this check's own queue.
Collect(l) ==
    /\ At(l, "collect") /\ lock = None
    /\ LET due == {r \in objects : r.due # "later"}
       IN /\ objects' = objects \ due
          /\ queue' = [queue EXCEPT ![l] = due]
          /\ nextTrigger' = IF nextTrigger # None \/ objects = due THEN nextTrigger ELSE "later"
    /\ active' = l
    /\ missed' = FALSE
    /\ Goto(l, "fire")
    /\ UNCHANGED <<deletes, adds, gone, ran, lock, pipe, call, depth, running, continuation, terminate>>

\* ILibLifeTime_Check calls the next timer, or ends.
Fire(l) ==
    /\ At(l, "fire")
    /\ \E r \in queue[l] :
          /\ First(r, queue[l])
          /\ queue' = [queue EXCEPT ![l] = @ \ {r}]
          /\ running' = [running EXCEPT ![l] = r]
          /\ ran' = IF r.key = Post THEN ran \cup {r.id} ELSE ran
    /\ Goto(l, "calling")
    /\ UNCHANGED <<timers, lock, pipe, call, depth, active, continuation, terminate, gone, missed>>

CheckEnds(l) ==
    /\ At(l, "fire") /\ queue[l] = {}
    /\ active' = 0
    /\ Goto(l, "before")
    /\ UNCHANGED <<timers, history, lock, pipe, call, depth, queue, running, continuation, terminate>>

\* A callback or the handlers of the other links return.
Return(l) ==
    /\ \/ At(l, "calling") /\ Goto(l, "fire")
       \/ At(l, "before") /\ Goto(l, "sleep")
       \/ At(l, "after") /\ Goto(l, "top")
    /\ running' = [running EXCEPT ![l] = NoTimer]
    /\ UNCHANGED <<timers, history, lock, pipe, call, depth, queue, active, continuation, terminate>>

\* select() returns: the pipe, which is emptied, another descriptor or its timeout.
Wake(l) ==
    /\ At(l, "sleep")
    /\ pipe' = FALSE
    /\ Goto(l, "after")
    /\ UNCHANGED <<timers, history, lock, call, depth, queue, running, active, continuation, terminate>>

-----------------------------------------------------------------------------
(* What a handler may call on the chain's thread.                          *)

InHandler(l) == l = depth /\ pc[l] \in {"calling", "before", "after", "destroy"}

\* ILibLifeTime_AddEx4: the timers of the same key are removed first.
AddHere(l, key, due) ==
    /\ InHandler(l) /\ lock = None /\ MayAdd
    /\ LET rest == Without(objects, {key} \cap Keys)
       IN /\ objects' = rest \cup {[id |-> adds + 1, key |-> key, due |-> due]}
          /\ \E heads \in Leads(due, rest) : pipe' = (pipe \/ heads)
    /\ Remove({key} \cap Keys)
    /\ nextTrigger' = Sooner(due)
    /\ adds' = adds + 1
    /\ UNCHANGED <<deletes, lock, call, depth, pc, running, active, continuation, terminate, ran, missed>>

RemoveHere(l, key) ==
    /\ InHandler(l) /\ lock = None
    /\ objects' = Without(objects, {key})
    /\ Remove({key})
    /\ UNCHANGED <<deletes, nextTrigger, adds, lock, pipe, call, depth, pc, running, active,
                   continuation, terminate, ran, missed>>

\* ILibChain_Continue starts a loop inside the handler, unless one goes on.
Continue(l) ==
    /\ InHandler(l) /\ continuation # "continue"
    /\ continuation' = "continue"
    /\ IF terminate THEN UNCHANGED <<depth, pc>>
       ELSE /\ l < MaxDepth
            /\ depth' = l + 1
            /\ pc' = [pc EXCEPT ![l + 1] = "top"]
    /\ UNCHANGED <<timers, history, lock, pipe, call, queue, running, active, terminate>>

EndContinue(l) ==
    /\ InHandler(l)
    /\ continuation' = "end"
    /\ pipe' = TRUE
    /\ UNCHANGED <<timers, history, lock, call, depth, pc, queue, running, active, terminate>>

\* ILibStopChain from a handler.
StopHere(l) ==
    /\ InHandler(l)
    /\ terminate' = TRUE
    /\ pipe' = TRUE
    /\ UNCHANGED <<timers, history, lock, call, depth, pc, queue, running, active, continuation>>

\* The other links are destroyed; ILibLifeTime_Destroy comes last and aborts what is left.
Destroy(l) ==
    /\ At(l, "destroy")
    /\ \A t \in Threads : call[t] = Idle
    /\ objects' = {}
    /\ Goto(l, "ended")
    /\ UNCHANGED <<deletes, nextTrigger, adds, history, lock, pipe, call, depth, queue, running, active,
                   continuation, terminate>>

-----------------------------------------------------------------------------
(* What another thread may call.                                           *)

Begin(t, op, key, due) ==
    /\ call[t].at = "idle" /\ pc[1] \notin {"destroy", "ended"}
    /\ op = "add" => MayAdd
    /\ terminate' = (terminate \/ op = "stop")
    /\ call' = [call EXCEPT ![t] =
                  [at |-> IF op = "stop" THEN "wake" ELSE "scan", op |-> op, key |-> key, due |-> due]]
    /\ UNCHANGED <<timers, history, lock, pipe, depth, pc, queue, running, active, continuation>>

Step(t, from, to) ==
    /\ call[t].at = from
    /\ call' = [call EXCEPT ![t] = IF to = "idle" THEN Idle ELSE [@ EXCEPT !.at = to]]

AfterRemove(t) == IF call[t].op = "add" THEN "insert" ELSE "idle"

\* Mutant: posted calls are removed off the chain's thread.
ScanPosts(t) ==
    /\ lock = None
    /\ Step(t, "scan", IF \E r \in objects : r.key = call[t].key THEN "defer" ELSE AfterRemove(t))
    /\ UNCHANGED <<timers, loop, history, lock, pipe>>

\* ILibLifeTime_Remove off the chain's thread looks only at ObjectList ...
Scan(t) ==
    /\ lock = None
    /\ Step(t, "scan", IF \E r \in objects : r.key = call[t].key /\ r.key # Post
                       THEN "defer" ELSE AfterRemove(t))
    /\ UNCHANGED <<timers, loop, history, lock, pipe>>

\* ... and leaves the removal to the chain.
Defer(t) ==
    /\ Step(t, "defer", "wake")
    /\ deletes' = deletes \cup {call[t].key}
    /\ UNCHANGED <<objects, nextTrigger, adds, loop, history, lock, pipe>>

\* ILibForceUnBlockChain
WakeChain(t) ==
    /\ Step(t, "wake", AfterRemove(t))
    /\ pipe' = TRUE
    /\ UNCHANGED <<timers, loop, history, lock>>

\* ILibLifeTime_AddEx4, under the lock: insert, wake the chain for a new head, then NextTriggerTick.
Insert(t) ==
    /\ lock = None
    /\ lock' = t
    /\ \E heads \in Leads(call[t].due, objects) : Step(t, "insert", IF heads THEN "force" ELSE "trigger")
    /\ objects' = objects \cup {[id |-> adds + 1, key |-> call[t].key, due |-> call[t].due]}
    /\ adds' = adds + 1
    /\ UNCHANGED <<deletes, nextTrigger, loop, history, pipe>>

ForceUnBlock(t) ==
    /\ Step(t, "force", "trigger")
    /\ pipe' = TRUE
    /\ UNCHANGED <<timers, loop, history, lock>>

SetTrigger(t) ==
    /\ Step(t, "trigger", "idle")
    /\ nextTrigger' = Sooner(call[t].due)
    /\ lock' = None
    /\ UNCHANGED <<objects, deletes, adds, loop, history, pipe>>

-----------------------------------------------------------------------------
(* Time passes.                                                            *)

Lapse ==
    \/ \E r \in objects :
          /\ r.due = "later"
          /\ objects' = (objects \ {r}) \cup {[r EXCEPT !.due = "past"]}
          /\ UNCHANGED nextTrigger
    \/ /\ nextTrigger = "later"
       /\ nextTrigger' = "past"
       /\ UNCHANGED objects

TimePasses == Lapse /\ UNCHANGED <<deletes, adds, loop, history, lock, pipe, call>>

LoopStep(l) ==
    \/ Top(l) \/ TopInner(l) \/ Test(l) \/ Collect(l) \/ Fire(l) \/ CheckEnds(l) \/ Wake(l) \/ Destroy(l)

Handler(l) ==
    \/ \E due \in {"now", "later"} : \E k \in Keys : AddHere(l, k, due)
    \/ AddHere(l, Post, "now")
    \/ \E k \in Keys : RemoveHere(l, k)
    \/ Continue(l) \/ EndContinue(l) \/ StopHere(l)

Starts(t) ==
    \/ Begin(t, "add", Post, "now")
    \/ \E k \in Keys, due \in {"now", "later"} : Begin(t, "add", k, due)
    \/ \E k \in Keys : Begin(t, "remove", k, "now")
    \/ Begin(t, "stop", Post, "now")

ThreadStep(t) == Scan(t) \/ Defer(t) \/ WakeChain(t) \/ Insert(t) \/ ForceUnBlock(t) \/ SetTrigger(t)

Next ==
    \/ \E l \in Levels : LoopStep(l) \/ Return(l) \/ Handler(l)
    \/ \E t \in Threads : Starts(t) \/ ThreadStep(t)
    \/ TimePasses

Spec == Init /\ [][Next]_vars

\* The chain's thread runs, the others finish the calls they are in, and handlers return: they do
\* not run loops inside themselves forever.  select() has a timeout, a day at most.
Fairness ==
    /\ \A l \in Levels : WF_vars(LoopStep(l)) /\ SF_vars(Return(l))
    /\ \A t \in Threads : WF_vars(ThreadStep(t))

FairSpec == Spec /\ Fairness

-----------------------------------------------------------------------------
(* Properties                                                              *)

\* r waits in a queue that ActiveList does not name: a loop inside a callback of its check hid it.
Hidden(r) == \E l \in Levels : r \in queue[l] /\ active # l

\* A timer is in one list only, or being called: it is called at most once and freed once,
\* though an inner check runs while an outer one has called only part of its queue.
OnePlace ==
    /\ \A r, s \in Pending : r.id = s.id => r = s
    /\ \A l, m \in Levels :
          /\ queue[l] \cap objects = {}
          /\ l # m => /\ queue[l] \cap queue[m] = {}
                      /\ running[l].id = running[m].id => running[l] = NoTimer
          /\ \A r \in Pending : r.id # running[l].id

\* A timer removed on the chain's thread is not called later (its object may be freed), unless
\* it was hidden: ILibLifeTime_Remove searches ObjectList and ActiveList.
RemovedIsGone ==
    \A r \in Pending : r.key # Post /\ r.id <= gone[r.key] => Hidden(r)

\* The chain sleeps with nothing to wake it, though a call is there to be made or it was told to stop.
Oversleeps ==
    /\ pc[depth] = "sleep" /\ ~ pipe
    /\ \/ lock = None /\ \E r \in objects : r.due = "now"
       \/ terminate /\ \A t \in Threads : call[t].op # "stop"

\* ILibForceUnBlockChain is enough: the chain oversleeps only when the check read NextTriggerTick,
\* without the lock, while a thread was inserting, or when a loop inside a handler ended.
WokenInTime == Oversleeps => missed

\* ILibForceUnBlockChain forces the chain to check for what is pending.
NeverOversleeps == ~ Oversleeps

\* Posted calls are made in the order they were posted, except those that are hidden.
InOrder ==
    [][\A l \in Levels : running'[l] # running[l] /\ running'[l].key = Post =>
          \A r \in Pending : r.key = Post /\ r.id < running'[l].id => Hidden(r)]_vars

Owed == {r.id : r \in {s \in Pending : s.key = Post}}

\* Every call that was posted is made, or aborted when the chain stops, if loops inside handlers end.
PostedRuns == []<>(depth = 1) => \A i \in Ids : i \in Owed ~> i \notin Owed

Calls == INSTANCE PostedCalls WITH owed <- Owed, made <- ran, stopped <- terminate

\* The chain keeps the promise of RunOnMicrostackThread: see PostedCalls.
ImplementsPostedCalls == Calls!Spec
=============================================================================
