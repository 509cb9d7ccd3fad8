------------------------------ MODULE ChainProofs ------------------------------
(***************************************************************************)
(* Proofs about the event loop, for any number of threads, timers and      *)
(* loops inside handlers: each timer is in one place, what the chain       *)
(* removed is not called, posted calls are made once and in order, and     *)
(* the chain does not sleep over them except in the two known cases.       *)
(***************************************************************************)
EXTENDS Chain, FiniteSetTheorems, TLAPS

-----------------------------------------------------------------------------
(* The inductive invariant.                                                *)

\* The adds under way that have still to insert their timer.
Adders == {t \in Threads : call[t].op = "add" /\ call[t].at \notin {"force", "trigger"}}

Bounded == adds + Cardinality(Adders) <= MaxAdds

CallOK ==
    \A t \in Threads :
       /\ call[t].at = "idle" => call[t].op # "stop"
       /\ call[t].op = "stop" => call[t].at = "wake"
       /\ call[t].at \in {"insert", "force", "trigger"} => call[t].op = "add"
       /\ call[t].at = "defer" => call[t].key # Post
       /\ call[t].key = Post => call[t].due = "now"

LockOK == \A t \in Threads : lock = t <=> call[t].at \in {"force", "trigger"}

\* Only a check that is under way has a queue; the loops outside the innermost are in a handler.
LevelOK ==
    \A l \in Levels :
       /\ queue[l] # {} => l <= depth /\ pc[l] \in {"fire", "calling"}
       /\ l < depth => pc[l] \in {"calling", "before", "after"}
       /\ pc[l] \in {"destroy", "ended"} => l = 1 /\ depth = 1 /\ terminate

\* A check that is under way and is not the innermost one is not in ActiveList after an inner check.
ActiveOK ==
    active # 0 => \A l \in Levels : l <= depth /\ pc[l] \in {"fire", "calling"} => l <= active

\* Numbers are given out in order.
Fresh ==
    /\ \A r \in Pending : r.id <= adds
    /\ \A l \in Levels : running[l].id <= adds
    /\ \A k \in Keys : gone[k] <= adds
    /\ \A i \in ran : i <= adds

\* Posted calls are due at once, so a check takes all there are.
PostsOK ==
    /\ \A r \in Pending : r.key = Post => r.due = "now"
    /\ \A l \in Levels : \A s \in queue[l], r \in objects : s.key = Post /\ r.key = Post => s.id < r.id

\* The thread in ObjectList's lock has put a timer there that is due at once.
Adding == lock # None /\ call[lock].due = "now"

\* NextTriggerTick tells of a timer that is due at once, unless a check or an insertion is under way.
Seen == (\E r \in objects : r.due = "now") => nextTrigger = "now" \/ pc[depth] = "collect" \/ Adding

\* ... and then the chain is awake or about to be woken.
Awake ==
    (\E r \in objects : r.due = "now") =>
       \/ missed \/ pipe
       \/ lock # None /\ call[lock].at = "force"
       \/ pc[depth] \in {"after", "top", "test", "collect", "destroy", "ended"}

\* The same for the flag that stops it.
Told ==
    (terminate /\ \A t \in Threads : call[t].op # "stop") =>
       \/ pipe
       \/ missed /\ pc[depth] \notin {"test", "collect"}
       \/ pc[depth] \in {"after", "top", "destroy", "ended"}

ChainInv ==
    /\ TypeOK /\ Bounded /\ CallOK /\ LockOK /\ LevelOK /\ ActiveOK /\ Fresh
    /\ OnePlace /\ RemovedIsGone /\ PostsOK /\ Seen /\ Awake /\ Told

-----------------------------------------------------------------------------
(* The actions of Next, one by one.                                        *)

\* A step of Next is one of the actions, with the arguments Next gives it.
LEMMA Actions ==
    ASSUME Next
    PROVE  \/ \E l \in Levels : Top(l) \/ TopInner(l) \/ Test(l) \/ Collect(l) \/ Fire(l)
                                \/ CheckEnds(l) \/ Wake(l) \/ Destroy(l) \/ Return(l)
           \/ \E l \in Levels, k \in Keys \cup {Post}, due \in Due :
                 (k = Post => due = "now") /\ AddHere(l, k, due)
           \/ \E l \in Levels, k \in Keys : RemoveHere(l, k)
           \/ \E l \in Levels : Continue(l) \/ EndContinue(l) \/ StopHere(l)
           \/ \E t \in Threads, op \in Ops, k \in Keys \cup {Post}, due \in Due :
                 (k = Post => due = "now") /\ op # "none" /\ Begin(t, op, k, due)
           \/ \E t \in Threads : Scan(t) \/ Defer(t) \/ WakeChain(t) \/ Insert(t) \/ ForceUnBlock(t)
                                 \/ SetTrigger(t)
           \/ TimePasses
  BY ChainAssumption, Zenon DEF Next, LoopStep, Handler, Starts, ThreadStep, Due, Ops

\* Adding a thread to the adds under way, or taking it away.
LEMMA AddersCount ==
    ASSUME TypeOK
    PROVE  /\ IsFiniteSet(Adders)
           /\ Cardinality(Adders) \in Nat
           /\ \A t \in Threads :
                 /\ IsFiniteSet(Adders \cup {t})
                 /\ Cardinality(Adders \cup {t}) <= Cardinality(Adders) + 1
                 /\ t \in Adders => Cardinality(Adders \ {t}) = Cardinality(Adders) - 1
  <1>1. IsFiniteSet(Threads)
    BY ChainAssumption
  <1>2. IsFiniteSet(Adders) /\ Cardinality(Adders) \in Nat
    BY <1>1, FS_Subset, FS_CardinalityType DEF Adders
  <1>3. ASSUME NEW t \in Threads
        PROVE  /\ IsFiniteSet(Adders \cup {t})
               /\ Cardinality(Adders \cup {t}) <= Cardinality(Adders) + 1
    <2>1. IsFiniteSet(Adders \cup {t})
      BY <1>2, FS_AddElement
    <2>2. t \in Adders => Adders \cup {t} = Adders
      OBVIOUS
    <2>3. t \notin Adders => Cardinality(Adders \cup {t}) = Cardinality(Adders) + 1
      BY <1>2, FS_AddElement
    <2> QED
      BY <2>1, <2>2, <2>3, <1>2
  <1>4. \A t \in Adders : Cardinality(Adders \ {t}) = Cardinality(Adders) - 1
    BY <1>2, FS_RemoveElement
  <1> QED
    BY <1>2, <1>3, <1>4

LEMMA TypeLoop ==
    ASSUME TypeOK, NEW l \in Levels,
           Top(l) \/ TopInner(l) \/ CheckEnds(l) \/ Wake(l) \/ Return(l) \/ Destroy(l) \/ Continue(l)
              \/ EndContinue(l) \/ StopHere(l)
    PROVE  TypeOK'
  <1> USE DEF TypeOK
  <1>1. CASE Top(l)
    BY <1>1 DEF Top, At, Goto, Phases, timers, history
  <1>2. CASE TopInner(l)
    <2>1. l > 1 => l - 1 \in Levels
      BY ChainAssumption DEF Levels
    <2>2. depth' \in Levels /\ pc' \in [Levels -> Phases]
      BY <1>2, <2>1 DEF TopInner, Goto, Phases
    <2> QED
      BY <1>2, <2>2 DEF TopInner, timers
  <1>3. CASE CheckEnds(l)
    BY <1>3 DEF CheckEnds, At, Goto, Phases, timers, history
  <1>4. CASE Wake(l)
    BY <1>4 DEF Wake, At, Goto, Phases, timers, history
  <1>5. CASE Return(l)
    BY <1>5 DEF Return, At, Goto, Phases, timers, history
  <1>6. CASE Destroy(l)
    BY <1>6 DEF Destroy, At, Goto, Phases, timers, history
  <1>7. CASE Continue(l)
    <2>1. l < MaxDepth => l + 1 \in Levels
      BY ChainAssumption DEF Levels
    <2>2. depth' \in Levels /\ pc' \in [Levels -> Phases]
      BY <1>7, <2>1 DEF Continue, Phases
    <2> QED
      BY <1>7, <2>2 DEF Continue, timers, history
  <1>8. CASE EndContinue(l) \/ StopHere(l)
    BY <1>8 DEF EndContinue, StopHere, InHandler, timers, history
  <1> QED
    BY <1>1, <1>2, <1>3, <1>4, <1>5, <1>6, <1>7, <1>8

LEMMA TypeThread ==
    ASSUME TypeOK, CallOK, LockOK, NEW t \in Threads,
           Scan(t) \/ Defer(t) \/ WakeChain(t) \/ ForceUnBlock(t) \/ SetTrigger(t)
    PROVE  TypeOK'
  <1> USE DEF TypeOK, Step, timers, history, loop
  <1>0. call[t] \in [at : Steps, op : Ops, key : Keys \cup {Post}, due : Due]
    OBVIOUS
  <1>a. Idle \in [at : Steps, op : Ops, key : Keys \cup {Post}, due : Due]
    BY DEF Idle, Steps, Ops, Due
  <1>b. ASSUME NEW to \in Steps
        PROVE  [call[t] EXCEPT !.at = to] \in [at : Steps, op : Ops, key : Keys \cup {Post}, due : Due]
    BY <1>0
  <1>c. ASSUME NEW from, NEW to \in Steps, Step(t, from, to)
        PROVE  call' \in [Threads -> [at : Steps, op : Ops, key : Keys \cup {Post}, due : Due]]
    BY <1>a, <1>b, <1>c
  <1>1. CASE Scan(t)
    BY <1>1, <1>c DEF Scan, AfterRemove, Steps
  <1>2. CASE Defer(t)
    BY <1>2, <1>c DEF Defer, CallOK, Steps
  <1>3. CASE WakeChain(t)
    BY <1>3, <1>c DEF WakeChain, AfterRemove, Steps
  <1>5. CASE ForceUnBlock(t)
    BY <1>5, <1>c DEF ForceUnBlock, Steps
  <1>6. CASE SetTrigger(t)
    BY <1>6, <1>c DEF SetTrigger, Sooner, Steps
  <1> QED
    BY <1>1, <1>2, <1>3, <1>5, <1>6

\* The actions that change the lists of timers.
LEMMA TypeTimers ==
    ASSUME TypeOK, Bounded, CallOK, LockOK, NEW l \in Levels,
           \/ Test(l) \/ Collect(l) \/ Fire(l)
           \/ \E k \in Keys \cup {Post}, due \in Due : AddHere(l, k, due)
           \/ \E k \in Keys : RemoveHere(l, k)
    PROVE  TypeOK'
  <1> USE DEF TypeOK
  <1>1. ASSUME NEW K, Remove(K)
        PROVE  queue' \in [Levels -> SUBSET Timer] /\ gone' \in [Keys -> Nat]
    BY <1>1 DEF Remove, Without
  <1>2. CASE Test(l)
    BY <1>1, <1>2 DEF Test, At, Goto, Without, Due, Phases
  <1>3. CASE Collect(l)
    BY <1>3 DEF Collect, At, Goto, Due, Phases, Levels
  <1>4. CASE Fire(l)
    BY <1>4 DEF Fire, At, Goto, Phases, timers, Timer
  <1>5. ASSUME NEW k \in Keys \cup {Post}, NEW due \in Due, AddHere(l, k, due)
        PROVE  TypeOK'
    <2>1. adds + 1 \in Ids /\ adds' = adds + 1
      <3>1. IsFiniteSet({t \in Threads : call[t].op = "add"})
        BY ChainAssumption, FS_Subset
      <3>2. Cardinality({t \in Threads : call[t].op = "add"}) \in Nat
        BY <3>1, FS_CardinalityType
      <3> QED
        BY <1>5, <3>2, ChainAssumption DEF AddHere, MayAdd, Ids
    <2>2. [id |-> adds + 1, key |-> k, due |-> due] \in Timer
      BY <2>1 DEF Timer
    <2>3. objects' \in SUBSET Timer
      BY <1>5, <2>2 DEF AddHere, Without
    <2>4. pipe' \in BOOLEAN
      BY <1>5 DEF AddHere
    <2>5. queue' \in [Levels -> SUBSET Timer] /\ gone' \in [Keys -> Nat]
      BY <1>1, <1>5 DEF AddHere
    <2>6. nextTrigger' \in Due \cup {None} /\ adds' \in Nat /\ adds' <= MaxAdds
      BY <1>5, <2>1 DEF AddHere, Sooner, Ids
    <2> QED
      BY <1>5, <2>3, <2>4, <2>5, <2>6 DEF AddHere
  <1>6. ASSUME NEW k \in Keys, RemoveHere(l, k)
        PROVE  TypeOK'
    BY <1>1, <1>6 DEF RemoveHere, Without
  <1> QED
    BY <1>2, <1>3, <1>4, <1>5, <1>6

LEMMA TypeCalls ==
    ASSUME TypeOK, Bounded, CallOK, LockOK, NEW t \in Threads,
           \/ Insert(t)
           \/ \E op \in Ops, k \in Keys \cup {Post}, due \in Due : Begin(t, op, k, due)
    PROVE  TypeOK'
  <1> USE DEF TypeOK
  <1>1. ASSUME NEW op \in Ops, NEW k \in Keys \cup {Post}, NEW due \in Due, Begin(t, op, k, due)
        PROVE  TypeOK'
    <2>1. \A at \in Steps : [at |-> at, op |-> op, key |-> k, due |-> due]
                               \in [at : Steps, op : Ops, key : Keys \cup {Post}, due : Due]
      OBVIOUS
    <2>2. (IF op = "stop" THEN "wake" ELSE "scan") \in Steps
      BY DEF Steps
    <2> QED
      BY <1>1, <2>1, <2>2 DEF Begin, timers, history
  <1>2. CASE Insert(t)
    <2>1. adds + 1 \in Ids /\ t \in Adders
      <3>1. t \in Adders
        BY <1>2 DEF Insert, Step, CallOK, Adders
      <3>2. Cardinality(Adders) > 0
        BY <3>1, AddersCount, FS_EmptySet
      <3> QED
        BY <3>1, <3>2, AddersCount, ChainAssumption DEF Bounded, Ids
    <2>2. [id |-> adds + 1, key |-> call[t].key, due |-> call[t].due] \in Timer
      BY <2>1 DEF Timer
    <2>3. \A at \in Steps : [call[t] EXCEPT !.at = at]
                               \in [at : Steps, op : Ops, key : Keys \cup {Post}, due : Due]
      OBVIOUS
    <2>4. call' \in [Threads -> [at : Steps, op : Ops, key : Keys \cup {Post}, due : Due]]
      BY <1>2, <2>3 DEF Insert, Step, Steps
    <2>5. objects' \in SUBSET Timer /\ adds' \in Nat /\ adds' <= MaxAdds /\ lock' = t
      BY <1>2, <2>1, <2>2 DEF Insert, Ids
    <2> QED
      BY <1>2, <2>4, <2>5 DEF Insert, loop, history
  <1> QED
    BY <1>1, <1>2

LEMMA TypeTime == TypeOK /\ TimePasses => TypeOK'
  BY DEF TypeOK, TimePasses, Lapse, loop, history, Timer, Due

LEMMA TypeStep == ChainInv /\ [Next]_vars => TypeOK'
  <1> SUFFICES ASSUME ChainInv, [Next]_vars
               PROVE  TypeOK'
    OBVIOUS
  <1>1. CASE UNCHANGED vars
    BY <1>1 DEF ChainInv, TypeOK, vars, timers, loop, history
  <1>2. CASE Next
    BY <1>2, Actions, TypeLoop, TypeThread, TypeTimers, TypeCalls, TypeTime, Zenon DEF ChainInv
  <1> QED
    BY <1>1, <1>2

-----------------------------------------------------------------------------
(* The calls of the other threads, and the lock.                           *)

CallsInv == Bounded /\ CallOK /\ LockOK

\* Only the other threads' own steps change their calls or the lock.
LEMMA CallsKept ==
    ASSUME UNCHANGED <<call, lock, adds>>, CallsInv
    PROVE  CallsInv'
  BY DEF CallsInv, Bounded, Adders, CallOK, LockOK

\* The chain adds a timer only within the bound that counts the calls under way.
LEMMA CallsAddHere ==
    ASSUME TypeOK, CallsInv, UNCHANGED <<call, lock>>, MayAdd, adds' = adds + 1
    PROVE  CallsInv'
  <1> DEFINE All == {t \in Threads : call[t].op = "add"}
  <1>1. IsFiniteSet(All) /\ Cardinality(All) \in Nat
    BY ChainAssumption, FS_Subset, FS_CardinalityType
  <1>2. Cardinality(Adders) <= Cardinality(All)
    BY <1>1, FS_Subset DEF Adders
  <1>3. adds' + Cardinality(Adders) <= MaxAdds
    BY <1>1, <1>2, AddersCount, ChainAssumption DEF MayAdd, TypeOK
  <1>4. Adders' = Adders
    BY DEF Adders
  <1> QED
    BY <1>3, <1>4 DEF CallsInv, Bounded, CallOK, LockOK

LEMMA CallsBegin ==
    ASSUME TypeOK, CallsInv, NEW t \in Threads, NEW op \in Ops, NEW k \in Keys \cup {Post}, NEW due \in Due,
           k = Post => due = "now", Begin(t, op, k, due)
    PROVE  CallsInv'
  <1>1. /\ call[t].at = "idle"
        /\ call'[t] = [at |-> IF op = "stop" THEN "wake" ELSE "scan", op |-> op, key |-> k, due |-> due]
        /\ \A s \in Threads \ {t} : call'[s] = call[s]
        /\ adds' = adds /\ lock' = lock
        /\ op = "add" => MayAdd
    BY DEF Begin, TypeOK, timers
  <1>2. CallOK' /\ LockOK'
    BY <1>1 DEF CallsInv, CallOK, LockOK
  <1>3. CASE op = "add"
    <2> DEFINE All == {s \in Threads : call[s].op = "add"}
    <2>1. IsFiniteSet(All) /\ Cardinality(All) \in Nat
      BY ChainAssumption, FS_Subset, FS_CardinalityType
    <2>2. Cardinality(Adders) <= Cardinality(All)
      BY <2>1, FS_Subset DEF Adders
    <2>3. Adders' \subseteq Adders \cup {t}
      BY <1>1 DEF Adders
    <2>4. Cardinality(Adders') <= Cardinality(Adders \cup {t})
      BY <2>3, AddersCount, FS_Subset
    <2>5. Cardinality(Adders') \in Nat
      BY <2>3, AddersCount, FS_Subset, FS_CardinalityType
    <2>6. Cardinality(Adders') <= Cardinality(All) + 1
      <3>1. Cardinality(Adders \cup {t}) \in Nat
        BY AddersCount, FS_CardinalityType
      <3>2. Cardinality(Adders \cup {t}) <= Cardinality(Adders) + 1 /\ Cardinality(Adders) \in Nat
        BY AddersCount
      <3> HIDE DEF All
      <3> QED
        BY <2>1, <2>2, <2>4, <2>5, <3>1, <3>2
    <2>7. adds + Cardinality(All) < MaxAdds
      BY <1>1, <1>3 DEF MayAdd
    <2> QED
      BY <1>1, <1>2, <2>1, <2>5, <2>6, <2>7, ChainAssumption DEF CallsInv, Bounded, TypeOK
  <1>4. CASE op # "add"
    <2>1. Adders' \subseteq Adders
      BY <1>1, <1>4 DEF Adders
    <2>2. Cardinality(Adders') <= Cardinality(Adders) /\ Cardinality(Adders') \in Nat
      BY <2>1, AddersCount, FS_Subset, FS_CardinalityType
    <2> QED
      BY <1>1, <1>2, <2>2, AddersCount, ChainAssumption DEF CallsInv, Bounded, TypeOK
  <1> QED
    BY <1>3, <1>4

\* What a step of a thread does to its call.
LEMMA StepCall ==
    ASSUME TypeOK, NEW t \in Threads, NEW from, NEW to, Step(t, from, to)
    PROVE  /\ call[t].at = from
           /\ to = "idle" => call'[t] = Idle
           /\ to # "idle" => /\ call'[t].at = to /\ call'[t].op = call[t].op
                             /\ call'[t].key = call[t].key /\ call'[t].due = call[t].due
           /\ \A s \in Threads \ {t} : call'[s] = call[s]
  <1>1. call[t] \in [at : Steps, op : Ops, key : Keys \cup {Post}, due : Due]
    BY DEF TypeOK
  <1>2. call'[t] = IF to = "idle" THEN Idle ELSE [call[t] EXCEPT !.at = to]
    BY DEF Step, TypeOK
  <1> QED
    BY <1>1, <1>2 DEF Step

LEMMA CallsThread ==
    ASSUME TypeOK, CallsInv, NEW t \in Threads,
           Scan(t) \/ Defer(t) \/ WakeChain(t) \/ Insert(t) \/ ForceUnBlock(t) \/ SetTrigger(t)
    PROVE  CallsInv'
  <1> USE DEF CallsInv, Idle
  <1>1. CASE Insert(t)
    <2>1. PICK heads \in BOOLEAN : Step(t, "insert", IF heads THEN "force" ELSE "trigger")
      BY <1>1 DEF Insert, Leads
    <2>2. CallOK' /\ LockOK'
      BY <1>1, <2>1, StepCall, ChainAssumption DEF Insert, CallOK, LockOK
    <2>3. t \in Adders /\ Adders' = Adders \ {t}
      BY <2>1, StepCall DEF CallOK, Adders
    <2>4. adds' + Cardinality(Adders') = adds + Cardinality(Adders)
      BY <1>1, <2>3, AddersCount DEF Insert, TypeOK
    <2> QED
      BY <2>2, <2>4 DEF Bounded
  <1>2. CASE Scan(t) \/ Defer(t) \/ WakeChain(t) \/ ForceUnBlock(t) \/ SetTrigger(t)
    <2>1. CallOK' /\ LockOK' /\ Adders' \subseteq Adders /\ adds' = adds
      <3>1. CASE Scan(t)
        BY <3>1, StepCall DEF Scan, AfterRemove, CallOK, LockOK, Adders, timers
      <3>2. CASE Defer(t)
        BY <3>2, StepCall DEF Defer, CallOK, LockOK, Adders
      <3>3. CASE WakeChain(t)
        BY <3>3, StepCall DEF WakeChain, AfterRemove, CallOK, LockOK, Adders, timers
      <3>4. CASE ForceUnBlock(t)
        BY <3>4, StepCall DEF ForceUnBlock, CallOK, LockOK, Adders, timers
      <3>5. CASE SetTrigger(t)
        BY <3>5, StepCall, ChainAssumption DEF SetTrigger, CallOK, LockOK, Adders
      <3> QED
        BY <1>2, <3>1, <3>2, <3>3, <3>4, <3>5
    <2>2. Cardinality(Adders') <= Cardinality(Adders) /\ Cardinality(Adders') \in Nat
      BY <2>1, AddersCount, FS_Subset, FS_CardinalityType
    <2> QED
      BY <2>1, <2>2, AddersCount, ChainAssumption DEF Bounded, TypeOK
  <1> QED
    BY <1>1, <1>2

LEMMA CallsStep == ChainInv /\ [Next]_vars => CallsInv'
  <1> SUFFICES ASSUME ChainInv, [Next]_vars
               PROVE  CallsInv'
    OBVIOUS
  <1>1. TypeOK /\ CallsInv
    BY DEF ChainInv, CallsInv
  <1>2. CASE UNCHANGED vars
    BY <1>1, <1>2, CallsKept DEF vars, timers
  <1>3. ASSUME NEW l \in Levels,
               \/ Top(l) \/ TopInner(l) \/ Test(l) \/ Collect(l) \/ Fire(l) \/ CheckEnds(l) \/ Wake(l)
               \/ Destroy(l) \/ Return(l) \/ Continue(l) \/ EndContinue(l) \/ StopHere(l)
               \/ \E k \in Keys : RemoveHere(l, k)
        PROVE  CallsInv'
    <2>1. UNCHANGED <<call, lock, adds>>
      BY <1>3 DEF Top, TopInner, Test, Collect, Fire, CheckEnds, Wake, Destroy, Return, Continue,
                  EndContinue, StopHere, RemoveHere, timers
    <2> QED
      BY <1>1, <2>1, CallsKept
  <1>4. ASSUME NEW l \in Levels, NEW k \in Keys \cup {Post}, NEW due \in Due, AddHere(l, k, due)
        PROVE  CallsInv'
    BY <1>1, <1>4, CallsAddHere DEF AddHere
  <1>5. CASE TimePasses
    BY <1>1, <1>5, CallsKept DEF TimePasses
  <1> QED
    BY <1>1, <1>2, <1>3, <1>4, <1>5, Actions, CallsBegin, CallsThread, Zenon

-----------------------------------------------------------------------------
(* The loops.                                                              *)

LevelsInv == LevelOK /\ ActiveOK

LEMMA LevelsKept ==
    ASSUME LevelsInv, UNCHANGED <<depth, pc, active>>, terminate => terminate',
           \A l \in Levels : queue'[l] \subseteq queue[l]
    PROVE  LevelsInv'
  BY DEF LevelsInv, LevelOK, ActiveOK

LEMMA LevelsLoop ==
    ASSUME TypeOK, LevelsInv, NEW l \in Levels,
           \/ Top(l) \/ TopInner(l) \/ Test(l) \/ Collect(l) \/ Fire(l) \/ CheckEnds(l) \/ Wake(l)
           \/ Destroy(l) \/ Return(l) \/ Continue(l)
    PROVE  LevelsInv'
  <1>0. MaxDepth \in Nat /\ depth \in Levels /\ active \in Levels \cup {0}
    BY ChainAssumption DEF TypeOK
  <1> USE <1>0 DEF LevelsInv, TypeOK, Levels
  <1>1. CASE Top(l)
    BY <1>1 DEF Top, At, Goto, LevelOK, ActiveOK
  <1>2. CASE TopInner(l)
    BY <1>2 DEF TopInner, At, Goto, LevelOK, ActiveOK
  <1>3. CASE Test(l)
    BY <1>3 DEF Test, Remove, Without, At, Goto, LevelOK, ActiveOK
  <1>4. CASE Collect(l)
    BY <1>4 DEF Collect, At, Goto, LevelOK, ActiveOK
  <1>5. CASE Fire(l)
    BY <1>5 DEF Fire, At, Goto, LevelOK, ActiveOK
  <1>6. CASE CheckEnds(l)
    BY <1>6 DEF CheckEnds, At, Goto, LevelOK, ActiveOK
  <1>7. CASE Wake(l)
    BY <1>7 DEF Wake, At, Goto, LevelOK, ActiveOK
  <1>8. CASE Destroy(l)
    BY <1>8 DEF Destroy, At, Goto, LevelOK, ActiveOK
  <1>9. CASE Return(l)
    BY <1>9 DEF Return, At, Goto, LevelOK, ActiveOK
  <1>10. CASE Continue(l)
    <2>1. CASE terminate
      BY <1>10, <2>1 DEF Continue, LevelOK, ActiveOK
    <2>2. CASE ~ terminate
      <3>1. l = depth /\ depth' = l + 1 /\ pc' = [pc EXCEPT ![l + 1] = "top"]
        BY <1>10, <2>2 DEF Continue, InHandler
      <3> QED
        BY <1>10, <2>2, <3>1 DEF Continue, InHandler, LevelOK, ActiveOK
    <2> QED
      BY <2>1, <2>2
  <1> QED
    BY <1>1, <1>2, <1>3, <1>4, <1>5, <1>6, <1>7, <1>8, <1>9, <1>10

LEMMA LevelsStep == ChainInv /\ [Next]_vars => LevelsInv'
  <1> SUFFICES ASSUME ChainInv, [Next]_vars
               PROVE  LevelsInv'
    OBVIOUS
  <1>1. TypeOK /\ LevelsInv
    BY DEF ChainInv, LevelsInv
  <1>2. CASE UNCHANGED vars
    BY <1>1, <1>2, LevelsKept DEF vars, loop
  <1>3. ASSUME NEW l \in Levels,
               \/ EndContinue(l) \/ StopHere(l)
               \/ \E k \in Keys \cup {Post}, due \in Due : AddHere(l, k, due)
               \/ \E k \in Keys : RemoveHere(l, k)
        PROVE  LevelsInv'
    BY <1>1, <1>3, LevelsKept DEF EndContinue, StopHere, AddHere, RemoveHere, Remove, Without, TypeOK
  <1>4. ASSUME NEW t \in Threads,
               \/ Scan(t) \/ Defer(t) \/ WakeChain(t) \/ Insert(t) \/ ForceUnBlock(t) \/ SetTrigger(t)
               \/ \E op \in Ops, k \in Keys \cup {Post}, due \in Due : Begin(t, op, k, due)
        PROVE  LevelsInv'
    BY <1>1, <1>4, LevelsKept DEF Scan, Defer, WakeChain, Insert, ForceUnBlock, SetTrigger, Begin, loop,
                                  TypeOK
  <1>5. CASE TimePasses
    BY <1>1, <1>5, LevelsKept DEF TimePasses, loop
  <1> QED
    BY <1>1, <1>2, <1>3, <1>4, <1>5, Actions, LevelsLoop, Zenon

-----------------------------------------------------------------------------
(* The places of the timers.                                               *)

PlacesInv == Fresh /\ OnePlace /\ RemovedIsGone /\ PostsOK

LEMMA PendingIs == \A r : r \in Pending <=> r \in objects \/ \E l \in Levels : r \in queue[l]
  BY DEF Pending

LEMMA PendingType ==
    ASSUME TypeOK
    PROVE  /\ \A r \in Pending : r \in Timer /\ r.id \in Nat /\ r.id # 0 /\ r.key \in Keys \cup {Post}
           /\ \A l \in Levels : running[l].id \in Nat
           /\ adds \in Nat /\ \A k \in Keys : gone[k] \in Nat
  <1>1. \A r \in Pending : r \in Timer
    BY DEF Pending, TypeOK
  <1>2. \A r \in Timer : r.id \in Nat /\ r.id # 0 /\ r.key \in Keys \cup {Post}
    BY ChainAssumption DEF Timer, Ids
  <1>3. \A l \in Levels : running[l].id \in Nat
    BY <1>2 DEF TypeOK, NoTimer
  <1> QED
    BY <1>1, <1>2, <1>3 DEF TypeOK

\* Timers are removed, or nothing happens to them, and no one is hidden less than before.
LEMMA PlacesShrink ==
    ASSUME TypeOK, PlacesInv,
           objects' \subseteq objects, \A l \in Levels : queue'[l] \subseteq queue[l],
           \A l \in Levels : running'[l] = running[l] \/ running'[l] = NoTimer,
           adds' = adds, ran' = ran,
           \A k \in Keys : gone'[k] = gone[k] \/ gone'[k] = adds,
           RemovedIsGone'
    PROVE  PlacesInv'
  <1>1. \A r : r \in Pending' => r \in Pending
    BY PendingIs DEF Pending
  <1>2. NoTimer.id = 0
    BY DEF NoTimer
  <1>3. Fresh'
    <2>1. \A r \in Pending' : r.id <= adds'
      BY <1>1 DEF PlacesInv, Fresh
    <2>2. \A l \in Levels : running'[l].id <= adds'
      BY <1>2, PendingType DEF PlacesInv, Fresh
    <2>3. \A k \in Keys : gone'[k] <= adds'
      BY PendingType DEF PlacesInv, Fresh
    <2>4. \A i \in ran' : i <= adds'
      BY DEF PlacesInv, Fresh
    <2> QED
      BY <2>1, <2>2, <2>3, <2>4 DEF Fresh
  <1>5. OnePlace'
    <2>1. \A r, s \in Pending' : r.id = s.id => r = s
      BY <1>1 DEF PlacesInv, OnePlace
    <2>2. \A l \in Levels : queue'[l] \cap objects' = {}
      BY DEF PlacesInv, OnePlace
    <2>3. \A l, m \in Levels : l # m => queue'[l] \cap queue'[m] = {}
      BY DEF PlacesInv, OnePlace
    <2>4. \A l \in Levels : \A r \in Pending' : r.id # running'[l].id
      BY <1>1, <1>2, PendingType DEF PlacesInv, OnePlace
    <2>5. ASSUME NEW l \in Levels, NEW m \in Levels, l # m, running'[l].id = running'[m].id
          PROVE  running'[l] = NoTimer
      <3>1. running[l] \in Timer => running[l].id # 0
        BY ChainAssumption DEF Timer, Ids
      <3>2. running[l] = NoTimer \/ running[l] \in Timer
        BY DEF TypeOK
      <3> QED
        BY <1>2, <2>5, <3>1, <3>2 DEF PlacesInv, OnePlace
    <2> QED
      BY <2>1, <2>2, <2>3, <2>4, <2>5 DEF OnePlace
  <1>6. PostsOK'
    BY <1>1 DEF PlacesInv, PostsOK
  <1> QED
    BY <1>3, <1>5, <1>6 DEF PlacesInv

\* Remove leaves of the timers with these keys only the hidden ones.
LEMMA RemoveIsGone ==
    ASSUME TypeOK, PlacesInv, NEW K \in SUBSET Keys, Remove(K),
           UNCHANGED <<active, adds>>, objects' \subseteq Without(objects, K)
    PROVE  RemovedIsGone' /\ \A l \in Levels : queue'[l] \subseteq queue[l]
  <1>1. \A l \in Levels : queue'[l] \subseteq queue[l] /\ (active = l => queue'[l] = Without(queue[l], K))
                          /\ (active # l => queue'[l] = queue[l])
    BY DEF Remove, Without, TypeOK
  <1>2. \A k \in Keys : gone'[k] = IF k \in K THEN adds ELSE gone[k]
    BY DEF Remove
  <1>3. ASSUME NEW r \in Pending', r.key # Post, r.id <= gone'[r.key]
        PROVE  Hidden(r)'
    <2>1. r \in Pending /\ r.key \in Keys
      BY <1>1, <1>3, PendingType DEF Pending, Without
    <2>2. CASE r.key \in K
      BY <1>1, <2>1, <2>2 DEF Pending, Hidden, Without
    <2>3. CASE r.key \notin K
      BY <1>1, <1>2, <1>3, <2>1, <2>3 DEF PlacesInv, RemovedIsGone, Hidden
    <2> QED
      BY <2>2, <2>3
  <1> QED
    BY <1>1, <1>3 DEF RemovedIsGone

\* A timer is added with the next number; it is due at once when it is a posted call.
LEMMA PlacesAdd ==
    ASSUME TypeOK, TypeOK', PlacesInv, NEW r \in Timer, r.id = adds + 1, r.key = Post => r.due = "now",
           NEW rest, rest \subseteq objects, objects' = rest \cup {r}, adds' = adds + 1,
           \A l \in Levels : queue'[l] \subseteq queue[l],
           \A k \in Keys : gone'[k] <= adds,
           \A s \in rest : s.key # Post => s.id > gone'[s.key],
           \A l \in Levels : \A s \in queue'[l] : s.key # Post /\ s.id <= gone'[s.key] => active # l,
           UNCHANGED <<running, ran, active>>
    PROVE  PlacesInv'
  <1>0. adds \in Nat /\ \A l \in Levels : running[l].id \in Nat
    BY DEF TypeOK, Timer, NoTimer, Ids
  <1>9. \A k \in Keys : gone'[k] \in Nat
    BY DEF TypeOK
  <1>1. \A s \in Pending' : s = r \/ s \in Pending
    BY DEF Pending
  <1>2. \A s \in Pending : s.id <= adds /\ s.id \in Nat
    BY DEF PlacesInv, Fresh, Pending, TypeOK, Timer, Ids
  <1>3. r \notin Pending /\ \A s \in Pending : s.id # r.id
    BY <1>0, <1>2
  <1>4. \A s \in Pending' : s.id <= adds + 1
    BY <1>0, <1>1, <1>2
  <1>5. Fresh'
    <2>1. \A l \in Levels : running'[l].id <= adds'
      BY <1>0 DEF PlacesInv, Fresh
    <2>2. \A k \in Keys : gone'[k] <= adds'
      BY <1>0, <1>9
    <2>3. \A i \in ran' : i <= adds'
      BY <1>0, ChainAssumption DEF PlacesInv, Fresh, TypeOK, Ids
    <2> QED
      BY <1>4, <2>1, <2>2, <2>3 DEF Fresh
  <1>6. OnePlace'
    <2>1. \A s, u \in Pending' : s.id = u.id => s = u
      BY <1>1, <1>3 DEF PlacesInv, OnePlace
    <2>2. \A l \in Levels : queue'[l] \cap objects' = {}
      BY <1>3 DEF PlacesInv, OnePlace, Pending
    <2>3. \A l \in Levels : \A s \in Pending' : s.id # running'[l].id
      BY <1>0, <1>1 DEF PlacesInv, OnePlace, Fresh
    <2>4. \A l, m \in Levels : l # m => /\ queue'[l] \cap queue'[m] = {}
                                        /\ running'[l].id = running'[m].id => running'[l] = NoTimer
      BY DEF PlacesInv, OnePlace
    <2> QED
      BY <2>1, <2>2, <2>3, <2>4 DEF OnePlace
  <1>7. RemovedIsGone'
    <2>1. ASSUME NEW s \in Pending', s.key # Post, s.id <= gone'[s.key]
          PROVE  Hidden(s)'
      <3>1. s # r
        <4>1. r.key # Post => gone'[r.key] <= adds /\ gone'[r.key] \in Nat
          BY <1>9 DEF Timer
        <4> QED
          BY <1>0, <2>1, <4>1
      <3>2. s \notin rest
        <4>1. s.id \in Nat /\ gone'[s.key] \in Nat
          BY <1>1, <1>2, <1>9, <2>1, <3>1, PendingType
        <4> QED
          BY <2>1, <4>1
      <3> QED
        BY <2>1, <3>1, <3>2 DEF Pending, Hidden
    <2> QED
      BY <2>1 DEF RemovedIsGone
  <1>8. PostsOK'
    <2>1. \A s \in Pending' : s.key = Post => s.due = "now"
      BY <1>1 DEF PlacesInv, PostsOK
    <2>2. \A l \in Levels : \A s \in queue'[l], u \in objects' : s.key = Post /\ u.key = Post => s.id < u.id
      BY <1>0, <1>2 DEF PlacesInv, PostsOK, Pending
    <2> QED
      BY <2>1, <2>2 DEF PostsOK
  <1> QED
    BY <1>5, <1>6, <1>7, <1>8 DEF PlacesInv

\* A check takes over what is due, posted calls included.
LEMMA PlacesCollect ==
    ASSUME TypeOK, PlacesInv, LevelsInv, NEW l \in Levels, Collect(l)
    PROVE  PlacesInv'
  <1>1. /\ queue[l] = {} /\ active' = l
        /\ objects' = objects \ queue'[l] /\ queue'[l] \subseteq objects
        /\ \A r \in objects : r.due = "now" => r \in queue'[l]
        /\ \A m \in Levels \ {l} : queue'[m] = queue[m]
    BY DEF Collect, At, LevelsInv, LevelOK, TypeOK
  <1>2. UNCHANGED <<running, adds, gone, ran>>
    BY DEF Collect
  <1>3. \A r : r \in Pending' <=> r \in Pending
    BY <1>1 DEF Pending
  <1>4. Fresh'
    BY <1>2, <1>3 DEF PlacesInv, Fresh
  <1>5. OnePlace'
    <2>1. \A r, s \in Pending' : r.id = s.id => r = s
      BY <1>3 DEF PlacesInv, OnePlace
    <2>2. \A m \in Levels : queue'[m] \cap objects' = {}
      BY <1>1 DEF PlacesInv, OnePlace
    <2>3. \A k, m \in Levels : k # m => queue'[k] \cap queue'[m] = {}
      BY <1>1 DEF PlacesInv, OnePlace
    <2>4. \A k, m \in Levels : k # m /\ running'[k].id = running'[m].id => running'[k] = NoTimer
      BY <1>2 DEF PlacesInv, OnePlace
    <2>5. \A m \in Levels : \A r \in Pending' : r.id # running'[m].id
      BY <1>2, <1>3 DEF PlacesInv, OnePlace
    <2> QED
      BY <2>1, <2>2, <2>3, <2>4, <2>5 DEF OnePlace
  <1>6. RemovedIsGone'
    <2>1. ASSUME NEW r \in Pending', r.key # Post, r.id <= gone'[r.key]
          PROVE  Hidden(r)'
      <3>1. PICK m \in Levels : r \in queue[m] /\ active # m
        BY <1>2, <1>3, <2>1 DEF PlacesInv, RemovedIsGone, Hidden
      <3>2. m # l
        BY <1>1, <3>1
      <3> QED
        BY <1>1, <3>1, <3>2 DEF Hidden
    <2> QED
      BY <2>1 DEF RemovedIsGone
  <1>7. PostsOK'
    <2>1. \A r \in Pending' : r.key = Post => r.due = "now"
      BY <1>3 DEF PlacesInv, PostsOK
    <2>2. \A m \in Levels : \A s \in queue'[m], r \in objects' : s.key = Post /\ r.key = Post => s.id < r.id
      BY <1>1, <2>1 DEF PlacesInv, PostsOK, Pending
    <2> QED
      BY <2>1, <2>2 DEF PostsOK
  <1> QED
    BY <1>4, <1>5, <1>6, <1>7 DEF PlacesInv

\* The next timer of a queue is called.
LEMMA PlacesFire ==
    ASSUME TypeOK, PlacesInv, NEW l \in Levels, Fire(l)
    PROVE  PlacesInv'
  <1>1. PICK r \in queue[l] : /\ queue' = [queue EXCEPT ![l] = @ \ {r}]
                              /\ running' = [running EXCEPT ![l] = r]
                              /\ ran' = IF r.key = Post THEN ran \cup {r.id} ELSE ran
    BY DEF Fire
  <1>2. UNCHANGED <<objects, active, gone, adds>>
    BY DEF Fire, timers
  <1>3. /\ queue'[l] = queue[l] \ {r} /\ running'[l] = r
        /\ \A m \in Levels \ {l} : queue'[m] = queue[m] /\ running'[m] = running[m]
    BY <1>1 DEF TypeOK
  <1>4. r \in Pending /\ r.id # 0
    BY PendingType DEF Pending
  <1>5. \A s : s \in Pending' => s \in Pending /\ s # r
    BY <1>2, <1>3 DEF Pending, PlacesInv, OnePlace
  <1>6. Fresh'
    <2>1. \A s \in Pending' : s.id <= adds'
      BY <1>2, <1>5 DEF PlacesInv, Fresh
    <2>2. \A m \in Levels : running'[m].id <= adds'
      BY <1>2, <1>3, <1>4 DEF PlacesInv, Fresh
    <2>3. \A i \in ran' : i <= adds'
      BY <1>1, <1>2, <1>4 DEF PlacesInv, Fresh
    <2> QED
      BY <1>2, <2>1, <2>2, <2>3 DEF PlacesInv, Fresh
  <1>7. OnePlace'
    <2>1. \A s, u \in Pending' : s.id = u.id => s = u
      BY <1>5 DEF PlacesInv, OnePlace
    <2>2. \A m \in Levels : queue'[m] \cap objects' = {}
      BY <1>2, <1>3 DEF PlacesInv, OnePlace
    <2>3. \A k, m \in Levels : k # m => queue'[k] \cap queue'[m] = {}
      BY <1>3 DEF PlacesInv, OnePlace
    <2>4. ASSUME NEW k \in Levels, NEW m \in Levels, k # m, running'[k].id = running'[m].id
          PROVE  running'[k] = NoTimer
      <3>1. k # l /\ m # l
        BY <1>3, <1>4, <2>4 DEF PlacesInv, OnePlace
      <3> QED
        BY <1>3, <2>4, <3>1 DEF PlacesInv, OnePlace
    <2>5. \A m \in Levels : \A s \in Pending' : s.id # running'[m].id
      BY <1>3, <1>4, <1>5 DEF PlacesInv, OnePlace
    <2> QED
      BY <2>1, <2>2, <2>3, <2>4, <2>5 DEF OnePlace
  <1>8. RemovedIsGone'
    BY <1>2, <1>3, <1>5 DEF PlacesInv, RemovedIsGone, Hidden
  <1>9. PostsOK'
    BY <1>2, <1>3, <1>5 DEF PlacesInv, PostsOK
  <1> QED
    BY <1>6, <1>7, <1>8, <1>9 DEF PlacesInv

\* A timer's time comes.
LEMMA PlacesLapse ==
    ASSUME TypeOK, PlacesInv, NEW r \in objects, r.due = "later",
           objects' = (objects \ {r}) \cup {[r EXCEPT !.due = "past"]},
           UNCHANGED <<queue, running, active, adds, gone, ran>>
    PROVE  PlacesInv'
  <1> DEFINE p == [r EXCEPT !.due = "past"]
  <1>1. r \in Timer
    BY DEF TypeOK
  <1>2. p.id = r.id /\ p.key = r.key
    BY <1>1 DEF Timer
  <1>3. r \in Pending /\ r.key # Post
    BY DEF Pending, PlacesInv, PostsOK
  <1> HIDE DEF p
  <1>4. \A s : s \in Pending' => s = p \/ (s \in Pending /\ s # r)
    BY DEF Pending, PlacesInv, OnePlace, p
  <1>5. Fresh'
    BY <1>2, <1>3, <1>4 DEF PlacesInv, Fresh
  <1>6. OnePlace'
    <2>1. \A s, u \in Pending' : s.id = u.id => s = u
      BY <1>2, <1>3, <1>4 DEF PlacesInv, OnePlace
    <2>2. \A m \in Levels : queue'[m] \cap objects' = {}
      <3>1. ASSUME NEW m \in Levels, p \in queue[m]
            PROVE  FALSE
        <4>1. p \in Pending
          BY <3>1 DEF Pending
        <4>2. p = r
          BY <1>2, <1>3, <4>1 DEF PlacesInv, OnePlace
        <4> QED
          BY <3>1, <4>2 DEF PlacesInv, OnePlace
      <3> QED
        BY <3>1 DEF PlacesInv, OnePlace, p
    <2>3. \A k, m \in Levels : k # m => queue'[k] \cap queue'[m] = {}
      BY DEF PlacesInv, OnePlace
    <2>4. \A k, m \in Levels : k # m /\ running'[k].id = running'[m].id => running'[k] = NoTimer
      BY DEF PlacesInv, OnePlace
    <2>5. \A m \in Levels : \A s \in Pending' : s.id # running'[m].id
      BY <1>2, <1>3, <1>4 DEF PlacesInv, OnePlace
    <2> QED
      BY <2>1, <2>2, <2>3, <2>4, <2>5 DEF OnePlace
  <1>7. RemovedIsGone'
    <2>1. ~ Hidden(r)
      BY DEF Hidden, PlacesInv, OnePlace
    <2> QED
      BY <1>2, <1>3, <1>4, <2>1 DEF PlacesInv, RemovedIsGone, Hidden
  <1>8. PostsOK'
    BY <1>2, <1>3, <1>4 DEF PlacesInv, PostsOK, Pending, p
  <1> QED
    BY <1>5, <1>6, <1>7, <1>8 DEF PlacesInv

LEMMA PlacesStep == ChainInv /\ [Next]_vars => PlacesInv'
  <1> SUFFICES ASSUME ChainInv, [Next]_vars
               PROVE  PlacesInv'
    OBVIOUS
  <1>1. TypeOK /\ TypeOK' /\ PlacesInv /\ LevelsInv /\ CallsInv
    BY TypeStep DEF ChainInv, PlacesInv, LevelsInv, CallsInv
  <1>2. \A k \in Keys : gone[k] <= adds
    BY <1>1 DEF PlacesInv, Fresh
  <1>3. \A r \in objects : r.id \in Nat /\ (r.key # Post => r.id > gone[r.key])
    <2>1. ASSUME NEW r \in objects, r.key # Post
          PROVE  r.id > gone[r.key]
      <3>1. ~ Hidden(r) /\ r \in Pending
        BY <1>1 DEF Hidden, PlacesInv, OnePlace, Pending
      <3>2. r.key \in Keys
        BY <1>1, <2>1, <3>1, PendingType
      <3> QED
        BY <1>1, <2>1, <3>1, <3>2, PendingType DEF PlacesInv, RemovedIsGone
    <2> QED
      BY <1>1, <2>1, PendingType DEF Pending
  <1>4. ASSUME UNCHANGED <<queue, adds, gone, ran, active>>, objects' \subseteq objects,
               \A l \in Levels : running'[l] = running[l] \/ running'[l] = NoTimer
        PROVE  PlacesInv'
    <2>1. RemovedIsGone'
      BY <1>1, <1>4 DEF PlacesInv, RemovedIsGone, Hidden, Pending
    <2> QED
      BY <1>1, <1>4, <2>1, PlacesShrink
  <1>5. CASE UNCHANGED vars
    BY <1>4, <1>5 DEF vars, timers, loop, history
  <1>6. ASSUME NEW l \in Levels,
               \/ Top(l) \/ TopInner(l) \/ Wake(l) \/ Destroy(l) \/ Return(l) \/ Continue(l)
               \/ EndContinue(l) \/ StopHere(l)
        PROVE  PlacesInv'
    <2>1. UNCHANGED <<queue, adds, gone, ran, active>> /\ objects' \subseteq objects
      BY <1>6 DEF Top, TopInner, Wake, Destroy, Return, Continue, EndContinue, StopHere, timers, history
    <2>2. \A m \in Levels : running'[m] = running[m] \/ running'[m] = NoTimer
      BY <1>1, <1>6 DEF Top, TopInner, Wake, Destroy, Return, Continue, EndContinue, StopHere, TypeOK
    <2> QED
      BY <1>4, <2>1, <2>2
  <1>7. ASSUME NEW l \in Levels, CheckEnds(l)
        PROVE  PlacesInv'
    <2>1. UNCHANGED <<queue, adds, gone, ran, objects, running>> /\ active' = 0
      BY <1>7 DEF CheckEnds, timers, history
    <2>2. RemovedIsGone'
      BY <1>1, <2>1, ChainAssumption DEF PlacesInv, RemovedIsGone, Hidden, Pending, Levels
    <2> QED
      BY <1>1, <2>1, <2>2, PlacesShrink
  <1>8. ASSUME NEW l \in Levels, \/ Test(l)
                                 \/ \E k \in Keys : RemoveHere(l, k)
        PROVE  PlacesInv'
    <2>1. PICK K \in SUBSET Keys : Remove(K) /\ objects' = Without(objects, K)
      BY <1>1, <1>8 DEF Test, RemoveHere, TypeOK
    <2>2. UNCHANGED <<adds, ran, active, running>>
      BY <1>8 DEF Test, RemoveHere
    <2>3. RemovedIsGone' /\ \A m \in Levels : queue'[m] \subseteq queue[m]
      BY <1>1, <2>1, <2>2, RemoveIsGone
    <2>4. \A k \in Keys : gone'[k] = gone[k] \/ gone'[k] = adds
      BY <2>1 DEF Remove
    <2>5. objects' \subseteq objects
      BY <2>1 DEF Without
    <2> QED
      BY <1>1, <2>2, <2>3, <2>4, <2>5, PlacesShrink
  <1>9. ASSUME NEW l \in Levels, NEW k \in Keys \cup {Post}, NEW due \in Due, k = Post => due = "now",
               AddHere(l, k, due)
        PROVE  PlacesInv'
    <2> DEFINE K == {k} \cap Keys
               rest == Without(objects, K)
               r == [id |-> adds + 1, key |-> k, due |-> due]
    <2>1. K \in SUBSET Keys /\ Remove(K) /\ objects' = rest \cup {r} /\ adds' = adds + 1
          /\ UNCHANGED <<running, ran, active>>
      BY <1>9 DEF AddHere
    <2>2. r \in Timer /\ r.id = adds + 1 /\ r.key = k /\ r.due = due
      BY <1>1, <2>1 DEF TypeOK
    <2>3. \A m \in Levels : /\ queue'[m] \subseteq queue[m]
                            /\ active = m => queue'[m] = Without(queue[m], K)
      BY <1>1, <2>1 DEF Remove, Without, TypeOK
    <2>4. \A j \in Keys : gone'[j] <= adds /\ gone'[j] = IF j \in K THEN adds ELSE gone[j]
      BY <1>1, <1>2, <2>1 DEF Remove, TypeOK
    <2>5. rest \subseteq objects /\ \A s \in rest : s.key \notin K
      BY DEF Without
    <2>6. ASSUME NEW s \in rest, s.key # Post
          PROVE  s.id > gone'[s.key]
      <3>1. s.key \in Keys
        BY <1>1, <2>5, <2>6, PendingType DEF Pending
      <3> QED
        BY <1>3, <2>4, <2>5, <2>6, <3>1
    <2>7. ASSUME NEW m \in Levels, NEW s \in queue'[m], s.key # Post, s.id <= gone'[s.key]
          PROVE  active # m
      <3>1. SUFFICES ASSUME active = m
                     PROVE  FALSE
        OBVIOUS
      <3>2. s \in queue[m] /\ s.key \notin K /\ s \in Pending
        BY <2>3, <3>1 DEF Without, Pending
      <3>3. s.key \in Keys
        BY <1>1, <2>7, <3>2, PendingType
      <3>4. s.id <= gone[s.key]
        BY <2>4, <2>7, <3>2, <3>3
      <3>5. PICK j \in Levels : s \in queue[j] /\ active # j
        BY <1>1, <2>7, <3>2, <3>4 DEF PlacesInv, RemovedIsGone, Hidden
      <3> QED
        BY <1>1, <3>1, <3>2, <3>5 DEF PlacesInv, OnePlace
    <2> HIDE DEF K, rest, r
    <2> QED
      BY <1>1, <1>9, <2>1, <2>2, <2>3, <2>4, <2>5, <2>6, <2>7, PlacesAdd
  <1>10. ASSUME NEW t \in Threads, Insert(t)
         PROVE  PlacesInv'
    <2> DEFINE r == [id |-> adds + 1, key |-> call[t].key, due |-> call[t].due]
    <2>1. objects' = objects \cup {r} /\ adds' = adds + 1 /\ UNCHANGED <<queue, running, ran, active, gone>>
      BY <1>10 DEF Insert, loop, history
    <2>2. r \in Timer /\ r.id = adds + 1
      BY <1>1, <2>1 DEF TypeOK
    <2>3. r.key = Post => r.due = "now"
      BY <1>1 DEF CallsInv, CallOK
    <2>4. ASSUME NEW m \in Levels, NEW s \in queue[m], s.key # Post, s.id <= gone[s.key]
          PROVE  active # m
      BY <1>1, <2>4 DEF PlacesInv, RemovedIsGone, OnePlace, Hidden, Pending
    <2> HIDE DEF r
    <2> QED
      BY <1>1, <1>2, <1>3, <2>1, <2>2, <2>3, <2>4, PlacesAdd
  <1>11. ASSUME NEW t \in Threads,
                \/ Scan(t) \/ Defer(t) \/ WakeChain(t) \/ ForceUnBlock(t) \/ SetTrigger(t)
                \/ \E op \in Ops, k \in Keys \cup {Post}, due \in Due : Begin(t, op, k, due)
         PROVE  PlacesInv'
    BY <1>4, <1>11 DEF Scan, Defer, WakeChain, ForceUnBlock, SetTrigger, Begin, timers, loop, history
  <1>12. CASE TimePasses
    <2>1. CASE UNCHANGED objects
      BY <1>4, <1>12, <2>1 DEF TimePasses, loop, history
    <2>2. CASE ~ UNCHANGED objects
      <3>1. PICK r \in objects : /\ r.due = "later"
                                 /\ objects' = (objects \ {r}) \cup {[r EXCEPT !.due = "past"]}
        BY <1>12, <2>2 DEF TimePasses, Lapse
      <3> QED
        BY <1>1, <1>12, <3>1, PlacesLapse DEF TimePasses, loop, history
    <2> QED
      BY <2>1, <2>2
  <1>13. ASSUME NEW l \in Levels, Collect(l) \/ Fire(l)
         PROVE  PlacesInv'
    BY <1>1, <1>13, PlacesCollect, PlacesFire
  <1> QED
    BY <1>5, <1>6, <1>7, <1>8, <1>9, <1>10, <1>11, <1>12, <1>13, Actions, Zenon

-----------------------------------------------------------------------------
(* The wake-ups.                                                           *)

WakesInv == Seen /\ Awake /\ Told

\* An insertion under way is by the thread in the lock.
LEMMA WakesThread ==
    ASSUME TypeOK, CallsInv, WakesInv, NEW t \in Threads,
           \/ Scan(t) \/ Defer(t) \/ WakeChain(t) \/ Insert(t) \/ ForceUnBlock(t) \/ SetTrigger(t)
           \/ \E op \in Ops, k \in Keys \cup {Post}, due \in Due :
                 (k = Post => due = "now") /\ op # "none" /\ Begin(t, op, k, due)
    PROVE  WakesInv'
  <1>0. \A s \in Threads : s # None
    BY ChainAssumption
  <1>1. \A s \in Threads : (lock = s => call[s].at \in {"force", "trigger"})
                           /\ (call[s].at \in {"force", "trigger"} => lock = s)
    BY DEF CallsInv, LockOK
  <1> USE DEF WakesInv
  <1>2. ASSUME NEW op \in Ops, NEW k \in Keys \cup {Post}, NEW due \in Due, op # "none",
               Begin(t, op, k, due)
        PROVE  WakesInv'
    <2>1. /\ call[t].at = "idle" /\ call[t].op # "stop" /\ lock # t
          /\ \A s \in Threads \ {t} : call'[s] = call[s]
          /\ call'[t].op = op
      BY <1>1, <1>2 DEF Begin, TypeOK, CallsInv, CallOK
    <2>2. lock # None => lock \in Threads \ {t}
      BY <2>1 DEF TypeOK
    <2>3. UNCHANGED <<objects, nextTrigger, missed, pipe, lock, depth, pc>>
      BY <1>2 DEF Begin, timers, history
    <2>4. terminate' = (terminate \/ op = "stop")
      BY <1>2 DEF Begin
    <2>5. Seen' /\ Awake'
      BY <2>1, <2>2, <2>3 DEF Seen, Awake, Adding
    <2>6. Told'
      BY <2>1, <2>3, <2>4 DEF Told
    <2> QED
      BY <2>5, <2>6
  <1>3. CASE Scan(t) \/ Defer(t) \/ WakeChain(t)
    <2>1. PICK from \in {"scan", "defer", "wake"}, to \in {"idle", "defer", "wake", "insert"} :
             Step(t, from, to)
      BY <1>3 DEF Scan, Defer, WakeChain, AfterRemove
    <2>2. lock # t /\ \A s \in Threads \ {t} : call'[s] = call[s]
      BY <1>1, <2>1, StepCall
    <2>3. lock # None => lock \in Threads \ {t}
      BY <2>2 DEF TypeOK
    <2>4. UNCHANGED <<objects, nextTrigger, missed, lock, depth, pc, terminate>> /\ (pipe => pipe')
      BY <1>3 DEF Scan, Defer, WakeChain, timers, history, loop
    <2>5. Seen' /\ Awake'
      BY <2>2, <2>3, <2>4 DEF Seen, Awake, Adding
    <2>6. Told'
      <3>1. CASE WakeChain(t)
        BY <3>1 DEF WakeChain, Told
      <3>2. CASE Scan(t) \/ Defer(t)
        <4>1. call[t].op # "stop"
          BY <3>2, StepCall DEF Scan, Defer, CallsInv, CallOK
        <4>2. UNCHANGED pipe
          BY <3>2 DEF Scan, Defer
        <4> QED
          BY <2>2, <2>4, <4>1, <4>2 DEF Told
      <3> QED
        BY <1>3, <3>1, <3>2
    <2> QED
      BY <2>5, <2>6
  <1>4. CASE Insert(t)
    <2>1. PICK heads \in Leads(call[t].due, objects) :
             Step(t, "insert", IF heads THEN "force" ELSE "trigger")
      BY <1>4 DEF Insert
    <2>2. /\ lock = None /\ lock' = t
          /\ objects' = objects \cup {[id |-> adds + 1, key |-> call[t].key, due |-> call[t].due]}
          /\ UNCHANGED <<nextTrigger, missed, pipe, depth, pc, terminate>>
      BY <1>4 DEF Insert, loop, history
    <2>3. heads \in BOOLEAN
      BY <2>1 DEF Leads
    <2>4. /\ call'[t].due = call[t].due /\ call'[t].op = call[t].op
          /\ call'[t].at = IF heads THEN "force" ELSE "trigger"
          /\ \A s \in Threads \ {t} : call'[s] = call[s]
      BY <2>1, <2>3, StepCall
    <2>5. Seen'
      BY <1>0, <2>2, <2>4 DEF Seen, Adding
    <2>6. Awake'
      <3>1. SUFFICES ASSUME \A r \in objects : r.due # "now", call[t].due = "now"
                     PROVE  call'[t].at = "force"
        BY <1>0, <2>2 DEF Awake
      <3> QED
        BY <2>1, <2>4, <3>1 DEF Leads
    <2>7. Told'
      BY <2>2, <2>4 DEF Told
    <2> QED
      BY <2>5, <2>6, <2>7
  <1>5. CASE ForceUnBlock(t)
    <2>1. /\ lock = t /\ call'[t].due = call[t].due /\ pipe' = TRUE
          /\ UNCHANGED <<objects, nextTrigger, missed, lock, depth, pc, terminate>>
      BY <1>1, <1>5, StepCall DEF ForceUnBlock, timers, loop, history
    <2> QED
      BY <1>0, <2>1 DEF Seen, Awake, Told, Adding
  <1>6. CASE SetTrigger(t)
    <2>1. /\ lock = t /\ lock' = None /\ call[t].at = "trigger" /\ call'[t] = Idle
          /\ nextTrigger' = Sooner(call[t].due)
          /\ \A s \in Threads \ {t} : call'[s] = call[s]
          /\ UNCHANGED <<objects, missed, pipe, depth, pc, terminate>>
      BY <1>1, <1>6, StepCall DEF SetTrigger, loop, history
    <2>2. Seen'
      BY <1>0, <2>1, ChainAssumption DEF Seen, Adding, Sooner, Due
    <2>3. Awake'
      BY <1>0, <2>1 DEF Awake
    <2>4. Told'
      BY <2>1 DEF Told, CallsInv, CallOK
    <2> QED
      BY <2>2, <2>3, <2>4
  <1> QED
    BY <1>2, <1>3, <1>4, <1>5, <1>6

\* In the handlers of the chain nobody waits for a check.
LEMMA WakesHandler ==
    ASSUME TypeOK, CallsInv, WakesInv, LevelsInv, NEW l \in Levels,
           \/ \E k \in Keys \cup {Post}, due \in Due : AddHere(l, k, due)
           \/ \E k \in Keys : RemoveHere(l, k)
           \/ Continue(l) \/ EndContinue(l) \/ StopHere(l)
    PROVE  WakesInv'
  <1>0. None \notin Due /\ depth \in Levels
    BY ChainAssumption DEF TypeOK
  <1> USE DEF WakesInv
  <1>1. ASSUME NEW k \in Keys \cup {Post}, NEW due \in Due, AddHere(l, k, due)
        PROVE  WakesInv'
    <2> DEFINE rest == Without(objects, {k} \cap Keys)
               r == [id |-> adds + 1, key |-> k, due |-> due]
    <2>1. /\ pc[depth] \in {"calling", "before", "after", "destroy"}
          /\ lock = None /\ objects' = rest \cup {r}
          /\ UNCHANGED <<lock, missed, depth, pc, call, terminate>>
          /\ nextTrigger' = Sooner(due)
      BY <1>1 DEF AddHere, InHandler
    <2>2. PICK heads \in Leads(due, rest) : pipe' = (pipe \/ heads)
      BY <1>1 DEF AddHere
    <2>3. r.due = due /\ rest \subseteq objects
      BY DEF Without
    <2> HIDE DEF rest, r
    <2>4. Seen'
      BY <1>0, <2>1, <2>3 DEF Seen, Adding, Sooner, Due
    <2>5. Awake'
      <3>1. CASE due = "now" /\ \A s \in rest : s.due # "now"
        BY <2>2, <3>1 DEF Leads, Awake
      <3>2. CASE \E s \in rest : s.due = "now"
        BY <2>1, <2>2, <2>3, <3>2 DEF Awake
      <3>3. CASE due # "now" /\ \A s \in rest : s.due # "now"
        BY <2>1, <2>3, <3>3 DEF Awake
      <3> QED
        BY <3>1, <3>2, <3>3
    <2>6. Told'
      BY <2>1, <2>2 DEF Told
    <2> QED
      BY <2>4, <2>5, <2>6
  <1>2. ASSUME NEW k \in Keys, RemoveHere(l, k)
        PROVE  WakesInv'
    BY <1>2 DEF RemoveHere, Without, Seen, Awake, Told, Adding
  <1>3. CASE Continue(l)
    <2>1. CASE terminate
      BY <1>3, <2>1 DEF Continue, timers, history, Seen, Awake, Told, Adding
    <2>2. CASE ~ terminate
      <3>1. /\ l = depth /\ pc[depth] \in {"calling", "before", "after", "destroy"}
            /\ depth' = l + 1 /\ pc'[depth'] = "top"
            /\ UNCHANGED <<objects, nextTrigger, missed, lock, pipe, call, terminate>>
        <4>1. l + 1 \in Levels
          BY <1>3, <2>2, ChainAssumption DEF Continue, Levels
        <4> QED
          BY <1>3, <2>2, <4>1 DEF Continue, InHandler, timers, history, TypeOK
      <3> QED
        BY <2>2, <3>1 DEF Seen, Awake, Told, Adding
    <2> QED
      BY <2>1, <2>2
  <1>4. CASE EndContinue(l) \/ StopHere(l)
    BY <1>4 DEF EndContinue, StopHere, timers, history, Seen, Awake, Told, Adding
  <1> QED
    BY <1>1, <1>2, <1>3, <1>4

LEMMA WakesLoop ==
    ASSUME TypeOK, CallsInv, WakesInv, LevelsInv, NEW l \in Levels,
           \/ Top(l) \/ TopInner(l) \/ Test(l) \/ Collect(l) \/ Fire(l) \/ CheckEnds(l) \/ Wake(l)
           \/ Destroy(l) \/ Return(l)
    PROVE  WakesInv'
  <1>0. l \in Levels /\ l \in Nat /\ pc \in [Levels -> Phases]
    BY ChainAssumption DEF TypeOK, Levels
  <1> USE <1>0 DEF WakesInv
  <1>1. CASE Top(l)
    BY <1>1 DEF Top, At, Goto, timers, history, Seen, Awake, Told, Adding
  <1>2. CASE TopInner(l)
    <2>1. CASE Goto(l, "test") /\ UNCHANGED depth
      BY <1>2, <2>1 DEF TopInner, At, Goto, timers, Seen, Awake, Told, Adding
    <2>2. CASE depth' = l - 1 /\ missed' = TRUE /\ UNCHANGED pc
      <3>1. l = depth /\ pc[depth] = "top" /\ UNCHANGED <<objects, nextTrigger, lock, pipe, call, terminate>>
        BY <1>2 DEF TopInner, At, timers
      <3>2. depth' \in Levels /\ pc[depth'] \notin {"test", "collect"}
        <4>1. depth' \in Levels /\ depth' < depth
          BY <1>2, <2>2, <3>1, ChainAssumption DEF TopInner, Levels
        <4> QED
          BY <4>1 DEF LevelsInv, LevelOK
      <3> QED
        BY <2>2, <3>1, <3>2 DEF Seen, Awake, Told, Adding
    <2> QED
      BY <1>2, <2>1, <2>2 DEF TopInner
  <1>3. CASE Test(l)
    <2>1. /\ l = depth /\ pc[depth] = "test" /\ objects' \subseteq objects
          /\ UNCHANGED <<lock, pipe, call, depth, terminate>>
      BY <1>3 DEF Test, At, Without
    <2>2. CASE nextTrigger = "later" /\ Goto(l, "before") /\ missed' = (missed \/ lock # None)
               /\ UNCHANGED nextTrigger
      BY <2>1, <2>2 DEF Goto, Seen, Awake, Told, Adding
    <2>3. CASE Goto(l, "collect") /\ nextTrigger' = None /\ UNCHANGED missed
      BY <2>1, <2>3 DEF Goto, Seen, Awake, Told, Adding
    <2> QED
      BY <1>3, <2>2, <2>3 DEF Test
  <1>4. CASE Collect(l)
    <2>1. /\ l = depth /\ pc[depth] = "collect" /\ pc'[depth] = "fire"
          /\ UNCHANGED <<lock, pipe, call, depth, terminate>>
      BY <1>4 DEF Collect, At, Goto
    <2>2. \A r \in objects' : r.due # "now"
      BY <1>4 DEF Collect
    <2> QED
      BY <2>1, <2>2 DEF Seen, Awake, Told
  <1>5. CASE Fire(l)
    BY <1>5 DEF Fire, At, Goto, timers, Seen, Awake, Told, Adding
  <1>6. CASE CheckEnds(l)
    BY <1>6 DEF CheckEnds, At, Goto, timers, history, Seen, Awake, Told, Adding
  <1>7. CASE Wake(l)
    BY <1>7 DEF Wake, At, Goto, timers, history, Seen, Awake, Told, Adding
  <1>8. CASE Destroy(l)
    BY <1>8 DEF Destroy, At, Goto, history, Seen, Awake, Told, Adding
  <1>9. CASE Return(l)
    BY <1>9 DEF Return, At, Goto, timers, history, Seen, Awake, Told, Adding
  <1> QED
    BY <1>1, <1>2, <1>3, <1>4, <1>5, <1>6, <1>7, <1>8, <1>9

LEMMA WakesStep == ChainInv /\ [Next]_vars => WakesInv'
  <1> SUFFICES ASSUME ChainInv, [Next]_vars
               PROVE  WakesInv'
    OBVIOUS
  <1>1. TypeOK /\ WakesInv /\ LevelsInv /\ CallsInv
    BY DEF ChainInv, WakesInv, LevelsInv, CallsInv
  <1>2. CASE UNCHANGED vars
    BY <1>1, <1>2 DEF vars, timers, loop, history, WakesInv, Seen, Awake, Told, Adding
  <1>3. CASE TimePasses
    <2>1. UNCHANGED <<lock, pipe, call, depth, pc, terminate, missed>>
      BY <1>3 DEF TimePasses, loop, history
    <2>2. (\E r \in objects' : r.due = "now") => \E r \in objects : r.due = "now"
      BY <1>1, <1>3 DEF TimePasses, Lapse, TypeOK, Timer
    <2>3. nextTrigger = "now" => nextTrigger' = "now"
      BY <1>3 DEF TimePasses, Lapse
    <2> QED
      BY <1>1, <2>1, <2>2, <2>3 DEF WakesInv, Seen, Awake, Told, Adding
  <1> QED
    BY <1>1, <1>2, <1>3, Actions, WakesLoop, WakesHandler, WakesThread, Zenon

-----------------------------------------------------------------------------
(* The theorems.                                                           *)

LEMMA ChainInvInit == Init => ChainInv
  <1> SUFFICES ASSUME Init
               PROVE  ChainInv
    OBVIOUS
  <1> USE DEF Init
  <1>1. 1 \in Levels
    BY ChainAssumption DEF Levels
  <1>2. TypeOK
    <2>1. Idle \in [at : Steps, op : Ops, key : Keys \cup {Post}, due : Due]
      BY DEF Idle, Steps, Ops, Due
    <2>2. adds \in Nat /\ adds <= MaxAdds
      BY ChainAssumption
    <2> QED
      BY <1>1, <2>1, <2>2 DEF TypeOK, Phases
  <1>3. Pending = {}
    BY DEF Pending
  <1>4. CallsInv
    <2>1. Adders = {}
      BY DEF Adders, Idle
    <2>2. Bounded
      BY <2>1, FS_EmptySet, ChainAssumption DEF Bounded
    <2> QED
      BY <2>2, ChainAssumption DEF CallsInv, CallOK, LockOK, Idle
  <1>5. LevelsInv
    BY DEF LevelsInv, LevelOK, ActiveOK, Levels
  <1>6. PlacesInv
    BY <1>3 DEF PlacesInv, Fresh, OnePlace, RemovedIsGone, PostsOK, NoTimer
  <1>7. WakesInv
    BY <1>1 DEF WakesInv, Seen, Awake, Told
  <1> QED
    BY <1>2, <1>4, <1>5, <1>6, <1>7 DEF ChainInv, CallsInv, LevelsInv, PlacesInv, WakesInv

LEMMA ChainInvStep == ChainInv /\ [Next]_vars => ChainInv'
  BY TypeStep, CallsStep, LevelsStep, PlacesStep, WakesStep
     DEF ChainInv, CallsInv, LevelsInv, PlacesInv, WakesInv

LEMMA ChainInvAlways == Spec => []ChainInv
  BY ChainInvInit, ChainInvStep, PTL DEF Spec

\* Every variable of the loop and the timers keeps its type, and the timers stay within their bound.
THEOREM ChainTypeOK == Spec => []TypeOK
  <1>1. ChainInv => TypeOK
    BY DEF ChainInv
  <1> QED
    BY <1>1, ChainInvAlways, PTL

\* Each timer is in one list only or being called: no nesting of checks calls or frees it twice.
THEOREM OnePlaceAlways == Spec => []OnePlace
  <1>1. ChainInv => OnePlace
    BY DEF ChainInv
  <1> QED
    BY <1>1, ChainInvAlways, PTL

\* What the chain removed (ILibLifeTime_Remove) waits nowhere, except where a nested check hid it.
THEOREM RemovedIsGoneAlways == Spec => []RemovedIsGone
  <1>1. ChainInv => RemovedIsGone
    BY DEF ChainInv
  <1> QED
    BY <1>1, ChainInvAlways, PTL

\* The chain sleeps over a timer that is due at once, or over the flag that stops it, only after a
\* check read NextTriggerTick during an insertion or a loop inside a handler ended.
THEOREM WokenInTimeAlways == Spec => []WokenInTime
  <1>1. ChainInv => WokenInTime
    <2> SUFFICES ASSUME ChainInv, Oversleeps, ~ missed
                 PROVE  FALSE
      BY DEF WokenInTime
    <2>1. pc[depth] = "sleep" /\ ~ pipe
      BY DEF Oversleeps
    <2>2. CASE lock = None /\ \E r \in objects : r.due = "now"
      BY <2>1, <2>2 DEF ChainInv, Awake
    <2>3. CASE terminate /\ \A t \in Threads : call[t].op # "stop"
      BY <2>1, <2>3 DEF ChainInv, Told
    <2> QED
      BY <2>2, <2>3 DEF Oversleeps
  <1> QED
    BY <1>1, ChainInvAlways, PTL

\* Posted calls are made in the order of ILibChain_RunOnMicrostackThreadEx3's insertions, hidden ones
\* aside: a check takes all there are, and calls those due at once by their numbers.
THEOREM InOrderAlways == Spec => InOrder
  <1> DEFINE Ordered == \A l \in Levels : running'[l] # running[l] /\ running'[l].key = Post =>
                           \A r \in Pending : r.key = Post /\ r.id < running'[l].id => Hidden(r)
  <1>1. ASSUME ChainInv, NEW l \in Levels, Fire(l), NEW m \in Levels,
               running'[m] # running[m], running'[m].key = Post,
               NEW r \in Pending, r.key = Post, r.id < running'[m].id
        PROVE  Hidden(r)
    <2>1. m = l
      BY <1>1 DEF Fire, ChainInv, TypeOK
    <2>2. PICK s \in queue[l] : First(s, queue[l]) /\ running'[l] = s
      BY <1>1 DEF Fire, ChainInv, TypeOK
    <2>3. s.key = Post /\ r.id < s.id /\ s.due = "now" /\ r.due = "now" /\ s.id \in Nat /\ r.id \in Nat
      BY <1>1, <2>1, <2>2, PendingType DEF ChainInv, PostsOK, Pending
    <2>4. r \notin objects
      BY <1>1, <2>3 DEF ChainInv, PostsOK
    <2>5. r \notin queue[l]
      BY <2>2, <2>3 DEF First, Before
    <2>6. PICK k \in Levels : r \in queue[k] /\ k # l
      BY <1>1, <2>4, <2>5 DEF Pending
    <2>7. k < l /\ l = depth /\ pc[l] = "fire"
      BY <1>1, <2>6 DEF Fire, At, ChainInv, LevelOK, Levels
    <2>8. active # k
      BY <2>6, <2>7, <1>1, ChainAssumption DEF ChainInv, ActiveOK, Levels
    <2> QED
      BY <2>6, <2>8 DEF Hidden
  <1>2. ASSUME ChainInv, [Next]_vars
        PROVE  [Ordered]_vars
    <2>1. CASE UNCHANGED vars
      BY <2>1
    <2>2. ASSUME NEW l \in Levels, \/ Top(l) \/ TopInner(l) \/ Test(l) \/ Collect(l) \/ CheckEnds(l)
                                   \/ Wake(l) \/ Destroy(l) \/ Continue(l) \/ EndContinue(l) \/ StopHere(l)
                                   \/ \E k \in Keys \cup {Post}, due \in Due : AddHere(l, k, due)
                                   \/ \E k \in Keys : RemoveHere(l, k)
          PROVE  Ordered
      BY <2>2 DEF Top, TopInner, Test, Collect, CheckEnds, Wake, Destroy, Continue, EndContinue, StopHere,
                  AddHere, RemoveHere
    <2>3. ASSUME NEW l \in Levels, Return(l)
          PROVE  Ordered
      <3>1. \A m \in Levels : running'[m] = running[m] \/ running'[m] = NoTimer
        BY <1>2, <2>3 DEF Return, ChainInv, TypeOK
      <3>2. \A r \in Pending : r.id \in Nat
        BY <1>2, PendingType DEF ChainInv
      <3> QED
        BY <3>1, <3>2 DEF NoTimer
    <2>4. ASSUME NEW t \in Threads,
                 \/ Scan(t) \/ Defer(t) \/ WakeChain(t) \/ Insert(t) \/ ForceUnBlock(t) \/ SetTrigger(t)
                 \/ \E op \in Ops, k \in Keys \cup {Post}, due \in Due : Begin(t, op, k, due)
          PROVE  Ordered
      BY <2>4 DEF Scan, Defer, WakeChain, Insert, ForceUnBlock, SetTrigger, Begin, loop
    <2>5. CASE TimePasses
      BY <2>5 DEF TimePasses, loop
    <2>6. ASSUME NEW l \in Levels, Fire(l)
          PROVE  Ordered
      BY <1>1, <1>2, <2>6
    <2> HIDE DEF Ordered
    <2> QED
      BY <1>2, <2>1, <2>2, <2>3, <2>4, <2>5, <2>6, Actions, Zenon
  <1>3. [][Ordered]_vars => InOrder
    BY DEF InOrder
  <1> HIDE DEF Ordered
  <1> QED
    BY <1>2, <1>3, ChainInvAlways, PTL DEF Spec

-----------------------------------------------------------------------------
(* The chain implements PostedCalls.                                       *)

OwedVars == <<Owed, ran, terminate>>

LEMMA OwedIs == \A i : i \in Owed <=> \E r \in Pending : r.key = Post /\ r.id = i
  BY DEF Owed

\* A step that leaves the posted calls where they are, or moves them, is a stutter or a Stop.
LEMMA OwedKept ==
    ASSUME \A r : r.key = Post => (r \in Pending' <=> r \in Pending), ran' = ran,
           terminate' = terminate \/ terminate' = TRUE
    PROVE  [Calls!Next]_OwedVars
  <1>1. \A i : i \in Owed' <=> i \in Owed
    BY OwedIs DEF Owed
  <1>2. Owed' = Owed
    BY <1>1
  <1> QED
    BY <1>2 DEF OwedVars, Calls!Next, Calls!Stop

LEMMA OwedAdd ==
    ASSUME ChainInv, NEW r \in Timer, r.id = adds + 1,
           \A s : s.key = Post => (s \in Pending' <=> s = r \/ s \in Pending),
           UNCHANGED <<ran, terminate>>
    PROVE  [Calls!Next]_OwedVars
  <1>1. CASE r.key # Post
    BY <1>1, OwedKept
  <1>2. CASE r.key = Post
    <2>1. Owed' = Owed \cup {r.id}
      <3>1. \A i : i \in Owed' <=> i = r.id \/ i \in Owed
        BY <1>2, OwedIs DEF Owed
      <3> QED
        BY <3>1
    <2>2. r.id \notin Owed \cup ran
      <3>1. adds \in Nat /\ \A i \in Owed \cup ran : i <= adds
        BY OwedIs DEF ChainInv, TypeOK, Fresh
      <3> QED
        BY <3>1
    <2>3. Calls!PostCall(r.id)
      BY <2>1, <2>2 DEF Calls!PostCall
    <2> QED
      BY <2>1, <2>3 DEF Calls!Next
  <1> QED
    BY <1>1, <1>2

LEMMA OwedFire ==
    ASSUME ChainInv, NEW l \in Levels, Fire(l)
    PROVE  [Calls!Next]_OwedVars
  <1>1. PICK r \in queue[l] : /\ queue' = [queue EXCEPT ![l] = @ \ {r}]
                              /\ ran' = IF r.key = Post THEN ran \cup {r.id} ELSE ran
    BY DEF Fire
  <1>2. r \in Pending /\ UNCHANGED <<objects, terminate>>
    BY DEF Fire, Pending, timers
  <1>3. \A s : s \in Pending' <=> s \in Pending /\ s # r
    BY <1>1, <1>2 DEF Pending, ChainInv, TypeOK, OnePlace
  <1>4. CASE r.key # Post
    BY <1>1, <1>2, <1>3, <1>4, OwedKept
  <1>5. CASE r.key = Post
    <2>1. \A i : i \in Owed' <=> i \in Owed /\ i # r.id
      <3>1. \A s \in Pending : s.id = r.id => s = r
        BY <1>2 DEF ChainInv, OnePlace
      <3>2. \A i : i \in Owed' <=> \E s \in Pending' : s.key = Post /\ s.id = i
        BY DEF Owed
      <3> QED
        BY <1>3, <3>1, <3>2, OwedIs
    <2>2. r.id \in Owed /\ Owed' = Owed \ {r.id}
      BY <1>2, <1>5, <2>1, OwedIs
    <2>3. Calls!Make(r.id)
      BY <1>1, <1>2, <1>5, <2>2 DEF Calls!Make
    <2> QED
      BY <2>2, <2>3 DEF Calls!Next
  <1> QED
    BY <1>4, <1>5

LEMMA CallsRefined == ChainInv /\ [Next]_vars => [Calls!Next]_OwedVars
  <1> SUFFICES ASSUME ChainInv, [Next]_vars
               PROVE  [Calls!Next]_OwedVars
    OBVIOUS
  <1>1. TypeOK /\ TypeOK'
    BY TypeStep DEF ChainInv
  <1>2. ASSUME UNCHANGED <<objects, queue, ran>>, terminate' = terminate \/ terminate' = TRUE
        PROVE  [Calls!Next]_OwedVars
    BY <1>2, OwedKept DEF Pending
  <1>3. CASE UNCHANGED vars
    BY <1>2, <1>3 DEF vars, timers, loop, history
  <1>4. ASSUME NEW l \in Levels,
               \/ Top(l) \/ TopInner(l) \/ CheckEnds(l) \/ Wake(l) \/ Return(l) \/ Continue(l)
               \/ EndContinue(l) \/ StopHere(l)
        PROVE  [Calls!Next]_OwedVars
    <2>1. UNCHANGED <<objects, queue, ran>> /\ (terminate' = terminate \/ terminate' = TRUE)
      BY <1>4 DEF Top, TopInner, CheckEnds, Wake, Return, Continue, EndContinue, StopHere, timers, history
    <2> QED
      BY <1>2, <2>1
  <1>5. ASSUME NEW K \in SUBSET Keys, Remove(K), objects' = Without(objects, K), UNCHANGED <<ran, terminate>>
        PROVE  [Calls!Next]_OwedVars
    <2>1. Post \notin K
      BY ChainAssumption
    <2>2. \A l \in Levels : \A r : r.key = Post => (r \in queue'[l] <=> r \in queue[l])
      BY <1>1, <1>5, <2>1 DEF Remove, Without, TypeOK
    <2>3. \A r : r.key = Post => (r \in Pending' <=> r \in Pending)
      BY <1>5, <2>1, <2>2 DEF Pending, Without
    <2> QED
      BY <1>5, <2>3, OwedKept
  <1>6. ASSUME NEW l \in Levels, Test(l) \/ \E k \in Keys : RemoveHere(l, k)
        PROVE  [Calls!Next]_OwedVars
    BY <1>1, <1>5, <1>6 DEF Test, RemoveHere, TypeOK
  <1>7. ASSUME NEW l \in Levels, NEW k \in Keys \cup {Post}, NEW due \in Due, AddHere(l, k, due)
        PROVE  [Calls!Next]_OwedVars
    <2> DEFINE K == {k} \cap Keys
               r == [id |-> adds + 1, key |-> k, due |-> due]
    <2>1. Remove(K) /\ objects' = Without(objects, K) \cup {r} /\ adds' = adds + 1
          /\ UNCHANGED <<ran, terminate>>
      BY <1>7 DEF AddHere
    <2>2. r \in Timer /\ r.id = adds + 1
      BY <1>1, <2>1 DEF TypeOK
    <2>3. Post \notin K
      BY ChainAssumption
    <2> HIDE DEF K, r
    <2>4. \A m \in Levels : \A s : s.key = Post => (s \in queue'[m] <=> s \in queue[m])
      BY <1>1, <2>1, <2>3 DEF Remove, Without, TypeOK
    <2>5. \A s : s.key = Post => (s \in Pending' <=> s = r \/ s \in Pending)
      BY <2>1, <2>3, <2>4 DEF Pending, Without
    <2> QED
      BY <2>1, <2>2, <2>5, OwedAdd
  <1>8. ASSUME NEW t \in Threads, Insert(t)
        PROVE  [Calls!Next]_OwedVars
    <2> DEFINE r == [id |-> adds + 1, key |-> call[t].key, due |-> call[t].due]
    <2>1. objects' = objects \cup {r} /\ adds' = adds + 1 /\ UNCHANGED <<queue, ran, terminate>>
      BY <1>8 DEF Insert, loop, history
    <2>2. r \in Timer /\ r.id = adds + 1
      BY <1>1, <2>1 DEF TypeOK
    <2> HIDE DEF r
    <2>3. \A s : s.key = Post => (s \in Pending' <=> s = r \/ s \in Pending)
      BY <2>1 DEF Pending
    <2> QED
      BY <2>1, <2>2, <2>3, OwedAdd
  <1>9. ASSUME NEW t \in Threads,
               \/ Scan(t) \/ Defer(t) \/ WakeChain(t) \/ ForceUnBlock(t) \/ SetTrigger(t)
               \/ \E op \in Ops, k \in Keys \cup {Post}, due \in Due : Begin(t, op, k, due)
        PROVE  [Calls!Next]_OwedVars
    <2>1. UNCHANGED <<objects, queue, ran>> /\ (terminate' = terminate \/ terminate' = TRUE)
      BY <1>1, <1>9 DEF Scan, Defer, WakeChain, ForceUnBlock, SetTrigger, Begin, timers, loop, history, TypeOK
    <2> QED
      BY <1>2, <2>1
  <1>10. CASE TimePasses
    <2>1. \A r : r.key = Post => (r \in objects' <=> r \in objects)
      <3>1. CASE UNCHANGED objects
        BY <3>1
      <3>2. CASE ~ UNCHANGED objects
        <4>1. PICK r \in objects : /\ r.due = "later"
                                   /\ objects' = (objects \ {r}) \cup {[r EXCEPT !.due = "past"]}
          BY <1>10, <3>2 DEF TimePasses, Lapse
        <4>2. r.key # Post /\ [r EXCEPT !.due = "past"].key = r.key
          BY <1>1, <4>1 DEF ChainInv, PostsOK, Pending, TypeOK, Timer
        <4> QED
          BY <4>1, <4>2
      <3> QED
        BY <3>1, <3>2
    <2>2. UNCHANGED <<queue, ran, terminate>>
      BY <1>10 DEF TimePasses, loop, history
    <2> QED
      BY <2>1, <2>2, OwedKept DEF Pending
  <1>11. ASSUME NEW l \in Levels, Collect(l)
         PROVE  [Calls!Next]_OwedVars
    <2>1. queue[l] = {} /\ UNCHANGED <<ran, terminate>>
      BY <1>11 DEF Collect, At, ChainInv, LevelOK
    <2>2. \A r : r \in Pending' <=> r \in Pending
      BY <1>1, <1>11, <2>1 DEF Collect, Pending, TypeOK
    <2> QED
      BY <2>1, <2>2, OwedKept
  <1>12. ASSUME NEW l \in Levels, Destroy(l)
         PROVE  [Calls!Next]_OwedVars
    <2>1. objects' = {} /\ terminate /\ \A m \in Levels : queue'[m] = {}
      BY <1>12, ChainAssumption DEF Destroy, At, ChainInv, LevelOK, Levels
    <2>2. Owed' = {}
      BY <2>1 DEF Owed, Pending
    <2> QED
      BY <1>12, <2>1, <2>2 DEF Destroy, history, Calls!Next, Calls!Abort
  <1> QED
    BY <1>3, <1>4, <1>6, <1>7, <1>8, <1>9, <1>10, <1>11, <1>12, OwedFire, Actions, Zenon

\* What ILibChain_RunOnMicrostackThread promises: a posted call is made once, or aborted when the
\* chain was told to stop, whatever timers are added and removed and whatever loops run inside handlers.
THEOREM PostedCallsImplemented == Spec => ImplementsPostedCalls
  <1>1. Init => Calls!Init
    BY DEF Init, Calls!Init, Owed, Pending
  <1>2. ChainInv /\ [Next]_vars => [Calls!Next]_<<Owed, ran, terminate>>
    BY CallsRefined DEF OwedVars
  <1> QED
    BY <1>1, <1>2, ChainInvAlways, PTL DEF Spec, ImplementsPostedCalls, Calls!Spec
=============================================================================
