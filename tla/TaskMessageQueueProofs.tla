----------------------- MODULE TaskMessageQueueProofs -----------------------
(***************************************************************************)
(* The safety of the shared task queue, for any number of sessions, tasks  *)
(* and producers: the invariants of module TaskMessageQueue hold in every  *)
(* reachable state.                                                        *)
(***************************************************************************)
EXTENDS Integers, TaskMessageQueue, TLAPS

----------------------------------------------------------------------------
(* What the operations on sequences do to the set of elements and to the   *)
(* absence of repetitions                                                  *)

\* The empty sequence has no elements.
LEMMA EmptyFacts == Range(<<>>) = {} /\ IsInjective(<<>>)
  BY DEF Range, IsInjective

\* The elements of a sequence over S are in S.
LEMMA RangeFacts == ASSUME NEW S, NEW q \in Seq(S) PROVE Range(q) \subseteq S
  BY DEF Range

\* Tail removes the first element and nothing else.
LEMMA TailFacts ==
  ASSUME NEW S, NEW q \in Seq(S), q # <<>>
  PROVE  /\ Head(q) \in S
         /\ Tail(q) \in Seq(S)
         /\ Range(q) = {Head(q)} \cup Range(Tail(q))
         /\ IsInjective(q) => IsInjective(Tail(q)) /\ Head(q) \notin Range(Tail(q))
<1>1. Len(q) \in Nat /\ Len(q) > 0 /\ DOMAIN q = 1..Len(q) OBVIOUS
<1>2. Head(q) = q[1] /\ Head(q) \in S BY <1>1
<1>3. /\ Tail(q) \in Seq(S)
      /\ Len(Tail(q)) = Len(q) - 1
      /\ DOMAIN Tail(q) = 1..(Len(q)-1)
      /\ \A i \in 1..(Len(q)-1) : Tail(q)[i] = q[i+1]
  BY <1>1
<1>4. ASSUME NEW x \in Range(q) PROVE x \in {Head(q)} \cup Range(Tail(q))
  <2>1. PICK i \in 1..Len(q) : x = q[i] BY <1>1 DEF Range
  <2>2. CASE i = 1 BY <2>1, <2>2, <1>2
  <2>3. CASE i # 1
    <3>1. i-1 \in 1..(Len(q)-1) BY <2>3, <1>1
    <3>2. Tail(q)[i-1] = q[i] BY <3>1, <1>3, <1>1
    <3> QED BY Zenon, <3>1, <3>2, <2>1, <1>3 DEF Range
  <2> QED BY <2>2, <2>3
<1>5. ASSUME NEW x \in {Head(q)} \cup Range(Tail(q)) PROVE x \in Range(q)
  BY <1>1, <1>2, <1>3 DEF Range
<1>6. ASSUME IsInjective(q)
      PROVE  IsInjective(Tail(q)) /\ Head(q) \notin Range(Tail(q))
  BY <1>6, <1>1, <1>2, <1>3 DEF Range, IsInjective
<1> QED BY <1>2, <1>3, <1>4, <1>5, <1>6

\* Append adds one element.
LEMMA AppendFacts ==
  ASSUME NEW S, NEW q \in Seq(S), NEW e \in S
  PROVE  /\ Append(q, e) \in Seq(S)
         /\ Append(q, e) # <<>>
         /\ Range(Append(q, e)) = Range(q) \cup {e}
         /\ IsInjective(q) /\ e \notin Range(q) => IsInjective(Append(q, e))
<1>1. Len(q) \in Nat /\ DOMAIN q = 1..Len(q) OBVIOUS
<1>2. /\ Append(q, e) \in Seq(S)
      /\ DOMAIN Append(q, e) = 1..(Len(q)+1)
      /\ \A i \in 1..Len(q) : Append(q, e)[i] = q[i]
      /\ Append(q, e)[Len(q)+1] = e
  BY <1>1
<1>3. Range(Append(q, e)) = Range(q) \cup {e}
  BY <1>1, <1>2 DEF Range
<1>4. IsInjective(q) /\ e \notin Range(q) => IsInjective(Append(q, e))
  BY <1>1, <1>2 DEF Range, IsInjective
<1> QED BY <1>2, <1>3, <1>4

\* Concatenation joins the elements, without repetition when the parts have
\* none and share none.
LEMMA ConcatFacts ==
  ASSUME NEW S, NEW q \in Seq(S), NEW r \in Seq(S)
  PROVE  /\ q \o r \in Seq(S)
         /\ Range(q \o r) = Range(q) \cup Range(r)
         /\ IsInjective(q) /\ IsInjective(r) /\ Range(q) \cap Range(r) = {}
               => IsInjective(q \o r)
<1>1. /\ Len(q) \in Nat /\ DOMAIN q = 1..Len(q)
      /\ Len(r) \in Nat /\ DOMAIN r = 1..Len(r)
  OBVIOUS
<1>2. /\ q \o r \in Seq(S)
      /\ DOMAIN (q \o r) = 1..(Len(q)+Len(r))
      /\ \A i \in 1..(Len(q)+Len(r)) :
            (q \o r)[i] = IF i <= Len(q) THEN q[i] ELSE r[i-Len(q)]
  BY <1>1
<1>3. ASSUME NEW x \in Range(q \o r) PROVE x \in Range(q) \cup Range(r)
  <2>1. PICK i \in 1..(Len(q)+Len(r)) : x = (q \o r)[i] BY <1>2 DEF Range
  <2>2. CASE i <= Len(q)
    BY <2>1, <2>2, <1>1, <1>2 DEF Range
  <2>3. CASE ~(i <= Len(q))
    <3>1. i-Len(q) \in 1..Len(r) BY <2>3, <1>1
    <3> QED BY <3>1, <2>1, <2>3, <1>1, <1>2 DEF Range
  <2> QED BY <2>2, <2>3
<1>4. ASSUME NEW x \in Range(q) PROVE x \in Range(q \o r)
  BY <1>1, <1>2 DEF Range
<1>5. ASSUME NEW x \in Range(r) PROVE x \in Range(q \o r)
  <2>1. PICK i \in 1..Len(r) : x = r[i] BY <1>1 DEF Range
  <2>2. i+Len(q) \in 1..(Len(q)+Len(r)) BY <1>1
  <2>3. (q \o r)[i+Len(q)] = r[i] BY <2>2, <1>1, <1>2
  <2> QED BY Zenon, <2>1, <2>2, <2>3, <1>2 DEF Range
<1>6. ASSUME IsInjective(q), IsInjective(r), Range(q) \cap Range(r) = {},
             NEW i \in 1..(Len(q)+Len(r)), NEW j \in 1..(Len(q)+Len(r)),
             (q \o r)[i] = (q \o r)[j]
      PROVE  i = j
  <2>1. CASE i <= Len(q) /\ j <= Len(q)
    BY <2>1, <1>6, <1>1, <1>2 DEF IsInjective
  <2>2. CASE i > Len(q) /\ j > Len(q)
    <3>1. i-Len(q) \in 1..Len(r) /\ j-Len(q) \in 1..Len(r) BY <2>2, <1>1
    <3>2. r[i-Len(q)] = r[j-Len(q)] BY <2>2, <1>6, <1>1, <1>2
    <3>3. i-Len(q) = j-Len(q) BY Zenon, <3>1, <3>2, <1>6, <1>1 DEF IsInjective
    <3> QED BY <3>3, <1>1
  <2>3. CASE i <= Len(q) /\ j > Len(q)
    <3>1. j-Len(q) \in 1..Len(r) /\ i \in 1..Len(q) BY <2>3, <1>1
    <3>2. q[i] = r[j-Len(q)] BY <2>3, <1>6, <1>1, <1>2
    <3> QED BY Zenon, <3>1, <3>2, <1>6, <1>1 DEF Range
  <2>4. CASE j <= Len(q) /\ i > Len(q)
    <3>1. i-Len(q) \in 1..Len(r) /\ j \in 1..Len(q) BY <2>4, <1>1
    <3>2. q[j] = r[i-Len(q)] BY <2>4, <1>6, <1>1, <1>2
    <3> QED BY Zenon, <3>1, <3>2, <1>6, <1>1 DEF Range
  <2> QED BY <2>1, <2>2, <2>3, <2>4, <1>1
<1>7. IsInjective(q) /\ IsInjective(r) /\ Range(q) \cap Range(r) = {}
         => IsInjective(q \o r)
  BY Zenon, <1>2, <1>6 DEF IsInjective
<1> QED BY <1>2, <1>3, <1>4, <1>5, <1>7

\* The suffix behind position k keeps the elements behind position k.
LEMMA SuffixFacts ==
  ASSUME NEW S, NEW q \in Seq(S), NEW k \in 1..Len(q)+1
  PROVE  LET r == SubSeq(q, k+1, Len(q))
         IN  /\ r \in Seq(S)
             /\ Range(r) = {q[i] : i \in (k+1)..Len(q)}
             /\ k >= Len(q) => r = <<>>
             /\ IsInjective(q) => IsInjective(r)
<1> DEFINE r == SubSeq(q, k+1, Len(q))
           n == IF k+1 <= Len(q) THEN Len(q)-k ELSE 0
<1>1. Len(q) \in Nat /\ DOMAIN q = 1..Len(q) /\ k \in Nat OBVIOUS
<1>2. n \in Nat BY <1>1
<1>3. /\ r \in Seq(S)
      /\ Len(r) = n
      /\ DOMAIN r = 1..n
      /\ \A i \in 1..n : r[i] = q[k+i]
  <2>1. \A i \in (k+1)..Len(q) : q[i] \in S BY <1>1
  <2>2. k+1 \in Int /\ Len(q) \in Int BY <1>1
  <2>3. /\ r \in Seq(S)
        /\ Len(r) = IF k+1 <= Len(q) THEN Len(q)-(k+1)+1 ELSE 0
        /\ \A i \in 1 .. Len(q)-(k+1)+1 : r[i] = q[(k+1)+i-1]
    BY <2>1, <2>2, <1>1
  <2>4. Len(r) = n BY <2>3, <1>1
  <2>5. DOMAIN r = 1..n BY <2>3, <2>4
  <2>6. ASSUME NEW i \in 1..n PROVE r[i] = q[k+i]
    <3>1. i \in 1 .. Len(q)-(k+1)+1 /\ (k+1)+i-1 = k+i BY <1>1
    <3> QED BY <3>1, <2>3
  <2> QED BY <2>3, <2>4, <2>5, <2>6
<1>4. ASSUME NEW x \in Range(r) PROVE \E i \in (k+1)..Len(q) : x = q[i]
  <2>1. PICK i \in 1..n : x = r[i] BY Zenon, <1>3 DEF Range
  <2>2. k+i \in (k+1)..Len(q) BY <1>1
  <2> QED BY <2>1, <2>2, <1>3
<1>5. ASSUME NEW i \in (k+1)..Len(q) PROVE q[i] \in Range(r)
  <2>1. i-k \in 1..n BY <1>1
  <2>2. k+(i-k) = i BY <1>1
  <2>3. r[i-k] = q[k+(i-k)] BY <2>1, <1>3
  <2> QED BY Zenon, <2>1, <2>2, <2>3, <1>3 DEF Range
<1>6. k >= Len(q) => r = <<>>
  <2>0. k >= Len(q) => n = 0
    <3>1. Len(q) \in Nat /\ k \in Nat BY <1>1
    <3>2. k >= Len(q) => ~(k+1 <= Len(q)) BY <3>1
    <3> QED BY <3>2
  <2>1. k >= Len(q) => Len(r) = 0 BY Zenon, <2>0, <1>3
  <2> QED BY <2>1, <1>3
<1>7. ASSUME IsInjective(q), NEW i \in 1..n, NEW j \in 1..n, r[i] = r[j]
      PROVE  i = j
  <2>1. k+i \in 1..Len(q) /\ k+j \in 1..Len(q) BY <1>1
  <2>2. q[k+i] = q[k+j] BY <1>7, <1>3
  <2>3. k+i = k+j BY <2>1, <2>2, <1>7, <1>1 DEF IsInjective
  <2> QED BY <2>3, <1>1
<1>8. IsInjective(q) => IsInjective(r) BY <1>3, <1>7 DEF IsInjective
<1>9. Range(r) = {q[i] : i \in (k+1)..Len(q)} BY <1>4, <1>5
<1> QED BY <1>3, <1>6, <1>8, <1>9

----------------------------------------------------------------------------
(* The inductive invariant *)

\* What makes the invariants inductive: where shutdown() stands, and that a
\* session calls add_task only while it puts a task back.
Discipline ==
    /\ swapped => shutdown_
    /\ ~swapped => resuming[Stopper] = <<>>
    /\ calls[Stopper] = <<>>
    /\ \A s \in Sessions : co[s] = "working" => result_[s] # NoTask
    /\ \A s \in Sessions : ~Idle(s) => co[s] = "requeuing"

HandleInv == HandleResumedOnce /\ HandedTaskIsSeen /\ OnlyCancelledStranded
TaskInv   == NoTaskLost /\ NoTaskTwice
QueueInv  == NeverBothWait /\ NobodyParksAfterShutdown

IInv == TypeOK /\ Discipline /\ HandleInv /\ TaskInv /\ QueueInv

----------------------------------------------------------------------------

\* Taking elements out of a sequence leaves the others, each once.
LEMMA WithoutFacts ==
  ASSUME NEW A, NEW q \in Seq(A), NEW S, NEW r \in Without(q, S)
  PROVE  /\ r \in Seq(A)
         /\ Range(r) = Range(q) \ S
         /\ IsInjective(r)
         /\ q = <<>> => r = <<>>
<1>1. PICK n \in 0 .. Len(q) : r \in Injection(1..n, Range(q) \ S) BY Zenon DEF Without
<1>2. r \in [1..n -> Range(q) \ S] /\ IsInjective(r) BY <1>1 DEF Injection
<1>3. Range(q) \subseteq A BY RangeFacts
<1>4. n \in Nat /\ Len(q) \in Nat OBVIOUS
<1>5. r \in Seq(A) BY <1>2, <1>3, <1>4
<1>6. Range(r) \subseteq Range(q) \ S BY <1>2 DEF Range
<1>7. Range(q) \ S \subseteq Range(r) BY DEF Without
<1>8. ASSUME q = <<>> PROVE r = <<>>
  <2>1. n = 0 BY <1>8, <1>4
  <2> QED BY <2>1, <1>2, <1>5
<1> QED BY <1>2, <1>5, <1>6, <1>7, <1>8

\* Where the tasks are depends on these variables only.
LEMMA TaskInvFrame ==
  ASSUME TaskInv, UNCHANGED <<tasks_, result_, calls, taskVars>>
  PROVE  TaskInv'
BY DEF TaskInv, NoTaskLost, NoTaskTwice, EachOnce, PlacesDisjoint, Queued, Held,
       InCall, taskVars

\* A step that only moves a session that is neither parked nor holding a task,
\* to a place where it is neither, keeps the invariant.
LEMMA MovePreserves ==
  ASSUME IInv, NEW s \in Sessions, NEW where \in CoStates,
         co[s] \notin {"suspended", "working"},
         where \notin {"suspended", "working"},
         Idle(s) \/ where = "requeuing",
         co' = [co EXCEPT ![s] = where],
         UNCHANGED <<queueVars, cancelled, result_, calls, resuming, taskVars>>
  PROVE  IInv'
<1> USE DEF IInv, queueVars, taskVars
<1>1. TypeOK' BY DEF TypeOK
<1>2. Discipline' BY DEF Discipline, TypeOK, Idle
<1>3. HandleResumedOnce' BY DEF HandleInv, HandleResumedOnce, TypeOK
<1>4. HandedTaskIsSeen' BY DEF HandleInv, HandedTaskIsSeen, TypeOK
<1>5. OnlyCancelledStranded' BY DEF HandleInv, OnlyCancelledStranded, Reachable, TypeOK
<1>6. TaskInv' BY TaskInvFrame
<1>7. QueueInv' BY DEF QueueInv, NeverBothWait, NobodyParksAfterShutdown
<1> QED BY <1>1, <1>2, <1>3, <1>4, <1>5, <1>6, <1>7 DEF HandleInv

\* A session that is neither parked nor holding a task has no result.
LEMMA NoResult ==
  ASSUME IInv, NEW s \in Sessions, co[s] \notin {"suspended", "working"}
  PROVE  result_[s] = NoTask
BY DEF IInv, HandleInv, HandedTaskIsSeen

\* Nor has a session in waiting_workers_.
LEMMA WaiterHasNoResult ==
  ASSUME IInv, NEW s \in Range(waiting_workers_)
  PROVE  s \in Sessions /\ result_[s] = NoTask
<1>1. s \in Sessions BY RangeFacts DEF IInv, TypeOK
<1> QED BY <1>1 DEF IInv, HandleInv, HandedTaskIsSeen, HandleResumedOnce

\* try_get_task_immediately and await_suspend: the front of the deque moves to
\* the session.
LEMMA TakeFrontPreserves ==
  ASSUME IInv, NEW s \in Sessions, co[s] \in {"trying", "locking"}, TakeFront(s),
         UNCHANGED <<shutdown_, swapped, waiting_workers_, cancelled, calls,
                     resuming, taskVars>>
  PROVE  IInv'
<1> USE DEF IInv, taskVars, TakeFront, Goto
<1> DEFINE t == Head(tasks_)
<1>0. /\ t \in Tasks
      /\ tasks_' \in Seq(Tasks)
      /\ Range(tasks_) = {t} \cup Range(tasks_')
      /\ IsInjective(tasks_) => IsInjective(tasks_') /\ t \notin Range(tasks_')
  BY TailFacts DEF TypeOK
<1>a. t # NoTask BY <1>0, TaskAssumption
<1>b. result_[s] = NoTask BY NoResult
<1> HIDE DEF t
<1>c. result_' = [result_ EXCEPT ![s] = t] BY DEF t
<1>1. TypeOK' BY <1>0, <1>c DEF TypeOK, CoStates
<1>2. Discipline' BY <1>a, <1>c DEF Discipline, TypeOK, Idle
<1>3. HandleResumedOnce' BY DEF HandleInv, HandleResumedOnce, TypeOK
<1>4. HandedTaskIsSeen' BY <1>c DEF HandleInv, HandedTaskIsSeen, TypeOK
<1>5. OnlyCancelledStranded' BY DEF HandleInv, OnlyCancelledStranded, Reachable, TypeOK
<1>6. Held' = Held \cup {t} BY <1>a, <1>b, <1>c DEF Held, TypeOK
<1>7. InCall' = InCall BY DEF InCall
<1>8. NoTaskLost' BY <1>0, <1>6, <1>7 DEF TaskInv, NoTaskLost, Queued
<1>9. NoTaskTwice'
  <2> USE DEF TaskInv, NoTaskTwice
  <2>1. Queued' = Queued \ {t} /\ t \in Queued
    BY <1>0 DEF Queued, EachOnce
  <2>2. t \notin Held /\ t \notin InCall /\ t \notin completed /\ t \notin dropped
    BY <2>1 DEF PlacesDisjoint
  <2>3. ASSUME NEW s1 \in Sessions, NEW s2 \in Sessions,
               result_'[s1] = result_'[s2], result_'[s1] # NoTask
        PROVE  s1 = s2
    <3>1. \A r \in Sessions : result_[r] # t BY <2>2, <1>a DEF Held
    <3> QED BY <3>1, <2>3, <1>c DEF EachOnce, TypeOK
  <2>4. EachOnce' BY Zenon, <1>0, <2>3, SMTT(30) DEF EachOnce
  <2>5. PlacesDisjoint' BY <2>1, <2>2, <1>6, <1>7 DEF PlacesDisjoint
  <2> QED BY <2>4, <2>5
<1>10. QueueInv' 
  BY DEF QueueInv, NeverBothWait, NobodyParksAfterShutdown
<1> QED BY <1>1, <1>2, <1>3, <1>4, <1>5, <1>8, <1>9, <1>10 DEF HandleInv, TaskInv

\* await_suspend parks the session.
LEMMA ParkPreserves ==
  ASSUME IInv, NEW s \in Sessions, co[s] = "locking", ~GivesUp(s), tasks_ = <<>>,
         waiting_workers_' = Append(waiting_workers_, s), Goto(s, "suspended"),
         UNCHANGED <<tasks_, result_, shutdown_, swapped, cancelled, calls,
                     resuming, taskVars>>
  PROVE  IInv'
<1> USE DEF IInv, taskVars, Goto
<1>0. /\ waiting_workers_' \in Seq(Sessions)
      /\ Range(waiting_workers_') = Range(waiting_workers_) \cup {s}
      /\ s \notin Range(waiting_workers_)
      /\ IsInjective(waiting_workers_')
  BY AppendFacts DEF TypeOK, HandleInv, HandleResumedOnce
<1>1. TypeOK' BY <1>0 DEF TypeOK, CoStates
<1>2. Discipline' BY DEF Discipline, TypeOK, Idle
<1>3. HandleResumedOnce' BY <1>0 DEF HandleInv, HandleResumedOnce, TypeOK
<1>4. HandedTaskIsSeen'
  BY DEF HandleInv, HandedTaskIsSeen, TypeOK
<1>5. OnlyCancelledStranded'
  BY <1>0 DEF HandleInv, OnlyCancelledStranded, Reachable, TypeOK
<1>6. TaskInv' BY TaskInvFrame
<1>7. QueueInv'
  BY DEF QueueInv, NeverBothWait, NobodyParksAfterShutdown, GivesUp, Discipline
<1> QED BY <1>1, <1>2, <1>3, <1>4, <1>5, <1>6, <1>7 DEF HandleInv

\* The steps of co_await get_next_task, and the return from a requeue.
LEMMA SessionStepPreserves ==
  ASSUME IInv, NEW s \in Sessions, SessionStep(s)
  PROVE  IInv'
<1> USE DEF Goto, CoStates, Outcome
<1>0. Idle(s) \/ co[s] = "requeuing" BY DEF IInv, Discipline
<1>1. CASE GetNextTask(s)
  BY <1>0, <1>1, MovePreserves, Zenon DEF GetNextTask
<1>2. CASE AwaitReady(s)
  <2> DEFINE where == IF s \in cancelled THEN "exited"
                      ELSE IF shutdown_ THEN "suspending" ELSE "trying"
  <2>1. where \in CoStates /\ where \notin {"suspended", "working"} OBVIOUS
  <2> QED BY <2>1, <1>0, <1>2, MovePreserves, Zenon DEF AwaitReady
<1>3. CASE TryGetTaskImmediately(s)
  <2>1. CASE tasks_ # <<>>
    <3>1. TakeFront(s) BY <2>1, <1>3 DEF TryGetTaskImmediately
    <3> QED BY <3>1, <1>3, TakeFrontPreserves DEF TryGetTaskImmediately
  <2>2. CASE tasks_ = <<>>
    <3>1. ~TakeFront(s) BY <2>2 DEF TakeFront
    <3> QED
      BY <3>1, <1>0, <1>3, MovePreserves DEF TryGetTaskImmediately, queueVars
  <2> QED BY <2>1, <2>2
<1>4. CASE AwaitSuspendCheck(s)
  <2> DEFINE where == IF GivesUp(s) THEN "exited" ELSE "locking"
  <2>1. where \in CoStates /\ where \notin {"suspended", "working"} OBVIOUS
  <2> QED BY <2>1, <1>0, <1>4, MovePreserves, Zenon DEF AwaitSuspendCheck
<1>5. CASE AwaitSuspendLocked(s)
  <2>1. CASE GivesUp(s)
    BY <2>1, <1>0, <1>5, MovePreserves DEF AwaitSuspendLocked, queueVars
  <2>2. CASE ~GivesUp(s) /\ tasks_ # <<>>
    <3>1. TakeFront(s) /\ UNCHANGED waiting_workers_
      BY <2>2, <1>5 DEF AwaitSuspendLocked
    <3> QED BY <3>1, <1>5, TakeFrontPreserves DEF AwaitSuspendLocked
  <2>3. CASE ~GivesUp(s) /\ tasks_ = <<>>
    <3>1. ~TakeFront(s) BY <2>3 DEF TakeFront
    <3> QED BY <3>1, <2>3, <1>5, ParkPreserves DEF AwaitSuspendLocked
  <2> QED BY <2>1, <2>2, <2>3
<1>6. CASE RequeueReturns(s)
  <2>1. PICK where \in {"running", "exited"} : co' = [co EXCEPT ![s] = where]
    BY <1>6, Zenon DEF RequeueReturns
  <2> QED BY <2>1, <1>6, MovePreserves, Zenon DEF RequeueReturns
<1> QED BY <1>1, <1>2, <1>3, <1>4, <1>5, <1>6 DEF SessionStep

----------------------------------------------------------------------------

\* Where the handles are depends on these variables only.
LEMMA HandleInvFrame ==
  ASSUME HandleInv, UNCHANGED <<waiting_workers_, cancelled, co, result_, resuming>>
  PROVE  HandleInv'
BY Zenon DEF HandleInv, HandleResumedOnce, HandedTaskIsSeen, OnlyCancelledStranded, Reachable

\* One thread's call now has the tasks ts still to place, none of them in the
\* calls of other threads.
LEMMA CallsUpdate ==
  ASSUME IInv, NEW th \in Threads, NEW ts, IsInjective(ts),
         Range(ts) \cap (InCall \ Range(calls[th])) = {},
         calls' = [calls EXCEPT ![th] = ts]
  PROVE  /\ InCall' = (InCall \ Range(calls[th])) \cup Range(ts)
         /\ \A x \in Threads : IsInjective(calls'[x])
         /\ \A x, y \in Threads :
               x # y => Range(calls'[x]) \cap Range(calls'[y]) = {}
<1>1. \A x \in Threads : calls'[x] = IF x = th THEN ts ELSE calls[x]
  BY DEF IInv, TypeOK
<1>2. \A x, y \in Threads : x # y => Range(calls[x]) \cap Range(calls[y]) = {}
  BY DEF IInv, TaskInv, NoTaskTwice, EachOnce
<1>3. \A x \in Threads : Range(calls[x]) \subseteq InCall BY DEF InCall
<1>4. \A x \in Threads : IsInjective(calls'[x])
  BY <1>1 DEF IInv, TaskInv, NoTaskTwice, EachOnce
<1>5. \A x \in Threads : x # th => Range(calls[x]) \cap Range(ts) = {}
  BY <1>2, <1>3
<1>6. \A x, y \in Threads : x # y => Range(calls'[x]) \cap Range(calls'[y]) = {}
  BY <1>1, <1>2, <1>5
<1>7. ASSUME NEW t \in InCall' PROVE t \in (InCall \ Range(calls[th])) \cup Range(ts)
  <2>1. PICK x \in Threads : t \in Range(calls'[x]) BY <1>7 DEF InCall
  <2>2. CASE x = th BY <2>1, <2>2, <1>1
  <2>3. CASE x # th
    <3>1. t \in Range(calls[x]) BY <2>1, <2>3, <1>1
    <3> QED BY <3>1, <2>3, <1>2, <1>3
  <2> QED BY <2>2, <2>3
<1>8. ASSUME NEW t \in (InCall \ Range(calls[th])) \cup Range(ts) PROVE t \in InCall'
  <2>1. CASE t \in Range(ts)
    <3>1. t \in Range(calls'[th]) BY <2>1, <1>1
    <3> QED BY <3>1 DEF InCall
  <2>2. CASE t \notin Range(ts)
    <3>1. PICK x \in Threads : t \in Range(calls[x]) BY <2>2 DEF InCall
    <3>2. t \in Range(calls'[x]) BY <2>2, <3>1, <1>1
    <3> QED BY <3>2 DEF InCall
  <2> QED BY <2>1, <2>2
<1> QED BY <1>4, <1>6, <1>7, <1>8

\* A call places its first task.
LEMMA CallTail ==
  ASSUME IInv, NEW th \in Threads, calls[th] # <<>>, calls' = [calls EXCEPT ![th] = Tail(@)]
  PROVE  /\ Head(calls[th]) \in InCall /\ InCall' = InCall \ {Head(calls[th])}
         /\ \A x \in Threads : IsInjective(calls'[x])
         /\ \A x, y \in Threads : x # y => Range(calls'[x]) \cap Range(calls'[y]) = {}
<1>1. /\ Range(calls[th]) = {Head(calls[th])} \cup Range(Tail(calls[th]))
      /\ IsInjective(Tail(calls[th]))
      /\ Head(calls[th]) \notin Range(Tail(calls[th]))
  BY TailFacts, SMTT(30) DEF IInv, TypeOK, TaskInv, NoTaskTwice, EachOnce
<1>2. Range(calls[th]) \subseteq InCall BY DEF InCall
<1>3. Range(Tail(calls[th])) \cap (InCall \ Range(calls[th])) = {} BY <1>1
<1>4. calls' = [calls EXCEPT ![th] = Tail(calls[th])] OBVIOUS
<1>5. /\ InCall' = (InCall \ Range(calls[th])) \cup Range(Tail(calls[th]))
      /\ \A x \in Threads : IsInjective(calls'[x])
      /\ \A x, y \in Threads : x # y => Range(calls'[x]) \cap Range(calls'[y]) = {}
  BY <1>1, <1>3, <1>4, CallsUpdate, Zenon
<1> QED BY <1>1, <1>2, <1>5, Zenon

\* add_tasks past or stopped by its shutdown check.
LEMMA AddTasksPreserves ==
  ASSUME IInv, NEW p \in Producers, AddTasks(p)
  PROVE  IInv'
<1> USE DEF IInv, queueVars, AddTasks
<1>1. PICK ts \in NewBatches : issued' = issued \cup Range(ts) /\ Enter(p, ts)
  OBVIOUS
<1>2. /\ ts \in Seq(Tasks)
      /\ IsInjective(ts)
      /\ Range(ts) \subseteq Tasks \ issued
  <2>1. PICK n \in 1..MaxBatch : ts \in Injection(1..n, Tasks \ issued)
    BY Zenon DEF NewBatches
  <2>2. n \in Nat BY BatchAssumption
  <2> QED BY <2>1, <2>2 DEF Injection, Range
<1>3. p \in Threads /\ p # Stopper /\ p \notin Sessions
  BY ThreadAssumption DEF Threads
<1>4. TypeOK' BY <1>1, <1>2, <1>3 DEF TypeOK, Enter
<1>5. Discipline'
  <2>1. \A th \in Threads : th # p => calls'[th] = calls[th]
    BY <1>1, <1>3 DEF TypeOK, Enter
  <2>2. Stopper \in Threads /\ Sessions \subseteq Threads BY DEF Threads
  <2> QED BY Zenon, <2>1, <2>2, <1>3 DEF Discipline, Idle
<1>6. HandleInv' BY HandleInvFrame
<1>7. QueueInv' BY DEF QueueInv, NeverBothWait, NobodyParksAfterShutdown
<1>8. Held' = Held /\ Queued' = Queued BY DEF Held, Queued
<1>9. Range(ts) \cap (Queued \cup Held \cup InCall \cup completed \cup dropped) = {}
  BY <1>2 DEF TaskInv, NoTaskLost
<1>10. TaskInv'
  <2>1. CASE shutdown_
    <3>1. dropped' = dropped \cup Range(ts) /\ calls' = calls BY <2>1, <1>1 DEF Enter
    <3>2. InCall' = InCall BY <3>1 DEF InCall
    <3>3. NoTaskLost' BY <3>1, <3>2, <1>1, <1>8 DEF TaskInv, NoTaskLost
    <3>4. EachOnce' BY <3>1 DEF TaskInv, NoTaskTwice, EachOnce
    <3>5. PlacesDisjoint'
      BY <3>1, <3>2, <1>8, <1>9 DEF TaskInv, NoTaskTwice, PlacesDisjoint
    <3> QED BY <3>3, <3>4, <3>5 DEF TaskInv, NoTaskTwice
  <2>2. CASE ~shutdown_
    <3>1. dropped' = dropped /\ calls' = [calls EXCEPT ![p] = ts]
      BY <2>2, <1>1 DEF Enter
    <3>2. calls[p] = <<>> /\ Range(calls[p]) = {} BY EmptyFacts DEF Idle
    <3>3. /\ InCall' = (InCall \ Range(calls[p])) \cup Range(ts)
          /\ \A x \in Threads : IsInjective(calls'[x])
          /\ \A x, y \in Threads :
                x # y => Range(calls'[x]) \cap Range(calls'[y]) = {}
      BY <3>1, <3>2, <1>2, <1>3, <1>9, CallsUpdate, Zenon
    <3>4. InCall' = InCall \cup Range(ts) BY <3>2, <3>3
    <3>5. NoTaskLost' BY <3>1, <3>4, <1>1, <1>8 DEF TaskInv, NoTaskLost
    <3>6. EachOnce' BY Zenon, <3>3, SMTT(30) DEF TaskInv, NoTaskTwice, EachOnce
    <3>7. PlacesDisjoint'
      BY <3>1, <3>4, <1>8, <1>9 DEF TaskInv, NoTaskTwice, PlacesDisjoint
    <3> QED BY <3>5, <3>6, <3>7 DEF TaskInv, NoTaskTwice
  <2> QED BY <2>1, <2>2
<1> QED BY <1>4, <1>5, <1>6, <1>7, <1>10

\* A one-element sequence.
LEMMA SingletonFacts ==
  ASSUME NEW S, NEW e \in S
  PROVE  <<e>> \in Seq(S) /\ Range(<<e>>) = {e} /\ IsInjective(<<e>>)
BY DEF Range, IsInjective

\* The session holding t gives it up.
LEMMA HeldMinus ==
  ASSUME IInv, NEW s \in Sessions, co[s] = "working",
         result_' = [result_ EXCEPT ![s] = NoTask]
  PROVE  /\ result_[s] \in Tasks
         /\ result_[s] \in Held
         /\ Held' = Held \ {result_[s]}
<1>1. result_[s] # NoTask /\ result_[s] \in Tasks BY DEF IInv, Discipline, TypeOK
<1>2. \A r \in Sessions : result_[r] = result_[s] => r = s
  BY Zenon, <1>1 DEF IInv, TaskInv, NoTaskTwice, EachOnce
<1> QED BY <1>1, <1>2 DEF Held, IInv, TypeOK

\* A session puts its task back.
LEMMA RequeuePreserves ==
  ASSUME IInv, NEW s \in Sessions, Requeue(s)
  PROVE  IInv'
<1> USE DEF IInv, queueVars, Requeue, Goto
<1> DEFINE t == result_[s]
<1>1. /\ t \in Tasks /\ t # NoTask
      /\ t \in Held
      /\ Held' = Held \ {t}
  BY HeldMinus, TaskAssumption, Zenon
<1>2. <<t>> \in Seq(Tasks) /\ Range(<<t>>) = {t} /\ IsInjective(<<t>>) /\ <<t>> # <<>>
  BY <1>1, SingletonFacts
<1>3. s \in Threads /\ s # Stopper /\ Idle(s)
  BY Zenon, ThreadAssumption DEF Threads, Discipline
<1>4. TypeOK' BY <1>1, <1>2, <1>3, Zenon DEF TypeOK, Enter, CoStates
<1>5. Discipline'
  <2>1. \A th \in Threads : th # s => calls'[th] = calls[th]
    BY <1>3 DEF TypeOK, Enter
  <2>2. Stopper \in Threads /\ Sessions \subseteq Threads BY DEF Threads
  <2>3. co'[s] = "requeuing" /\ \A r \in Sessions \ {s} :
            co'[r] = co[r] /\ result_'[r] = result_[r]
    BY DEF TypeOK
  <2> QED BY <2>1, <2>2, <2>3, <1>3 DEF Discipline, Idle
<1>6. HandleInv'
  <2>1. HandleResumedOnce' BY DEF HandleInv, HandleResumedOnce, TypeOK
  <2>2. HandedTaskIsSeen' BY Zenon DEF HandleInv, HandedTaskIsSeen, TypeOK
  <2>3. OnlyCancelledStranded'
    BY Zenon DEF HandleInv, OnlyCancelledStranded, Reachable, TypeOK
  <2> QED BY <2>1, <2>2, <2>3 DEF HandleInv
<1>7. QueueInv' BY DEF QueueInv, NeverBothWait, NobodyParksAfterShutdown
<1>8. Queued' = Queued BY DEF Queued
<1>9. t \notin Queued /\ t \notin InCall /\ t \notin completed /\ t \notin dropped
  BY Zenon, <1>1 DEF TaskInv, NoTaskTwice, PlacesDisjoint
<1>a. \A s1, s2 \in Sessions :
        (result_'[s1] = result_'[s2] /\ result_'[s1] # NoTask) => s1 = s2
  BY DEF TaskInv, NoTaskTwice, EachOnce, TypeOK
<1>10. TaskInv'
  <2>1. CASE shutdown_
    <3>1. dropped' = dropped \cup {t} /\ calls' = calls BY <2>1, <1>2 DEF Enter
    <3>2. InCall' = InCall BY <3>1 DEF InCall
    <3>3. NoTaskLost' BY <3>1, <3>2, <1>1, <1>8 DEF TaskInv, NoTaskLost
    <3>4. EachOnce' BY <3>1, <1>a DEF TaskInv, NoTaskTwice, EachOnce
    <3>5. PlacesDisjoint'
      BY <3>1, <3>2, <1>1, <1>8, <1>9 DEF TaskInv, NoTaskTwice, PlacesDisjoint
    <3> QED BY <3>3, <3>4, <3>5 DEF TaskInv, NoTaskTwice
  <2>2. CASE ~shutdown_
    <3>1. dropped' = dropped /\ calls' = [calls EXCEPT ![s] = <<t>>]
      BY <2>2 DEF Enter
    <3>2. calls[s] = <<>> /\ Range(calls[s]) = {} BY Zenon, <1>3, EmptyFacts DEF Idle
    <3>3. /\ InCall' = (InCall \ Range(calls[s])) \cup Range(<<t>>)
          /\ \A x \in Threads : IsInjective(calls'[x])
          /\ \A x, y \in Threads :
                x # y => Range(calls'[x]) \cap Range(calls'[y]) = {}
      BY <3>1, <3>2, <1>2, <1>3, <1>9, CallsUpdate, Zenon
    <3>4. InCall' = InCall \cup {t} BY Zenon, <3>2, <3>3, <1>2
    <3>5. NoTaskLost' BY <3>1, <3>4, <1>1, <1>8 DEF TaskInv, NoTaskLost
    <3>6. EachOnce' BY Zenon, <3>3, <1>a DEF TaskInv, NoTaskTwice, EachOnce
    <3>7. PlacesDisjoint'
      BY <3>1, <3>4, <1>1, <1>8, <1>9 DEF TaskInv, NoTaskTwice, PlacesDisjoint
    <3> QED BY <3>5, <3>6, <3>7 DEF TaskInv, NoTaskTwice
  <2> QED BY <2>1, <2>2
<1> QED BY <1>4, <1>5, <1>6, <1>7, <1>10

\* A session completes its task.
LEMMA CompletePreserves ==
  ASSUME IInv, NEW s \in Sessions, Complete(s)
  PROVE  IInv'
<1> USE DEF IInv, queueVars, Complete, Goto
<1> DEFINE t == result_[s]
<1>1. /\ t \in Tasks
      /\ t \in Held
      /\ Held' = Held \ {t}
  BY HeldMinus, Zenon
<1>2. TypeOK' BY Zenon, <1>1 DEF TypeOK, CoStates
<1>3. Discipline' BY Zenon DEF Discipline, TypeOK, Idle
<1>4. HandleInv'
  <2>1. HandleResumedOnce' BY DEF HandleInv, HandleResumedOnce, TypeOK
  <2>2. HandedTaskIsSeen' BY DEF HandleInv, HandedTaskIsSeen, TypeOK
  <2>3. OnlyCancelledStranded'
    BY DEF HandleInv, OnlyCancelledStranded, Reachable, TypeOK
  <2> QED BY <2>1, <2>2, <2>3 DEF HandleInv
<1>5. QueueInv' BY DEF QueueInv, NeverBothWait, NobodyParksAfterShutdown
<1>6. Queued' = Queued /\ InCall' = InCall BY DEF Queued, InCall
<1>7. t \notin Queued /\ t \notin InCall /\ t \notin completed /\ t \notin dropped
  BY <1>1 DEF TaskInv, NoTaskTwice, PlacesDisjoint
<1>8. NoTaskLost' BY Zenon, <1>1, <1>6 DEF TaskInv, NoTaskLost
<1>9. EachOnce' BY DEF TaskInv, NoTaskTwice, EachOnce, TypeOK
<1>10. PlacesDisjoint' BY <1>1, <1>6, <1>7 DEF TaskInv, NoTaskTwice, PlacesDisjoint
<1> QED BY <1>2, <1>3, <1>4, <1>5, <1>8, <1>9, <1>10 DEF TaskInv, NoTaskTwice

----------------------------------------------------------------------------

\* What the loop of add_task(s) leaves in waiting_workers_: no waiter that was
\* not there; of the waiters it removes only the first live one is not cancelled.
LEMMA FirstLiveFacts ==
  ASSUME IInv, NEW k \in 1 .. Len(waiting_workers_) + 1, IsFirstLive(k),
         waiting_workers_' = SubSeq(waiting_workers_, k + 1, Len(waiting_workers_))
  PROVE  /\ waiting_workers_' \in Seq(Sessions)
         /\ IsInjective(waiting_workers_')
         /\ Range(waiting_workers_') \subseteq Range(waiting_workers_)
         /\ k \in DOMAIN waiting_workers_ =>
               /\ waiting_workers_[k] \in Range(waiting_workers_)
               /\ waiting_workers_[k] \notin Range(waiting_workers_')
               /\ \A s \in Range(waiting_workers_) \ Range(waiting_workers_') :
                     s = waiting_workers_[k] \/ s \in cancelled
         /\ k \notin DOMAIN waiting_workers_ =>
               /\ waiting_workers_' = <<>>
               /\ \A s \in Range(waiting_workers_) : s \in cancelled
<1> DEFINE q == waiting_workers_
           r == waiting_workers_'
<1>1. /\ q \in Seq(Sessions) /\ IsInjective(q)
      /\ Len(q) \in Nat /\ DOMAIN q = 1..Len(q) /\ k \in Nat
  BY DEF IInv, TypeOK, HandleInv, HandleResumedOnce
<1>2. /\ r \in Seq(Sessions)
      /\ Range(r) = {q[i] : i \in (k+1)..Len(q)}
      /\ k >= Len(q) => r = <<>>
      /\ IsInjective(r)
  BY <1>1, SuffixFacts
<1>3. \A i \in 1 .. k-1 : q[i] \in cancelled BY DEF IsFirstLive
<1>4. Range(q) = {q[i] : i \in 1..Len(q)} BY <1>1 DEF Range
<1> HIDE DEF q, r
<1>5. Range(r) \subseteq Range(q)
  <2>1. (k+1)..Len(q) \subseteq 1..Len(q) BY <1>1
  <2> QED BY <2>1, <1>2, <1>4
<1>6. ASSUME k \in DOMAIN q
      PROVE  /\ q[k] \in Range(q) /\ q[k] \notin Range(r)
             /\ \A s \in Range(q) \ Range(r) : s = q[k] \/ s \in cancelled
  <2>1. k \in 1..Len(q) BY <1>1, <1>6
  <2>2. \A i \in (k+1)..Len(q) : q[i] # q[k]
    BY <2>1, <1>1 DEF IsInjective
  <2>3. ASSUME NEW s \in Range(q) \ Range(r) PROVE s = q[k] \/ s \in cancelled
    <3>1. PICK i \in 1..Len(q) : s = q[i] BY <1>4
    <3>2. i \notin (k+1)..Len(q) BY <3>1, <1>2
    <3>3. i = k \/ i \in 1 .. k-1 BY <3>2, <2>1, <1>1
    <3> QED BY <3>1, <3>3, <1>3
  <2> QED BY <2>1, <2>2, <2>3, <1>2, <1>4
<1>7. ASSUME k \notin DOMAIN q
      PROVE  r = <<>> /\ \A s \in Range(q) : s \in cancelled
  <2>1. k \in 1 .. Len(q)+1 BY DEF q
  <2>2. k = Len(q) + 1 BY <2>1, <1>1, <1>7
  <2>3. k >= Len(q) /\ 1..Len(q) = 1 .. k-1 BY <2>2, <1>1
  <2> QED BY <2>3, <1>2, <1>3, <1>4
<1> QED BY <1>2, <1>5, <1>6, <1>7 DEF q, r

\* What handing the task t to the waiter w does: w leaves the waiters, with t in
\* its awaitable, for th, which is to resume it.
HandsOver(th, w, t) ==
    /\ UNCHANGED <<shutdown_, swapped, cancelled, co>>
    /\ calls[th] # <<>> /\ resuming[th] = <<>> /\ th # Stopper /\ t # NoTask
    /\ IsInjective(waiting_workers_')
    /\ Range(waiting_workers_') \subseteq Range(waiting_workers_)
    /\ w \in Range(waiting_workers_) \ Range(waiting_workers_')
    /\ \A s \in Range(waiting_workers_) \ Range(waiting_workers_') :
          s = w \/ s \in cancelled
    /\ co[w] = "suspended"
    /\ \A x \in Threads : w \notin Range(resuming[x])
    /\ \A x \in Threads : resuming'[x] = IF x = th THEN <<w>> ELSE resuming[x]
    /\ \A x \in Threads : calls'[x] = IF x = th THEN Tail(calls[th]) ELSE calls[x]
    /\ \A s \in Sessions : result_'[s] = IF s = w THEN t ELSE result_[s]

\* The part of the next lemma about handles.
LEMMA HandOverHandles ==
  ASSUME IInv, NEW th \in Threads, NEW w \in Sessions, NEW t \in Tasks,
         HandsOver(th, w, t)
  PROVE  Discipline' /\ HandleInv'
<1>0. UNCHANGED <<shutdown_, swapped, cancelled, co>> /\ resuming[th] = <<>>
  BY Zenon DEF HandsOver
<1>a. /\ IsInjective(waiting_workers_')
      /\ Range(waiting_workers_') \subseteq Range(waiting_workers_)
      /\ w \in Range(waiting_workers_) \ Range(waiting_workers_')
      /\ \A s \in Range(waiting_workers_) \ Range(waiting_workers_') :
            s = w \/ s \in cancelled
      /\ co[w] = "suspended"
      /\ \A x \in Threads : w \notin Range(resuming[x])
  BY Zenon DEF HandsOver
<1>b. \A x \in Threads : resuming'[x] = IF x = th THEN <<w>> ELSE resuming[x]
  BY Zenon DEF HandsOver
<1>c. /\ calls[th] # <<>> /\ th # Stopper /\ t # NoTask
      /\ \A x \in Threads : calls'[x] = IF x = th THEN Tail(calls[th]) ELSE calls[x]
      /\ \A s \in Sessions : result_'[s] = IF s = w THEN t ELSE result_[s]
  BY Zenon DEF HandsOver
<1>1. Range(<<w>>) = {w} /\ IsInjective(<<w>>) BY SingletonFacts
<1>2. \A x \in Threads : x = th => Range(resuming'[x]) = {w} /\ IsInjective(resuming'[x])
  BY Zenon, <1>1, <1>b
<1>3. \A x \in Threads : x # th => Range(resuming'[x]) = Range(resuming[x])
  BY Zenon, <1>b
<1>4. Discipline'
  <2>1. Stopper \in Threads /\ Sessions \subseteq Threads BY DEF Threads
  <2>2. \A s \in Sessions : ~Idle(s) => co[s] = "requeuing" BY DEF IInv, Discipline
  <2>3. \A s \in Sessions : ~Idle(s)' => ~Idle(s)
    BY Zenon, <2>1, <1>0, <1>b, <1>c DEF Idle
  <2>4. calls'[Stopper] = <<>> /\ resuming'[Stopper] = resuming[Stopper]
    BY Zenon, <2>1, <1>b, <1>c DEF IInv, Discipline
  <2>5. \A s \in Sessions : co'[s] = "working" => result_'[s] # NoTask
    BY Zenon, <1>0, <1>c DEF IInv, Discipline
  <2>6. \A s \in Sessions : ~Idle(s)' => co'[s] = "requeuing" BY Zenon, <2>2, <2>3, <1>0
  <2>7. (swapped' => shutdown_') /\ (~swapped' => resuming'[Stopper] = <<>>)
    BY Zenon, <2>4, <1>0, SMTT(30) DEF IInv, Discipline
  <2> QED BY Zenon, <2>4, <2>5, <2>6, <2>7 DEF Discipline
<1>5. HandleResumedOnce'
  <2>0. HandleResumedOnce BY DEF IInv, HandleInv
  <2>1. \A s \in Range(waiting_workers_') : co'[s] = "suspended"
    BY Zenon, <2>0, <1>0, <1>a, SMTT(30) DEF HandleResumedOnce
  <2>2. ASSUME NEW x \in Threads
        PROVE  /\ IsInjective(resuming'[x])
               /\ \A s \in Range(resuming'[x]) : co'[s] = "suspended"
               /\ Range(resuming'[x]) \cap Range(waiting_workers_') = {}
    <3>1. CASE x = th BY Zenon, <3>1, <1>0, <1>2, <1>a
    <3>2. CASE x # th
      <4>1. /\ IsInjective(resuming[x])
            /\ \A s \in Range(resuming[x]) : co[s] = "suspended"
            /\ Range(resuming[x]) \cap Range(waiting_workers_) = {}
        BY Zenon, <2>0 DEF HandleResumedOnce
      <4> QED BY Zenon, <4>1, <3>2, <1>0, <1>3, <1>a, <1>b
    <3> QED BY <3>1, <3>2
  <2>3. ASSUME NEW x \in Threads, NEW y \in Threads, x # y
        PROVE  Range(resuming'[x]) \cap Range(resuming'[y]) = {}
    <3>1. CASE x = th BY Zenon, <3>1, <2>3, <1>2, <1>3, <1>a
    <3>2. CASE y = th BY Zenon, <3>2, <2>3, <1>2, <1>3, <1>a
    <3>3. CASE x # th /\ y # th
      <4>1. Range(resuming[x]) \cap Range(resuming[y]) = {}
        BY <2>0, <2>3 DEF HandleResumedOnce
      <4> QED BY Zenon, <4>1, <3>3, <1>3
    <3> QED BY <3>1, <3>2, <3>3
  <2> QED BY Zenon, <2>1, <2>2, <2>3, <1>a, SMTT(30) DEF HandleResumedOnce
<1>6. /\ w \in Range(resuming'[th])
      /\ \A x \in Threads : \A s \in Sessions :
           s \in Range(resuming[x]) => s \in Range(resuming'[x])
  <2>1. Range(resuming[th]) = {} BY Zenon, <1>0, EmptyFacts
  <2> QED BY Zenon, <2>1, <1>2, <1>3
<1>7. HandedTaskIsSeen'
  BY Zenon, <1>0, <1>6, <1>a, <1>c, SMTT(30) DEF IInv, HandleInv, HandedTaskIsSeen
<1>8. OnlyCancelledStranded'
  BY Zenon, <1>0, <1>6, <1>a, SMTT(30) DEF IInv, HandleInv, OnlyCancelledStranded, Reachable
<1> QED BY <1>4, <1>5, <1>7, <1>8 DEF HandleInv

\* The task of an add_task(s) call goes to the first live waiter.
LEMMA HandToWaiterPreserves ==
  ASSUME IInv, NEW th \in Threads, Distribute(th),
         NEW k \in DOMAIN waiting_workers_, IsFirstLive(k),
         waiting_workers_' = SubSeq(waiting_workers_, k + 1, Len(waiting_workers_)),
         result_' = [result_ EXCEPT ![waiting_workers_[k]] = Head(calls[th])],
         resuming' = [resuming EXCEPT ![th] = <<waiting_workers_[k]>>],
         calls' = [calls EXCEPT ![th] = Tail(@)],
         UNCHANGED tasks_
  PROVE  IInv'
<1> DEFINE w == waiting_workers_[k]
           t == Head(calls[th])
<1> USE DEF IInv
<1>0. UNCHANGED <<shutdown_, swapped, cancelled, co, taskVars>> /\ calls[th] # <<>>
      /\ resuming[th] = <<>>
  BY Zenon DEF Distribute
<1> USE DEF taskVars
<1>1. th # Stopper BY Zenon, <1>0 DEF Discipline
<1>2. /\ waiting_workers_' \in Seq(Sessions)
      /\ IsInjective(waiting_workers_')
      /\ Range(waiting_workers_') \subseteq Range(waiting_workers_)
      /\ w \in Range(waiting_workers_)
      /\ w \notin Range(waiting_workers_')
      /\ \A s \in Range(waiting_workers_) \ Range(waiting_workers_') :
            s = w \/ s \in cancelled
  <2>1. k \in 1 .. Len(waiting_workers_) + 1 BY DEF IsFirstLive
  <2> QED BY <2>1, FirstLiveFacts, Zenon
<1>3. /\ t \in Tasks
      /\ Tail(calls[th]) \in Seq(Tasks)
      /\ Range(calls[th]) = {t} \cup Range(Tail(calls[th]))
      /\ IsInjective(Tail(calls[th]))
      /\ t \notin Range(Tail(calls[th]))
  BY Zenon, <1>0, TailFacts, SMTT(30) DEF TypeOK, TaskInv, NoTaskTwice, EachOnce
<1>4. w \in Sessions /\ result_[w] = NoTask BY Zenon, <1>2, WaiterHasNoResult
<1>5. co[w] = "suspended" /\ \A x \in Threads : w \notin Range(resuming[x])
  BY Zenon, <1>2, SMTT(30) DEF HandleInv, HandleResumedOnce
<1>6. <<w>> \in Seq(Sessions) /\ Range(<<w>>) = {w} /\ IsInjective(<<w>>)
  BY <1>4, SingletonFacts
<1>7. t # NoTask BY <1>3, TaskAssumption
<1> HIDE DEF w, t
<1>8. /\ \A x \in Threads : resuming'[x] = IF x = th THEN <<w>> ELSE resuming[x]
      /\ \A x \in Threads : calls'[x] = IF x = th THEN Tail(calls[th]) ELSE calls[x]
      /\ \A s \in Sessions : result_'[s] = IF s = w THEN t ELSE result_[s]
  BY DEF TypeOK, w, t
<1>9. TypeOK'
  <2>1. result_' \in [Sessions -> Tasks \cup {NoTask}] BY Zenon, <1>3 DEF TypeOK, t
  <2>2. resuming' \in [Threads -> Seq(Sessions)] BY <1>6 DEF TypeOK, w
  <2>3. calls' \in [Threads -> Seq(Tasks)] BY <1>3 DEF TypeOK
  <2> QED BY <1>0, <1>2, <2>1, <2>2, <2>3, Zenon DEF TypeOK
<1>10. Discipline' /\ HandleInv'
  <2>1. HandsOver(th, w, t)
    BY Zenon, <1>0, <1>1, <1>2, <1>5, <1>7, <1>8, SMTT(30) DEF HandsOver
  <2> QED BY <2>1, <1>3, <1>4, HandOverHandles
<1>11. /\ InCall' = InCall \ {t}
       /\ t \in InCall
       /\ \A x \in Threads : IsInjective(calls'[x])
       /\ \A x, y \in Threads : x # y => Range(calls'[x]) \cap Range(calls'[y]) = {}
  BY <1>0, CallTail, Zenon DEF t
<1>12. Held' = Held \cup {t}
  <2>1. \A x \in Held : x \in Held' BY <1>4, <1>8 DEF Held
  <2>2. t \in Held' BY <1>4, <1>7, <1>8 DEF Held
  <2>3. \A x \in Held' : x \in Held \/ x = t BY Zenon, <1>8 DEF Held
  <2> QED BY <2>1, <2>2, <2>3
<1>13. TaskInv'
  <2> USE DEF TaskInv, NoTaskTwice
  <2>1. t \notin Held /\ t \notin Queued /\ t \notin completed /\ t \notin dropped
    BY <1>11 DEF PlacesDisjoint
  <2>2. Queued' = Queued BY DEF Queued
  <2>3. NoTaskLost' BY Zenon, <2>2, <1>0, <1>11, <1>12 DEF NoTaskLost
  <2>4. \A s \in Sessions : result_[s] # t BY <2>1, <1>7 DEF Held
  <2>5. EachOnce'
    <3>1. ASSUME NEW s1 \in Sessions, NEW s2 \in Sessions,
                 result_'[s1] = result_'[s2], result_'[s1] # NoTask
          PROVE  s1 = s2
      BY <3>1, <2>4, <1>8 DEF EachOnce
    <3> QED BY <3>1, <1>11, Zenon DEF EachOnce
  <2>6. PlacesDisjoint' BY <2>1, <2>2, <1>0, <1>11, <1>12 DEF PlacesDisjoint
  <2> QED BY <2>3, <2>5, <2>6
<1>14. QueueInv'
  <2>1. waiting_workers_ # <<>> BY <1>2, EmptyFacts
  <2> QED BY <2>1, <1>0 DEF QueueInv, NeverBothWait, NobodyParksAfterShutdown
<1> QED BY <1>9, <1>10, <1>13, <1>14

\* No live waiter: every task of the call joins the deque.
LEMMA AppendTasksPreserves ==
  ASSUME IInv, NEW th \in Threads, Distribute(th),
         NEW k \in 1 .. Len(waiting_workers_) + 1, k \notin DOMAIN waiting_workers_,
         IsFirstLive(k),
         waiting_workers_' = SubSeq(waiting_workers_, k + 1, Len(waiting_workers_)),
         tasks_' = tasks_ \o calls[th],
         calls' = [calls EXCEPT ![th] = <<>>],
         UNCHANGED <<result_, resuming>>
  PROVE  IInv'
<1> USE DEF IInv, taskVars
<1>0. UNCHANGED <<shutdown_, swapped, cancelled, co, taskVars>> /\ calls[th] # <<>>
      /\ resuming[th] = <<>>
  BY Zenon DEF Distribute
<1>1. /\ waiting_workers_' = <<>>
      /\ \A s \in Range(waiting_workers_) : s \in cancelled
  BY Zenon, FirstLiveFacts
<1>2. waiting_workers_' \in Seq(Sessions) BY <1>1
<1>3. Range(waiting_workers_') = {} /\ IsInjective(waiting_workers_')
  BY <1>1, EmptyFacts, Zenon
<1>4. \A x \in Threads : calls'[x] = IF x = th THEN <<>> ELSE calls[x]
  BY DEF TypeOK
<1>5. /\ tasks_ \in Seq(Tasks) /\ calls[th] \in Seq(Tasks)
      /\ IsInjective(tasks_) /\ IsInjective(calls[th])
      /\ Range(calls[th]) \subseteq InCall
  BY DEF TypeOK, TaskInv, NoTaskTwice, EachOnce, InCall
<1>6. Queued \cap Range(calls[th]) = {}
  BY <1>5 DEF TaskInv, NoTaskTwice, PlacesDisjoint
<1>7. /\ tasks_' \in Seq(Tasks)
      /\ Queued' = Queued \cup Range(calls[th])
      /\ IsInjective(tasks_')
  BY <1>5, <1>6, ConcatFacts DEF Queued
<1>8. TypeOK'
  <2>1. calls' \in [Threads -> Seq(Tasks)] BY DEF TypeOK
  <2> QED BY Zenon, <2>1, <1>0, <1>2, <1>7, SMTT(30) DEF TypeOK
<1>9. Discipline'
  <2>1. Stopper \in Threads /\ Sessions \subseteq Threads BY DEF Threads
  <2>2. \A s \in Sessions : ~Idle(s)' => ~Idle(s) BY <2>1, <1>4 DEF Idle
  <2> QED BY <2>1, <2>2, <1>0, <1>4, Zenon DEF Discipline
<1>10. HandleInv'
  BY <1>0, <1>1, <1>3, Zenon DEF HandleInv, HandleResumedOnce, HandedTaskIsSeen,
                          OnlyCancelledStranded, Reachable
<1>11. /\ InCall' = InCall \ Range(calls[th])
       /\ \A x \in Threads : IsInjective(calls'[x])
       /\ \A x, y \in Threads : x # y => Range(calls'[x]) \cap Range(calls'[y]) = {}
  BY EmptyFacts, CallsUpdate, Zenon
<1>12. Held' = Held BY DEF Held
<1>13. TaskInv'
  <2> USE DEF TaskInv, NoTaskTwice
  <2>1. NoTaskLost' BY Zenon, <1>0, <1>5, <1>7, <1>11, <1>12 DEF NoTaskLost
  <2>2. EachOnce' BY <1>7, <1>11, Zenon DEF EachOnce
  <2>3. PlacesDisjoint' BY <1>0, <1>5, <1>7, <1>11, <1>12, Zenon DEF PlacesDisjoint
  <2> QED BY <2>1, <2>2, <2>3
<1>14. QueueInv'
  BY Zenon, <1>0, <1>1 DEF QueueInv, NeverBothWait, NobodyParksAfterShutdown
<1> QED BY <1>8, <1>9, <1>10, <1>13, <1>14

\* One turn of the loop of add_task(s) under the lock.
LEMMA DistributePreserves ==
  ASSUME IInv, NEW th \in Threads, Distribute(th)
  PROVE  IInv'
<1>1. PICK k \in 1 .. Len(waiting_workers_) + 1 :
          /\ IsFirstLive(k)
          /\ waiting_workers_' =
                SubSeq(waiting_workers_, k + 1, Len(waiting_workers_))
          /\ IF k \in DOMAIN waiting_workers_
               THEN /\ result_' =
                         [result_ EXCEPT ![waiting_workers_[k]] = Head(calls[th])]
                    /\ resuming' = [resuming EXCEPT ![th] = <<waiting_workers_[k]>>]
                    /\ calls' = [calls EXCEPT ![th] = Tail(@)]
                    /\ UNCHANGED tasks_
               ELSE /\ tasks_' = tasks_ \o calls[th]
                    /\ calls' = [calls EXCEPT ![th] = <<>>]
                    /\ UNCHANGED <<result_, resuming>>
  BY Zenon DEF Distribute
<1>2. CASE k \in DOMAIN waiting_workers_ BY <1>1, <1>2, HandToWaiterPreserves, Zenon
<1>3. CASE k \notin DOMAIN waiting_workers_ BY <1>1, <1>3, AppendTasksPreserves, Zenon
<1> QED BY <1>2, <1>3

----------------------------------------------------------------------------

\* A thread is done with the first of its handles: resumed, or (by shutdown())
\* skipped because it is cancelled.
LEMMA NextHandlePreserves ==
  ASSUME IInv, NEW th \in Threads, resuming[th] # <<>>,
         resuming' = [resuming EXCEPT ![th] = Tail(@)],
         \/ Goto(Head(resuming[th]), Outcome(result_[Head(resuming[th])]))
         \/ /\ th = Stopper
            /\ Head(resuming[th]) \in cancelled
            /\ UNCHANGED co,
         UNCHANGED <<queueVars, cancelled, result_, calls, taskVars>>
  PROVE  IInv'
<1> USE DEF IInv, queueVars
<1> DEFINE w == Head(resuming[th])
<1>1. /\ w \in Sessions
      /\ Tail(resuming[th]) \in Seq(Sessions)
      /\ Range(resuming[th]) = {w} \cup Range(Tail(resuming[th]))
      /\ IsInjective(Tail(resuming[th]))
      /\ w \notin Range(Tail(resuming[th]))
  BY Zenon, TailFacts DEF TypeOK, HandleInv, HandleResumedOnce
<1>2. /\ co[w] = "suspended"
      /\ w \notin Range(waiting_workers_)
      /\ \A x \in Threads : x # th => w \notin Range(resuming[x])
  BY <1>1, Zenon DEF HandleInv, HandleResumedOnce
<1>3. /\ \A s \in Sessions : s # w => co'[s] = co[s]
      /\ co'[w] = Outcome(result_[w]) \/ (co'[w] = co[w] /\ w \in cancelled /\ th = Stopper)
      /\ co' \in [Sessions -> CoStates]
  BY <1>1, Zenon DEF TypeOK, Goto, Outcome, CoStates
<1> HIDE DEF w
<1>4. \A x \in Threads :
        resuming'[x] = IF x = th THEN Tail(resuming[th]) ELSE resuming[x]
  BY DEF TypeOK
<1>5. /\ \A x \in Threads : Range(resuming'[x]) = Range(resuming[x]) \ {w}
      /\ \A x \in Threads : IsInjective(resuming'[x])
  BY <1>1, <1>2, <1>4, SMTT(30) DEF HandleInv, HandleResumedOnce
<1>6. resuming' \in [Threads -> Seq(Sessions)] BY <1>1 DEF TypeOK
<1>7. TypeOK' BY Zenon, <1>3, <1>6 DEF TypeOK, taskVars
<1>8. Sessions \subseteq Threads /\ Stopper \in Threads BY DEF Threads
<1>9. Discipline'
  <2>1. resuming[Stopper] = <<>> => resuming'[Stopper] = <<>> BY <1>4, <1>8
  <2>2. \A s \in Sessions : ~Idle(s)' => ~Idle(s)
    <3>1. \A s \in Sessions : resuming[s] = <<>> => resuming'[s] = <<>>
      BY <1>4, <1>8
    <3> QED BY Zenon, <3>1 DEF Idle
  <2>3. Idle(w) BY Zenon, <1>1, <1>2, SMTT(30) DEF Discipline, w
  <2>4. \A s \in Sessions : co'[s] = "working" => result_'[s] # NoTask
    BY Zenon, <1>2, <1>3 DEF Discipline, Outcome
  <2> QED BY Zenon, <2>1, <2>2, <2>3, <2>4, <1>3 DEF Discipline
<1>10. HandleResumedOnce'
  <2> USE DEF HandleInv, HandleResumedOnce
  <2>1. Range(waiting_workers_) \subseteq Sessions BY Zenon, RangeFacts DEF TypeOK
  <2>2. \A x \in Threads : Range(resuming[x]) \subseteq Sessions
    BY Zenon, RangeFacts DEF TypeOK
  <2>3. \A s \in Range(waiting_workers_') : co'[s] = "suspended" BY Zenon, <2>1, <1>2, <1>3, SMTT(30)
  <2>4. ASSUME NEW x \in Threads, NEW s \in Range(resuming'[x])
        PROVE  co'[s] = "suspended"
    <3>1. s \in Range(resuming[x]) /\ s # w BY <1>5, Zenon
    <3>2. s \in Sessions /\ co[s] = "suspended" BY Zenon, <3>1, <2>2
    <3> QED BY Zenon, <3>1, <3>2, <1>3, SMTT(30)
  <2>5. \A x, y \in Threads :
          x # y => Range(resuming'[x]) \cap Range(resuming'[y]) = {}
    BY <1>5, Zenon
  <2>6. \A x \in Threads : Range(resuming'[x]) \cap Range(waiting_workers_') = {}
    BY Zenon, <1>5, SMTT(30)
  <2>7. IsInjective(waiting_workers_') OBVIOUS
  <2> HIDE DEF IInv, HandleInv
  <2> QED BY <2>3, <2>4, <2>5, <2>6, <2>7, <1>5, Zenon
<1>11. HandedTaskIsSeen'
  <2>1. th = Stopper => result_[w] = NoTask
    BY Zenon, <1>1, <1>2 DEF HandleInv, HandedTaskIsSeen, w
  <2>2. ASSUME NEW s \in Sessions, result_'[s] # NoTask
        PROVE  \/ co'[s] = "working"
               \/ /\ co'[s] = "suspended"
                  /\ \E x \in Threads \ {Stopper} : s \in Range(resuming'[x])
    <3>1. CASE s = w BY Zenon, <3>1, <2>1, <2>2, <1>3 DEF Outcome
    <3>2. CASE s # w BY Zenon, <3>2, <2>2, <1>3, <1>5, SMTT(30) DEF HandleInv, HandedTaskIsSeen
    <3> QED BY Zenon, <3>1, <3>2
  <2> QED BY Zenon, <2>2 DEF HandedTaskIsSeen
<1>12. OnlyCancelledStranded'
  <2>1. ASSUME NEW s \in Sessions, co'[s] = "suspended"
        PROVE  Reachable(s)' \/ s \in cancelled'
    <3>1. CASE s = w BY Zenon, <3>1, <2>1, <1>3 DEF Outcome
    <3>2. CASE s # w
      BY Zenon, <3>2, <2>1, <1>3, <1>5, SMTT(30) DEF HandleInv, OnlyCancelledStranded, Reachable
    <3> QED BY <3>1, <3>2
  <2> QED BY <2>1 DEF OnlyCancelledStranded
<1>13. TaskInv' BY TaskInvFrame
<1>14. QueueInv' BY DEF QueueInv, NeverBothWait, NobodyParksAfterShutdown
<1> QED BY <1>7, <1>9, <1>10, <1>11, <1>12, <1>13, <1>14 DEF HandleInv

\* A step that takes waiters off the queue, hands some of them to one idle
\* thread, and forgets only cancelled ones: drain_cancelled,
\* cancel_and_resume_waiter and the swap of shutdown().
LEMMA RemoveWaitersPreserves ==
  ASSUME IInv, NEW th \in Threads \ Sessions, NEW hs \in Seq(Sessions),
         resuming[th] = <<>>,
         IsInjective(hs),
         Range(hs) \subseteq Range(waiting_workers_),
         resuming' = [resuming EXCEPT ![th] = hs],
         waiting_workers_' \in Seq(Sessions),
         IsInjective(waiting_workers_'),
         Range(waiting_workers_') \subseteq Range(waiting_workers_) \ Range(hs),
         waiting_workers_ = <<>> => waiting_workers_' = <<>>,
         \A s \in Range(waiting_workers_) :
            s \in Range(waiting_workers_') \cup Range(hs) \/ s \in cancelled,
         shutdown_' = shutdown_,
         swapped' \in BOOLEAN,
         swapped => swapped',
         swapped' => shutdown_,
         swapped' => swapped \/ waiting_workers_' = <<>>,
         th = Stopper /\ ~swapped' => hs = <<>>,
         UNCHANGED <<tasks_, cancelled, co, result_, calls, taskVars>>
  PROVE  IInv'
<1> USE DEF IInv
<1>1. \A x \in Threads : resuming'[x] = IF x = th THEN hs ELSE resuming[x]
  BY Zenon DEF TypeOK
<1>2. Sessions \subseteq Threads /\ Stopper \in Threads BY Zenon DEF Threads
<1>3. Range(resuming[th]) = {} BY Zenon, EmptyFacts
<1>4. TypeOK' BY Zenon, SMTT(30) DEF TypeOK, taskVars
<1>5. Discipline'
  <2>1. ~swapped' => resuming'[Stopper] = <<>> BY Zenon, <1>1, <1>2 DEF Discipline
  <2>2. \A s \in Sessions : Idle(s)' <=> Idle(s) BY Zenon, <1>1, <1>2 DEF Idle
  <2> QED BY Zenon, <2>1, <2>2, SMTT(30) DEF Discipline
<1>6. HandleResumedOnce'
  <2> USE DEF HandleInv, HandleResumedOnce
  <2>1. \A s \in Range(waiting_workers_') : co'[s] = "suspended" BY Zenon, SMTT(30)
  <2>2. ASSUME NEW x \in Threads
        PROVE  /\ IsInjective(resuming'[x])
               /\ \A s \in Range(resuming'[x]) : co'[s] = "suspended"
               /\ Range(resuming'[x]) \cap Range(waiting_workers_') = {}
    <3>1. CASE x = th BY Zenon, <3>1, <1>1, SMTT(30)
    <3>2. CASE x # th BY Zenon, <3>2, <1>1, SMTT(30)
    <3> QED BY Zenon, <3>1, <3>2, SMTT(30)
  <2>3. ASSUME NEW x \in Threads, NEW y \in Threads, x # y
        PROVE  Range(resuming'[x]) \cap Range(resuming'[y]) = {}
    <3>1. CASE x = th BY Zenon, <3>1, <2>3, <1>1, SMTT(30)
    <3>2. CASE y = th BY Zenon, <3>2, <2>3, <1>1, SMTT(30)
    <3>3. CASE x # th /\ y # th BY <3>3, <2>3, <1>1, Zenon
    <3> QED BY Zenon, <3>1, <3>2, <3>3, SMTT(30)
  <2> QED BY <2>1, <2>2, <2>3, Zenon
<1>7. \A x \in Threads : Range(resuming[x]) \subseteq Range(resuming'[x])
  BY Zenon, <1>1, <1>3
<1>8. HandedTaskIsSeen' BY Zenon, <1>7, SMTT(30) DEF HandleInv, HandedTaskIsSeen
<1>9. OnlyCancelledStranded'
  <2>1. Range(resuming'[th]) = Range(hs) BY Zenon, <1>1
  <2> QED BY Zenon, <2>1, <1>7, SMTT(30) DEF HandleInv, OnlyCancelledStranded, Reachable
<1>10. TaskInv' BY TaskInvFrame
<1>11. QueueInv' BY DEF QueueInv, NeverBothWait, NobodyParksAfterShutdown
<1> QED BY Zenon, <1>4, <1>5, <1>6, <1>8, <1>9, <1>10, <1>11 DEF HandleInv

\* The maintenance thread drops the cancelled waiters.
LEMMA DrainCancelledPreserves ==
  ASSUME IInv, DrainCancelled
  PROVE  IInv'
<1> USE DEF IInv
<1>1. waiting_workers_ \in Seq(Sessions) BY DEF TypeOK
<1>2. waiting_workers_' \in Without(waiting_workers_, cancelled)
  BY DEF DrainCancelled
<1>3. /\ waiting_workers_' \in Seq(Sessions)
      /\ Range(waiting_workers_') = Range(waiting_workers_) \ cancelled
      /\ IsInjective(waiting_workers_')
      /\ waiting_workers_ = <<>> => waiting_workers_' = <<>>
  BY <1>1, <1>2, WithoutFacts
<1>4. Maintenance \in Threads \ Sessions /\ Maintenance # Stopper
  BY ThreadAssumption DEF Threads
<1>5. resuming' = [resuming EXCEPT ![Maintenance] = <<>>]
  BY <1>4 DEF DrainCancelled, Idle, TypeOK
<1>6. /\ resuming[Maintenance] = <<>>
      /\ UNCHANGED <<shutdown_, swapped, tasks_, cancelled, co, result_, calls,
                     taskVars>>
  BY DEF DrainCancelled, Idle
<1>7. <<>> \in Seq(Sessions) /\ Range(<<>>) = {} /\ IsInjective(<<>>)
  BY EmptyFacts
<1>8. swapped' \in BOOLEAN /\ (swapped => shutdown_) BY <1>6 DEF TypeOK, Discipline
<1> QED BY <1>3, <1>4, <1>5, <1>6, <1>7, <1>8, RemoveWaitersPreserves, Zenon

\* The maintenance thread takes one waiter off the queue to resume it.
LEMMA CancelAndResumeWaiterPreserves ==
  ASSUME IInv, NEW s \in Sessions, CancelAndResumeWaiter(s)
  PROVE  IInv'
<1> USE DEF IInv
<1> DEFINE hs == IF s \in Range(waiting_workers_) THEN <<s>> ELSE <<>>
<1>1. waiting_workers_ \in Seq(Sessions) BY DEF TypeOK
<1>2. waiting_workers_' \in Without(waiting_workers_, {s})
  BY DEF CancelAndResumeWaiter
<1>3. /\ waiting_workers_' \in Seq(Sessions)
      /\ Range(waiting_workers_') = Range(waiting_workers_) \ {s}
      /\ IsInjective(waiting_workers_')
      /\ waiting_workers_ = <<>> => waiting_workers_' = <<>>
  BY <1>1, <1>2, WithoutFacts
<1>4. Maintenance \in Threads \ Sessions /\ Maintenance # Stopper
  BY ThreadAssumption DEF Threads
<1>5. resuming' = [resuming EXCEPT ![Maintenance] = hs]
  BY Zenon, <1>4 DEF CancelAndResumeWaiter, Idle, TypeOK
<1>6. /\ resuming[Maintenance] = <<>>
      /\ UNCHANGED <<shutdown_, swapped, tasks_, cancelled, co, calls, taskVars>>
  BY Zenon DEF CancelAndResumeWaiter, Idle
<1>7. hs \in Seq(Sessions) /\ IsInjective(hs)
      /\ Range(hs) = {s} \cap Range(waiting_workers_)
  <2>1. CASE s \in Range(waiting_workers_) BY <2>1, SingletonFacts
  <2>2. CASE s \notin Range(waiting_workers_) BY <2>2, EmptyFacts
  <2> QED BY <2>1, <2>2
<1>8. result_' = result_
  <2>1. CASE s \in Range(waiting_workers_)
    <3>1. result_[s] = NoTask BY <2>1, WaiterHasNoResult
    <3> QED BY <3>1, <2>1 DEF CancelAndResumeWaiter, TypeOK
  <2>2. CASE s \notin Range(waiting_workers_)
    BY <2>2 DEF CancelAndResumeWaiter
  <2> QED BY <2>1, <2>2
<1>9. swapped' \in BOOLEAN /\ (swapped => shutdown_) BY <1>6 DEF TypeOK, Discipline
<1> HIDE DEF hs
<1> QED BY <1>3, <1>4, <1>5, <1>6, <1>7, <1>8, <1>9, RemoveWaitersPreserves, Zenon

\* shutdown() takes every waiter off the queue.
LEMMA ShutdownSwapPreserves ==
  ASSUME IInv, ShutdownSwap
  PROVE  IInv'
<1> USE DEF IInv
<1>1. /\ shutdown_ /\ swapped' = TRUE
      /\ resuming' = [resuming EXCEPT ![Stopper] = waiting_workers_]
      /\ waiting_workers_' = <<>>
      /\ UNCHANGED <<shutdown_, tasks_, cancelled, co, result_, calls, taskVars>>
  BY DEF ShutdownSwap
<1>2. Stopper \in Threads \ Sessions BY ThreadAssumption DEF Threads
<1>3. resuming[Stopper] = <<>> BY Zenon DEF ShutdownSwap, Discipline
<1>4. waiting_workers_ \in Seq(Sessions) /\ IsInjective(waiting_workers_)
  BY Zenon DEF TypeOK, HandleInv, HandleResumedOnce
<1>5. /\ waiting_workers_' \in Seq(Sessions)
      /\ Range(waiting_workers_') = {}
      /\ IsInjective(waiting_workers_')
  BY <1>1, EmptyFacts
<1> QED BY <1>1, <1>2, <1>3, <1>4, <1>5, RemoveWaitersPreserves, Zenon

\* Setting a token.
LEMMA CancelPreserves ==
  ASSUME IInv, NEW s \in Sessions, Cancel(s)
  PROVE  IInv'
<1> USE DEF IInv, Cancel, queueVars
<1>1. TypeOK' BY DEF TypeOK, taskVars
<1>2. Discipline' BY Zenon DEF Discipline, Idle
<1>3. HandleInv'
  BY Zenon DEF HandleInv, HandleResumedOnce, HandedTaskIsSeen, OnlyCancelledStranded, Reachable
<1>4. TaskInv' BY TaskInvFrame
<1>5. QueueInv' BY DEF QueueInv, NeverBothWait, NobodyParksAfterShutdown
<1> QED BY <1>1, <1>2, <1>3, <1>4, <1>5

\* Setting the shutdown flag.
LEMMA ShutdownFlagPreserves ==
  ASSUME IInv, ShutdownFlag
  PROVE  IInv'
<1> USE DEF IInv, ShutdownFlag
<1>1. TypeOK' BY DEF TypeOK, taskVars
<1>2. Discipline' BY Zenon DEF Discipline, Idle
<1>3. HandleInv' BY HandleInvFrame
<1>4. TaskInv' BY TaskInvFrame
<1>5. QueueInv' BY DEF QueueInv, NeverBothWait, NobodyParksAfterShutdown
<1> QED BY <1>1, <1>2, <1>3, <1>4, <1>5

----------------------------------------------------------------------------

\* The queue is empty and every session is running when it is created.
LEMMA InitIInv == Init => IInv
<1> SUFFICES ASSUME Init PROVE IInv OBVIOUS
<1> USE DEF Init
<1>1. Stopper \in Threads /\ Sessions \subseteq Threads BY DEF Threads
<1>2. Range(<<>>) = {} /\ IsInjective(<<>>) BY EmptyFacts
<1>3. TypeOK
  <2>1. <<>> \in Seq(Tasks) /\ <<>> \in Seq(Sessions) OBVIOUS
  <2>2. calls \in [Threads -> Seq(Tasks)] /\ resuming \in [Threads -> Seq(Sessions)]
    BY <2>1
  <2>3. co \in [Sessions -> CoStates] /\ result_ \in [Sessions -> Tasks \cup {NoTask}]
    BY DEF CoStates
  <2> QED BY <2>1, <2>2, <2>3, Zenon DEF TypeOK
<1>4. Discipline BY <1>1 DEF Discipline, Idle
<1>5. HandleInv
  BY Zenon, <1>2 DEF HandleInv, HandleResumedOnce, HandedTaskIsSeen, OnlyCancelledStranded
<1>6. Queued = {} /\ Held = {} /\ InCall = {} BY <1>2 DEF Queued, Held, InCall
<1>7. TaskInv
  BY <1>2, <1>6 DEF TaskInv, NoTaskLost, NoTaskTwice, EachOnce, PlacesDisjoint
<1>8. QueueInv BY DEF QueueInv, NeverBothWait, NobodyParksAfterShutdown
<1> QED BY <1>3, <1>4, <1>5, <1>7, <1>8 DEF IInv

\* Every step of every thread and of every coroutine keeps the invariant.
LEMMA NextIInv == IInv /\ [Next]_vars => IInv'
<1> SUFFICES ASSUME IInv, [Next]_vars PROVE IInv' OBVIOUS
<1>1. ASSUME NEW s \in Sessions, SessionStep(s) PROVE IInv'
  BY <1>1, SessionStepPreserves
<1>2. ASSUME NEW s \in Sessions, Requeue(s) PROVE IInv' BY <1>2, RequeuePreserves
<1>3. ASSUME NEW s \in Sessions, Complete(s) PROVE IInv' BY <1>3, CompletePreserves
<1>4. ASSUME NEW s \in Sessions, Leave(s) PROVE IInv'
  <2>1. Idle(s) BY Zenon, <1>4 DEF Leave, IInv, Discipline
  <2> QED BY <2>1, <1>4, MovePreserves, Zenon DEF Leave, Goto, CoStates
<1>5. ASSUME NEW s \in Sessions, Cancel(s) PROVE IInv' BY <1>5, CancelPreserves
<1>6. ASSUME NEW s \in Sessions, CancelAndResumeWaiter(s) PROVE IInv'
  BY <1>6, CancelAndResumeWaiterPreserves
<1>7. ASSUME NEW p \in Producers, AddTasks(p) PROVE IInv' BY <1>7, AddTasksPreserves
<1>8. ASSUME NEW th \in Threads, ThreadStep(th) PROVE IInv'
  <2>1. CASE Distribute(th) BY <2>1, DistributePreserves
  <2>2. CASE ResumeWaiter(th)
    BY <2>2, NextHandlePreserves, Zenon DEF ResumeWaiter, Resume
  <2> QED BY <2>1, <2>2, <1>8 DEF ThreadStep
<1>9. CASE DrainCancelled BY <1>9, DrainCancelledPreserves
<1>10. CASE ShutdownFlag BY <1>10, ShutdownFlagPreserves
<1>11. CASE ShutdownSwap BY <1>11, ShutdownSwapPreserves
<1>12. CASE ShutdownResume
  <2>1. Stopper \in Threads BY DEF Threads
  <2>2. /\ resuming[Stopper] # <<>>
        /\ resuming' = [resuming EXCEPT ![Stopper] = Tail(@)]
        /\ \/ Goto(Head(resuming[Stopper]), Outcome(result_[Head(resuming[Stopper])]))
           \/ Head(resuming[Stopper]) \in cancelled /\ UNCHANGED co
        /\ UNCHANGED <<queueVars, cancelled, result_, calls, taskVars>>
    BY <1>12 DEF ShutdownResume, Resume
  <2> QED BY <2>1, <2>2, NextHandlePreserves, Zenon
<1>13. CASE UNCHANGED vars
  <2> USE <1>13 DEF IInv, vars
  <2>1. TypeOK' BY Zenon DEF TypeOK
  <2>2. Discipline' BY Zenon DEF Discipline, Idle
  <2>3. HandleInv' BY HandleInvFrame
  <2>4. TaskInv' BY TaskInvFrame DEF taskVars
  <2>5. QueueInv' BY DEF QueueInv, NeverBothWait, NobodyParksAfterShutdown
  <2> QED BY <2>1, <2>2, <2>3, <2>4, <2>5
<1> QED
  BY <1>1, <1>2, <1>3, <1>4, <1>5, <1>6, <1>7, <1>8, <1>9, <1>10, <1>11, <1>12, <1>13
  DEF Next, ShutdownStep

\* The inductive invariant holds throughout.
THEOREM Invariance == Spec => []IInv
BY InitIInv, NextIInv, PTL DEF Spec

\* Type correctness of the queue's state.
THEOREM TypeCorrect == Spec => []TypeOK
<1>1. IInv => TypeOK BY DEF IInv
<1> QED BY <1>1, Invariance, PTL

\* add_task(s), the awaitable, requeues, cancellation and shutdown() never lose
\* a task.
THEOREM TasksKept == Spec => []NoTaskLost
<1>1. IInv => NoTaskLost BY DEF IInv, TaskInv
<1> QED BY <1>1, Invariance, PTL

\* No task is ever in two places: never with two sessions, never queued again
\* once completed.
THEOREM TasksUnique == Spec => []NoTaskTwice
<1>1. IInv => NoTaskTwice BY DEF IInv, TaskInv
<1> QED BY <1>1, Invariance, PTL

\* No lost wake-up: a task never waits in the deque while a session is parked.
THEOREM NoLostWakeup == Spec => []NeverBothWait
<1>1. IInv => NeverBothWait BY DEF IInv, QueueInv
<1> QED BY <1>1, Invariance, PTL

\* add_task(s), shutdown() and cancel_and_resume_waiter never resume the same
\* suspended coroutine twice.
THEOREM ResumedOnce == Spec => []HandleResumedOnce
<1>1. IInv => HandleResumedOnce BY DEF IInv, HandleInv
<1> QED BY <1>1, Invariance, PTL

\* A task put into a parked session's awaitable reaches that session.
THEOREM TaskReachesSession == Spec => []HandedTaskIsSeen
<1>1. IInv => HandedTaskIsSeen BY DEF IInv, HandleInv
<1> QED BY <1>1, Invariance, PTL

\* A parked coroutine nobody can resume any more has a cancelled token.
THEOREM StrandedAreCancelled == Spec => []OnlyCancelledStranded
<1>1. IInv => OnlyCancelledStranded BY DEF IInv, HandleInv
<1> QED BY <1>1, Invariance, PTL

\* After the swap of shutdown() the queue of waiters stays empty.
THEOREM NoParkingAfterShutdown == Spec => []NobodyParksAfterShutdown
<1>1. IInv => NobodyParksAfterShutdown BY DEF IInv, QueueInv
<1> QED BY <1>1, Invariance, PTL

----------------------------------------------------------------------------
(* The queue implements the pool *)

\* An add_task(s) call that has the tasks ts to place is an offer of them.
LEMMA EnterPresents ==
  ASSUME IInv, NEW th \in Threads, Idle(th), NEW ts, IsInjective(ts), Range(ts) \cap InCall = {},
         Enter(th, ts)
  PROVE  Pool!Present(Range(ts))
<1>1. CASE shutdown_
  <2>1. dropped' = dropped \cup Range(ts) /\ calls' = calls BY <1>1 DEF Enter
  <2>2. InCall' = InCall BY <2>1 DEF InCall
  <2> QED BY <1>1, <2>1, <2>2 DEF Pool!Present
<1>2. CASE ~shutdown_
  <2>1. dropped' = dropped /\ calls' = [calls EXCEPT ![th] = ts] BY <1>2 DEF Enter
  <2>2. Range(calls[th]) = {} BY EmptyFacts DEF Idle
  <2>3. Range(ts) \cap (InCall \ Range(calls[th])) = {} BY <2>2
  <2>4. InCall' = (InCall \ Range(calls[th])) \cup Range(ts) BY Zenon, <2>1, <2>3, CallsUpdate
  <2> QED BY <2>1, <2>2, <2>4 DEF Pool!Present
<1> QED BY <1>1, <1>2

\* add_tasks is an offer of new tasks.
LEMMA AddTasksOffers == ASSUME IInv, NEW p \in Producers, AddTasks(p) PROVE Pool!Offer
<1>1. PICK ts \in NewBatches : issued' = issued \cup Range(ts) /\ Enter(p, ts) BY DEF AddTasks
<1>2. IsInjective(ts) /\ Range(ts) \subseteq Tasks \ issued
  <2>1. PICK n \in 1..MaxBatch : ts \in Injection(1..n, Tasks \ issued)
    BY Zenon DEF NewBatches
  <2> QED BY <2>1 DEF Injection, Range
<1>3. Range(ts) \cap InCall = {} BY <1>2 DEF IInv, TaskInv, NoTaskLost
<1>4. p \in Threads /\ Idle(p) BY DEF Threads, AddTasks
<1>5. Pool!Present(Range(ts)) BY <1>1, <1>2, <1>3, <1>4, EnterPresents
<1>6. (Tasks \ issued)' = (Tasks \ issued) \ Range(ts) BY <1>1
<1>7. UNCHANGED <<tasks_, result_, completed, shutdown_>> BY DEF AddTasks, queueVars
<1> QED BY <1>2, <1>5, <1>6, <1>7 DEF Pool!Offer

\* A session that puts its task back offers it again.
LEMMA RequeueOffersAgain == ASSUME IInv, NEW s \in Sessions, Requeue(s) PROVE Pool!OfferAgain(s)
<1> DEFINE t == result_[s]
<1>1. co[s] = "working" /\ result_' = [result_ EXCEPT ![s] = NoTask] /\ Enter(s, <<t>>)
      /\ UNCHANGED <<tasks_, shutdown_, issued, completed>>
  BY DEF Requeue, queueVars
<1>2. t \in Tasks /\ t \in Held /\ t # NoTask BY <1>1, HeldMinus, TaskAssumption, Zenon
<1>3. Range(<<t>>) = {t} /\ IsInjective(<<t>>) BY <1>2, SingletonFacts
<1>4. {t} \cap InCall = {} BY <1>2 DEF IInv, TaskInv, NoTaskTwice, PlacesDisjoint
<1>5. s \in Threads /\ Idle(s) BY Zenon, <1>1 DEF Threads, IInv, Discipline
<1> HIDE DEF t
<1>6. Pool!Present(Range(<<t>>)) BY <1>1, <1>3, <1>4, <1>5, EnterPresents
<1>7. Pool!Present({t}) BY <1>3, <1>6
<1> QED BY <1>1, <1>2, <1>7 DEF Pool!OfferAgain, t

\* A task is given to a waiter only while the deque is empty.
LEMMA DistributeMoves ==
  ASSUME IInv, NEW th \in Threads, Distribute(th)
  PROVE  Pool!Accept \/ \E s \in Sessions : Pool!HandOver(s)
<1>1. PICK k \in 1 .. Len(waiting_workers_) + 1 :
          /\ IsFirstLive(k)
          /\ IF k \in DOMAIN waiting_workers_
               THEN /\ result_' =
                         [result_ EXCEPT ![waiting_workers_[k]] = Head(calls[th])]
                    /\ calls' = [calls EXCEPT ![th] = Tail(@)]
                    /\ UNCHANGED tasks_
               ELSE /\ tasks_' = tasks_ \o calls[th]
                    /\ calls' = [calls EXCEPT ![th] = <<>>]
                    /\ UNCHANGED <<result_, resuming>>
  BY Zenon DEF Distribute
<1>2. calls[th] # <<>> /\ UNCHANGED <<shutdown_, issued, completed, dropped>>
  BY Zenon DEF Distribute, taskVars
<1>3. CASE k \in DOMAIN waiting_workers_
  <2> DEFINE w == waiting_workers_[k]
             t == Head(calls[th])
  <2>1. w \in Range(waiting_workers_) BY <1>3 DEF Range
  <2>2. w \in Sessions /\ result_[w] = NoTask BY Zenon, <2>1, WaiterHasNoResult
  <2>3. tasks_ = <<>> BY <1>3, <2>1, EmptyFacts DEF IInv, QueueInv, NeverBothWait
  <2>4. t \in InCall /\ InCall' = InCall \ {t} BY <1>1, <1>2, <1>3, CallTail, Zenon
  <2>5. result_' = [result_ EXCEPT ![w] = t] /\ UNCHANGED tasks_ BY <1>1, <1>3
  <2> HIDE DEF w, t
  <2> QED BY Zenon, <1>2, <2>2, <2>3, <2>4, <2>5 DEF Pool!HandOver
<1>4. CASE k \notin DOMAIN waiting_workers_
  <2> DEFINE ts == calls[th]
             new == SubSeq(tasks_', Len(tasks_) + 1, Len(tasks_'))
  <2>1. /\ tasks_ \in Seq(Tasks) /\ ts \in Seq(Tasks) /\ IsInjective(ts)
        /\ Range(ts) \subseteq InCall
    BY Zenon DEF IInv, TypeOK, TaskInv, NoTaskTwice, EachOnce, InCall
  <2>2. tasks_' = tasks_ \o ts /\ calls' = [calls EXCEPT ![th] = <<>>] /\ UNCHANGED result_
    BY <1>1, <1>4
  <2>3. InCall' = InCall \ Range(ts)
    <3>1. InCall' = (InCall \ Range(calls[th])) \cup Range(<<>>)
      <4>1. Range(<<>>) \cap (InCall \ Range(calls[th])) = {} BY Zenon, EmptyFacts
      <4> QED BY Zenon, <2>2, <4>1, EmptyFacts, CallsUpdate
    <3> QED BY <3>1, EmptyFacts
  <2> HIDE DEF ts
  <2>4. new = ts
    <3>1. Len(tasks_') = Len(tasks_) + Len(ts) /\ Len(tasks_) \in Nat /\ Len(ts) \in Nat
      BY <2>1, <2>2
    <3>2. tasks_' \in Seq(Tasks) BY <2>1, <2>2
    <3>3. new \in Seq(Tasks) /\ Len(new) = Len(ts)
      BY <3>1, <3>2
    <3>4. \A i \in 1 .. Len(ts) : new[i] = ts[i] BY <2>1, <2>2, <3>1, <3>2
    <3> HIDE DEF new
    <3> QED BY <2>1, <3>3, <3>4
  <2>5. /\ tasks_' = tasks_ \o new /\ IsInjective(new)
        /\ Range(new) \subseteq InCall /\ InCall' = InCall \ Range(new)
    BY Zenon, <2>1, <2>2, <2>3, <2>4
  <2>6. UNCHANGED <<result_, Tasks \ issued, completed, dropped, shutdown_>> BY <1>2, <2>2
  <2> QED BY <2>5, <2>6, Zenon DEF Pool!Accept, Pool!IsInjective, Pool!Range, IsInjective, Range
<1> QED BY <1>3, <1>4

\* A step that moves no task is none of the pool.
LEMMA PoolFrame ==
  ASSUME UNCHANGED <<tasks_, calls, result_, issued, completed, dropped, shutdown_>>
  PROVE  UNCHANGED Pool!poolVars
BY DEF Pool!poolVars, InCall

\* A session takes the front of the deque, or no task.
LEMMA SessionStepRefines ==
  ASSUME IInv, NEW s \in Sessions, SessionStep(s)
  PROVE  Pool!Take(s) \/ UNCHANGED Pool!poolVars
<1>1. CASE TakeFront(s) /\ co[s] \in {"trying", "locking"} /\ UNCHANGED <<calls, taskVars, shutdown_>>
  <2>1. result_[s] = NoTask BY Zenon, <1>1, NoResult
  <2>2. InCall' = InCall BY <1>1 DEF InCall
  <2> QED BY <1>1, <2>1, <2>2 DEF TakeFront, Pool!Take, taskVars
<1>2. CASE UNCHANGED <<tasks_, calls, result_, taskVars, shutdown_>>
  BY <1>2, PoolFrame DEF taskVars
<1> QED
  BY Zenon, <1>1, <1>2 DEF SessionStep, GetNextTask, AwaitReady, TryGetTaskImmediately, AwaitSuspendCheck,
     AwaitSuspendLocked, RequeueReturns, queueVars

\* The queue starts as an empty pool.
LEMMA PoolInit == Init => Pool!Init
<1> SUFFICES ASSUME Init PROVE Pool!Init OBVIOUS
<1>1. InCall = {} BY EmptyFacts DEF Init, InCall
<1> QED BY <1>1 DEF Init, Pool!Init

\* Every step of the queue is one of the pool, or none.
LEMMA PoolNext == IInv /\ [Next]_vars => [Pool!Next]_(Pool!poolVars)
<1> SUFFICES ASSUME IInv, [Next]_vars PROVE Pool!Next \/ UNCHANGED Pool!poolVars OBVIOUS
<1> USE DEF Pool!Next
<1>1. ASSUME NEW s \in Sessions, SessionStep(s) PROVE Pool!Next \/ UNCHANGED Pool!poolVars
  BY <1>1, SessionStepRefines
<1>2. ASSUME NEW s \in Sessions, Requeue(s) PROVE Pool!Next BY <1>2, RequeueOffersAgain
<1>3. ASSUME NEW s \in Sessions, Complete(s) PROVE Pool!Next
  <2>1. result_[s] # NoTask BY Zenon, <1>3 DEF Complete, IInv, Discipline
  <2>2. Pool!Complete(s) BY Zenon, <1>3, <2>1 DEF Complete, Pool!Complete, queueVars, InCall
  <2> QED BY <2>2
<1>4. ASSUME NEW s \in Sessions, Leave(s) \/ Cancel(s) PROVE UNCHANGED Pool!poolVars
  BY Zenon, <1>4, PoolFrame DEF Leave, Cancel, queueVars, taskVars
<1>5. ASSUME NEW s \in Sessions, CancelAndResumeWaiter(s) PROVE UNCHANGED Pool!poolVars
  <2>1. s \in Range(waiting_workers_) => result_[s] = NoTask BY WaiterHasNoResult
  <2>2. result_' = result_ BY Zenon, <1>5, <2>1 DEF CancelAndResumeWaiter, IInv, TypeOK
  <2> QED BY <1>5, <2>2, PoolFrame DEF CancelAndResumeWaiter, taskVars
<1>6. ASSUME NEW p \in Producers, AddTasks(p) PROVE Pool!Next BY <1>6, AddTasksOffers
<1>7. ASSUME NEW th \in Threads, Distribute(th) PROVE Pool!Next BY <1>7, DistributeMoves
<1>8. ASSUME NEW th \in Threads, ResumeWaiter(th) PROVE UNCHANGED Pool!poolVars
  BY <1>8, PoolFrame DEF ResumeWaiter, queueVars, taskVars
<1>9. CASE DrainCancelled \/ ShutdownStep
  BY Zenon, <1>9, PoolFrame DEF DrainCancelled, ShutdownStep, ShutdownSwap, ShutdownResume, queueVars, taskVars
<1>10. CASE ShutdownFlag
  BY <1>10 DEF ShutdownFlag, Pool!Close, taskVars, InCall
<1>11. CASE UNCHANGED vars BY <1>11, PoolFrame DEF vars
<1> QED
  BY Zenon, <1>1, <1>2, <1>3, <1>4, <1>5, <1>6, <1>7, <1>8, <1>9, <1>10, <1>11 DEF Next, ThreadStep

\* The shared task queue, with its threads, locks and waiters, implements the
\* FIFO pool of module TaskPool: tasks are handed out in the order they were
\* accepted, and only shutdown() refuses one.
THEOREM QueueImplementsPool == Spec => ImplementsPool
BY PoolInit, PoolNext, Invariance, PTL DEF Spec, ImplementsPool, Pool!Spec
=============================================================================
