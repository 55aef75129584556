----------------------- MODULE ResponseContextProofs -----------------------
(***************************************************************************)
(* The safety of ResponseContext for any number of threads and handles.    *)
(***************************************************************************)
EXTENDS ResponseContext, TLAPS

\* What a thread's place says of its handle, of running_ and of stop().
Discipline ==
    /\ \A w \in Workers : worker[w] = "busy" => handle[w] \in Handles
    /\ running_ => stop = "none" /\ \A w \in Workers : worker[w] \notin {"none", "exited"}
    /\ ~running_ /\ stop = "none" =>
          pending_ = <<>> /\ \A w \in Workers : worker[w] = "none"
    /\ stop # "none" => \A w \in Workers : worker[w] # "none"
    /\ \A w \in Workers : worker[w] = "exited" => pending_ = <<>>

\* The inductive invariant.
IInv == TypeOK /\ NoHandleLost /\ ResumedOnce /\ NoLostNotify /\ Discipline

\* The initial state satisfies it.
LEMMA InitIInv == Init => IInv
<1> SUFFICES ASSUME Init PROVE IInv OBVIOUS
<1>1. pending_ = <<>> /\ <<>> \in Seq(Handles) BY DEF Init
<1>2. worker \in [Workers -> {"none", "loop", "waiting", "busy", "exited"}]
  BY DEF Init
<1>3. handle \in [Workers -> Handles \cup {NoHandle}] BY DEF Init
<1>4. TypeOK BY Zenon, <1>1, <1>2, <1>3 DEF Init, TypeOK
<1>5. \A w \in Workers : worker[w] = "none" BY DEF Init
<1>6. InProcess = {} BY <1>5 DEF InProcess
<1>7. NoHandleLost /\ ResumedOnce
  BY <1>1, <1>5, <1>6 DEF Init, NoHandleLost, ResumedOnce, Range, IsInjective
<1>8. NoLostNotify BY DEF Init, NoLostNotify
<1>9. Discipline BY <1>1, <1>5 DEF Init, Discipline
<1> QED BY <1>4, <1>7, <1>8, <1>9 DEF IInv

\* A step that changes neither pending_ nor the histories, and that only moves
\* threads that are not busy, keeps every handle where it is.
LEMMA HandlesStay ==
  ASSUME NoHandleLost, ResumedOnce,
         UNCHANGED <<pending_, posted, processed, handle>>,
         \A w \in Workers : worker'[w] = "busy" <=> worker[w] = "busy"
  PROVE  NoHandleLost' /\ ResumedOnce'
<1>1. InProcess' = InProcess
  <2>1. {x \in Workers : worker'[x] = "busy"} = {x \in Workers : worker[x] = "busy"}
    OBVIOUS
  <2> QED BY <2>1 DEF InProcess
<1>2. NoHandleLost' BY <1>1 DEF NoHandleLost
<1>3. ResumedOnce' BY <1>1 DEF ResumedOnce
<1> QED BY <1>2, <1>3

\* start() keeps the invariant.
LEMMA StartPreserves == IInv /\ Start => IInv'
<1> SUFFICES ASSUME IInv, Start PROVE IInv' OBVIOUS
<1> USE DEF IInv, Start
<1>1. \A w \in Workers : worker'[w] = "loop" OBVIOUS
<1>2. \A w \in Workers : worker[w] = "none" BY DEF Discipline
<1>3. TypeOK' BY DEF TypeOK
<1>4. NoHandleLost' /\ ResumedOnce' BY <1>1, <1>2, HandlesStay
<1>5. NoLostNotify' BY <1>1, WorkersAssumption DEF NoLostNotify
<1>6. Discipline' BY <1>1 DEF Discipline
<1> QED BY <1>3, <1>4, <1>5, <1>6

\* post() keeps the invariant.
LEMMA PostPreserves == ASSUME NEW h \in Handles PROVE IInv /\ Post(h) => IInv'
<1> SUFFICES ASSUME IInv, Post(h) PROVE IInv' OBVIOUS
<1> USE DEF IInv, Post
<1>1. /\ pending_' \in Seq(Handles)
      /\ pending_' # <<>>
      /\ Range(pending_') = Range(pending_) \cup {h}
      /\ IsInjective(pending_) /\ h \notin Range(pending_) => IsInjective(pending_')
  <2> pending_ \in Seq(Handles) BY DEF TypeOK
  <2>1. Len(pending_) \in Nat /\ DOMAIN pending_ = 1 .. Len(pending_) OBVIOUS
  <2>2. /\ DOMAIN pending_' = 1 .. Len(pending_) + 1
        /\ \A i \in 1 .. Len(pending_) : pending_'[i] = pending_[i]
        /\ pending_'[Len(pending_) + 1] = h
    BY <2>1
  <2>3. Range(pending_') = Range(pending_) \cup {h} BY <2>1, <2>2 DEF Range
  <2>4. IsInjective(pending_) /\ h \notin Range(pending_) => IsInjective(pending_')
    BY <2>1, <2>2 DEF Range, IsInjective
  <2> QED BY <2>3, <2>4
<1>2. TypeOK' BY <1>1 DEF TypeOK
<1>3. InProcess' = InProcess BY DEF InProcess
<1>4. h \notin Range(pending_) \cup InProcess \cup processed BY DEF NoHandleLost
<1>5. NoHandleLost' BY <1>1, <1>3 DEF NoHandleLost
<1>6. ResumedOnce' BY <1>1, <1>3, <1>4 DEF ResumedOnce
<1>7. NoLostNotify' BY DEF NoLostNotify, TypeOK
<1>8. Discipline' BY DEF Discipline
<1> QED BY <1>2, <1>5, <1>6, <1>7, <1>8

\* Moving threads between the loop and the condition variable keeps the
\* invariant, as long as somebody looks after the pending handles.
LEMMA MovePreserves ==
  ASSUME IInv, UNCHANGED <<running_, pending_, handle, posted, processed>>,
         worker' \in [Workers -> {"none", "loop", "waiting", "busy", "exited"}],
         \A w \in Workers : \/ worker'[w] = worker[w]
                            \/ /\ worker[w] \in {"loop", "waiting"}
                               /\ worker'[w] \in {"loop", "waiting"},
         notifies' \in Nat,
         stop' = stop \/ (stop = "notify" /\ stop' = "join"),
         NoLostNotify'
  PROVE  IInv'
<1> USE DEF IInv
<1>1. TypeOK' BY DEF TypeOK
<1>2. NoHandleLost' /\ ResumedOnce' BY HandlesStay
<1>3. Discipline'
  <2>1. \A w \in Workers : /\ worker'[w] = "busy" <=> worker[w] = "busy"
                           /\ worker'[w] = "none" <=> worker[w] = "none"
                           /\ worker'[w] = "exited" <=> worker[w] = "exited"
    OBVIOUS
  <2> QED BY <2>1 DEF Discipline
<1> QED BY <1>1, <1>2, <1>3

\* notify_one keeps the invariant.
LEMMA NotifyOnePreserves == IInv /\ NotifyOne => IInv'
<1> SUFFICES ASSUME IInv, NotifyOne PROVE IInv' OBVIOUS
<1>1. notifies' \in Nat BY DEF IInv, TypeOK, NotifyOne
<1>2. CASE \E w \in Workers : worker[w] = "waiting" /\ worker' = [worker EXCEPT ![w] = "loop"]
  <2>1. PICK w \in Workers : worker[w] = "waiting" /\ worker' = [worker EXCEPT ![w] = "loop"]
    BY Zenon, <1>2
  <2>2. \A x \in Workers : worker'[x] = IF x = w THEN "loop" ELSE worker[x]
    BY <2>1 DEF IInv, TypeOK
  <2>3. NoLostNotify' BY <2>2 DEF NoLostNotify
  <2> QED BY <1>1, <2>1, <2>2, <2>3, MovePreserves DEF IInv, TypeOK, NotifyOne
<1>3. CASE UNCHANGED worker /\ \A w \in Workers : worker[w] # "waiting"
  <2>1. NoLostNotify' BY <1>3, WorkersAssumption DEF NoLostNotify
  <2> QED BY <1>1, <1>3, <2>1, MovePreserves DEF IInv, TypeOK, NotifyOne
<1> QED BY <1>2, <1>3 DEF NotifyOne

\* Going to sleep keeps the invariant.
LEMMA WaitPreserves ==
  ASSUME NEW w \in Workers PROVE IInv /\ WaitForWork(w) => IInv'
<1> SUFFICES ASSUME IInv, WaitForWork(w) PROVE IInv' OBVIOUS
<1>1. \A x \in Workers : worker'[x] = IF x = w THEN "waiting" ELSE worker[x]
  BY DEF IInv, TypeOK, WaitForWork
<1>2. NoLostNotify' BY DEF NoLostNotify, WaitForWork
<1> QED BY <1>1, <1>2, MovePreserves DEF IInv, TypeOK, WaitForWork

\* A spurious wake-up keeps the invariant.
LEMMA WakePreserves ==
  ASSUME NEW w \in Workers PROVE IInv /\ SpuriousWakeup(w) => IInv'
<1> SUFFICES ASSUME IInv, SpuriousWakeup(w) PROVE IInv' OBVIOUS
<1>1. \A x \in Workers : worker'[x] = IF x = w THEN "loop" ELSE worker[x]
  BY DEF IInv, TypeOK, SpuriousWakeup
<1>2. NoLostNotify' BY <1>1 DEF NoLostNotify, SpuriousWakeup
<1> QED BY <1>1, <1>2, MovePreserves DEF IInv, TypeOK, SpuriousWakeup

\* notify_all keeps the invariant.
LEMMA StopNotifyPreserves == IInv /\ StopNotify => IInv'
<1> SUFFICES ASSUME IInv, StopNotify PROVE IInv' OBVIOUS
<1>1. \A x \in Workers : worker'[x] = IF worker[x] = "waiting" THEN "loop" ELSE worker[x]
  BY DEF StopNotify
<1>2. NoLostNotify' BY <1>1, WorkersAssumption DEF NoLostNotify, StopNotify
<1>3. worker' \in [Workers -> {"none", "loop", "waiting", "busy", "exited"}]
  BY DEF IInv, TypeOK, StopNotify
<1> QED BY <1>1, <1>2, <1>3, MovePreserves DEF IInv, TypeOK, StopNotify

\* Taking a handle moves it from pending_ to the thread.
LEMMA TakePreserves ==
  ASSUME NEW w \in Workers PROVE IInv /\ Take(w) => IInv'
<1> SUFFICES ASSUME IInv, Take(w) PROVE IInv' OBVIOUS
<1> DEFINE h == Head(pending_)
<1>1. /\ h \in Handles
      /\ pending_' \in Seq(Handles)
      /\ Range(pending_) = {h} \cup Range(pending_')
      /\ IsInjective(pending_) => IsInjective(pending_') /\ h \notin Range(pending_')
  <2>1. pending_ \in Seq(Handles) /\ pending_ # <<>> /\ pending_' = Tail(pending_)
    BY DEF IInv, TypeOK, Take
  <2>2. /\ Len(pending_) \in Nat \ {0} /\ DOMAIN pending_ = 1 .. Len(pending_)
        /\ DOMAIN pending_' = 1 .. Len(pending_) - 1
        /\ \A i \in 1 .. Len(pending_) - 1 : pending_'[i] = pending_[i + 1]
        /\ h = pending_[1] /\ h \in Handles
    BY <2>1
  <2>3. ASSUME NEW x \in Range(pending_) PROVE x \in {h} \cup Range(pending_')
    <3>1. PICK i \in 1 .. Len(pending_) : x = pending_[i] BY <2>2, <2>3 DEF Range
    <3>2. i # 1 => i - 1 \in DOMAIN pending_' /\ pending_'[i - 1] = x BY <2>2, <3>1
    <3> QED BY <2>2, <3>1, <3>2 DEF Range
  <2>4. {h} \cup Range(pending_') \subseteq Range(pending_) BY <2>2 DEF Range
  <2>5. ASSUME IsInjective(pending_) PROVE IsInjective(pending_') /\ h \notin Range(pending_')
    <3> HIDE DEF h
    <3>1. \A i, j \in 1 .. Len(pending_) : pending_[i] = pending_[j] => i = j
      BY <2>2, <2>5 DEF IsInjective
    <3>2. \A i \in DOMAIN pending_' : pending_'[i] # h BY <2>2, <3>1
    <3>3. \A i, j \in DOMAIN pending_' : pending_'[i] = pending_'[j] => i = j BY <2>2, <3>1
    <3> QED BY <3>2, <3>3 DEF Range, IsInjective
  <2> HIDE DEF h
  <2> QED BY <2>1, <2>2, <2>3, <2>4, <2>5
<1>2. \A x \in Workers : /\ worker'[x] = IF x = w THEN "busy" ELSE worker[x]
                         /\ handle'[x] = IF x = w THEN h ELSE handle[x]
  BY DEF IInv, TypeOK, Take
<1>3. worker[w] = "loop" BY DEF Take
<1> HIDE DEF h
<1>4. InProcess' = InProcess \cup {h} BY <1>2, <1>3 DEF InProcess
<1>5. TypeOK'
  <2>1. worker' \in [Workers -> {"none", "loop", "waiting", "busy", "exited"}]
    BY DEF IInv, TypeOK, Take
  <2>2. handle' \in [Workers -> Handles \cup {NoHandle}]
    BY <1>1 DEF IInv, TypeOK, Take, h
  <2> QED BY <1>1, <2>1, <2>2 DEF IInv, TypeOK, Take
<1>6. NoHandleLost' BY <1>1, <1>4 DEF IInv, NoHandleLost, Take
<1>7. ResumedOnce'
  <2>1. h \notin InProcess \cup processed /\ h \notin Range(pending_')
    BY <1>1 DEF IInv, ResumedOnce
  <2>2. \A x \in Workers : worker[x] = "busy" => handle[x] \in InProcess
    BY DEF InProcess
  <2>3. \A u, x \in Workers :
           worker'[u] = "busy" /\ worker'[x] = "busy" /\ handle'[u] = handle'[x] => u = x
    BY <1>2, <2>1, <2>2 DEF IInv, ResumedOnce
  <2>4. processed' = processed BY DEF Take
  <2>5. /\ IsInjective(pending_')
        /\ Range(pending_') \cap (InProcess' \cup processed') = {}
        /\ InProcess' \cap processed' = {}
    BY <1>1, <1>4, <2>1, <2>4 DEF IInv, ResumedOnce
  <2> QED BY <2>3, <2>5 DEF ResumedOnce
<1>8. NoLostNotify' BY <1>2 DEF NoLostNotify
<1>9. Discipline' BY <1>1, <1>2, <1>3 DEF IInv, Discipline, Take
<1> QED BY <1>5, <1>6, <1>7, <1>8, <1>9 DEF IInv

\* The end of process_handle moves the handle to the history.
LEMMA ProcessPreserves ==
  ASSUME NEW w \in Workers PROVE IInv /\ Process(w) => IInv'
<1> SUFFICES ASSUME IInv, Process(w) PROVE IInv' OBVIOUS
<1>1. \A x \in Workers : /\ worker'[x] = IF x = w THEN "loop" ELSE worker[x]
                         /\ handle'[x] = IF x = w THEN NoHandle ELSE handle[x]
  BY DEF IInv, TypeOK, Process
<1>2. worker[w] = "busy" /\ handle[w] \in Handles BY DEF IInv, Discipline, Process
<1>3. InProcess' = InProcess \ {handle[w]}
  BY <1>1, <1>2 DEF InProcess, IInv, ResumedOnce
<1>4. handle[w] \in InProcess BY <1>2 DEF InProcess
<1>5. TypeOK' BY <1>2 DEF IInv, TypeOK, Process
<1>6. NoHandleLost' BY <1>3, <1>4 DEF IInv, NoHandleLost, Process
<1>7. ResumedOnce'
  <2>1. \A u, x \in Workers :
           worker'[u] = "busy" /\ worker'[x] = "busy" /\ handle'[u] = handle'[x] => u = x
    BY <1>1 DEF IInv, ResumedOnce
  <2>2. pending_' = pending_ /\ processed' = processed \cup {handle[w]} BY DEF Process
  <2>3. /\ IsInjective(pending_')
        /\ Range(pending_') \cap (InProcess' \cup processed') = {}
        /\ InProcess' \cap processed' = {}
    BY <1>3, <1>4, <2>2 DEF IInv, ResumedOnce
  <2> QED BY <2>1, <2>3 DEF ResumedOnce
<1>8. NoLostNotify' BY <1>1 DEF NoLostNotify
<1>9. Discipline' BY <1>1, <1>2 DEF IInv, Discipline, Process
<1> QED BY <1>5, <1>6, <1>7, <1>8, <1>9 DEF IInv

\* Leaving the loop, clearing running_ and joining the threads move no handle.
LEMMA ExitPreserves ==
  ASSUME NEW w \in Workers PROVE IInv /\ Exit(w) => IInv'
<1> SUFFICES ASSUME IInv, Exit(w) PROVE IInv' OBVIOUS
<1>1. \A x \in Workers : worker'[x] = IF x = w THEN "exited" ELSE worker[x]
  BY DEF IInv, TypeOK, Exit
<1>2. TypeOK' BY DEF IInv, TypeOK, Exit
<1>3. NoHandleLost' /\ ResumedOnce' BY <1>1, HandlesStay DEF IInv, Exit
<1>4. NoLostNotify' BY DEF NoLostNotify, Exit
<1>5. Discipline' BY <1>1 DEF IInv, Discipline, Exit
<1> QED BY <1>2, <1>3, <1>4, <1>5 DEF IInv

\* stop() clears running_.
LEMMA StopFlagPreserves == IInv /\ StopFlag => IInv'
<1> SUFFICES ASSUME IInv, StopFlag PROVE IInv' OBVIOUS
<1>1. TypeOK' BY Zenon DEF IInv, TypeOK, StopFlag
<1>2. NoHandleLost' /\ ResumedOnce' BY HandlesStay DEF IInv, StopFlag
<1>3. NoLostNotify' BY DEF NoLostNotify, StopFlag
<1>4. Discipline' BY DEF IInv, Discipline, StopFlag
<1> QED BY <1>1, <1>2, <1>3, <1>4 DEF IInv

\* stop() joins the threads.
LEMMA StopJoinPreserves == IInv /\ StopJoin => IInv'
<1> SUFFICES ASSUME IInv, StopJoin PROVE IInv' OBVIOUS
<1>1. \A x \in Workers : worker'[x] = "none" /\ worker[x] = "exited" BY DEF StopJoin
<1>2. TypeOK' BY DEF IInv, TypeOK, StopJoin
<1>3. NoHandleLost' /\ ResumedOnce' BY <1>1, HandlesStay DEF IInv, StopJoin
<1>4. ~running_ /\ pending_ = <<>>
  BY <1>1, WorkersAssumption DEF IInv, Discipline, StopJoin
<1>5. NoLostNotify' BY <1>4 DEF NoLostNotify, StopJoin
<1>6. Discipline' BY <1>1, <1>4 DEF Discipline, StopJoin
<1> QED BY <1>2, <1>3, <1>5, <1>6 DEF IInv

\* Every step keeps the invariant.
LEMMA NextIInv == IInv /\ [Next]_vars => IInv'
<1> SUFFICES ASSUME IInv, [Next]_vars PROVE IInv' OBVIOUS
<1>1. CASE UNCHANGED vars
  <2>1. UNCHANGED <<running_, pending_, worker, handle, notifies, stop, posted, processed>>
    BY <1>1 DEF vars
  <2>2. NoLostNotify' BY <2>1 DEF IInv, NoLostNotify
  <2> QED BY <2>1, <2>2, MovePreserves DEF IInv, TypeOK
<1>2. CASE Next
  BY <1>2, StartPreserves, PostPreserves, NotifyOnePreserves, WaitPreserves, WakePreserves,
     TakePreserves, ProcessPreserves, ExitPreserves, StopFlagPreserves,
     StopNotifyPreserves, StopJoinPreserves
     DEF Next, WorkerStep
<1> QED BY <1>1, <1>2

\* IInv holds in every state that the context reaches.
THEOREM Invariance == Spec => []IInv
BY InitIInv, NextIInv, PTL DEF Spec

\* No handle that post() accepted is forgotten (worker_loop, stop).
THEOREM HandlesKept == Spec => []NoHandleLost
<1>1. IInv => NoHandleLost BY DEF IInv
<1> QED BY <1>1, Invariance, PTL

\* No coroutine is resumed twice, whatever threads and posts interleave.
THEOREM OneResume == Spec => []ResumedOnce
<1>1. IInv => ResumedOnce BY DEF IInv
<1> QED BY <1>1, Invariance, PTL

\* No notification is lost between post() and a thread that goes to sleep.
THEOREM NotificationsArrive == Spec => []NoLostNotify
<1>1. IInv => NoLostNotify BY DEF IInv
<1> QED BY <1>1, Invariance, PTL

\* When stop() has joined the threads, every accepted handle was processed.
THEOREM DrainedAtStop == Spec => []StopDrains
<1>1. IInv => StopDrains
  <2> SUFFICES ASSUME IInv, \A w \in Workers : worker[w] = "none"
               PROVE  posted = processed
    BY DEF StopDrains
  <2>1. pending_ = <<>>
    BY WorkersAssumption DEF IInv, Discipline, TypeOK
  <2>2. InProcess = {} BY DEF InProcess
  <2> QED BY <2>1, <2>2 DEF IInv, NoHandleLost, Range
<1> QED BY <1>1, Invariance, PTL
=============================================================================
