------------------------ MODULE WorkerSessionProofs ------------------------
(***************************************************************************)
(* Inductive invariants of the worker's two threads, for any endpoints and *)
(* any number of button presses and of moves of the dispatcher.            *)
(***************************************************************************)
EXTENDS WorkerSession, TLAPS

\* The control thread goes round its loop without a start request.
Waiting == {"while", "need", "run", "release", "done"}

\* A disconnect that has not come to the runtime yet is still requested, or the
\* control thread has obeyed it.
CallInv ==
    ui \in {"cancel", "flag"} =>
        disconnect_requested_ \/ (pc \in Waiting \cup {"check"} /\ ~start_requested_)

\* One that met run_loop is seen at the end of run_loop or of the turn.
HeldInv ==
    request = "held" =>
        \/ pc \in Running /\ rt_disconnect_ /\ (disconnect_requested_ \/ ~start_requested_)
        \/ pc = "check" /\ (disconnect_requested_ \/ ~start_requested_)
        \/ pc \in Waiting /\ ~start_requested_

\* The loop is left for a shutdown only, with the socket gone; an incomplete
\* configuration is one.
EndInv ==
    /\ pc \in {"release", "done"} => shutdown_requested_
    /\ pc = "done" => socket_ = "null" /\ connection_status_ \in {"Stopped", "Error"}
    /\ IF rendezvous = "misconfigured"
       THEN \/ pc = "start"
            \/ pc \in {"while", "release", "done"} /\ shutdown_requested_ /\ connection_status_ = "Error"
       ELSE connection_status_ # "Error"

\* A socket that shutdown() has found is not connected, unless the call is
\* about to close it or the greeting about to be refused.
ShutInv ==
    sock_shutdown_ =>
        \/ ui = "quit_close" /\ ui_runtime = "current"
        \/ socket_ # "connected"
        \/ pc = "greeting"

IInv == TypeOK /\ CallInv /\ HeldInv /\ EndInv /\ ShutInv

-----------------------------------------------------------------------------
(* The types *)

\* A counter below its bound stays within it.
LEMMA Counted == ASSUME NEW m \in Nat, NEW n \in 0..m, n < m PROVE n + 1 \in 0..m
  OBVIOUS

\* The runtime's variables keep their types.
LEMMA RuntimeTypeKept ==
  ASSUME RuntimeTypeOK, [Next]_vars
  PROVE  RuntimeTypeOK'
<1> USE DEF RuntimeTypeOK, runtime
<1>1. CASE AnswerFound BY Zenon, <1>1 DEF AnswerFound
<1>2. CASE CreateSocket BY Zenon, <1>2 DEF CreateSocket
<1>3. CASE OpenDescriptor BY Zenon, <1>3 DEF OpenDescriptor
<1>4. CASE ConnectSucceeds BY Zenon, <1>4 DEF ConnectSucceeds
<1>5. CASE Greet BY Zenon, <1>5 DEF Greet
<1>6. CASE ClearRequests BY Zenon, <1>6 DEF ClearRequests
<1>7. CASE CheckPause BY Zenon, <1>7 DEF CheckPause
<1>8. CASE Lost BY Zenon, <1>8 DEF Lost, Closed
<1>9. CASE CheckDisconnect BY Zenon, <1>9 DEF CheckDisconnect, Closed
<1>10. CASE Release BY Zenon, <1>10 DEF Release
<1>11. CASE pause_runtime BY Zenon, <1>11 DEF pause_runtime
<1>12. CASE DisconnectFlag BY Zenon, <1>12 DEF DisconnectFlag
<1>13. CASE CloseSocket BY Zenon, <1>13 DEF CloseSocket, Closed
<1>14. CASE ShutdownSocket BY Zenon, <1>14 DEF ShutdownSocket
<1>15. CASE UNCHANGED runtime BY Zenon, <1>15 DEF runtime
<1> QED BY Zenon, <1>1, <1>2, <1>3, <1>4, <1>5, <1>6, <1>7, <1>8, <1>9, <1>10, <1>11, <1>12,
     <1>13, <1>14, <1>15
  DEF Next, Control, InCall, Done, vars, Start, Discover, Exchange, AnswerUseless, Cancelled,
      While, Need, ConnectFails, Failed, Run, ReadTask, WriteResponse, IoFails, ProcessingFails,
      Error, Rearm, start_runtime, disconnect_runtime, shutdown, CancelDiscovery,
      ShutdownDisconnects, Move, ComeBack

\* So do those of the user interface.
LEMMA UserTypeKept ==
  ASSUME UserTypeOK, [Next]_vars
  PROVE  UserTypeOK'
<1> USE DEF UserTypeOK, Holding, Press
<1>1. CASE AnswerFound BY Zenon, <1>1 DEF AnswerFound
<1>2. CASE start_runtime BY Zenon, Counted, BoundsAssumption, <1>2 DEF start_runtime
<1>3. CASE pause_runtime BY Zenon, Counted, BoundsAssumption, <1>3 DEF pause_runtime
<1>4. CASE disconnect_runtime BY Zenon, Counted, BoundsAssumption, <1>4 DEF disconnect_runtime
<1>5. CASE shutdown BY Zenon, Counted, BoundsAssumption, <1>5 DEF shutdown
<1>6. CASE CancelDiscovery BY Zenon, <1>6 DEF CancelDiscovery
<1>7. CASE DisconnectFlag BY Zenon, <1>7 DEF DisconnectFlag
<1>8. CASE CloseSocket BY Zenon, <1>8 DEF CloseSocket, Closed
<1>9. CASE ShutdownDisconnects BY Zenon, <1>9 DEF ShutdownDisconnects
<1>10. CASE ShutdownSocket BY Zenon, <1>10 DEF ShutdownSocket
<1>11. CASE UNCHANGED user BY Zenon, <1>11 DEF user
<1> QED BY Zenon, <1>1, <1>2, <1>3, <1>4, <1>5, <1>6, <1>7, <1>8, <1>9, <1>10, <1>11
  DEF Next, Control, InCall, Done, vars, Start, Discover, Exchange, AnswerUseless, Cancelled,
      While, Need, CreateSocket, OpenDescriptor, ConnectSucceeds, ConnectFails, Greet, Failed,
      Run, ClearRequests, CheckPause, ReadTask, WriteResponse, IoFails, ProcessingFails, Error,
      Lost, Rearm, CheckDisconnect, Release, Move, ComeBack

\* And the environment's.
LEMMA EnvTypeKept ==
  ASSUME EnvTypeOK, [Next]_vars
  PROVE  EnvTypeOK'
<1> USE DEF EnvTypeOK, Places
<1>1. CASE Move BY Zenon, Counted, BoundsAssumption, <1>1 DEF Move
<1>2. CASE ComeBack BY Zenon, <1>2 DEF ComeBack
<1>3. CASE UNCHANGED env BY Zenon, <1>3 DEF env, Places
<1> QED BY Zenon, <1>1, <1>2, <1>3
  DEF Next, Control, InCall, Done, vars, Start, Discover, Exchange, AnswerUseless, AnswerFound,
      Cancelled, While, Need, CreateSocket, OpenDescriptor, ConnectSucceeds, ConnectFails,
      Greet, Failed, Run, ClearRequests, CheckPause, ReadTask, WriteResponse, IoFails,
      ProcessingFails, Error, Lost, Rearm, CheckDisconnect, Release, start_runtime,
      pause_runtime, disconnect_runtime, shutdown, CancelDiscovery, DisconnectFlag, CloseSocket,
      ShutdownDisconnects, ShutdownSocket

\* The places of the control thread.
LEMMA ThePlaces ==
  /\ {"while", "discover", "cancelled", "exchange", "backoff", "answer", "rearm"} \subseteq ControlPlaces
  /\ {"release", "need", "socket", "run", "open", "failed", "connecting"} \subseteq ControlPlaces
  /\ {"greeting", "clear", "check", "loop", "read", "write", "error", "lost", "done"} \subseteq ControlPlaces
BY DEF ControlPlaces, Running, Discovering, Connecting

\* An endpoint that discovery finds is one that the worker can connect to.
LEMMA Reached == ASSUME EnvTypeOK, dispatcher # "none" PROVE dispatcher \in Endpoints \cup {Configured}
  BY DEF EnvTypeOK, Places

\* And those of the control thread.
LEMMA ControlTypeKept ==
  ASSUME ControlTypeOK, EnvTypeOK, [Next]_vars
  PROVE  ControlTypeOK'
<1> USE DEF flags, runtime, user, env, Go, Press, ControlTypeOK
<1>1. CASE Start BY Zenon, ThePlaces, ModesAssumption, <1>1 DEF Start, EnvTypeOK
<1>2. CASE Discover BY Zenon, ThePlaces, <1>2 DEF Discover
<1>3. CASE Exchange BY Zenon, ThePlaces, <1>3 DEF Exchange
<1>4. CASE AnswerUseless BY Zenon, ThePlaces, <1>4 DEF AnswerUseless
<1>5. CASE AnswerFound BY Zenon, ThePlaces, Reached, <1>5 DEF AnswerFound
<1>6. CASE Cancelled BY Zenon, ThePlaces, <1>6 DEF Cancelled
<1>7. CASE While BY Zenon, ThePlaces, <1>7 DEF While
<1>8. CASE Need BY Zenon, ThePlaces, <1>8 DEF Need, is_connected
<1>9. CASE CreateSocket BY Zenon, ThePlaces, <1>9 DEF CreateSocket
<1>10. CASE OpenDescriptor BY Zenon, ThePlaces, <1>10 DEF OpenDescriptor
<1>11. CASE ConnectSucceeds BY Zenon, ThePlaces, <1>11 DEF ConnectSucceeds
<1>12. CASE ConnectFails BY Zenon, ThePlaces, <1>12 DEF ConnectFails
<1>13. CASE Greet BY Zenon, ThePlaces, <1>13 DEF Greet
<1>14. CASE Failed BY Zenon, ThePlaces, <1>14 DEF Failed
<1>15. CASE Run BY Zenon, ThePlaces, <1>15 DEF Run, is_connected
<1>16. CASE ClearRequests BY Zenon, ThePlaces, <1>16 DEF ClearRequests
<1>17. CASE CheckPause BY Zenon, ThePlaces, <1>17 DEF CheckPause
<1>18. CASE ReadTask BY Zenon, ThePlaces, <1>18 DEF ReadTask, Online
<1>19. CASE WriteResponse BY Zenon, ThePlaces, <1>19 DEF WriteResponse, Online
<1>20. CASE IoFails BY Zenon, ThePlaces, <1>20 DEF IoFails, Online
<1>21. CASE ProcessingFails BY Zenon, ThePlaces, <1>21 DEF ProcessingFails
<1>22. CASE Error BY Zenon, ThePlaces, <1>22 DEF Error
<1>23. CASE Lost BY Zenon, ThePlaces, <1>23 DEF Lost, Closed
<1>24. CASE Rearm BY Zenon, ThePlaces, <1>24 DEF Rearm
<1>25. CASE CheckDisconnect BY Zenon, ThePlaces, <1>25 DEF CheckDisconnect, Closed
<1>26. CASE Release BY Zenon, ThePlaces, <1>26 DEF Release
<1>27. CASE start_runtime BY Zenon, <1>27 DEF start_runtime
<1>28. CASE pause_runtime BY Zenon, <1>28 DEF pause_runtime
<1>29. CASE disconnect_runtime BY Zenon, <1>29 DEF disconnect_runtime
<1>30. CASE shutdown BY Zenon, <1>30 DEF shutdown
<1>31. CASE CancelDiscovery BY Zenon, <1>31 DEF CancelDiscovery
<1>32. CASE DisconnectFlag BY Zenon, <1>32 DEF DisconnectFlag
<1>33. CASE CloseSocket BY Zenon, <1>33 DEF CloseSocket, Closed
<1>34. CASE ShutdownDisconnects BY Zenon, <1>34 DEF ShutdownDisconnects
<1>35. CASE ShutdownSocket BY Zenon, <1>35 DEF ShutdownSocket
<1>36. CASE Move BY Zenon, <1>36 DEF Move, Places
<1>37. CASE ComeBack BY Zenon, <1>37 DEF ComeBack, Places
<1>38. CASE UNCHANGED vars BY Zenon, <1>38 DEF vars
<1> QED BY Zenon, <1>1, <1>2, <1>3, <1>4, <1>5, <1>6, <1>7, <1>8, <1>9, <1>10, <1>11, <1>12,
     <1>13, <1>14, <1>15, <1>16, <1>17, <1>18, <1>19, <1>20, <1>21, <1>22, <1>23, <1>24, <1>25,
     <1>26, <1>27, <1>28, <1>29, <1>30, <1>31, <1>32, <1>33, <1>34, <1>35, <1>36, <1>37, <1>38
  DEF Next, Control, InCall, Done

-----------------------------------------------------------------------------
(* The parts of the invariant *)

\* A disconnect stays requested until the control thread obeys it, whichever of
\* the two threads moves: neither run_loop's start nor a failed read loses it.
LEMMA HeldKept ==
  ASSUME CallInv, HeldInv, [Next]_vars
  PROVE  CallInv' /\ HeldInv'
<1> USE DEF flags, runtime, user, env, Go, Press, CallInv, HeldInv, Waiting, Running
<1>1. CASE Start BY Zenon, <1>1 DEF Start
<1>2. CASE Discover BY Zenon, <1>2 DEF Discover
<1>3. CASE Exchange BY Zenon, <1>3 DEF Exchange
<1>4. CASE AnswerUseless BY Zenon, <1>4 DEF AnswerUseless
<1>5. CASE AnswerFound BY Zenon, <1>5 DEF AnswerFound
<1>6. CASE Cancelled BY Zenon, <1>6 DEF Cancelled
<1>7. CASE While BY Zenon, <1>7 DEF While
<1>8. CASE Need BY Zenon, <1>8 DEF Need, is_connected
<1>9. CASE CreateSocket BY Zenon, <1>9 DEF CreateSocket
<1>10. CASE OpenDescriptor BY Zenon, <1>10 DEF OpenDescriptor
<1>11. CASE ConnectSucceeds BY Zenon, <1>11 DEF ConnectSucceeds
<1>12. CASE ConnectFails BY Zenon, <1>12 DEF ConnectFails
<1>13. CASE Greet BY Zenon, <1>13 DEF Greet
<1>14. CASE Failed BY Zenon, <1>14 DEF Failed
<1>15. CASE Run BY Zenon, <1>15 DEF Run, is_connected
<1>16. CASE ClearRequests BY Zenon, <1>16 DEF ClearRequests
<1>17. CASE CheckPause BY Zenon, <1>17 DEF CheckPause
<1>18. CASE ReadTask BY Zenon, <1>18 DEF ReadTask, Online
<1>19. CASE WriteResponse BY Zenon, <1>19 DEF WriteResponse, Online
<1>20. CASE IoFails BY Zenon, <1>20 DEF IoFails, Online
<1>21. CASE ProcessingFails BY Zenon, <1>21 DEF ProcessingFails
<1>22. CASE Error BY Zenon, <1>22 DEF Error
<1>23. CASE Lost BY Zenon, <1>23 DEF Lost, Closed
<1>24. CASE Rearm BY Zenon, <1>24 DEF Rearm
<1>25. CASE CheckDisconnect BY Zenon, <1>25 DEF CheckDisconnect, Closed
<1>26. CASE Release BY Zenon, <1>26 DEF Release
<1>27. CASE start_runtime BY Zenon, <1>27 DEF start_runtime
<1>28. CASE pause_runtime BY Zenon, <1>28 DEF pause_runtime
<1>29. CASE disconnect_runtime BY Zenon, <1>29 DEF disconnect_runtime
<1>30. CASE shutdown BY Zenon, <1>30 DEF shutdown
<1>31. CASE CancelDiscovery BY Zenon, <1>31 DEF CancelDiscovery
<1>32. CASE DisconnectFlag BY Zenon, <1>32 DEF DisconnectFlag
<1>33. CASE CloseSocket BY Zenon, <1>33 DEF CloseSocket, Closed
<1>34. CASE ShutdownDisconnects BY Zenon, <1>34 DEF ShutdownDisconnects
<1>35. CASE ShutdownSocket BY Zenon, <1>35 DEF ShutdownSocket
<1>36. CASE Move BY Zenon, <1>36 DEF Move, Places
<1>37. CASE ComeBack BY Zenon, <1>37 DEF ComeBack, Places
<1>38. CASE UNCHANGED vars BY Zenon, <1>38 DEF vars
<1> QED BY Zenon, <1>1, <1>2, <1>3, <1>4, <1>5, <1>6, <1>7, <1>8, <1>9, <1>10, <1>11, <1>12,
     <1>13, <1>14, <1>15, <1>16, <1>17, <1>18, <1>19, <1>20, <1>21, <1>22, <1>23, <1>24, <1>25,
     <1>26, <1>27, <1>28, <1>29, <1>30, <1>31, <1>32, <1>33, <1>34, <1>35, <1>36, <1>37, <1>38
  DEF Next, Control, InCall, Done

\* The loop is left for a shutdown, and the socket released, on every path.
LEMMA EndKept ==
  ASSUME EndInv, EnvTypeOK, [Next]_vars
  PROVE  EndInv'
<1> USE DEF flags, runtime, user, env, Go, Press, EndInv
<1>1. CASE Start BY Zenon, ModesAssumption, <1>1 DEF Start, EnvTypeOK
<1>2. CASE Discover BY Zenon, <1>2 DEF Discover
<1>3. CASE Exchange BY Zenon, <1>3 DEF Exchange
<1>4. CASE AnswerUseless BY Zenon, <1>4 DEF AnswerUseless
<1>5. CASE AnswerFound BY Zenon, <1>5 DEF AnswerFound
<1>6. CASE Cancelled BY Zenon, <1>6 DEF Cancelled
<1>7. CASE While BY Zenon, <1>7 DEF While
<1>8. CASE Need BY Zenon, <1>8 DEF Need, is_connected
<1>9. CASE CreateSocket BY Zenon, <1>9 DEF CreateSocket
<1>10. CASE OpenDescriptor BY Zenon, <1>10 DEF OpenDescriptor
<1>11. CASE ConnectSucceeds BY Zenon, <1>11 DEF ConnectSucceeds
<1>12. CASE ConnectFails BY Zenon, <1>12 DEF ConnectFails
<1>13. CASE Greet BY Zenon, <1>13 DEF Greet
<1>14. CASE Failed BY Zenon, <1>14 DEF Failed
<1>15. CASE Run BY Zenon, <1>15 DEF Run, is_connected
<1>16. CASE ClearRequests BY Zenon, <1>16 DEF ClearRequests
<1>17. CASE CheckPause BY Zenon, <1>17 DEF CheckPause
<1>18. CASE ReadTask BY Zenon, <1>18 DEF ReadTask, Online
<1>19. CASE WriteResponse BY Zenon, <1>19 DEF WriteResponse, Online
<1>20. CASE IoFails BY Zenon, <1>20 DEF IoFails, Online
<1>21. CASE ProcessingFails BY Zenon, <1>21 DEF ProcessingFails
<1>22. CASE Error BY Zenon, <1>22 DEF Error
<1>23. CASE Lost BY Zenon, <1>23 DEF Lost, Closed
<1>24. CASE Rearm BY Zenon, <1>24 DEF Rearm
<1>25. CASE CheckDisconnect BY Zenon, <1>25 DEF CheckDisconnect, Closed
<1>26. CASE Release BY Zenon, <1>26 DEF Release
<1>27. CASE start_runtime BY Zenon, <1>27 DEF start_runtime
<1>28. CASE pause_runtime BY Zenon, <1>28 DEF pause_runtime
<1>29. CASE disconnect_runtime BY Zenon, <1>29 DEF disconnect_runtime
<1>30. CASE shutdown BY Zenon, <1>30 DEF shutdown
<1>31. CASE CancelDiscovery BY Zenon, <1>31 DEF CancelDiscovery
<1>32. CASE DisconnectFlag BY Zenon, <1>32 DEF DisconnectFlag
<1>33. CASE CloseSocket BY Zenon, <1>33 DEF CloseSocket, Closed
<1>34. CASE ShutdownDisconnects BY Zenon, <1>34 DEF ShutdownDisconnects
<1>35. CASE ShutdownSocket BY Zenon, <1>35 DEF ShutdownSocket
<1>36. CASE Move BY Zenon, <1>36 DEF Move, Places
<1>37. CASE ComeBack BY Zenon, <1>37 DEF ComeBack, Places
<1>38. CASE UNCHANGED vars BY Zenon, <1>38 DEF vars
<1> QED BY Zenon, <1>1, <1>2, <1>3, <1>4, <1>5, <1>6, <1>7, <1>8, <1>9, <1>10, <1>11, <1>12,
     <1>13, <1>14, <1>15, <1>16, <1>17, <1>18, <1>19, <1>20, <1>21, <1>22, <1>23, <1>24, <1>25,
     <1>26, <1>27, <1>28, <1>29, <1>30, <1>31, <1>32, <1>33, <1>34, <1>35, <1>36, <1>37, <1>38
  DEF Next, Control, InCall, Done

\* A socket that was shut down does not get past the greeting again.
LEMMA ShutKept ==
  ASSUME ShutInv, [Next]_vars
  PROVE  ShutInv'
<1> USE DEF flags, runtime, user, env, Go, Press, ShutInv
<1>1. CASE Start BY Zenon, <1>1 DEF Start
<1>2. CASE Discover BY Zenon, <1>2 DEF Discover
<1>3. CASE Exchange BY Zenon, <1>3 DEF Exchange
<1>4. CASE AnswerUseless BY Zenon, <1>4 DEF AnswerUseless
<1>5. CASE AnswerFound BY Zenon, <1>5 DEF AnswerFound
<1>6. CASE Cancelled BY Zenon, <1>6 DEF Cancelled
<1>7. CASE While BY Zenon, <1>7 DEF While
<1>8. CASE Need BY Zenon, <1>8 DEF Need, is_connected
<1>9. CASE CreateSocket BY Zenon, <1>9 DEF CreateSocket
<1>10. CASE OpenDescriptor BY Zenon, <1>10 DEF OpenDescriptor
<1>11. CASE ConnectSucceeds BY Zenon, <1>11 DEF ConnectSucceeds
<1>12. CASE ConnectFails BY Zenon, <1>12 DEF ConnectFails
<1>13. CASE Greet BY Zenon, <1>13 DEF Greet
<1>14. CASE Failed BY Zenon, <1>14 DEF Failed
<1>15. CASE Run BY Zenon, <1>15 DEF Run, is_connected
<1>16. CASE ClearRequests BY Zenon, <1>16 DEF ClearRequests
<1>17. CASE CheckPause BY Zenon, <1>17 DEF CheckPause
<1>18. CASE ReadTask BY Zenon, <1>18 DEF ReadTask, Online
<1>19. CASE WriteResponse BY Zenon, <1>19 DEF WriteResponse, Online
<1>20. CASE IoFails BY Zenon, <1>20 DEF IoFails, Online
<1>21. CASE ProcessingFails BY Zenon, <1>21 DEF ProcessingFails
<1>22. CASE Error BY Zenon, <1>22 DEF Error
<1>23. CASE Lost BY Zenon, <1>23 DEF Lost, Closed
<1>24. CASE Rearm BY Zenon, <1>24 DEF Rearm
<1>25. CASE CheckDisconnect BY Zenon, <1>25 DEF CheckDisconnect, Closed
<1>26. CASE Release BY Zenon, <1>26 DEF Release
<1>27. CASE start_runtime BY Zenon, <1>27 DEF start_runtime
<1>28. CASE pause_runtime BY Zenon, <1>28 DEF pause_runtime
<1>29. CASE disconnect_runtime BY Zenon, <1>29 DEF disconnect_runtime
<1>30. CASE shutdown BY Zenon, <1>30 DEF shutdown
<1>31. CASE CancelDiscovery BY Zenon, <1>31 DEF CancelDiscovery
<1>32. CASE DisconnectFlag BY Zenon, <1>32 DEF DisconnectFlag
<1>33. CASE CloseSocket BY Zenon, <1>33 DEF CloseSocket, Closed
<1>34. CASE ShutdownDisconnects BY Zenon, <1>34 DEF ShutdownDisconnects
<1>35. CASE ShutdownSocket BY Zenon, <1>35 DEF ShutdownSocket
<1>36. CASE Move BY Zenon, <1>36 DEF Move, Places
<1>37. CASE ComeBack BY Zenon, <1>37 DEF ComeBack, Places
<1>38. CASE UNCHANGED vars BY Zenon, <1>38 DEF vars
<1> QED BY Zenon, <1>1, <1>2, <1>3, <1>4, <1>5, <1>6, <1>7, <1>8, <1>9, <1>10, <1>11, <1>12,
     <1>13, <1>14, <1>15, <1>16, <1>17, <1>18, <1>19, <1>20, <1>21, <1>22, <1>23, <1>24, <1>25,
     <1>26, <1>27, <1>28, <1>29, <1>30, <1>31, <1>32, <1>33, <1>34, <1>35, <1>36, <1>37, <1>38
  DEF Next, Control, InCall, Done

-----------------------------------------------------------------------------
(* The theorems *)

\* The invariant holds initially.
LEMMA InitIInv == Init => IInv
<1> SUFFICES ASSUME Init PROVE IInv OBVIOUS
<1> USE DEF Init
<1>1. ControlTypeOK BY Zenon DEF ControlTypeOK, ControlPlaces
<1>2. RuntimeTypeOK BY Zenon DEF RuntimeTypeOK
<1>3. 0 \in 0..MaxPresses /\ 0 \in 0..MaxMoves BY BoundsAssumption
<1>4. UserTypeOK /\ EnvTypeOK BY Zenon, <1>3 DEF UserTypeOK, EnvTypeOK
<1>5. CallInv /\ HeldInv /\ ShutInv BY Zenon DEF CallInv, HeldInv, ShutInv
<1>6. EndInv BY Zenon DEF EndInv
<1> QED BY Zenon, <1>1, <1>2, <1>4, <1>5, <1>6 DEF IInv, TypeOK

\* The inductive invariant holds throughout.
THEOREM WorkerInvariance == Spec => []IInv
<1>1. IInv /\ [Next]_vars => IInv'
  BY Zenon, ControlTypeKept, RuntimeTypeKept, UserTypeKept, EnvTypeKept, HeldKept, EndKept, ShutKept
  DEF IInv, TypeOK
<1> QED BY <1>1, InitIInv, PTL DEF Spec

\* Every variable keeps its type: property TypeOK.
THEOREM WorkerTypeCorrect == Spec => []TypeOK
<1>1. IInv => TypeOK BY Zenon DEF IInv
<1> QED BY <1>1, WorkerInvariance, PTL

\* A disconnect_runtime() that met run_loop is obeyed until the next start:
\* property HeldUntilStart.
THEOREM DisconnectIsObeyed == Spec => []HeldUntilStart
<1>1. IInv => HeldUntilStart
  BY Zenon DEF IInv, HeldInv, HeldUntilStart, Waiting, Running, Connecting
<1> QED BY <1>1, WorkerInvariance, PTL

\* The final status is true on every path out of WorkerSession::start():
\* property StoppedIsReleased.
THEOREM FinalStatusIsTrue == Spec => []StoppedIsReleased
<1>1. IInv => StoppedIsReleased BY Zenon DEF IInv, EndInv, StoppedIsReleased
<1> QED BY <1>1, WorkerInvariance, PTL

\* A socket that shutdown() found never carries a task again: property
\* ShutDownForGood.
THEOREM ShutSocketsCarryNothing == Spec => []ShutDownForGood
<1>1. IInv => ShutDownForGood BY Zenon DEF IInv, ShutInv, ShutDownForGood
<1> QED BY <1>1, WorkerInvariance, PTL
=============================================================================
