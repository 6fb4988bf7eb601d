----------------------- MODULE AppServerClientProofs -----------------------
(***************************************************************************)
(* Proofs about AppServerClient, for any set of calls.                     *)
(*                                                                         *)
(* The argument: an entry of _pending has exactly one holder at any time   *)
(* (_pending itself, the reader, or close()) and is unsettled while it is  *)
(* held; a call that has registered and is not settled is held.  close()   *)
(* makes _process None before it takes the entries, so a call that starts  *)
(* to send is either taken or finds no process.                            *)
(***************************************************************************)
EXTENDS AppServerClient, TLAPS

Held == pending \cup taken["reader"] \cup taken["closer"]

\* An entry has one holder, and is not settled while it is held.
Ownership ==
    /\ pending \cap taken["reader"] = {}
    /\ pending \cap taken["closer"] = {}
    /\ taken["reader"] \cap taken["closer"] = {}
    /\ \A r \in Held : entry[r] = "none" /\ pc[r] # "idle"

\* What the state of a calling thread says of its entry and of the wire.
CallInv ==
    \A r \in Requests :
        /\ pc[r] = "idle" => entry[r] = "none"
        /\ outcome[r] # "none" => pc[r] = "returned"
        /\ pc[r] \in {"registered", "sending", "waiting", "expired"} /\ entry[r] = "none"
               => r \in Held
        /\ pc[r] \in {"idle", "registered", "sending"} => wire[r] = "unsent"
        /\ outcome[r] \in {"not_running", "write_failed"} => wire[r] = "unsent"
        /\ entry[r] = "answered" => wire[r] = "read"
        /\ outcome[r] = "answered" => entry[r] = "answered"

\* Only an answer that was read is being resolved, and answers are read by a
\* reader that has started.
ReaderInv ==
    /\ reader = "resolving" => \A r \in taken["reader"] : wire[r] = "read"
    /\ reader \in {"off", "starting"} => \A r \in Requests : entry[r] # "answered"
    /\ reader = "off" => start \in {"idle", "failed"}
    /\ start = "idle" => reader = "off"

\* _process is None before start() and after close() began; an unpublished
\* client has no other caller than start().
LifecycleInv ==
    /\ start = "idle" => ~handle /\ closer = "idle"
    /\ ~handle /\ closer = "idle" =>
           /\ start \in {"idle", "failed"}
           /\ \A r \in Requests : pc[r] = "idle"
    /\ closer # "idle" => ~handle /\ start \in {"ready", "failed"}
    /\ start = "ready" => outcome[Boot] = "answered"
    /\ start # "ready" => \A r \in Requests \ {Boot} : pc[r] = "idle"
    /\ start = "failed" => pc[Boot] \in {"idle", "returned"}

\* Once close() has taken the entries, a call that may still wait for an
\* answer is in the hands of a settling thread.
CloseInv ==
    closer \in {"failing", "done"} =>
        \A r \in Requests :
            pc[r] \in {"sending", "waiting"} /\ entry[r] = "none"
                => r \in taken["reader"] \cup taken["closer"]

\* The same of the reader, which ends without an exception only when the
\* process has exited, or when start() had failed before it began.
DisconnectInv ==
    ~readerError =>
        /\ reader \in {"ending", "failing", "done"} => ~alive \/ start = "failed"
        /\ reader \in {"failing", "done"} =>
               \A r \in Requests :
                   Waiting(r) => r \in taken["reader"] \cup taken["closer"]

\* A call that returned and left its entry behind saw the client dead.
LeakInv ==
    /\ closer # "idle" => disconnected
    /\ \A r \in pending : pc[r] = "returned" => disconnected

IInv ==
    /\ TypeOK
    /\ Ownership
    /\ CallInv
    /\ ReaderInv
    /\ LifecycleInv
    /\ CloseInv
    /\ DisconnectInv
    /\ LeakInv
-----------------------------------------------------------------------------
(* The invariant is inductive: one lemma for each of its parts. *)

\* Every action keeps the types.
LEMMA TypeStep ==
    ASSUME TypeOK, ReaderInv, Next PROVE TypeOK'
<1> USE DEF TypeOK, process, calls, threads, CallStates, EntryStates, Outcomes,
            WireStates, ReaderStates, CloserStates
<1>1. CASE Starting
  <2>1. CASE Spawn
    BY <2>1 DEF Spawn, ReaderInv
  <2>2. CASE SpawnFails
    BY <2>2 DEF SpawnFails
  <2>3. CASE Started
    BY <2>3 DEF Started
  <2>4. CASE InitializeFails
    BY <2>4 DEF InitializeFails
  <2>5. CASE InitializedFails
    BY <2>5 DEF InitializedFails
  <2>. QED  BY <1>1, <2>1, <2>2, <2>3, <2>4, <2>5 DEF Starting
<1>2. CASE \E r \in Requests : Register(r)
    BY <1>2 DEF Register, MayCall
<1>3. CASE \E r \in Requests : Calling(r)
  <2>1. ASSUME NEW r \in Requests, ReadProcess(r) PROVE TypeOK'
    BY <2>1 DEF ReadProcess, Finish
  <2>2. ASSUME NEW r \in Requests, Write(r) PROVE TypeOK'
    BY <2>2 DEF Write
  <2>3. ASSUME NEW r \in Requests, WriteFails(r) PROVE TypeOK'
    BY <2>3 DEF WriteFails, Finish
  <2>4. ASSUME NEW r \in Requests, Wake(r) PROVE TypeOK'
    BY <2>4 DEF Wake, Finish
  <2>5. ASSUME NEW r \in Requests, RaiseTimeout(r) PROVE TypeOK'
    BY <2>5 DEF RaiseTimeout, Finish
  <2>. QED  BY <1>3, <2>1, <2>2, <2>3, <2>4, <2>5 DEF Calling
<1>4. CASE \E r \in Requests : WaitExpires(r) \/ Execute(r) \/ Answer(r)
    BY <1>4 DEF WaitExpires, Execute, Answer
<1>5. CASE Exit \/ ReadNotification \/ ReaderRaises
    BY <1>5 DEF Exit, ReadNotification, ReaderRaises, LoopEnds
<1>6. CASE Reading
  <2>1. CASE ReaderStarts
    BY <2>1 DEF ReaderStarts
  <2>2. ASSUME NEW r \in Requests, ReadAnswer(r) PROVE TypeOK'
    BY <2>2 DEF ReadAnswer, Take
  <2>3. CASE Resolve
    BY <2>3 DEF Resolve, Settle
  <2>4. CASE HandlerReturns
    BY <2>4 DEF HandlerReturns
  <2>5. CASE EndOfFile
    BY <2>5 DEF EndOfFile, LoopEnds
  <2>6. CASE ReaderTakesPending
    BY <2>6 DEF ReaderTakesPending, Take
  <2>7. CASE ReaderFailsPending
    BY <2>7 DEF ReaderFailsPending, Settle
  <2>. QED  BY <1>6, <2>1, <2>2, <2>3, <2>4, <2>5, <2>6, <2>7 DEF Reading
<1>7. CASE Close \/ Closing
  <2>1. CASE Close
    BY <2>1 DEF Close
  <2>2. CASE CloseTakesPending
    BY <2>2 DEF CloseTakesPending, Take
  <2>3. CASE CloseFailsPending
    BY <2>3 DEF CloseFailsPending, Settle
  <2>. QED  BY <1>7, <2>1, <2>2, <2>3 DEF Closing
<1>. QED  BY <1>1, <1>2, <1>3, <1>4, <1>5, <1>6, <1>7 DEF Next

\* Entries change hands whole: Take moves what is in _pending, Settle empties
\* the hands it settles.
LEMMA OwnershipStep ==
    ASSUME TypeOK, Ownership, CallInv, Next PROVE Ownership'
<1> USE DEF Ownership, Held
<1>1. CASE Starting
    BY <1>1 DEF calls, threads, Starting, Spawn, SpawnFails, Started,
      InitializeFails, InitializedFails
<1>2. CASE \E r \in Requests : Register(r)
    BY <1>2 DEF threads, TypeOK, CallInv, Register, MayCall
<1>3. CASE \E r \in Requests : Calling(r)
    BY <1>3 DEF threads, TypeOK, Calling, ReadProcess, Write, WriteFails,
      Wake, RaiseTimeout, Finish
<1>4. CASE \E r \in Requests : WaitExpires(r) \/ Execute(r) \/ Answer(r)
    BY <1>4 DEF calls, threads, TypeOK, WaitExpires, Execute, Answer
<1>5. CASE Exit \/ ReadNotification \/ ReaderRaises
    BY <1>5 DEF calls, threads, Exit, ReadNotification, ReaderRaises, LoopEnds
<1>6. CASE Reading
    BY <1>6 DEF calls, TypeOK, Reading, ReaderStarts, ReadAnswer, Resolve,
      HandlerReturns, HandlerFree, EndOfFile, LoopEnds, ReaderTakesPending,
      ReaderFailsPending, Take, Settle
<1>7. CASE Close \/ Closing
    BY <1>7 DEF calls, TypeOK, Closing, Close, CloseTakesPending,
      CloseFailsPending, Take, Settle
<1>. QED  BY <1>1, <1>2, <1>3, <1>4, <1>5, <1>6, <1>7 DEF Next

\* A caller that waits is held until it is settled, times out or fails to send.
LEMMA CallInvStep ==
    ASSUME TypeOK, Ownership, CallInv, ReaderInv, Next PROVE CallInv'
<1> USE DEF CallInv, Held
<1>1. CASE Starting
    BY <1>1 DEF calls, threads, Starting, Spawn, SpawnFails, Started,
      InitializeFails, InitializedFails
<1>2. CASE \E r \in Requests : Register(r)
    BY <1>2 DEF threads, Register, MayCall
<1>3. CASE \E r \in Requests : Calling(r)
    BY <1>3 DEF threads, TypeOK, EntryStates, Calling, ReadProcess, Write,
      WriteFails, Wake, RaiseTimeout, Finish
<1>4. CASE \E r \in Requests : WaitExpires(r) \/ Execute(r) \/ Answer(r)
    BY <1>4 DEF calls, threads, TypeOK, WaitExpires, Execute, Answer
<1>5. CASE Exit \/ ReadNotification \/ ReaderRaises
    BY <1>5 DEF calls, threads, Exit, ReadNotification, ReaderRaises, LoopEnds
<1>6. CASE Reading
    BY <1>6 DEF calls, TypeOK, Ownership, ReaderInv, Reading, ReaderStarts,
      ReadAnswer, Resolve, HandlerReturns, HandlerFree, EndOfFile, LoopEnds,
      ReaderTakesPending, ReaderFailsPending, Take, Settle
<1>7. CASE Close \/ Closing
    BY <1>7 DEF calls, TypeOK, Ownership, Closing, Close, CloseTakesPending,
      CloseFailsPending, Take, Settle
<1>. QED  BY <1>1, <1>2, <1>3, <1>4, <1>5, <1>6, <1>7 DEF Next

\* Only the reader's own steps matter.
LEMMA ReaderInvStep ==
    ASSUME TypeOK, CallInv, ReaderInv, LifecycleInv, Next PROVE ReaderInv'
<1> USE DEF ReaderInv, process
<1>1. CASE Starting
    BY <1>1 DEF calls, threads, CallInv, LifecycleInv, Starting, Spawn,
      SpawnFails, Started, InitializeFails, InitializedFails
<1>2. CASE \E r \in Requests : Register(r)
    BY <1>2 DEF threads, Register, MayCall
<1>3. CASE \E r \in Requests : Calling(r)
    BY <1>3 DEF threads, TypeOK, CallInv, Calling, ReadProcess,
      Write, WriteFails, Wake, RaiseTimeout, Finish
<1>4. CASE \E r \in Requests : WaitExpires(r) \/ Execute(r) \/ Answer(r)
    BY <1>4 DEF calls, threads, TypeOK, WaitExpires, Execute, Answer
<1>5. CASE Exit \/ ReadNotification \/ ReaderRaises
    BY <1>5 DEF calls, threads, Exit, ReadNotification, ReaderRaises, LoopEnds
<1>6. CASE Reading
    BY <1>6 DEF TypeOK, Reading, ReaderStarts, ReadAnswer, Resolve,
      HandlerReturns, HandlerFree, EndOfFile, LoopEnds, ReaderTakesPending,
      ReaderFailsPending, Take, Settle
<1>7. CASE Close \/ Closing
    BY <1>7 DEF calls, TypeOK, Closing, Close, CloseTakesPending,
      CloseFailsPending, Take, Settle
<1>. QED  BY <1>1, <1>2, <1>3, <1>4, <1>5, <1>6, <1>7 DEF Next

\* Only start(), close() and the callers' returns matter.
LEMMA LifecycleInvStep ==
    ASSUME TypeOK, CallInv, LifecycleInv, Next PROVE LifecycleInv'
<1> USE DEF LifecycleInv
<1>1. CASE Starting
    BY <1>1, BootAssumption DEF calls, threads, CallInv, Starting, Spawn,
      SpawnFails, Started, InitializeFails, InitializedFails
<1>2. CASE \E r \in Requests : Register(r)
    BY <1>2 DEF process, threads, Register, MayCall
<1>3. CASE \E r \in Requests : Calling(r)
    BY <1>3, BootAssumption DEF process, threads, TypeOK, CallInv, Calling,
      ReadProcess, Write, WriteFails, Wake, RaiseTimeout, Finish
<1>4. CASE \E r \in Requests : WaitExpires(r) \/ Execute(r) \/ Answer(r)
    BY <1>4 DEF process, calls, threads, TypeOK, WaitExpires, Execute, Answer
<1>5. CASE Exit \/ ReadNotification \/ ReaderRaises
    BY <1>5 DEF process, calls, threads, Exit, ReadNotification, ReaderRaises,
      LoopEnds
<1>6. CASE Reading
    BY <1>6 DEF process, calls, Reading, ReaderStarts, ReadAnswer, Resolve,
      HandlerReturns, HandlerFree, EndOfFile, LoopEnds, ReaderTakesPending,
      ReaderFailsPending, Take, Settle
<1>7. CASE Close \/ Closing
    BY <1>7 DEF process, calls, Closing, Close, CloseTakesPending,
      CloseFailsPending, Take, Settle
<1>. QED  BY <1>1, <1>2, <1>3, <1>4, <1>5, <1>6, <1>7 DEF Next

\* close() takes what is pending after _process is None, so the calls it misses
\* are those that have not read _process and will not find it.
LEMMA CloseInvStep ==
    ASSUME TypeOK, CallInv, LifecycleInv, CloseInv, Next PROVE CloseInv'
<1> USE DEF CloseInv, Held
<1>1. CASE Starting
    BY <1>1 DEF calls, threads, Starting, Spawn, SpawnFails, Started,
      InitializeFails, InitializedFails
<1>2. CASE \E r \in Requests : Register(r)
    BY <1>2 DEF threads, Register, MayCall
<1>3. CASE \E r \in Requests : Calling(r)
    BY <1>3 DEF threads, TypeOK, LifecycleInv, Calling, ReadProcess, Write,
      WriteFails, Wake, RaiseTimeout, Finish
<1>4. CASE \E r \in Requests : WaitExpires(r) \/ Execute(r) \/ Answer(r)
    BY <1>4 DEF calls, threads, TypeOK, WaitExpires, Execute, Answer
<1>5. CASE Exit \/ ReadNotification \/ ReaderRaises
    BY <1>5 DEF calls, threads, Exit, ReadNotification, ReaderRaises, LoopEnds
<1>6. CASE Reading
    BY <1>6 DEF calls, TypeOK, Reading, ReaderStarts, ReadAnswer, Resolve,
      HandlerReturns, HandlerFree, EndOfFile, LoopEnds, ReaderTakesPending,
      ReaderFailsPending, Take, Settle
<1>7. CASE Close \/ Closing
    BY <1>7 DEF calls, TypeOK, CallInv, LifecycleInv, Closing, Close,
      CloseTakesPending, CloseFailsPending, Take, Settle
<1>. QED  BY <1>1, <1>2, <1>3, <1>4, <1>5, <1>6, <1>7 DEF Next

\* The end of the output comes after the exit of the process, after which
\* nobody can start to wait.
LEMMA DisconnectInvStep ==
    ASSUME TypeOK, Ownership, CallInv, ReaderInv, LifecycleInv, DisconnectInv, Next
    PROVE  DisconnectInv'
<1> USE DEF DisconnectInv, Waiting
<1>1. CASE Starting
    BY <1>1 DEF calls, threads, Starting, Spawn, SpawnFails, Started,
      InitializeFails, InitializedFails
<1>2. CASE \E r \in Requests : Register(r)
    BY <1>2 DEF process, threads, Register, MayCall
<1>3. CASE \E r \in Requests : Calling(r)
    BY <1>3 DEF process, threads, TypeOK, LifecycleInv, Calling, ReadProcess,
      Write, WriteFails, Wake, RaiseTimeout, Finish
<1>4. CASE \E r \in Requests : WaitExpires(r) \/ Execute(r) \/ Answer(r)
    BY <1>4 DEF process, calls, threads, TypeOK, WaitExpires, Execute, Answer
<1>5. CASE Exit \/ ReadNotification \/ ReaderRaises
    BY <1>5 DEF calls, threads, Exit, ReadNotification, ReaderRaises, LoopEnds
<1>6. CASE Reading
  <2>1. CASE ReaderStarts
    <3>1. CASE handle
      BY <2>1, <3>1 DEF ReaderStarts, process, calls, TypeOK
    <3>2. CASE ~handle
      <4>1. start # "ready"
        BY <2>1, BootAssumption DEF ReaderStarts, LifecycleInv, ReaderInv, CallInv
      <4>2. start = "failed"
        BY <4>1, <2>1, <3>2 DEF ReaderStarts, LifecycleInv, ReaderInv, TypeOK
      <4>3. \A r \in Requests : ~Waiting(r)
        BY <4>2 DEF LifecycleInv
      <4>. QED  BY <2>1, <4>2, <4>3 DEF ReaderStarts, process, calls
    <3>. QED  BY <3>1, <3>2
  <2>2. ASSUME NEW r \in Requests, ReadAnswer(r) PROVE DisconnectInv'
    BY <2>2 DEF ReadAnswer, Take, process, calls, TypeOK, Held, CallInv, ReaderInv
  <2>3. CASE Resolve
    BY <2>3 DEF Resolve, Settle, process, calls, TypeOK, Held, CallInv, ReaderInv
  <2>4. CASE HandlerReturns
    BY <2>4 DEF HandlerReturns, process, calls, TypeOK, Held, CallInv, ReaderInv
  <2>5. CASE EndOfFile
    BY <2>5 DEF EndOfFile, LoopEnds, process, calls, TypeOK, Held, CallInv, ReaderInv
  <2>6. CASE ReaderTakesPending
    BY <2>6 DEF ReaderTakesPending, Take, process, calls, TypeOK, Held, CallInv, ReaderInv
  <2>7. CASE ReaderFailsPending
    BY <2>7 DEF ReaderFailsPending, Settle, process, calls, TypeOK, Held, CallInv, ReaderInv
  <2>. QED  BY <1>6, <2>1, <2>2, <2>3, <2>4, <2>5, <2>6, <2>7 DEF Reading
<1>7. CASE Close \/ Closing
    BY <1>7 DEF process, calls, TypeOK, Closing, Close, CloseTakesPending,
      CloseFailsPending, Take, Settle
<1>. QED  BY <1>1, <1>2, <1>3, <1>4, <1>5, <1>6, <1>7 DEF Next

\* The failed send itself marks the client dead, or finds it closed.
LEMMA LeakInvStep ==
    ASSUME TypeOK, Ownership, LifecycleInv, LeakInv, Next PROVE LeakInv'
<1> USE DEF LeakInv, Held
<1>1. CASE Starting
    BY <1>1 DEF calls, threads, Starting, Spawn, SpawnFails, Started,
      InitializeFails, InitializedFails
<1>2. CASE \E r \in Requests : Register(r)
    BY <1>2 DEF process, threads, Register, MayCall
<1>3. CASE \E r \in Requests : Calling(r)
    BY <1>3 DEF process, threads, TypeOK, Ownership, LifecycleInv, Calling,
      ReadProcess, Write, WriteFails, Wake, RaiseTimeout, Finish
<1>4. CASE \E r \in Requests : WaitExpires(r) \/ Execute(r) \/ Answer(r)
    BY <1>4 DEF process, calls, threads, TypeOK, WaitExpires, Execute, Answer
<1>5. CASE Exit \/ ReadNotification \/ ReaderRaises
    BY <1>5 DEF process, calls, threads, Exit, ReadNotification, ReaderRaises,
      LoopEnds
<1>6. CASE Reading
    BY <1>6 DEF process, calls, Reading, ReaderStarts, ReadAnswer, Resolve,
      HandlerReturns, HandlerFree, EndOfFile, LoopEnds, ReaderTakesPending,
      ReaderFailsPending, Take, Settle
<1>7. CASE Close \/ Closing
    BY <1>7 DEF process, Closing, Close, CloseTakesPending, CloseFailsPending,
      Take, Settle
<1>. QED  BY <1>1, <1>2, <1>3, <1>4, <1>5, <1>6, <1>7 DEF Next

-----------------------------------------------------------------------------
LEMMA InitInv == Init => IInv
<1> SUFFICES ASSUME Init PROVE IInv
  OBVIOUS
<1> USE DEF Init
<1>1. TypeOK
  BY DEF TypeOK, CallStates, EntryStates, Outcomes, WireStates, ReaderStates,
         CloserStates
<1>2. Ownership /\ CallInv /\ ReaderInv /\ LifecycleInv
  BY BootAssumption DEF Ownership, Held, CallInv, ReaderInv, LifecycleInv
<1>3. CloseInv /\ DisconnectInv /\ LeakInv
  BY DEF CloseInv, DisconnectInv, LeakInv, Waiting
<1>. QED  BY <1>1, <1>2, <1>3 DEF IInv

LEMMA StutterInv == IInv /\ UNCHANGED vars => IInv'
<1> SUFFICES ASSUME IInv, UNCHANGED vars PROVE IInv'
  OBVIOUS
<1> USE DEF vars, process, calls, threads
<1>1. TypeOK'
  BY DEF IInv, TypeOK
<1>2. Ownership' /\ CallInv' /\ ReaderInv' /\ LifecycleInv'
  BY DEF IInv, Ownership, Held, CallInv, ReaderInv, LifecycleInv
<1>3. CloseInv' /\ DisconnectInv' /\ LeakInv'
  BY DEF IInv, CloseInv, DisconnectInv, LeakInv, Waiting
<1>. QED  BY <1>1, <1>2, <1>3 DEF IInv

\* The inductive invariant holds in every reachable state.
THEOREM Invariant == Spec => []IInv
<1>1. IInv /\ [Next]_vars => IInv'
  BY TypeStep, OwnershipStep, CallInvStep, ReaderInvStep, LifecycleInvStep,
     CloseInvStep, DisconnectInvStep, LeakInvStep, StutterInv DEF IInv
<1>. QED  BY InitInv, <1>1, PTL DEF Spec

-----------------------------------------------------------------------------
\* Every variable of the client has its type, and no thread is left holding
\* entries (AppServerClient.request, _reader_loop and close).
THEOREM TypeCorrect == Spec => []TypeOK
  BY Invariant, PTL DEF IInv

\* No interleaving of callers, reader and close() forgets a waiting caller.
THEOREM NoForgottenWaiter == Spec => []WaiterIsHeld
<1>1. IInv => WaiterIsHeld
  BY DEF IInv, CallInv, Held, WaiterIsHeld, Waiting
<1>. QED  BY Invariant, <1>1, PTL

\* When close() has returned, only callers in the reader's hands still wait.
THEOREM CloseIsComplete == Spec => []CloseLeavesNoWaiter
<1>1. IInv => CloseLeavesNoWaiter
  BY DEF IInv, TypeOK, CloseInv, CloseLeavesNoWaiter, Waiting
<1>. QED  BY Invariant, <1>1, PTL

\* When the reader has seen the end of the output, only callers in the hands
\* of close() still wait.
THEOREM DisconnectIsComplete == Spec => []DisconnectLeavesNoWaiter
<1>1. IInv => DisconnectLeavesNoWaiter
  BY DEF IInv, TypeOK, DisconnectInv, DisconnectLeavesNoWaiter, Waiting
<1>. QED  BY Invariant, <1>1, PTL

\* Entries leak in a dead client only.
THEOREM LeaksAreHarmless == Spec => []LeakOnlyWhenDisconnected
<1>1. IInv => LeakOnlyWhenDisconnected
  BY DEF IInv, LeakInv, LeakOnlyWhenDisconnected
<1>. QED  BY Invariant, <1>1, PTL

\* Whatever callers, reader, close() and exits do, no caller is forgotten.
THEOREM NobodyIsForgotten == Spec => []NobodyForgotten
  BY TypeCorrect, NoForgottenWaiter, CloseIsComplete, DisconnectIsComplete,
     LeaksAreHarmless, PTL DEF NobodyForgotten

\* A settled entry keeps its result: the response, _fail_all_pending of the
\* reader and _fail_all_pending of close() never both settle a call.
THEOREM SettledForGood == Spec => SettledOnce
<1> DEFINE Stays == \A r \in Requests : entry[r] # "none" => entry'[r] = entry[r]
<1>1. IInv /\ [Next]_vars => Stays
  <2> SUFFICES ASSUME IInv, [Next]_vars PROVE Stays
    OBVIOUS
  <2> USE DEF IInv, TypeOK, Ownership, Held
  <2>1. ASSUME NEW t \in {"reader", "closer"}, NEW how, Settle(t, how) PROVE Stays
    BY <2>1 DEF Settle
  <2>2. CASE UNCHANGED entry
    BY <2>2
  <2>3. CASE Next
    BY <2>1, <2>2, <2>3 DEF Next, Starting, Spawn, SpawnFails, Started,
       InitializeFails, InitializedFails, Register, Calling, ReadProcess, Write,
       WriteFails, Wake, RaiseTimeout, WaitExpires, Execute, Answer, Exit,
       ReadNotification, ReaderRaises, EndOfFile, LoopEnds, Reading,
       ReaderStarts, ReadAnswer, Resolve, HandlerReturns, ReaderTakesPending,
       ReaderFailsPending, Close, Closing, CloseTakesPending,
       CloseFailsPending, calls
  <2>. QED  BY <2>2, <2>3 DEF vars, calls
<1>2. IInv /\ [Next]_vars => [Stays]_vars
  BY <1>1
<1> HIDE DEF Stays
<1>3. Spec => [][Stays]_vars
  BY Invariant, <1>2, PTL DEF Spec
<1>. QED  BY <1>3 DEF SettledOnce, Stays

-----------------------------------------------------------------------------
(* The client implements RpcContract.                                      *)

\* The abstract state that the client's state stands for.
absPhase == [r \in Requests |-> PhaseOf(pc[r])]
absVerdict == [r \in Requests |-> VerdictOf(outcome[r])]
absExecuted == {r \in Requests : wire[r] \in {"executed", "stdout", "read"}}

\* A call that returns does so with a verdict the app-server's progress
\* allows.
LEMMA ReturnStep ==
    ASSUME NEW r \in Requests, NEW how \in Outcomes \ {"none"}, TypeOK,
           pc[r] \notin {"idle", "returned"},
           Finish(r, how), UNCHANGED wire,
           how = "answered" => wire[r] = "read",
           how \in {"not_running", "write_failed"} => wire[r] = "unsent"
    PROVE  Contract!Return(r, VerdictOf(how))
<1>1. absPhase[r] = "open" /\ absPhase' = [absPhase EXCEPT ![r] = "returned"]
  BY DEF absPhase, PhaseOf, Finish, TypeOK
<1>2. absVerdict' = [absVerdict EXCEPT ![r] = VerdictOf(how)]
  BY DEF absVerdict, Finish, TypeOK
<1>3. absExecuted' = absExecuted
  BY DEF absExecuted
<1>4. /\ VerdictOf(how) = "answered" => r \in absExecuted
      /\ VerdictOf(how) = "rejected" => r \notin absExecuted
  BY DEF VerdictOf, absExecuted, Outcomes, EntryStates
<1>. QED
  BY <1>1, <1>2, <1>3, <1>4
  DEF Contract!Return, absPhase, absVerdict, absExecuted

\* A step that changes neither the phase or verdict of a call nor what has
\* been executed is no step of the contract.
LEMMA StutterStep ==
    ASSUME absPhase' = absPhase, absVerdict' = absVerdict,
           absExecuted' = absExecuted
    PROVE  UNCHANGED Contract!rpcVars
  BY DEF Contract!rpcVars, absPhase, absVerdict, absExecuted

\* The steps of a calling thread.
LEMMA CallingMaps ==
    ASSUME IInv, NEW r \in Requests, Calling(r)
    PROVE  [Contract!Next]_(Contract!rpcVars)
<1> USE DEF IInv
<1>1. CASE ReadProcess(r) /\ handle
  <2>1. absPhase' = absPhase /\ absVerdict' = absVerdict /\ absExecuted' = absExecuted
    BY <1>1 DEF ReadProcess, absPhase, absVerdict, absExecuted, PhaseOf, TypeOK
  <2>. QED  BY <2>1, StutterStep
<1>2. CASE ReadProcess(r) /\ ~handle
  <2>1. Contract!Return(r, VerdictOf("not_running"))
    BY <1>2, ReturnStep DEF ReadProcess, CallInv, Outcomes
  <2>. QED  BY <2>1 DEF Contract!Next, Contract!Verdicts, VerdictOf
<1>3. CASE Write(r)
  <2>1. absPhase' = absPhase /\ absVerdict' = absVerdict /\ absExecuted' = absExecuted
    BY <1>3 DEF Write, absPhase, absVerdict, absExecuted, PhaseOf, TypeOK, CallInv
  <2>. QED  BY <2>1, StutterStep
<1>4. CASE WriteFails(r)
  <2>1. Contract!Return(r, VerdictOf("write_failed"))
    BY <1>4, ReturnStep DEF WriteFails, CallInv, Outcomes
  <2>. QED  BY <2>1 DEF Contract!Next, Contract!Verdicts, VerdictOf
<1>5. CASE Wake(r)
  <2>1. entry[r] \in Outcomes \ {"none"}
    BY <1>5 DEF Wake, TypeOK, Outcomes
  <2>2. Contract!Return(r, VerdictOf(entry[r]))
    BY <1>5, <2>1, ReturnStep DEF Wake, CallInv, TypeOK, EntryStates
  <2>3. VerdictOf(entry[r]) \in Contract!Verdicts
    BY <2>1 DEF VerdictOf, Contract!Verdicts, Outcomes, EntryStates
  <2>. QED  BY <2>2, <2>3 DEF Contract!Next
<1>6. CASE RaiseTimeout(r)
  <2>1. Contract!Return(r, VerdictOf("timeout"))
    BY <1>6, ReturnStep DEF RaiseTimeout, Outcomes
  <2>. QED  BY <2>1 DEF Contract!Next, Contract!Verdicts, VerdictOf
<1>. QED  BY <1>1, <1>2, <1>3, <1>4, <1>5, <1>6 DEF Calling

\* Every step of the client is a step of the contract or none.
LEMMA StepMaps == IInv /\ [Next]_vars => [Contract!Next]_(Contract!rpcVars)
<1> SUFFICES ASSUME IInv, [Next]_vars PROVE [Contract!Next]_(Contract!rpcVars)
  OBVIOUS
<1>1. ASSUME NEW r \in Requests, Register(r)
      PROVE  [Contract!Next]_(Contract!rpcVars)
  <2>1. absPhase[r] = "idle" /\ absPhase' = [absPhase EXCEPT ![r] = "open"]
    BY <1>1 DEF Register, absPhase, PhaseOf, IInv, TypeOK
  <2>2. absVerdict' = absVerdict /\ absExecuted' = absExecuted
    BY <1>1 DEF Register, absVerdict, absExecuted
  <2>. QED  BY <2>1, <2>2 DEF Contract!Next, Contract!Open, absPhase, absVerdict, absExecuted
<1>2. ASSUME NEW r \in Requests, Execute(r)
      PROVE  [Contract!Next]_(Contract!rpcVars)
  <2>1. absPhase' = absPhase /\ absVerdict' = absVerdict
    BY <1>2 DEF Execute, absPhase, absVerdict, calls
  <2>2. r \notin absExecuted /\ absExecuted' = absExecuted \cup {r}
    BY <1>2 DEF Execute, absExecuted, IInv, TypeOK
  <2>3. absPhase[r] # "idle" /\ absVerdict[r] # "rejected"
    BY <1>2 DEF Execute, absPhase, absVerdict, PhaseOf, VerdictOf, IInv, TypeOK,
       CallInv, Outcomes, EntryStates
  <2>. QED  BY <2>1, <2>2, <2>3 DEF Contract!Next, Contract!Execute, absPhase, absVerdict, absExecuted
<1>3. ASSUME UNCHANGED <<pc, outcome, absExecuted>>
      PROVE  [Contract!Next]_(Contract!rpcVars)
  BY <1>3, StutterStep DEF absPhase, absVerdict
<1>4. ASSUME NEW r \in Requests, WaitExpires(r) \/ Answer(r) \/ ReadAnswer(r)
      PROVE  [Contract!Next]_(Contract!rpcVars)
  <2>1. absPhase' = absPhase /\ absVerdict' = absVerdict /\ absExecuted' = absExecuted
    BY <1>4 DEF WaitExpires, Answer, ReadAnswer, absPhase, absVerdict, absExecuted,
       PhaseOf, calls, IInv, TypeOK
  <2>. QED  BY <2>1, StutterStep
<1>5. CASE \/ Starting \/ Exit \/ ReadNotification \/ ReaderRaises \/ Close
           \/ Closing \/ ReaderStarts \/ Resolve \/ HandlerReturns \/ EndOfFile
           \/ ReaderTakesPending \/ ReaderFailsPending \/ UNCHANGED vars
  <2>1. UNCHANGED <<pc, outcome, wire>>
    BY <1>5 DEF Starting, Spawn, SpawnFails, Started, InitializeFails,
       InitializedFails, Exit, ReadNotification, ReaderRaises, LoopEnds, Close,
       Closing, CloseTakesPending, CloseFailsPending, ReaderStarts, Resolve,
       HandlerReturns, EndOfFile, ReaderTakesPending, ReaderFailsPending, calls,
       vars
  <2>. QED  BY <2>1, <1>3 DEF absExecuted
<1>. QED  BY <1>1, <1>2, <1>4, <1>5, CallingMaps DEF Next, Reading

\* RpcContract holds of the client: a call answered was executed, a call
\* rejected never is, and no request is executed twice, for any number of
\* calls and whatever the app-server, the timeouts and close() do.
THEOREM Implements == Spec => ImplementsContract
<1>1. Init => Contract!Init
  BY DEF Init, Contract!Init, PhaseOf, VerdictOf
<1>. QED  BY Invariant, <1>1, StepMaps, PTL DEF Spec, ImplementsContract, Contract!Spec

\* What a call returns is true of what the app-server did, and is settled once.
THEOREM TrueReturns == Spec => ReturnsAreTrue
  BY SettledForGood, Implements, PTL DEF ReturnsAreTrue
=============================================================================
