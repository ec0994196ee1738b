-------------------------- MODULE HttpSession_proofs --------------------------
(***************************************************************************)
(* Proofs about HttpSession, for every set of connections and every number *)
(* of threads and requests.                                                *)
(***************************************************************************)
EXTENDS SessionInvariant, TLAPS

LEMMA InitInvariant == Init => SInv
<1> SUFFICES ASSUME Init PROVE SInv
  OBVIOUS
<1>1. TypeOK
  BY SessionAssumption DEF Init, TypeOK
<1>2. Unserved /\ InStep /\ Broken
  BY DEF Init, Unserved, InStep, Broken, Deaf
<1> QED
  BY <1>1, <1>2 DEF SInv

LEMMA ConnectStep ==
  ASSUME SInv, NEW c \in Connections, Connect(c)
  PROVE  SInv'
<1> USE DEF Connect, DoRead, EndSession, serverVars, clientVars, sessionVars
<1>1. TypeOK /\ Unserved /\ InStep /\ Broken
  BY DEF SInv
<1>2. TypeOK'
  BY <1>1, SessionAssumption DEF TypeOK
<1>3. Unserved'
  BY <1>1 DEF TypeOK, Unserved
<1>4. InStep'
  BY <1>1 DEF TypeOK, InStep, Unserved, Deaf
<1>5. Broken'
  BY <1>1 DEF TypeOK, Broken, InStep, Deaf
<1> QED
  BY <1>2, <1>3, <1>4, <1>5 DEF SInv

LEMMA SendStep ==
  ASSUME SInv, NEW c \in Connections, Send(c)
  PROVE  SInv'
<1> USE DEF Send, There, DoRead, EndSession, serverVars, clientVars, sessionVars
<1>1. TypeOK /\ Unserved /\ InStep /\ Broken
  BY DEF SInv
<1>2. TypeOK'
  BY <1>1, SessionAssumption DEF TypeOK
<1>3. Unserved'
  BY <1>1 DEF TypeOK, Unserved
<1>4. InStep'
  BY <1>1 DEF TypeOK, InStep, Unserved, Deaf
<1>5. Broken'
  BY <1>1 DEF TypeOK, Broken, InStep, Deaf
<1> QED
  BY <1>2, <1>3, <1>4, <1>5 DEF SInv

LEMMA SendMalformedStep ==
  ASSUME SInv, NEW c \in Connections, SendMalformed(c)
  PROVE  SInv'
<1> USE DEF SendMalformed, There, DoRead, EndSession, serverVars, clientVars, sessionVars
<1>1. TypeOK /\ Unserved /\ InStep /\ Broken
  BY DEF SInv
<1>2. TypeOK'
  BY <1>1, SessionAssumption DEF TypeOK
<1>3. Unserved'
  BY <1>1 DEF TypeOK, Unserved
<1>4. InStep'
  BY <1>1 DEF TypeOK, InStep, Unserved, Deaf
<1>5. Broken'
  BY <1>1 DEF TypeOK, Broken, InStep, Deaf
<1> QED
  BY <1>2, <1>3, <1>4, <1>5 DEF SInv

LEMMA StopReadingStep ==
  ASSUME SInv, NEW c \in Connections, StopReading(c)
  PROVE  SInv'
<1> USE DEF StopReading, DoRead, EndSession, serverVars, clientVars, sessionVars
<1>1. TypeOK /\ Unserved /\ InStep /\ Broken
  BY DEF SInv
<1>2. TypeOK'
  BY <1>1, SessionAssumption DEF TypeOK
<1>3. Unserved'
  BY <1>1 DEF TypeOK, Unserved
<1>4. InStep'
  BY <1>1 DEF TypeOK, InStep, Unserved, Deaf
<1>5. Broken'
  BY <1>1 DEF TypeOK, Broken, InStep, Deaf
<1> QED
  BY <1>2, <1>3, <1>4, <1>5 DEF SInv

LEMMA LeaveStep ==
  ASSUME SInv, NEW c \in Connections, Leave(c)
  PROVE  SInv'
<1> USE DEF Leave, There, DoRead, EndSession, serverVars, clientVars, sessionVars
<1>1. TypeOK /\ Unserved /\ InStep /\ Broken
  BY DEF SInv
<1>2. TypeOK'
  BY <1>1, SessionAssumption DEF TypeOK
<1>3. Unserved'
  BY <1>1 DEF TypeOK, Unserved
<1>4. InStep'
  BY <1>1 DEF TypeOK, InStep, Unserved, Deaf
<1>5. Broken'
  BY <1>1 DEF TypeOK, Broken, InStep, Deaf
<1> QED
  BY <1>2, <1>3, <1>4, <1>5 DEF SInv

LEMMA OnAcceptStep ==
  ASSUME SInv, NEW c \in Connections, OnAccept(c)
  PROVE  SInv'
<1> USE DEF OnAccept, DoRead, EndSession, serverVars, clientVars, sessionVars
<1>1. TypeOK /\ Unserved /\ InStep /\ Broken
  BY DEF SInv
<1>2. TypeOK'
  BY <1>1, SessionAssumption DEF TypeOK
<1>3. Unserved'
  BY <1>1 DEF TypeOK, Unserved
<1>4. InStep'
  BY <1>1 DEF TypeOK, InStep, Unserved, Deaf
<1>5. Broken'
  BY <1>1 DEF TypeOK, Broken, InStep, Deaf
<1> QED
  BY <1>2, <1>3, <1>4, <1>5 DEF SInv

LEMMA OnAcceptErrorStep ==
  ASSUME SInv, NEW c \in Connections, OnAcceptError(c)
  PROVE  SInv'
<1> USE DEF OnAcceptError, DoRead, EndSession, serverVars, clientVars, sessionVars
<1>1. TypeOK /\ Unserved /\ InStep /\ Broken
  BY DEF SInv
<1>2. TypeOK'
  BY <1>1, SessionAssumption DEF TypeOK
<1>3. Unserved'
  BY <1>1 DEF TypeOK, Unserved
<1>4. InStep'
  BY <1>1 DEF TypeOK, InStep, Unserved, Deaf
<1>5. Broken'
  BY <1>1 DEF TypeOK, Broken, InStep, Deaf
<1> QED
  BY <1>2, <1>3, <1>4, <1>5 DEF SInv

LEMMA ExpireStep ==
  ASSUME SInv, NEW c \in Connections, Expire(c)
  PROVE  SInv'
<1> USE DEF Expire, DoRead, EndSession, serverVars, clientVars, sessionVars
<1>1. TypeOK /\ Unserved /\ InStep /\ Broken
  BY DEF SInv
<1>2. TypeOK'
  BY <1>1, SessionAssumption DEF TypeOK
<1>3. Unserved'
  BY <1>1 DEF TypeOK, Unserved
<1>4. InStep'
  BY <1>1 DEF TypeOK, InStep, Unserved, Deaf
<1>5. Broken'
  BY <1>1 DEF TypeOK, Broken, InStep, Deaf
<1> QED
  BY <1>2, <1>3, <1>4, <1>5 DEF SInv

LEMMA OnReadStep ==
  ASSUME SInv, NEW c \in Connections, OnRead(c)
  PROVE  SInv'
<1> USE DEF OnRead, DoRead, EndSession, serverVars, clientVars, sessionVars
<1>1. TypeOK /\ Unserved /\ InStep /\ Broken
  BY DEF SInv
<1>2. TypeOK'
  BY <1>1, SessionAssumption DEF TypeOK
<1>3. Unserved'
  BY <1>1 DEF TypeOK, Unserved
<1>4. InStep'
  BY <1>1 DEF TypeOK, InStep, Unserved, Deaf
<1>5. Broken'
  BY <1>1 DEF TypeOK, Broken, InStep, Deaf
<1> QED
  BY <1>2, <1>3, <1>4, <1>5 DEF SInv

LEMMA OnReadEndStep ==
  ASSUME SInv, NEW c \in Connections, OnReadEnd(c)
  PROVE  SInv'
<1> USE DEF OnReadEnd, DoRead, EndSession, serverVars, clientVars, sessionVars
<1>1. TypeOK /\ Unserved /\ InStep /\ Broken
  BY DEF SInv
<1>2. TypeOK'
  BY <1>1, SessionAssumption DEF TypeOK
<1>3. Unserved'
  BY <1>1 DEF TypeOK, Unserved
<1>4. InStep'
  BY <1>1 DEF TypeOK, InStep, Unserved, Deaf
<1>5. Broken'
  BY <1>1 DEF TypeOK, Broken, InStep, Deaf
<1> QED
  BY <1>2, <1>3, <1>4, <1>5 DEF SInv

LEMMA OnReadErrorStep ==
  ASSUME SInv, NEW c \in Connections, OnReadError(c)
  PROVE  SInv'
<1> USE DEF OnReadError, DoRead, EndSession, serverVars, clientVars, sessionVars
<1>1. TypeOK /\ Unserved /\ InStep /\ Broken
  BY DEF SInv
<1>2. TypeOK'
  BY <1>1, SessionAssumption DEF TypeOK
<1>3. Unserved'
  BY <1>1 DEF TypeOK, Unserved
<1>4. InStep'
  BY <1>1 DEF TypeOK, InStep, Unserved, Deaf
<1>5. Broken'
  BY <1>1 DEF TypeOK, Broken, InStep, Deaf
<1> QED
  BY <1>2, <1>3, <1>4, <1>5 DEF SInv

LEMMA HandledStep ==
  ASSUME SInv, NEW c \in Connections, Handled(c)
  PROVE  SInv'
<1> USE DEF Handled, DoRead, EndSession, serverVars, clientVars, sessionVars
<1>1. TypeOK /\ Unserved /\ InStep /\ Broken
  BY DEF SInv
<1>2. TypeOK'
  BY <1>1, SessionAssumption DEF TypeOK
<1>3. Unserved'
  BY <1>1 DEF TypeOK, Unserved
<1>4. InStep'
  BY <1>1 DEF TypeOK, InStep, Unserved, Deaf
<1>5. Broken'
  BY <1>1 DEF TypeOK, Broken, InStep, Deaf
<1> QED
  BY <1>2, <1>3, <1>4, <1>5 DEF SInv

LEMMA HandlerThrowsStep ==
  ASSUME SInv, NEW c \in Connections, HandlerThrows(c)
  PROVE  SInv'
<1> USE DEF HandlerThrows, DoRead, EndSession, serverVars, clientVars, sessionVars
<1>1. TypeOK /\ Unserved /\ InStep /\ Broken
  BY DEF SInv
<1>2. TypeOK'
  BY <1>1, SessionAssumption DEF TypeOK
<1>3. Unserved'
  BY <1>1 DEF TypeOK, Unserved
<1>4. InStep'
  BY <1>1 DEF TypeOK, InStep, Unserved, Deaf
<1>5. Broken'
  BY <1>1 DEF TypeOK, Broken, InStep, Deaf
<1> QED
  BY <1>2, <1>3, <1>4, <1>5 DEF SInv

LEMMA WrittenStep ==
  ASSUME SInv, NEW c \in Connections, Written(c)
  PROVE  SInv'
<1> USE DEF Written, DoRead, EndSession, serverVars, clientVars, sessionVars
<1>1. TypeOK /\ Unserved /\ InStep /\ Broken
  BY DEF SInv
<1>2. TypeOK'
  BY <1>1, SessionAssumption DEF TypeOK
<1>3. Unserved'
  BY <1>1 DEF TypeOK, Unserved
<1>4. InStep'
  BY <1>1 DEF TypeOK, InStep, Unserved, Deaf
<1>5. Broken'
  BY <1>1 DEF TypeOK, Broken, InStep, Deaf
<1> QED
  BY <1>2, <1>3, <1>4, <1>5 DEF SInv

LEMMA WrittenUnreadStep ==
  ASSUME SInv, NEW c \in Connections, WrittenUnread(c)
  PROVE  SInv'
<1> USE DEF WrittenUnread, DoRead, EndSession, serverVars, clientVars, sessionVars
<1>1. TypeOK /\ Unserved /\ InStep /\ Broken
  BY DEF SInv
<1>2. TypeOK'
  BY <1>1, SessionAssumption DEF TypeOK
<1>3. Unserved'
  BY <1>1 DEF TypeOK, Unserved
<1>4. InStep'
  BY <1>1 DEF TypeOK, InStep, Unserved, Deaf
<1>5. Broken'
  BY <1>1 DEF TypeOK, Broken, InStep, Deaf
<1> QED
  BY <1>2, <1>3, <1>4, <1>5 DEF SInv

LEMMA OnWriteStep ==
  ASSUME SInv, NEW c \in Connections, OnWrite(c)
  PROVE  SInv'
<1> USE DEF OnWrite, DoRead, EndSession, serverVars, clientVars, sessionVars
<1>1. TypeOK /\ Unserved /\ InStep /\ Broken
  BY DEF SInv
<1>2. TypeOK'
  BY <1>1, SessionAssumption DEF TypeOK
<1>3. Unserved'
  BY <1>1 DEF TypeOK, Unserved
<1>4. InStep'
  BY <1>1 DEF TypeOK, InStep, Unserved, Deaf
<1>5. Broken'
  BY <1>1 DEF TypeOK, Broken, InStep, Deaf
<1> QED
  BY <1>2, <1>3, <1>4, <1>5 DEF SInv

LEMMA OnWriteErrorStep ==
  ASSUME SInv, NEW c \in Connections, OnWriteError(c)
  PROVE  SInv'
<1> USE DEF OnWriteError, DoRead, EndSession, serverVars, clientVars, sessionVars
<1>1. TypeOK /\ Unserved /\ InStep /\ Broken
  BY DEF SInv
<1>2. TypeOK'
  BY <1>1, SessionAssumption DEF TypeOK
<1>3. Unserved'
  BY <1>1 DEF TypeOK, Unserved
<1>4. InStep'
  BY <1>1 DEF TypeOK, InStep, Unserved, Deaf
<1>5. Broken'
  BY <1>1 DEF TypeOK, Broken, InStep, Deaf
<1> QED
  BY <1>2, <1>3, <1>4, <1>5 DEF SInv

LEMMA StepInvariant == SInv /\ [Next]_vars => SInv'
<1> SUFFICES ASSUME SInv, [Next]_vars PROVE SInv'
  OBVIOUS
<1>1. ASSUME NEW c \in Connections,
             Connect(c) \/ Send(c) \/ SendMalformed(c) \/ StopReading(c) \/ Leave(c)
      PROVE  SInv'
  BY <1>1, ConnectStep, SendStep, SendMalformedStep, StopReadingStep, LeaveStep
<1>2. ASSUME NEW c \in Connections, Listen(c) \/ Expire(c) PROVE SInv'
  BY <1>2, OnAcceptStep, OnAcceptErrorStep, ExpireStep DEF Listen
<1>3. ASSUME NEW c \in Connections, Serve(c) \/ WrittenUnread(c) \/ HandlerThrows(c)
      PROVE  SInv'
  BY <1>3, OnReadStep, OnReadEndStep, OnReadErrorStep, HandledStep, HandlerThrowsStep,
     WrittenStep, WrittenUnreadStep, OnWriteStep, OnWriteErrorStep DEF Serve
<1>4. CASE UNCHANGED vars
  <2> USE <1>4 DEF vars, serverVars, clientVars, sessionVars
  <2>1. TypeOK' /\ Unserved'
    BY DEF SInv, TypeOK, Unserved
  <2>2. InStep' /\ Broken'
    BY DEF SInv, InStep, Broken, Deaf
  <2> QED
    BY <2>1, <2>2 DEF SInv
<1> QED
  BY <1>1, <1>2, <1>3, <1>4 DEF Next

(* SInv holds in every reachable state: the completion handlers of a       *)
(* session (session.hpp) keep requests and replies in step.                *)
THEOREM SessionInvariantHolds == Spec => []SInv
BY InitInvariant, StepInvariant, PTL DEF Spec

(* on_read, on_write and the time-out leave a handled request without a    *)
(* reply only when the connection is broken.                               *)
THEOREM RepliesAreLostWithTheConnection == Spec => []LostOnlyWhenBroken
<1>1. SInv => LostOnlyWhenBroken
  <2> SUFFICES ASSUME SInv, NEW c \in Connections, heard[c] < taken[c],
                      ~Deaf[c], ~timedOut[c], up
               PROVE  op[c] \in {"handle", "write"}
    BY DEF LostOnlyWhenBroken
  <2>1. heard[c] \in Nat /\ taken[c] \in Nat
    BY DEF SInv, TypeOK
  <2>2. op[c] \notin {"none", "read", "written", "ended"}
    BY <2>1 DEF SInv, Unserved, InStep, Broken
  <2> QED
    BY <2>2 DEF SInv, TypeOK
<1> QED
  BY <1>1, SessionInvariantHolds, PTL

-----------------------------------------------------------------------------
(***************************************************************************)
(* Requests and replies match                                              *)
(***************************************************************************)

LEMMA OnReadTakes ==
  ASSUME SInv, NEW c \in Connections, OnRead(c)
  PROVE  Contract!Take(c)
<1> USE DEF OnRead, serverVars, clientVars
<1>1. Over' = Over /\ Deaf' = Deaf
  BY DEF Over, Deaf, SInv, TypeOK
<1>2. ~Over[c] /\ (Deaf[c] \/ heard[c] = taken[c])
  BY DEF Over, Deaf, SInv, InStep
<1> QED
  BY <1>1, <1>2 DEF Contract!Take

LEMMA WrittenIsHeard ==
  ASSUME SInv, NEW c \in Connections, Written(c)
  PROVE  Contract!Hear(c) \/ UNCHANGED <<taken, heard, Deaf, Over>>
<1> USE DEF Written, serverVars, clientVars
<1>1. Over' = Over /\ Deaf' = Deaf /\ taken' = taken
  BY DEF Over, Deaf, SInv, TypeOK
<1>2. heard \in [Connections -> Nat] /\ taken[c] \in Nat
  BY DEF SInv, TypeOK
<1>3. CASE client[c] = "open"
  <2>1. ~Over[c] /\ ~Deaf[c]
    BY <1>3 DEF Over, Deaf
  <2>2. heard[c] + 1 = taken[c]
    BY <1>3 DEF SInv, InStep, Deaf
  <2>3. heard' = [heard EXCEPT ![c] = @ + 1]
    BY <1>2, <1>3, <2>2
  <2> QED
    BY <1>1, <2>1, <2>2, <2>3 DEF Contract!Hear
<1>4. CASE client[c] # "open"
  <2>1. heard' = heard
    BY <1>2, <1>4
  <2> QED
    BY <1>1, <2>1
<1> QED
  BY <1>3, <1>4

LEMMA LeaveIsLeave ==
  ASSUME SInv, NEW c \in Connections, StopReading(c) \/ Leave(c)
  PROVE  Contract!Leave(c)
<1>1. Deaf' = [Deaf EXCEPT ![c] = TRUE]
  BY DEF StopReading, Leave, Deaf, SInv, TypeOK
<1>2. UNCHANGED <<taken, heard, Over>>
  BY DEF StopReading, Leave, sessionVars, Over
<1> QED
  BY <1>1, <1>2 DEF Contract!Leave

(* What only ends sessions, or concerns neither requests nor replies.      *)
LEMMA OthersEnd ==
  ASSUME SInv, UNCHANGED <<taken, heard, Deaf>>,
         \A c \in Connections : op[c] = "ended" => op'[c] = "ended"
  PROVE  Contract!End
<1>1. Over' \in [Connections -> BOOLEAN]
  BY DEF Over
<1>2. \A c \in Connections : Over[c] => Over'[c]
  BY DEF Over
<1> QED
  BY <1>1, <1>2 DEF Contract!End

LEMMA StepIsExchange ==
  SInv /\ [Next]_vars => [Contract!Next]_<<taken, heard, Deaf, Over>>
<1> SUFFICES ASSUME SInv, [Next]_vars
             PROVE  Contract!Next \/ UNCHANGED <<taken, heard, Deaf, Over>>
  OBVIOUS
<1> USE DEF serverVars, clientVars, sessionVars
<1>1. ASSUME NEW c \in Connections, OnRead(c) \/ StopReading(c) \/ Leave(c) \/ Written(c)
      PROVE  Contract!Next \/ UNCHANGED <<taken, heard, Deaf, Over>>
  BY <1>1, OnReadTakes, LeaveIsLeave, WrittenIsHeard DEF Contract!Next
<1>2. ASSUME NEW c \in Connections, Connect(c) \/ Send(c) \/ SendMalformed(c)
      PROVE  Contract!End
  <2>1. UNCHANGED <<taken, heard, op>>
    BY <1>2 DEF Connect, Send, SendMalformed
  <2>2. Deaf' = Deaf
    BY <1>2 DEF Connect, Send, SendMalformed, Deaf, SInv, TypeOK
  <2> QED
    BY <2>1, <2>2, OthersEnd
<1>3. ASSUME NEW c \in Connections,
             \/ OnAccept(c) \/ OnAcceptError(c) \/ Expire(c) \/ HandlerThrows(c)
             \/ OnReadEnd(c) \/ OnReadError(c) \/ Handled(c) \/ WrittenUnread(c)
             \/ OnWrite(c) \/ OnWriteError(c)
      PROVE  Contract!End
  <2>1. UNCHANGED <<taken, heard, client>>
    BY <1>3 DEF OnAccept, OnAcceptError, Expire, HandlerThrows, OnReadEnd, OnReadError,
                Handled, WrittenUnread, OnWrite, OnWriteError
  <2>2. Deaf' = Deaf
    BY <2>1 DEF Deaf
  <2>3. ASSUME NEW d \in Connections, op[d] = "ended" PROVE op'[d] = "ended"
    <3>1. CASE OnAccept(c) \/ OnAcceptError(c) \/ Expire(c) \/ HandlerThrows(c)
      BY <2>3, <3>1 DEF OnAccept, OnAcceptError, Expire, HandlerThrows, DoRead, SInv,
                        TypeOK, Unserved
    <3>2. CASE OnReadEnd(c) \/ OnReadError(c) \/ Handled(c) \/ WrittenUnread(c)
      BY <2>3, <3>2 DEF OnReadEnd, OnReadError, Handled, WrittenUnread, EndSession, SInv,
                        TypeOK
    <3>3. CASE OnWrite(c) \/ OnWriteError(c)
      BY <2>3, <3>3 DEF OnWrite, OnWriteError, DoRead, EndSession, SInv, TypeOK
    <3> QED
      BY <1>3, <3>1, <3>2, <3>3
  <2> QED
    BY <2>1, <2>2, <2>3, OthersEnd
<1>4. CASE UNCHANGED vars
  BY <1>4 DEF vars, Deaf, Over
<1> QED
  BY <1>1, <1>2, <1>3, <1>4 DEF Next, Listen, Serve, Contract!Next

(* The replies of a connection match its requests one by one (do_read,     *)
(* on_read, on_write): each is heard once, in order, before the next       *)
(* request of a client that is still there is handled.                     *)
THEOREM SessionImplementsExchange == Spec => ImplementsExchange
<1>1. ASSUME Init PROVE Contract!Init
  <2>1. Deaf = [c \in Connections |-> FALSE]
    <3>1. \A c \in Connections : client[c] = "away"
      BY <1>1 DEF Init
    <3>2. \A c \in Connections : (client[c] \in {"stopped", "left"}) = FALSE
      BY <3>1
    <3> QED
      BY <3>2, Zenon DEF Deaf
  <2>2. Over = [c \in Connections |-> FALSE]
    BY <1>1 DEF Init, Over
  <2> QED
    BY <1>1, <2>1, <2>2 DEF Init, Contract!Init
<1> QED
  BY <1>1, StepIsExchange, SessionInvariantHolds, PTL
     DEF Spec, ImplementsExchange, Contract!Spec, Contract!exchangeVars
=============================================================================
