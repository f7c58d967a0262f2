---------------------- MODULE FerroplanSessionProofs ----------------------
(* Theorems about FerroplanSession, for any sessions, callers, operations,   *)
(* numbers of calls and faults.                                              *)
EXTENDS FerroplanSession, SequenceTheorems, TLAPS

-----------------------------------------------------------------------------
(* Journals are kept newest first, and replayed from the other end.          *)

LEMMA ReverseType ==
  ASSUME NEW S, NEW q \in Seq(S)
  PROVE  /\ Reverse(q) \in Seq(S) /\ Len(Reverse(q)) = Len(q)
         /\ \A i \in 1..Len(q) : Reverse(q)[i] = q[(Len(q) - i) + 1]
BY DEF Reverse

LEMMA ReverseCons ==
  ASSUME NEW S, NEW q \in Seq(S), NEW r \in S
  PROVE  <<r>> \o q \in Seq(S) /\ Reverse(<<r>> \o q) = Append(Reverse(q), r)
<1>1. <<r>> \o q \in Seq(S) /\ Len(<<r>> \o q) = Len(q) + 1
  OBVIOUS
<1>2. Reverse(q) \in Seq(S) /\ Len(Reverse(q)) = Len(q)
  BY ReverseType
<1>3. Len(Reverse(<<r>> \o q)) = Len(q) + 1 /\ Reverse(<<r>> \o q) \in Seq(S)
  BY <1>1, ReverseType
<1>4. Append(Reverse(q), r) \in Seq(S) /\ Len(Append(Reverse(q), r)) = Len(q) + 1
  BY <1>2
<1>5. ASSUME NEW i \in 1..(Len(q) + 1)
      PROVE  Reverse(<<r>> \o q)[i] = Append(Reverse(q), r)[i]
  <2>1. Reverse(<<r>> \o q)[i] = (<<r>> \o q)[(Len(q) + 1 - i) + 1]
    <3> DEFINE p == <<r>> \o q
    <3>1. p \in Seq(S) /\ Len(p) = Len(q) + 1
      BY <1>1
    <3> HIDE DEF p
    <3>2. \A j \in 1..Len(p) : Reverse(p)[j] = p[(Len(p) - j) + 1]
      BY <3>1, ReverseType
    <3>3. Reverse(p)[i] = p[(Len(q) + 1 - i) + 1]
      BY <3>1, <3>2
    <3> QED
      BY <3>3 DEF p
  <2>2. CASE i = Len(q) + 1
    BY <1>2, <2>1, <2>2
  <2>3. CASE i \in 1..Len(q)
    <3>1. Append(Reverse(q), r)[i] = q[(Len(q) - i) + 1]
      <4>1. Append(Reverse(q), r)[i] = Reverse(q)[i]
        BY <1>2, <2>3
      <4>2. Reverse(q)[i] = q[(Len(q) - i) + 1]
        BY <2>3, ReverseType
      <4> QED
        BY <4>1, <4>2
    <3>2. (<<r>> \o q)[(Len(q) + 1 - i) + 1] = q[(Len(q) - i) + 1]
      <4>1. <<r>> \in Seq(S) /\ Len(<<r>>) = 1
        OBVIOUS
      <4>2. (Len(q) + 1 - i) + 1 \in 2..(Len(q) + 1) /\ ((Len(q) + 1 - i) + 1) - 1 = (Len(q) - i) + 1
        BY <2>3
      <4>3. \A k \in 2..(Len(q) + 1) : (<<r>> \o q)[k] = q[k - 1]
        BY <4>1, ConcatProperties
      <4> QED
        BY <4>2, <4>3
    <3> QED
      BY <2>1, <3>1, <3>2
  <2>4. i = Len(q) + 1 \/ i \in 1..Len(q)
    <3>1. Len(q) \in Nat
      OBVIOUS
    <3> QED
      BY <3>1
  <2> QED
    BY <2>2, <2>3, <2>4
<1>6. Len(q) \in Nat
  OBVIOUS
<1> QED
  BY <1>1, <1>3, <1>4, <1>5, <1>6

LEMMA ReverseTwice ==
  ASSUME NEW S, NEW q \in Seq(S)
  PROVE  Reverse(Reverse(q)) = q
<1>1. Reverse(q) \in Seq(S) /\ Len(Reverse(q)) = Len(q)
  BY ReverseType
<1>2. Reverse(Reverse(q)) \in Seq(S) /\ Len(Reverse(Reverse(q))) = Len(q)
  BY <1>1, ReverseType
<1>3. ASSUME NEW i \in 1..Len(q) PROVE Reverse(Reverse(q))[i] = q[i]
  <2>1. Reverse(Reverse(q))[i] = Reverse(q)[(Len(q) - i) + 1]
    BY <1>1, ReverseType
  <2>2. (Len(q) - i) + 1 \in 1..Len(q) /\ (Len(q) - ((Len(q) - i) + 1)) + 1 = i
    OBVIOUS
  <2>3. Reverse(q)[(Len(q) - i) + 1] = q[(Len(q) - ((Len(q) - i) + 1)) + 1]
    BY <2>2, ReverseType
  <2> QED
    BY <2>1, <2>2, <2>3
<1> QED
  BY <1>2, <1>3

-----------------------------------------------------------------------------
(* What the parts of a handler do to the types.                              *)

LEMMA TypeOfHead ==
  ASSUME TypeOK, NEW s \in Session, box[s] # <<>>
  PROVE  /\ Head(box[s]) \in MessageType
         /\ Tail(box[s]) \in Seq(MessageType)
         /\ Head(box[s]).by \in Client /\ Head(box[s]).n \in Nat
         /\ Head(box[s]).op \in Mutating => Request(s, Head(box[s])) \in RequestType
<1>1. box[s] \in Seq(MessageType)
  BY DEF TypeOK
<1>2. Head(box[s]) \in MessageType /\ Tail(box[s]) \in Seq(MessageType)
  BY <1>1
<1>3. Head(box[s]).by \in Client /\ Head(box[s]).n \in Nat
  BY <1>2 DEF MessageType
<1> QED
  BY <1>2, <1>3 DEF Request, RequestType

LEMMA TypeOfTake ==
  ASSUME TypeOK, NEW s \in Session, NEW kind, Take(s, kind)
  PROVE  /\ box[s] # <<>> /\ proc[s] = "up" /\ Head(box[s]).kind = kind
         /\ box' = [box EXCEPT ![s] = Tail(box[s])]
         /\ box' \in [Session -> Seq(MessageType)]
BY TypeOfHead DEF Take, TypeOK

LEMMA TypeOfReply ==
  ASSUME TypeOK, NEW s \in Session, box[s] # <<>>, NEW a \in AnswerType, Reply(s, a)
  PROVE  /\ pc' \in [Client -> {"idle", "forking", "await", "op", "free", "recover", "fork"}]
         /\ answer' \in [Client -> AnswerType]
BY TypeOfHead DEF Reply, TypeOK

LEMMA TypeOfLog ==
  ASSUME TypeOK, NEW s \in Session
  PROVE  Log(s) \in Seq(RequestType)
<1>1. journal[s] \in Seq(RequestType)
  BY DEF TypeOK
<1> QED
  BY <1>1, ReverseType DEF Log

LEMMA TypeOfJournaled ==
  ASSUME TypeOK, NEW s \in Session, box[s] # <<>>
  PROVE  Journaled(s, Head(box[s])) \in Seq(RequestType)
<1>1. journal[s] \in Seq(RequestType)
  BY DEF TypeOK
<1>2. CASE Head(box[s]).op \in Mutating
  <2>1. Request(s, Head(box[s])) \in RequestType
    BY <1>2, TypeOfHead
  <2>2. <<Request(s, Head(box[s]))>> \o journal[s] \in Seq(RequestType)
    BY <1>1, <2>1, ReverseCons
  <2> QED
    BY <1>2, <2>2 DEF Journaled
<1>3. CASE Head(box[s]).op \notin Mutating
  BY <1>1, <1>3 DEF Journaled
<1> QED
  BY <1>2, <1>3

LEMMA TypeOfFault ==
  ASSUME TypeOK, Fault \/ UNCHANGED faults
  PROVE  faults' \in 0..MaxFaults
BY FerroplanSessionAssumption DEF Fault, TypeOK

LEMMA TypeOfNoInstance ==
  ASSUME TypeOK, NEW s \in Session, NoInstance(s)
  PROVE  /\ live' \in [Session -> BOOLEAN]
         /\ guest' \in [Session -> Seq(RequestType)]
         /\ trapped' \in [Session -> BOOLEAN]
<1>1. <<>> \in Seq(RequestType)
  OBVIOUS
<1> QED
  BY <1>1 DEF NoInstance, TypeOK

LEMMA TypeOfBoot ==
  ASSUME TypeOK, NEW s \in Session, Booted(s) \/ NotBooted(s)
  PROVE  /\ live' \in [Session -> BOOLEAN]
         /\ guest' \in [Session -> Seq(RequestType)]
         /\ trapped' \in [Session -> BOOLEAN]
         /\ faults' \in 0..MaxFaults
<1>1. CASE Booted(s)
  <2>1. live' \in [Session -> BOOLEAN]
    BY <1>1 DEF Booted, TypeOK
  <2>2. guest' \in [Session -> Seq(RequestType)]
    BY <1>1, TypeOfLog DEF Booted, TypeOK
  <2>3. trapped' \in [Session -> BOOLEAN]
    BY <1>1 DEF Booted, TypeOK
  <2>4. faults' \in 0..MaxFaults
    BY <1>1, TypeOfFault DEF Booted
  <2> QED
    BY <2>1, <2>2, <2>3, <2>4
<1>2. CASE NotBooted(s)
  BY <1>2, TypeOfNoInstance, TypeOfFault DEF NotBooted
<1> QED
  BY <1>1, <1>2

LEMMA TypeOfStopped ==
  ASSUME TypeOK, NEW s \in Session, Stopped(s)
  PROVE  /\ proc' \in [Session -> {"absent", "starting", "up", "gone"}]
         /\ box' \in [Session -> Seq(MessageType)]
         /\ journal' \in [Session -> Seq(RequestType)]
         /\ live' \in [Session -> BOOLEAN]
         /\ guest' \in [Session -> Seq(RequestType)]
         /\ trapped' \in [Session -> BOOLEAN]
<1>1. <<>> \in Seq(RequestType) /\ <<>> \in Seq(MessageType)
  OBVIOUS
<1>2. proc' \in [Session -> {"absent", "starting", "up", "gone"}]
  BY DEF Stopped, TypeOK
<1>3. box' \in [Session -> Seq(MessageType)] /\ journal' \in [Session -> Seq(RequestType)]
  BY <1>1 DEF Stopped, TypeOK
<1> QED
  BY <1>2, <1>3, TypeOfNoInstance DEF Stopped

LEMMA BootErrorType == \A s \in Session : BootError(s) \in AnswerType
BY DEF BootError, AnswerType

LEMMA AnswersHaveType ==
  /\ {"ok", "instance_lost", "engine_error", "abi_failure", "call_timeout"} \subseteq AnswerType
  /\ "none" \in AnswerType
  /\ \A kind : Refused(kind) \in AnswerType
BY DEF AnswerType, Refused

-----------------------------------------------------------------------------
(* Type correctness.                                                         *)

LEMMA TypeInit == Init => TypeOK
<1> SUFFICES ASSUME Init PROVE TypeOK
  OBVIOUS
<1>1. \A T : <<>> \in Seq(T)
  OBVIOUS
<1>2. /\ proc \in [Session -> {"absent", "starting", "up", "gone"}]
      /\ bootError \in [Session -> BOOLEAN] /\ live \in [Session -> BOOLEAN]
      /\ trapped \in [Session -> BOOLEAN]
  BY DEF Init
<1>3. /\ guest \in [Session -> Seq(RequestType)] /\ journal \in [Session -> Seq(RequestType)]
      /\ origin \in [Session -> Seq(RequestType)] /\ box \in [Session -> Seq(MessageType)]
      /\ spec \in [Client -> Seq(RequestType)]
  BY <1>1 DEF Init
<1>4. /\ pc \in [Client -> {"idle", "forking", "await", "op", "free", "recover", "fork"}]
      /\ on \in [Client -> Session] /\ sent \in [Client -> Nat]
      /\ answer \in [Client -> AnswerType]
  BY DEF Init, AnswerType
<1>5. told \subseteq RequestType /\ faults \in 0..MaxFaults
  BY FerroplanSessionAssumption DEF Init
<1> QED
  BY <1>2, <1>3, <1>4, <1>5 DEF TypeOK

LEMMA TypeOfMessage ==
  ASSUME TypeOK, NEW c \in Client,
         NEW kind \in {"await", "op", "free", "recover", "fork"}, NEW op \in Op \cup {"none"}
  PROVE  Message(c, kind, op) \in MessageType
BY DEF Message, MessageType, TypeOK

LEMMA TypeOfWait ==
  ASSUME TypeOK, NEW c \in Client, NEW s \in Session,
         NEW kind \in {"await", "op", "free", "recover", "fork"}, Wait(c, s, kind)
  PROVE  /\ pc' \in [Client -> {"idle", "forking", "await", "op", "free", "recover", "fork"}]
         /\ on' \in [Client -> Session] /\ sent' \in [Client -> Nat]
         /\ answer' \in [Client -> AnswerType]
BY AnswersHaveType DEF Wait, TypeOK

LEMMA TypeOfStart ==
  ASSUME TypeOK, NEW c \in Client, NEW s \in Session, NEW log \in Seq(RequestType),
         StartSession(c, s, log)
  PROVE  TypeOK'
<1>1. InitialJournal(log) \in Seq(RequestType)
  BY ReverseType DEF InitialJournal
<1>2. Message(c, "await", "none") \in MessageType
  BY TypeOfMessage
<1>3. journal' \in [Session -> Seq(RequestType)] /\ origin' \in [Session -> Seq(RequestType)]
  BY <1>1 DEF StartSession, TypeOK
<1>4. box' \in [Session -> Seq(MessageType)]
  BY <1>2 DEF StartSession, TypeOK
<1>5. proc' \in [Session -> {"absent", "starting", "up", "gone"}]
  BY DEF StartSession, TypeOK
<1>6. Wait(c, s, "await")
  BY DEF StartSession
<1> QED
  BY <1>3, <1>4, <1>5, <1>6, TypeOfWait DEF StartSession, TypeOK

LEMMA TypeOfClients ==
  ASSUME TypeOK, NEW c \in Client,
         New(c) \/ ForkStart(c) \/ Send(c) \/ TimeOut(c) \/ NoProcess(c)
  PROVE  TypeOK'
<1>1. CASE New(c)
  <2>1. PICK s \in Session : StartSession(c, s, <<>>)
    BY <1>1 DEF New
  <2>2. <<>> \in Seq(RequestType)
    OBVIOUS
  <2> QED
    BY <2>1, <2>2, TypeOfStart
<1>2. CASE ForkStart(c)
  <2>1. spec[c] \in Seq(RequestType) /\ DropPlan \in RequestType
    BY DEF TypeOK, RequestType
  <2>2. Append(spec[c], DropPlan) \in Seq(RequestType)
    BY <2>1
  <2>3. PICK s \in Session, keepPlan \in BOOLEAN :
          StartSession(c, s, IF keepPlan THEN spec[c] ELSE Append(spec[c], DropPlan))
    BY <1>2 DEF ForkStart
  <2>4. (IF keepPlan THEN spec[c] ELSE Append(spec[c], DropPlan)) \in Seq(RequestType)
    BY <2>1, <2>2
  <2> QED
    BY <2>3, <2>4, TypeOfStart
<1>3. CASE Send(c)
  <2>1. PICK s \in Session, m \in ({"op"} \X Op) \cup ({"free", "recover", "fork"} \X {"none"}) :
          /\ box' = [box EXCEPT ![s] = Append(@, Message(c, m[1], m[2]))]
          /\ Wait(c, s, m[1])
    BY <1>3 DEF Send
  <2>2. m[1] \in {"await", "op", "free", "recover", "fork"} /\ m[2] \in Op \cup {"none"}
    OBVIOUS
  <2>3. box' \in [Session -> Seq(MessageType)]
    <3>1. Message(c, m[1], m[2]) \in MessageType
      BY <2>2, TypeOfMessage
    <3> QED
      BY <2>1, <3>1 DEF TypeOK
  <2>4. /\ pc' \in [Client -> {"idle", "forking", "await", "op", "free", "recover", "fork"}]
        /\ on' \in [Client -> Session] /\ sent' \in [Client -> Nat]
        /\ answer' \in [Client -> AnswerType]
    BY <2>1, <2>2, TypeOfWait
  <2> QED
    BY <1>3, <2>3, <2>4 DEF Send, TypeOK
<1>4. CASE Exit(c)
  <2>1. pc' \in [Client -> {"idle", "forking", "await", "op", "free", "recover", "fork"}]
    BY <1>4 DEF Exit, TypeOK
  <2>2. answer' \in [Client -> AnswerType]
    BY <1>4, AnswersHaveType DEF Exit, TypeOK
  <2> QED
    BY <1>4, <2>1, <2>2 DEF Exit, sessionVars, TypeOK
<1> QED
  BY <1>1, <1>2, <1>3, <1>4 DEF TimeOut, NoProcess

LEMMA TypeOfHandle ==
  ASSUME TypeOK, NEW s \in Session, Handle(s)
  PROVE  TypeOK'
<1> DEFINE m == Head(box[s])
<1>1. CASE AwaitReady(s)
  <2>1. /\ box' \in [Session -> Seq(MessageType)]
        /\ pc' \in [Client -> {"idle", "forking", "await", "op", "free", "recover", "fork"}]
        /\ answer' \in [Client -> AnswerType]
    BY <1>1, TypeOfTake, TypeOfReply, AnswersHaveType DEF AwaitReady
  <2> QED
    BY <1>1, <2>1 DEF AwaitReady, TypeOK
<1>2. CASE AwaitBootError(s)
  <2>1. /\ pc' \in [Client -> {"idle", "forking", "await", "op", "free", "recover", "fork"}]
        /\ answer' \in [Client -> AnswerType]
    BY <1>2, TypeOfReply, BootErrorType DEF AwaitBootError
  <2>2. Stopped(s)
    BY <1>2 DEF AwaitBootError
  <2> QED
    BY <1>2, <2>1, <2>2, TypeOfStopped DEF AwaitBootError, TypeOK
<1>3. CASE OpLost(s)
  <2>1. /\ box' \in [Session -> Seq(MessageType)]
        /\ pc' \in [Client -> {"idle", "forking", "await", "op", "free", "recover", "fork"}]
        /\ answer' \in [Client -> AnswerType]
    BY <1>3, TypeOfTake, TypeOfReply, AnswersHaveType DEF OpLost
  <2> QED
    BY <1>3, <2>1 DEF OpLost, TypeOK
<1>4. CASE OpOk(s)
  <2>1. /\ box[s] # <<>> /\ box' \in [Session -> Seq(MessageType)]
        /\ pc' \in [Client -> {"idle", "forking", "await", "op", "free", "recover", "fork"}]
        /\ answer' \in [Client -> AnswerType]
    BY <1>4, TypeOfTake, TypeOfReply, AnswersHaveType DEF OpOk
  <2>2. journal' \in [Session -> Seq(RequestType)]
    BY <1>4, <2>1, TypeOfJournaled DEF OpOk, TypeOK
  <2>3. told' \subseteq RequestType
    BY <1>4, <2>1, TypeOfHead DEF OpOk, TypeOK
  <2>4. /\ live' \in [Session -> BOOLEAN] /\ guest' \in [Session -> Seq(RequestType)]
        /\ trapped' \in [Session -> BOOLEAN] /\ faults' \in 0..MaxFaults
    <3>1. CASE Fault /\ NoInstance(s)
      BY <3>1, TypeOfNoInstance, TypeOfFault
    <3>2. CASE /\ guest' = [guest EXCEPT ![s] = IF m.op \in Mutating THEN Append(@, Request(s, m)) ELSE @]
               /\ UNCHANGED <<live, trapped, faults>>
      <4>1. guest[s] \in Seq(RequestType)
        BY DEF TypeOK
      <4>2. (IF m.op \in Mutating THEN Append(guest[s], Request(s, m)) ELSE guest[s]) \in Seq(RequestType)
        BY <2>1, <4>1, TypeOfHead
      <4>3. guest' \in [Session -> Seq(RequestType)]
        BY <3>2, <4>2 DEF TypeOK
      <4> QED
        BY <3>2, <4>3 DEF TypeOK
    <3> QED
      BY <1>4, <3>1, <3>2 DEF OpOk
  <2> QED
    BY <1>4, <2>1, <2>2, <2>3, <2>4 DEF OpOk, TypeOK
<1>5. CASE OpError(s)
  <2>1. /\ box' \in [Session -> Seq(MessageType)]
        /\ pc' \in [Client -> {"idle", "forking", "await", "op", "free", "recover", "fork"}]
        /\ answer' \in [Client -> AnswerType]
    BY <1>5, TypeOfTake, TypeOfReply, AnswersHaveType DEF OpError
  <2> QED
    BY <1>5, <2>1 DEF OpError, TypeOK
<1>6. CASE OpTrapped(s)
  <2>1. /\ box[s] # <<>> /\ box' \in [Session -> Seq(MessageType)]
        /\ pc' \in [Client -> {"idle", "forking", "await", "op", "free", "recover", "fork"}]
        /\ answer' \in [Client -> AnswerType]
    BY <1>6, TypeOfTake, TypeOfReply, AnswersHaveType DEF OpTrapped
  <2>2. guest' \in [Session -> Seq(RequestType)]
    <3>1. guest[s] \in Seq(RequestType)
      BY DEF TypeOK
    <3>2. PICK applied \in {TRUE, FALSE} :
            /\ applied => m.op \in Mutating
            /\ guest' = [guest EXCEPT ![s] = IF applied THEN Append(@, Request(s, m)) ELSE @]
      BY <1>6 DEF OpTrapped
    <3>3. (IF applied THEN Append(guest[s], Request(s, m)) ELSE guest[s]) \in Seq(RequestType)
      BY <2>1, <3>1, <3>2, TypeOfHead
    <3> QED
      BY <3>2, <3>3 DEF TypeOK
  <2>3. trapped' \in [Session -> BOOLEAN] /\ faults' \in 0..MaxFaults
    BY <1>6, TypeOfFault DEF OpTrapped, TypeOK
  <2> QED
    BY <1>6, <2>1, <2>2, <2>3 DEF OpTrapped, TypeOK
<1>7. CASE OpTimedOut(s)
  <2>1. /\ box' \in [Session -> Seq(MessageType)]
        /\ pc' \in [Client -> {"idle", "forking", "await", "op", "free", "recover", "fork"}]
        /\ answer' \in [Client -> AnswerType]
    BY <1>7, TypeOfTake, TypeOfReply, AnswersHaveType DEF OpTimedOut
  <2>2. NoInstance(s) /\ Fault
    BY <1>7 DEF OpTimedOut
  <2> QED
    BY <1>7, <2>1, <2>2, TypeOfNoInstance, TypeOfFault DEF OpTimedOut, TypeOK
<1>8. CASE Free(s)
  <2>1. /\ pc' \in [Client -> {"idle", "forking", "await", "op", "free", "recover", "fork"}]
        /\ answer' \in [Client -> AnswerType]
    BY <1>8, TypeOfReply, AnswersHaveType DEF Free
  <2>2. Stopped(s) /\ (Fault \/ UNCHANGED faults)
    BY <1>8 DEF Free
  <2> QED
    BY <1>8, <2>1, <2>2, TypeOfStopped, TypeOfFault DEF Free, TypeOK
<1>9. CASE Recover(s)
  <2>1. /\ box[s] # <<>> /\ box' \in [Session -> Seq(MessageType)]
    BY <1>9, TypeOfTake DEF Recover
  <2>2. /\ pc' \in [Client -> {"idle", "forking", "await", "op", "free", "recover", "fork"}]
        /\ answer' \in [Client -> AnswerType]
    BY <1>9, <2>1, TypeOfReply, AnswersHaveType, BootErrorType DEF Recover
  <2>3. Booted(s) \/ NotBooted(s)
    BY <1>9 DEF Recover
  <2> QED
    BY <1>9, <2>1, <2>2, <2>3, TypeOfBoot DEF Recover, TypeOK
<1>10. CASE ForkSpec(s)
  <2>1. /\ box[s] # <<>> /\ box' \in [Session -> Seq(MessageType)]
    BY <1>10, TypeOfTake DEF ForkSpec
  <2>2. /\ pc' \in [Client -> {"idle", "forking", "await", "op", "free", "recover", "fork"}]
        /\ spec' \in [Client -> Seq(RequestType)]
    <3>1. m.by \in Client /\ Log(s) \in Seq(RequestType)
      BY <2>1, TypeOfHead, TypeOfLog
    <3> QED
      BY <1>10, <3>1 DEF ForkSpec, TypeOK
  <2> QED
    BY <1>10, <2>1, <2>2 DEF ForkSpec, TypeOK
<1> QED
  BY <1>1, <1>2, <1>3, <1>4, <1>5, <1>6, <1>7, <1>8, <1>9, <1>10 DEF Handle

LEMMA TypeOfSessions ==
  ASSUME TypeOK, NEW s \in Session, Boot(s) \/ InstanceDies(s) \/ ProcessDies(s)
  PROVE  TypeOK'
<1>1. CASE Boot(s)
  <2>1. Booted(s) \/ NotBooted(s)
    BY <1>1 DEF Boot
  <2>2. /\ proc' \in [Session -> {"absent", "starting", "up", "gone"}]
        /\ bootError' \in [Session -> BOOLEAN]
    BY <1>1 DEF Boot, TypeOK
  <2> QED
    BY <1>1, <2>1, <2>2, TypeOfBoot DEF Boot, clientVars, TypeOK
<1>2. CASE InstanceDies(s)
  BY <1>2, TypeOfNoInstance, TypeOfFault DEF InstanceDies, clientVars, TypeOK
<1>3. CASE ProcessDies(s)
  BY <1>3, TypeOfStopped, TypeOfFault DEF ProcessDies, clientVars, TypeOK
<1> QED
  BY <1>1, <1>2, <1>3

LEMMA TypeNext == TypeOK /\ [Next]_vars => TypeOK'
<1> SUFFICES ASSUME TypeOK, [Next]_vars PROVE TypeOK'
  OBVIOUS
<1>1. CASE Next
  BY <1>1, TypeOfClients, TypeOfHandle, TypeOfSessions DEF Next
<1>2. CASE UNCHANGED vars
  BY <1>2 DEF vars, TypeOK
<1> QED
  BY <1>1, <1>2

(* Every variable keeps its type.                                            *)
THEOREM SessionTypeOK == Spec => []TypeOK
<1> QED
  BY TypeInit, TypeNext, PTL DEF Spec

-----------------------------------------------------------------------------
(* What a step does to the state of one session: seven ways, whatever the    *)
(* action.                                                                   *)

SameJournal(s) == journal'[s] = journal[s] /\ origin'[s] = origin[s]

Dropped(s) == live'[s] = FALSE /\ guest'[s] = <<>> /\ trapped'[s] = FALSE

SameInstance(s) == live'[s] = live[s] /\ guest'[s] = guest[s] /\ trapped'[s] = trapped[s]

Acting(s) == Request(s, Head(box[s]))

Rests(s) == SameJournal(s) /\ SameInstance(s) /\ proc'[s] = proc[s]

Begins(s) ==
  /\ proc[s] = "absent" /\ proc'[s] = "starting"
  /\ \E log \in Seq(RequestType) :
       /\ \/ log = <<>>
          \/ \E c \in Client : log = spec[c] \/ log = Append(spec[c], DropPlan)
       /\ journal'[s] = Reverse(log) /\ origin'[s] = log
  /\ SameInstance(s)

Loses(s) ==
  /\ SameJournal(s) /\ Dropped(s)
  /\ proc'[s] = proc[s] \/ (proc[s] = "starting" /\ proc'[s] = "up")

Loads(s) ==
  /\ proc[s] \in {"starting", "up"} /\ proc'[s] = "up"
  /\ SameJournal(s)
  /\ live'[s] = TRUE /\ guest'[s] = Log(s) /\ trapped'[s] = FALSE

Handles(s) ==
  /\ proc[s] = "up" /\ proc'[s] = "up" /\ live[s]
  /\ box[s] # <<>> /\ box'[s] = Tail(box[s]) /\ Head(box[s]).op \in Mutating
  /\ origin'[s] = origin[s]

Applies(s) ==
  /\ Handles(s)
  /\ journal'[s] = <<Acting(s)>> \o journal[s]
  /\ \/ Dropped(s)
     \/ live'[s] = live[s] /\ guest'[s] = Append(guest[s], Acting(s)) /\ trapped'[s] = trapped[s]

Blurs(s) ==
  /\ proc'[s] = proc[s] /\ SameJournal(s)
  /\ live[s] /\ live'[s] = TRUE /\ trapped'[s] = TRUE
  /\ guest'[s] = guest[s] \/ (Handles(s) /\ guest'[s] = Append(guest[s], Acting(s)))

Stops(s) ==
  /\ proc[s] \in {"starting", "up"} /\ proc'[s] = "gone"
  /\ journal'[s] = <<>> /\ origin'[s] = origin[s]
  /\ Dropped(s)

Moves(s) ==
  Rests(s) \/ Begins(s) \/ Loses(s) \/ Loads(s) \/ Applies(s) \/ Blurs(s) \/ Stops(s)

LEMMA OthersRest ==
  ASSUME TypeOK, NEW s \in Session, NEW x \in Session, x # s,
         \/ \E c \in Client, log \in Seq(RequestType) : StartSession(c, s, log)
         \/ Boot(s) \/ Handle(s) \/ InstanceDies(s) \/ ProcessDies(s)
  PROVE  Rests(x)
<1>1. proc'[x] = proc[x]
  BY DEF StartSession, Boot, Handle, InstanceDies, ProcessDies, Stopped, AwaitReady,
         AwaitBootError, OpLost, OpOk, OpError, OpTrapped, OpTimedOut, Free, Recover, ForkSpec, TypeOK
<1>2. journal'[x] = journal[x] /\ origin'[x] = origin[x]
  BY DEF StartSession, Boot, Handle, InstanceDies, ProcessDies, Stopped, AwaitReady,
         AwaitBootError, OpLost, OpOk, OpError, OpTrapped, OpTimedOut, Free, Recover, ForkSpec, TypeOK
<1>3. live'[x] = live[x]
  BY DEF StartSession, Boot, Handle, InstanceDies, ProcessDies, Stopped, AwaitReady, NoInstance,
         AwaitBootError, OpLost, OpOk, OpError, OpTrapped, OpTimedOut, Free, Recover, ForkSpec,
         Booted, NotBooted, TypeOK
<1>4. guest'[x] = guest[x]
  BY DEF StartSession, Boot, Handle, InstanceDies, ProcessDies, Stopped, AwaitReady, NoInstance,
         AwaitBootError, OpLost, OpOk, OpError, OpTrapped, OpTimedOut, Free, Recover, ForkSpec,
         Booted, NotBooted, TypeOK
<1>5. trapped'[x] = trapped[x]
  BY DEF StartSession, Boot, Handle, InstanceDies, ProcessDies, Stopped, AwaitReady, NoInstance,
         AwaitBootError, OpLost, OpOk, OpError, OpTrapped, OpTimedOut, Free, Recover, ForkSpec,
         Booted, NotBooted, TypeOK
<1> QED
  BY <1>1, <1>2, <1>3, <1>4, <1>5 DEF Rests, SameJournal, SameInstance

LEMMA DroppedBy ==
  ASSUME TypeOK, NEW s \in Session, NoInstance(s)
  PROVE  Dropped(s)
BY DEF NoInstance, Dropped, TypeOK

LEMMA StoppedBy ==
  ASSUME TypeOK, NEW s \in Session, proc[s] \in {"starting", "up"}, Stopped(s),
         UNCHANGED origin
  PROVE  Stops(s)
BY DroppedBy DEF Stopped, Stops, TypeOK

LEMMA BootMoves ==
  ASSUME TypeOK, NEW s \in Session, proc[s] \in {"starting", "up"}, proc'[s] = "up",
         Booted(s) \/ NotBooted(s), UNCHANGED <<journal, origin>>
  PROVE  Loads(s) \/ Loses(s)
<1>1. CASE Booted(s)
  BY <1>1 DEF Booted, Loads, SameJournal, TypeOK
<1>2. CASE NotBooted(s)
  <2>1. Dropped(s)
    BY <1>2, DroppedBy DEF NotBooted
  <2> QED
    BY <2>1 DEF Loses, SameJournal
<1> QED
  BY <1>1, <1>2

LEMMA OkApplies ==
  ASSUME TypeOK, NEW s \in Session, OpOk(s), Head(box[s]).op \in Mutating
  PROVE  Applies(s)
<1> DEFINE m == Head(box[s])
<1>1. /\ proc[s] = "up" /\ proc' = proc /\ live[s] /\ box[s] # <<>>
      /\ box'[s] = Tail(box[s]) /\ origin' = origin
  BY TypeOfTake DEF OpOk, TypeOK
<1>2. Handles(s)
  BY <1>1 DEF Handles
<1>3. journal'[s] = <<Acting(s)>> \o journal[s]
  BY DEF OpOk, Journaled, Acting, TypeOK
<1>4. CASE NoInstance(s)
  BY <1>2, <1>3, <1>4, DroppedBy DEF Applies
<1>5. CASE /\ guest' = [guest EXCEPT ![s] = IF m.op \in Mutating THEN Append(@, Request(s, m)) ELSE @]
           /\ UNCHANGED <<live, trapped, faults>>
  <2>1. guest'[s] = Append(guest[s], Acting(s))
    BY <1>5 DEF Acting, TypeOK
  <2> QED
    BY <1>2, <1>3, <1>5, <2>1 DEF Applies
<1> QED
  BY <1>4, <1>5 DEF OpOk

LEMMA HandlerMoves ==
  ASSUME TypeOK, NEW s \in Session, Handle(s)
  PROVE  Moves(s)
<1> DEFINE m == Head(box[s])
<1>1. CASE AwaitReady(s) \/ OpLost(s) \/ OpError(s) \/ ForkSpec(s)
  <2>1. UNCHANGED <<proc, live, guest, trapped, journal, origin>>
    BY <1>1 DEF AwaitReady, OpLost, OpError, ForkSpec
  <2> QED
    BY <2>1 DEF Moves, Rests, SameJournal, SameInstance
<1>2. CASE AwaitBootError(s) \/ Free(s)
  <2>1. Stopped(s) /\ proc[s] = "up" /\ UNCHANGED origin
    BY <1>2 DEF AwaitBootError, Free
  <2> QED
    BY <2>1, StoppedBy DEF Moves
<1>3. CASE OpOk(s)
  <2>1. /\ proc[s] = "up" /\ proc' = proc /\ live[s] /\ box[s] # <<>>
        /\ box'[s] = Tail(box[s]) /\ origin' = origin
    BY <1>3, TypeOfTake DEF OpOk, TypeOK
  <2>2. journal'[s] = Journaled(s, m)
    BY <1>3 DEF OpOk, TypeOK
  <2>3. CASE m.op \in Mutating
    BY <1>3, <2>3, OkApplies DEF Moves
  <2>4. CASE m.op \notin Mutating
    <3>1. SameJournal(s)
      BY <2>1, <2>2, <2>4 DEF Journaled, SameJournal
    <3>2. CASE NoInstance(s)
      BY <2>1, <3>1, <3>2, DroppedBy DEF Loses, Moves
    <3>3. CASE /\ guest' = [guest EXCEPT ![s] = IF m.op \in Mutating THEN Append(@, Request(s, m)) ELSE @]
               /\ UNCHANGED <<live, trapped, faults>>
      <4>1. guest'[s] = guest[s]
        BY <2>4, <3>3 DEF TypeOK
      <4> QED
        BY <2>1, <3>1, <3>3, <4>1 DEF SameInstance, Rests, Moves
    <3> QED
      BY <1>3, <3>2, <3>3 DEF OpOk
  <2> QED
    BY <2>3, <2>4
<1>4. CASE OpTrapped(s)
  <2>1. /\ proc[s] = "up" /\ proc' = proc /\ live[s] /\ box[s] # <<>>
        /\ box'[s] = Tail(box[s]) /\ origin' = origin /\ journal' = journal /\ live' = live
        /\ trapped'[s] = TRUE
    BY <1>4, TypeOfTake DEF OpTrapped, TypeOK
  <2>2. PICK applied \in {TRUE, FALSE} :
          /\ applied => m.op \in Mutating
          /\ guest' = [guest EXCEPT ![s] = IF applied THEN Append(@, Request(s, m)) ELSE @]
    BY <1>4 DEF OpTrapped
  <2>3. guest'[s] = guest[s] \/ (m.op \in Mutating /\ guest'[s] = Append(guest[s], Acting(s)))
    <3>1. CASE applied
      BY <2>2, <3>1 DEF Acting, TypeOK
    <3>2. CASE ~applied
      BY <2>2, <3>2 DEF TypeOK
    <3> QED
      BY <3>1, <3>2
  <2>4. m.op \in Mutating => Handles(s)
    BY <2>1 DEF Handles
  <2>5. SameJournal(s) /\ live'[s] = TRUE
    BY <2>1 DEF SameJournal, TypeOK
  <2>6. Blurs(s)
    BY <2>1, <2>3, <2>4, <2>5 DEF Blurs
  <2> QED
    BY <2>6 DEF Moves
<1>5. CASE OpTimedOut(s)
  <2>1. Dropped(s)
    BY <1>5, DroppedBy DEF OpTimedOut
  <2>2. proc' = proc /\ journal' = journal /\ origin' = origin
    BY <1>5 DEF OpTimedOut
  <2> QED
    BY <2>1, <2>2 DEF Moves, Loses, SameJournal
<1>6. CASE Recover(s)
  <2>1. proc[s] = "up" /\ proc' = proc /\ UNCHANGED <<journal, origin>> /\ (Booted(s) \/ NotBooted(s))
    BY <1>6 DEF Recover, Take
  <2> QED
    BY <2>1, BootMoves DEF Moves
<1> QED
  BY <1>1, <1>2, <1>3, <1>4, <1>5, <1>6 DEF Handle

LEMMA StartMoves ==
  ASSUME TypeOK, NEW c \in Client, NEW s \in Session, NEW log \in Seq(RequestType),
         log = <<>> \/ log = spec[c] \/ log = Append(spec[c], DropPlan),
         StartSession(c, s, log)
  PROVE  \A x \in Session : Moves(x)
<1>1. Begins(s)
  <2>1. proc[s] = "absent" /\ proc'[s] = "starting" /\ SameInstance(s)
    BY DEF StartSession, SameInstance, TypeOK
  <2>2. journal'[s] = Reverse(log) /\ origin'[s] = log
    BY DEF StartSession, InitialJournal, TypeOK
  <2> QED
    BY <2>1, <2>2 DEF Begins
<1>2. ASSUME NEW x \in Session, x # s PROVE Rests(x)
  BY <1>2, OthersRest
<1> QED
  BY <1>1, <1>2 DEF Moves

LEMMA StepMoves ==
  ASSUME TypeOK, [Next]_vars
  PROVE  \A x \in Session : Moves(x)
<1>1. ASSUME NEW c \in Client, New(c) PROVE \A x \in Session : Moves(x)
  <2>1. PICK s \in Session : StartSession(c, s, <<>>)
    BY <1>1 DEF New
  <2>2. <<>> \in Seq(RequestType)
    OBVIOUS
  <2> QED
    BY <2>1, <2>2, StartMoves
<1>2. ASSUME NEW c \in Client, ForkStart(c) PROVE \A x \in Session : Moves(x)
  <2>1. spec[c] \in Seq(RequestType) /\ DropPlan \in RequestType
    BY DEF TypeOK, RequestType
  <2>2. Append(spec[c], DropPlan) \in Seq(RequestType)
    BY <2>1
  <2>3. PICK s \in Session, keepPlan \in BOOLEAN :
          StartSession(c, s, IF keepPlan THEN spec[c] ELSE Append(spec[c], DropPlan))
    BY <1>2 DEF ForkStart
  <2>4. CASE keepPlan
    BY <2>1, <2>3, <2>4, StartMoves
  <2>5. CASE ~keepPlan
    BY <2>2, <2>3, <2>5, StartMoves
  <2> QED
    BY <2>4, <2>5
<1>3. ASSUME UNCHANGED <<proc, live, guest, trapped, journal, origin>>
      PROVE  \A x \in Session : Moves(x)
  BY <1>3 DEF Moves, Rests, SameJournal, SameInstance
<1>4. ASSUME NEW c \in Client, Send(c) \/ TimeOut(c) \/ NoProcess(c) PROVE \A x \in Session : Moves(x)
  BY <1>3, <1>4 DEF Send, TimeOut, NoProcess, Exit, sessionVars
<1>5. ASSUME NEW s \in Session, Boot(s) \/ Handle(s) \/ InstanceDies(s) \/ ProcessDies(s)
      PROVE  \A x \in Session : Moves(x)
  <2>1. \A x \in Session : x # s => Rests(x)
    BY <1>5, OthersRest
  <2>2. Boot(s) => Moves(s)
    <3> SUFFICES ASSUME Boot(s) PROVE Moves(s)
      OBVIOUS
    <3>1. proc[s] = "starting" /\ proc'[s] = "up" /\ UNCHANGED <<journal, origin>>
      BY DEF Boot, TypeOK
    <3>2. Booted(s) \/ NotBooted(s)
      BY DEF Boot
    <3> QED
      BY <3>1, <3>2, BootMoves DEF Moves
  <2>3. InstanceDies(s) => Moves(s)
    <3> SUFFICES ASSUME InstanceDies(s) PROVE Moves(s)
      OBVIOUS
    <3>1. proc' = proc /\ journal' = journal /\ origin' = origin
      BY DEF InstanceDies
    <3>2. Dropped(s)
      BY DroppedBy DEF InstanceDies
    <3> QED
      BY <3>1, <3>2 DEF Moves, Loses, SameJournal
  <2>4. ProcessDies(s) => Moves(s)
    BY StoppedBy DEF ProcessDies, Moves
  <2> QED
    BY <1>5, <2>1, <2>2, <2>3, <2>4, HandlerMoves DEF Moves
<1>6. CASE UNCHANGED vars
  BY <1>3, <1>6 DEF vars
<1> QED
  BY <1>1, <1>2, <1>4, <1>5, <1>6 DEF Next

-----------------------------------------------------------------------------
(* The guest and the journal.                                                *)

LEMMA RequestsOfAppend ==
  ASSUME NEW S, NEW q \in Seq(S), NEW r \in S
  PROVE  Requests(Append(q, r)) = Requests(q) \cup {r}
<1>1. DOMAIN q = 1..Len(q) /\ DOMAIN Append(q, r) = 1..(Len(q) + 1) /\ Len(q) \in Nat
  OBVIOUS
<1>2. \A i \in 1..Len(q) : Append(q, r)[i] = q[i]
  OBVIOUS
<1>3. Append(q, r)[Len(q) + 1] = r
  OBVIOUS
<1>4. \A i \in 1..(Len(q) + 1) : i \in 1..Len(q) \/ i = Len(q) + 1
  BY <1>1
<1>5. \A i \in 1..Len(q) : i \in 1..(Len(q) + 1)
  BY <1>1
<1>6. Len(q) + 1 \in 1..(Len(q) + 1)
  BY <1>1
<1>7. Requests(Append(q, r)) \subseteq Requests(q) \cup {r}
  BY <1>1, <1>2, <1>3, <1>4 DEF Requests
<1>8. Requests(q) \subseteq Requests(Append(q, r))
  BY <1>1, <1>2, <1>5 DEF Requests
<1>9. r \in Requests(Append(q, r))
  BY <1>1, <1>3, <1>6 DEF Requests
<1> QED
  BY <1>7, <1>8, <1>9

LEMMA RequestsOfReverse ==
  ASSUME NEW S, NEW q \in Seq(S)
  PROVE  Requests(Reverse(q)) = Requests(q)
<1>1. DOMAIN q = 1..Len(q) /\ DOMAIN Reverse(q) = 1..Len(q) /\ Len(q) \in Nat
  BY ReverseType
<1>2. \A i \in 1..Len(q) : Reverse(q)[i] = q[(Len(q) - i) + 1]
  BY ReverseType
<1>3. \A i \in 1..Len(q) : /\ (Len(q) - i) + 1 \in 1..Len(q)
                           /\ (Len(q) - ((Len(q) - i) + 1)) + 1 = i
  BY <1>1
<1>4. Requests(Reverse(q)) \subseteq Requests(q)
  BY <1>1, <1>2, <1>3 DEF Requests
<1>5. ASSUME NEW i \in 1..Len(q) PROVE q[i] \in Requests(Reverse(q))
  <2> DEFINE j == (Len(q) - i) + 1
  <2>1. j \in DOMAIN Reverse(q) /\ Reverse(q)[j] = q[i]
    BY <1>1, <1>2, <1>3
  <2> HIDE DEF j
  <2> QED
    BY <2>1 DEF Requests
<1>6. Requests(q) \subseteq Requests(Reverse(q))
  BY <1>1, <1>5 DEF Requests
<1> QED
  BY <1>4, <1>6

LEMMA LogOf ==
  ASSUME TypeOK, NEW s \in Session
  PROVE  /\ Log(s) \in Seq(RequestType)
         /\ Requests(Log(s)) = Requests(journal[s])
         /\ SameJournal(s) => Log(s)' = Log(s)
         /\ Applies(s) => Log(s)' = Append(Log(s), Acting(s))
<1>1. journal[s] \in Seq(RequestType)
  BY DEF TypeOK
<1>2. Log(s) \in Seq(RequestType) /\ Requests(Log(s)) = Requests(journal[s])
  BY <1>1, ReverseType, RequestsOfReverse DEF Log
<1>3. SameJournal(s) => Log(s)' = Log(s)
  BY DEF SameJournal, Log
<1>4. ASSUME Applies(s) PROVE Log(s)' = Append(Log(s), Acting(s))
  <2>1. Acting(s) \in RequestType
    BY <1>4, TypeOfHead DEF Applies, Handles, Acting
  <2>2. Reverse(<<Acting(s)>> \o journal[s]) = Append(Reverse(journal[s]), Acting(s))
    BY <1>1, <2>1, ReverseCons
  <2> QED
    BY <1>4, <2>2 DEF Applies, Log
<1> QED
  BY <1>2, <1>3, <1>4

GuestInv(s) ==
  /\ live[s] => proc[s] = "up"
  /\ live[s] /\ ~trapped[s] => guest[s] = Log(s)
  /\ live[s] => Requests(journal[s]) \subseteq Requests(guest[s])

LEMMA GuestNext ==
  ASSUME TypeOK, NEW s \in Session, GuestInv(s), Moves(s)
  PROVE  GuestInv(s)'
<1>1. guest[s] \in Seq(RequestType) /\ journal[s] \in Seq(RequestType)
  BY DEF TypeOK
<1>2. CASE Rests(s)
  BY <1>2, LogOf DEF Rests, SameJournal, SameInstance, GuestInv
<1>3. CASE Begins(s)
  <2>1. ~live'[s]
    BY <1>3 DEF Begins, SameInstance, GuestInv
  <2> QED
    BY <2>1 DEF GuestInv
<1>4. CASE Loses(s) \/ Stops(s)
  BY <1>4 DEF Loses, Stops, Dropped, GuestInv
<1>5. CASE Loads(s)
  <2>1. guest'[s] = Log(s)' /\ proc'[s] = "up"
    BY <1>5, LogOf DEF Loads
  <2>2. Requests(journal'[s]) = Requests(guest'[s])
    BY <1>5, LogOf DEF Loads, SameJournal
  <2> QED
    BY <2>1, <2>2 DEF GuestInv
<1>6. CASE Applies(s)
  <2>1. Acting(s) \in RequestType
    BY <1>6, TypeOfHead DEF Applies, Handles, Acting
  <2>2. CASE Dropped(s)
    BY <2>2 DEF Dropped, GuestInv
  <2>3. CASE /\ live'[s] = live[s] /\ guest'[s] = Append(guest[s], Acting(s))
             /\ trapped'[s] = trapped[s]
    <3>1. proc'[s] = "up" /\ live[s]
      BY <1>6 DEF Applies, Handles
    <3>2. live'[s] /\ ~trapped'[s] => guest'[s] = Log(s)'
      BY <1>6, <2>3, <3>1, LogOf DEF GuestInv
    <3>3. Requests(guest'[s]) = Requests(guest[s]) \cup {Acting(s)}
      BY <1>1, <2>1, <2>3, RequestsOfAppend
    <3>4. Requests(journal'[s]) = Requests(journal[s]) \cup {Acting(s)}
      <4>1. Requests(Append(Log(s), Acting(s))) = Requests(Log(s)) \cup {Acting(s)}
        BY <2>1, LogOf, RequestsOfAppend
      <4>2. journal'[s] \in Seq(RequestType)
        BY <1>1, <1>6, <2>1, ReverseCons DEF Applies
      <4>3. Requests(Log(s)') = Requests(journal'[s])
        BY <4>2, RequestsOfReverse DEF Log
      <4> QED
        BY <1>6, <4>1, <4>3, LogOf
    <3> QED
      BY <3>1, <3>2, <3>3, <3>4 DEF GuestInv
  <2> QED
    BY <1>6, <2>2, <2>3 DEF Applies
<1>7. CASE Blurs(s)
  <2>1. proc'[s] = "up" /\ trapped'[s] /\ journal'[s] = journal[s]
    BY <1>7 DEF Blurs, GuestInv, SameJournal
  <2>2. Requests(guest[s]) \subseteq Requests(guest'[s])
    <3>1. CASE guest'[s] = guest[s]
      BY <3>1
    <3>2. CASE Handles(s) /\ guest'[s] = Append(guest[s], Acting(s))
      <4>1. Acting(s) \in RequestType
        BY <3>2, TypeOfHead DEF Handles, Acting
      <4> QED
        BY <1>1, <3>2, <4>1, RequestsOfAppend
    <3> QED
      BY <1>7, <3>1, <3>2 DEF Blurs
  <2> QED
    BY <1>7, <2>1, <2>2 DEF Blurs, GuestInv
<1> QED
  BY <1>2, <1>3, <1>4, <1>5, <1>6, <1>7 DEF Moves

LEMMA ToldStep ==
  ASSUME TypeOK, [Next]_vars, NEW r \in told'
  PROVE  r \in told \/ \E s \in Session : Applies(s) /\ r = Acting(s)
<1>1. ASSUME NEW s \in Session, OpOk(s)
      PROVE  r \in told \/ (Head(box[s]).op \in Mutating /\ r = Acting(s))
  BY <1>1 DEF OpOk, Acting
<1>2. ASSUME NEW s \in Session, OpOk(s)
      PROVE  r \in told \/ \E x \in Session : Applies(x) /\ r = Acting(x)
  BY <1>1, <1>2, OkApplies
<1>3. CASE UNCHANGED told
  BY <1>3
<1>4. ASSUME NEW c \in Client, New(c) \/ ForkStart(c) \/ Send(c) \/ TimeOut(c) \/ NoProcess(c)
      PROVE  UNCHANGED told
  BY <1>4 DEF New, ForkStart, StartSession, Send, TimeOut, NoProcess, Exit
<1>5. ASSUME NEW s \in Session, Boot(s) \/ InstanceDies(s) \/ ProcessDies(s)
      PROVE  UNCHANGED told
  BY <1>5 DEF Boot, InstanceDies, ProcessDies
<1>6. ASSUME NEW s \in Session, Handle(s), ~OpOk(s)
      PROVE  UNCHANGED told
  BY <1>6 DEF Handle, AwaitReady, AwaitBootError, OpLost, OpError, OpTrapped, OpTimedOut,
              Free, Recover, ForkSpec
<1>7. CASE UNCHANGED vars
  BY <1>3, <1>7 DEF vars
<1> QED
  BY <1>2, <1>3, <1>4, <1>5, <1>6, <1>7 DEF Next

(* What a caller was told is in the journal of a session that is up.         *)
ToldInv(r) ==
  /\ r.to \in Session
  /\ proc[r.to] = "gone" \/ (proc[r.to] = "up" /\ r \in Requests(journal[r.to]))

SessionInv ==
  /\ TypeOK
  /\ \A s \in Session : GuestInv(s)
  /\ \A r \in told : ToldInv(r)

LEMMA JournalGrows ==
  ASSUME TypeOK, NEW s \in Session, Applies(s)
  PROVE  /\ Requests(journal'[s]) = Requests(journal[s]) \cup {Acting(s)}
         /\ Acting(s) \in RequestType
<1>1. journal[s] \in Seq(RequestType)
  BY DEF TypeOK
<1>2. Acting(s) \in RequestType
  BY TypeOfHead DEF Applies, Handles, Acting
<1>3. Requests(Append(Log(s), Acting(s))) = Requests(Log(s)) \cup {Acting(s)}
  BY <1>2, LogOf, RequestsOfAppend
<1>4. journal'[s] \in Seq(RequestType)
  BY <1>1, <1>2, ReverseCons DEF Applies
<1>5. Requests(Log(s)') = Requests(journal'[s])
  BY <1>4, RequestsOfReverse DEF Log
<1> QED
  BY <1>2, <1>3, <1>5, LogOf

LEMMA ToldNext ==
  ASSUME SessionInv, [Next]_vars, NEW r \in told'
  PROVE  ToldInv(r)'
<1>1. TypeOK
  BY DEF SessionInv
<1>2. \A s \in Session : Moves(s)
  BY <1>1, StepMoves
<1>3. CASE r \in told
  <2> DEFINE s == r.to
  <2>1. s \in Session /\ (proc[s] = "gone" \/ (proc[s] = "up" /\ r \in Requests(journal[s])))
    BY <1>3 DEF SessionInv, ToldInv
  <2>2. GuestInv(s) /\ Moves(s)
    BY <1>2, <2>1 DEF SessionInv
  <2>3. Applies(s) => Requests(journal[s]) \subseteq Requests(journal'[s])
    BY <1>1, <2>1, JournalGrows
  <2> HIDE DEF s
  <2>4. proc'[s] = "gone" \/ (proc'[s] = "up" /\ r \in Requests(journal'[s]))
    BY <2>1, <2>2, <2>3
       DEF Moves, Rests, Begins, Loses, Loads, Applies, Blurs, Stops, SameJournal, Handles
  <2> QED
    BY <2>1, <2>4 DEF ToldInv, s
<1>4. ASSUME NEW s \in Session, Applies(s), r = Acting(s)
      PROVE  ToldInv(r)'
  <2>1. r.to = s
    BY <1>4 DEF Acting, Request
  <2>2. r \in Requests(journal'[s])
    BY <1>1, <1>4, JournalGrows
  <2>3. proc'[s] = "up"
    BY <1>4 DEF Applies, Handles
  <2> QED
    BY <2>1, <2>2, <2>3 DEF ToldInv
<1> QED
  BY <1>1, <1>3, <1>4, ToldStep

LEMMA SessionNext == SessionInv /\ [Next]_vars => SessionInv'
<1> SUFFICES ASSUME SessionInv, [Next]_vars PROVE SessionInv'
  OBVIOUS
<1>1. TypeOK /\ TypeOK'
  BY TypeNext DEF SessionInv
<1>2. \A s \in Session : GuestInv(s)'
  BY <1>1, StepMoves, GuestNext DEF SessionInv
<1>3. \A r \in told' : ToldInv(r)'
  BY ToldNext
<1> QED
  BY <1>1, <1>2, <1>3 DEF SessionInv

LEMMA SessionStart == Init => SessionInv
<1> SUFFICES ASSUME Init PROVE SessionInv
  OBVIOUS
<1>1. TypeOK
  BY TypeInit
<1>2. told = {} /\ \A s \in Session : ~live[s]
  BY DEF Init
<1> QED
  BY <1>1, <1>2 DEF SessionInv, GuestInv

(* The inductive invariant: a live instance belongs to a session that is up, *)
(* is its journal unless it trapped, and holds the journal in any case; what *)
(* a caller was told is in the journal.                                      *)
THEOREM SessionInvariant == Spec => []SessionInv
<1> QED
  BY SessionStart, SessionNext, PTL DEF Spec

(* As long as its instance has not trapped, the guest is what the journal    *)
(* says, in the order of application.                                        *)
THEOREM SessionGuestIsJournal == Spec => []GuestIsJournal
<1>1. SessionInv => GuestIsJournal
  BY DEF SessionInv, GuestInv, GuestIsJournal
<1> QED
  BY <1>1, SessionInvariant, PTL

(* An operation reported as done is in the guest whenever there is one.      *)
THEOREM SessionAckedSurvive == Spec => []AckedSurvive
<1>1. SessionInv => AckedSurvive
  <2> SUFFICES ASSUME SessionInv, NEW r \in told, live[r.to]
               PROVE  r \in Requests(guest[r.to])
    BY DEF AckedSurvive
  <2>1. ToldInv(r)
    BY DEF SessionInv
  <2>2. GuestInv(r.to)
    BY <2>1 DEF SessionInv, ToldInv
  <2> QED
    BY <2>1, <2>2 DEF ToldInv, GuestInv
<1> QED
  BY <1>1, SessionInvariant, PTL

-----------------------------------------------------------------------------
(* No caller is forgotten.                                                   *)

Asks(c) == pc[c] \notin {"idle", "forking"}

Heard(c, i) == box[on[c]][i].by = c /\ box[on[c]][i].n = sent[c] /\ box[on[c]][i].kind = pc[c]

CallerInv(c) ==
  Asks(c) => \/ proc[on[c]] = "gone"
             \/ proc[on[c]] # "absent" /\ \E i \in DOMAIN box[on[c]] : Heard(c, i)

LEMMA CallerInvIs == NoCallerForgotten <=> \A c \in Client : CallerInv(c)
BY DEF NoCallerForgotten, CallerInv, Asks, Heard

(* A caller whose message is still somewhere in the same mailbox.            *)
LEMMA CallerKept ==
  ASSUME TypeOK, NEW c \in Client, CallerInv(c), on'[c] = on[c], sent'[c] = sent[c],
         Asks(c)' => pc'[c] = pc[c],
         proc[on[c]] = "gone" => proc'[on[c]] = "gone",
         proc'[on[c]] = "absent" => proc[on[c]] = "absent",
         Asks(c)' => \/ proc'[on[c]] = "gone"
                     \/ \A i \in DOMAIN box[on[c]] :
                          Heard(c, i) => \E j \in DOMAIN box'[on[c]] : box'[on[c]][j] = box[on[c]][i]
  PROVE  CallerInv(c)'
<1> SUFFICES ASSUME Asks(c)', proc'[on[c]] # "gone" PROVE CallerInv(c)'
  BY DEF CallerInv
<1>1. Asks(c) /\ pc'[c] = pc[c]
  BY DEF Asks
<1>2. proc[on[c]] # "gone" /\ proc[on[c]] # "absent" /\ proc'[on[c]] # "absent"
  BY <1>1 DEF CallerInv
<1>3. PICK i \in DOMAIN box[on[c]] : Heard(c, i)
  BY <1>1, <1>2 DEF CallerInv
<1>4. PICK j \in DOMAIN box'[on[c]] : box'[on[c]][j] = box[on[c]][i]
  BY <1>3
<1>5. box'[on'[c]][j].by = c /\ box'[on'[c]][j].n = sent'[c] /\ box'[on'[c]][j].kind = pc'[c]
  BY <1>1, <1>3, <1>4 DEF Heard
<1>6. j \in DOMAIN box'[on'[c]]
  BY <1>4
<1> QED
  BY <1>2, <1>5, <1>6 DEF CallerInv, Heard

LEMMA InAppended ==
  ASSUME NEW S, NEW q \in Seq(S), NEW r
  PROVE  /\ \A i \in DOMAIN q : \E j \in DOMAIN Append(q, r) : Append(q, r)[j] = q[i]
         /\ \E j \in DOMAIN Append(q, r) : Append(q, r)[j] = r
<1>1. Len(q) \in Nat /\ DOMAIN q = 1..Len(q) /\ DOMAIN Append(q, r) = 1..(Len(q) + 1)
  OBVIOUS
<1>2. \A i \in 1..Len(q) : i \in 1..(Len(q) + 1) /\ Append(q, r)[i] = q[i]
  OBVIOUS
<1>3. Len(q) + 1 \in 1..(Len(q) + 1) /\ Append(q, r)[Len(q) + 1] = r
  OBVIOUS
<1> QED
  BY <1>1, <1>2, <1>3

LEMMA InTail ==
  ASSUME NEW S, NEW q \in Seq(S), q # <<>>, NEW i \in DOMAIN q, i # 1
  PROVE  \E j \in DOMAIN Tail(q) : Tail(q)[j] = q[i]
<1>1. Len(q) \in Nat /\ DOMAIN q = 1..Len(q) /\ DOMAIN Tail(q) = 1..(Len(q) - 1)
  OBVIOUS
<1>2. i - 1 \in 1..(Len(q) - 1) /\ (i - 1) + 1 = i
  BY <1>1
<1>3. \A j \in 1..(Len(q) - 1) : Tail(q)[j] = q[j + 1]
  OBVIOUS
<1> QED
  BY <1>1, <1>2, <1>3

(* The caller of a message that was taken was answered, or had given up.     *)
LEMMA CallersAnswered ==
  ASSUME TypeOK, \A c \in Client : CallerInv(c), NEW s \in Session, box[s] # <<>>,
         Waiting(Head(box[s])) => pc'[Head(box[s]).by] \in {"idle", "forking"},
         \A c \in Client : (Waiting(Head(box[s])) /\ c = Head(box[s]).by) \/ pc'[c] = pc[c],
         on' = on, sent' = sent,
         \A x \in Session : x # s => proc'[x] = proc[x] /\ box'[x] = box[x],
         \/ proc'[s] = proc[s] /\ box'[s] = Tail(box[s])
         \/ proc'[s] = "gone"
  PROVE  \A c \in Client : CallerInv(c)'
<1> DEFINE m == Head(box[s])
<1> TAKE c \in Client
<1>1. on[c] \in Session /\ box[s] \in Seq(MessageType) /\ box[on[c]] \in Seq(MessageType)
  BY DEF TypeOK
<1>2. CASE ~Asks(c)'
  BY <1>2 DEF CallerInv
<1>3. CASE Asks(c)'
  <2>1. ~(Waiting(m) /\ c = m.by) /\ pc'[c] = pc[c] /\ Asks(c)
    <3>1. c = m.by => ~Waiting(m)
      <4>1. ASSUME c = m.by, Waiting(m) PROVE FALSE
        <5>1. pc'[m.by] \in {"idle", "forking"}
          BY <4>1
        <5>2. pc'[c] \notin {"idle", "forking"}
          BY <1>3 DEF Asks
        <5> QED
          BY <4>1, <5>1, <5>2
      <4> QED
        BY <4>1
    <3>2. pc'[c] = pc[c]
      BY <3>1
    <3> QED
      BY <1>3, <3>1, <3>2 DEF Asks
  <2>2. \/ proc'[on[c]] = "gone"
        \/ \A i \in DOMAIN box[on[c]] :
             Heard(c, i) => \E j \in DOMAIN box'[on[c]] : box'[on[c]][j] = box[on[c]][i]
    <3>1. CASE on[c] # s
      BY <1>1, <3>1
    <3>2. CASE on[c] = s /\ proc'[s] # "gone"
      <4>1. box'[s] = Tail(box[s])
        BY <3>2
      <4>2. ASSUME NEW i \in DOMAIN box[s], Heard(c, i) PROVE i # 1
        <5>1. i = 1 => box[s][i] = m
          BY <1>1
        <5>2. i = 1 => m.by = c /\ m.n = sent[c]
          BY <3>2, <4>2, <5>1 DEF Heard
        <5>3. i = 1 => Waiting(m) /\ c = m.by
          BY <2>1, <5>2 DEF Waiting, Asks
        <5> QED
          BY <2>1, <5>3
      <4> QED
        BY <1>1, <3>2, <4>1, <4>2, InTail
    <3> QED
      BY <3>1, <3>2
  <2>3. proc[on[c]] = "gone" => proc'[on[c]] = "gone"
    BY <1>1
  <2>4. proc'[on[c]] = "absent" => proc[on[c]] = "absent"
    BY <1>1
  <2> QED
    BY <2>1, <2>2, <2>3, <2>4, CallerKept
<1> QED
  BY <1>2, <1>3

LEMMA CallersStarting ==
  ASSUME TypeOK, \A c \in Client : CallerInv(c), NEW c \in Client, NEW s \in Session,
         NEW log \in Seq(RequestType), StartSession(c, s, log)
  PROVE  \A d \in Client : CallerInv(d)'
<1> TAKE d \in Client
<1> DEFINE m == Message(c, "await", "none")
<1>1. box[s] \in Seq(MessageType) /\ on[d] \in Session
  BY DEF TypeOK
<1>2. /\ proc[s] = "absent" /\ proc' = [proc EXCEPT ![s] = "starting"]
      /\ box' = [box EXCEPT ![s] = Append(@, m)]
      /\ pc' = [pc EXCEPT ![c] = "await"] /\ on' = [on EXCEPT ![c] = s]
      /\ sent' = [sent EXCEPT ![c] = @ + 1]
  BY DEF StartSession, Wait
<1>3. CASE d = c
  <2>1. on'[d] = s /\ sent'[d] = sent[c] + 1 /\ pc'[d] = "await" /\ proc'[s] = "starting"
    BY <1>2, <1>3 DEF TypeOK
  <2>2. box'[s] = Append(box[s], m)
    BY <1>2 DEF TypeOK
  <2>3. PICK j \in DOMAIN box'[s] : box'[s][j] = m
    BY <1>1, <2>2, InAppended
  <2>4. m.by = d /\ m.n = sent'[d] /\ m.kind = pc'[d]
    BY <1>3, <2>1 DEF Message
  <2> QED
    BY <2>1, <2>3, <2>4 DEF CallerInv, Heard
<1>4. CASE d # c
  <2>1. on'[d] = on[d] /\ sent'[d] = sent[d] /\ pc'[d] = pc[d]
    BY <1>2, <1>4 DEF TypeOK
  <2>2. CASE ~Asks(d)
    BY <2>1, <2>2 DEF CallerInv, Asks
  <2>3. CASE Asks(d)
    <3>1. on[d] # s
      BY <1>2, <2>3 DEF CallerInv
    <3>2. proc'[on[d]] = proc[on[d]] /\ box'[on[d]] = box[on[d]]
      BY <1>1, <1>2, <3>1 DEF TypeOK
    <3> QED
      BY <2>1, <3>2, CallerKept
  <2> QED
    BY <2>2, <2>3
<1> QED
  BY <1>3, <1>4

LEMMA CallersSending ==
  ASSUME TypeOK, \A c \in Client : CallerInv(c), NEW c \in Client, Send(c)
  PROVE  \A d \in Client : CallerInv(d)'
<1> TAKE d \in Client
<1>1. PICK s \in Session, p \in ({"op"} \X Op) \cup ({"free", "recover", "fork"} \X {"none"}) :
        /\ proc[s] \in {"starting", "up"}
        /\ box' = [box EXCEPT ![s] = Append(@, Message(c, p[1], p[2]))]
        /\ Wait(c, s, p[1])
  BY DEF Send
<1> DEFINE m == Message(c, p[1], p[2])
<1>2. box[s] \in Seq(MessageType) /\ on[d] \in Session /\ box[on[d]] \in Seq(MessageType)
  BY DEF TypeOK
<1>3. proc' = proc
  BY DEF Send
<1>4. box'[s] = Append(box[s], m)
  BY <1>1 DEF TypeOK
<1>5. CASE d = c
  <2>1. on'[d] = s /\ sent'[d] = sent[c] + 1 /\ pc'[d] = p[1]
    BY <1>1, <1>5 DEF Wait, TypeOK
  <2>2. PICK j \in DOMAIN box'[s] : box'[s][j] = m
    BY <1>2, <1>4, InAppended
  <2>3. m.by = d /\ m.n = sent'[d] /\ m.kind = pc'[d]
    BY <1>5, <2>1 DEF Message
  <2> QED
    BY <1>1, <1>3, <2>1, <2>2, <2>3 DEF CallerInv, Heard
<1>6. CASE d # c
  <2>1. on'[d] = on[d] /\ sent'[d] = sent[d] /\ pc'[d] = pc[d]
    BY <1>1, <1>6 DEF Wait, TypeOK
  <2>2. \A i \in DOMAIN box[on[d]] : \E j \in DOMAIN box'[on[d]] : box'[on[d]][j] = box[on[d]][i]
    <3>1. CASE on[d] = s
      BY <1>2, <1>4, <3>1, InAppended
    <3>2. CASE on[d] # s
      <4>1. box'[on[d]] = box[on[d]]
        BY <1>1, <1>2, <3>2 DEF TypeOK
      <4> QED
        BY <4>1
    <3> QED
      BY <3>1, <3>2
  <2> QED
    BY <1>3, <2>1, <2>2, CallerKept
<1> QED
  BY <1>5, <1>6

LEMMA ReplyAnswers ==
  ASSUME TypeOK, NEW s \in Session, box[s] # <<>>, NEW a, Reply(s, a)
  PROVE  /\ Waiting(Head(box[s])) => pc'[Head(box[s]).by] \in {"idle", "forking"}
         /\ \A c \in Client : (Waiting(Head(box[s])) /\ c = Head(box[s]).by) \/ pc'[c] = pc[c]
<1> DEFINE m == Head(box[s])
<1>1. m.by \in Client
  BY TypeOfHead
<1>2. CASE Waiting(m)
  <2>1. pc' = [pc EXCEPT ![m.by] = "idle"]
    BY <1>2 DEF Reply
  <2>2. pc'[m.by] = "idle" /\ \A c \in Client : c # m.by => pc'[c] = pc[c]
    BY <1>1, <2>1 DEF TypeOK
  <2>3. pc'[m.by] \in {"idle", "forking"}
    BY <2>2
  <2> QED
    BY <1>2, <2>2, <2>3
<1>3. CASE ~Waiting(m)
  <2>1. pc' = pc
    BY <1>3 DEF Reply
  <2> QED
    BY <1>3, <2>1
<1> QED
  BY <1>2, <1>3

LEMMA ForkAnswers ==
  ASSUME TypeOK, NEW s \in Session, ForkSpec(s)
  PROVE  /\ Waiting(Head(box[s])) => pc'[Head(box[s]).by] \in {"idle", "forking"}
         /\ \A c \in Client : (Waiting(Head(box[s])) /\ c = Head(box[s]).by) \/ pc'[c] = pc[c]
<1> DEFINE m == Head(box[s])
<1>1. m.by \in Client
  BY TypeOfHead, TypeOfTake DEF ForkSpec
<1>2. CASE Waiting(m)
  <2>1. pc' = [pc EXCEPT ![m.by] = "forking"]
    BY <1>2 DEF ForkSpec
  <2>2. pc'[m.by] = "forking" /\ \A c \in Client : c # m.by => pc'[c] = pc[c]
    BY <1>1, <2>1 DEF TypeOK
  <2>3. pc'[m.by] \in {"idle", "forking"}
    BY <2>2
  <2> QED
    BY <1>2, <2>2, <2>3
<1>3. CASE ~Waiting(m)
  <2>1. pc' = pc
    BY <1>3 DEF ForkSpec
  <2> QED
    BY <1>3, <2>1
<1> QED
  BY <1>2, <1>3

LEMMA CallersHandled ==
  ASSUME TypeOK, \A c \in Client : CallerInv(c), NEW s \in Session, Handle(s)
  PROVE  \A c \in Client : CallerInv(c)'
<1>1. box[s] # <<>>
  BY DEF Handle, Take, AwaitReady, AwaitBootError, OpLost, OpOk, OpError, OpTrapped, OpTimedOut,
         Free, Recover, ForkSpec
<1>2. /\ Waiting(Head(box[s])) => pc'[Head(box[s]).by] \in {"idle", "forking"}
      /\ \A c \in Client : (Waiting(Head(box[s])) /\ c = Head(box[s]).by) \/ pc'[c] = pc[c]
  <2>1. CASE ForkSpec(s)
    BY <2>1, ForkAnswers
  <2>2. CASE \E a \in AnswerType : Reply(s, a)
    BY <1>1, <2>2, ReplyAnswers
  <2>3. ForkSpec(s) \/ \E a \in AnswerType : Reply(s, a)
    BY AnswersHaveType, BootErrorType
       DEF Handle, AwaitReady, AwaitBootError, OpLost, OpOk, OpError, OpTrapped, OpTimedOut,
           Free, Recover
  <2> QED
    BY <2>1, <2>2, <2>3
<1>3. on' = on /\ sent' = sent
  BY DEF Handle, AwaitReady, AwaitBootError, OpLost, OpOk, OpError, OpTrapped, OpTimedOut,
         Free, Recover, ForkSpec
<1>4. \/ proc' = proc /\ box' = [box EXCEPT ![s] = Tail(box[s])]
      \/ proc' = [proc EXCEPT ![s] = "gone"] /\ box' = [box EXCEPT ![s] = <<>>]
  BY DEF Handle, Take, AwaitReady, AwaitBootError, OpLost, OpOk, OpError, OpTrapped, OpTimedOut,
         Free, Recover, ForkSpec, Stopped
<1>5. \A x \in Session : x # s => proc'[x] = proc[x] /\ box'[x] = box[x]
  BY <1>4 DEF TypeOK
<1>6. \/ proc'[s] = proc[s] /\ box'[s] = Tail(box[s])
      \/ proc'[s] = "gone"
  BY <1>4 DEF TypeOK
<1> QED
  BY <1>1, <1>2, <1>3, <1>5, <1>6, CallersAnswered

LEMMA CallersElsewhere ==
  ASSUME TypeOK, \A c \in Client : CallerInv(c), NEW s \in Session,
         Boot(s) \/ InstanceDies(s) \/ ProcessDies(s)
  PROVE  \A c \in Client : CallerInv(c)'
<1> TAKE c \in Client
<1>1. on[c] \in Session
  BY DEF TypeOK
<1>2. on' = on /\ sent' = sent /\ pc' = pc
  BY DEF Boot, InstanceDies, ProcessDies, clientVars
<1>3. \/ proc' = [proc EXCEPT ![s] = "up"] /\ proc[s] = "starting" /\ box' = box
      \/ proc' = proc /\ box' = box
      \/ proc' = [proc EXCEPT ![s] = "gone"] /\ box' = [box EXCEPT ![s] = <<>>]
  BY DEF Boot, InstanceDies, ProcessDies, Stopped
<1>4. proc'[on[c]] = "gone" \/ box'[on[c]] = box[on[c]]
  BY <1>1, <1>3 DEF TypeOK
<1>5. proc[on[c]] = "gone" => proc'[on[c]] = "gone"
  BY <1>1, <1>3 DEF TypeOK
<1>6. proc'[on[c]] = "absent" => proc[on[c]] = "absent"
  BY <1>1, <1>3 DEF TypeOK
<1>7. \/ proc'[on[c]] = "gone"
      \/ \A i \in DOMAIN box[on[c]] :
           Heard(c, i) => \E j \in DOMAIN box'[on[c]] : box'[on[c]][j] = box[on[c]][i]
  BY <1>4
<1> QED
  BY <1>2, <1>5, <1>6, <1>7, CallerKept

LEMMA CallersNext ==
  ASSUME TypeOK, \A c \in Client : CallerInv(c), [Next]_vars
  PROVE  \A c \in Client : CallerInv(c)'
<1>1. ASSUME NEW d \in Client, New(d) PROVE \A c \in Client : CallerInv(c)'
  <2>1. PICK s \in Session : StartSession(d, s, <<>>)
    BY <1>1 DEF New
  <2>2. <<>> \in Seq(RequestType)
    OBVIOUS
  <2> QED
    BY <2>1, <2>2, CallersStarting
<1>2. ASSUME NEW d \in Client, ForkStart(d) PROVE \A c \in Client : CallerInv(c)'
  <2>1. spec[d] \in Seq(RequestType) /\ DropPlan \in RequestType
    BY DEF TypeOK, RequestType
  <2>2. Append(spec[d], DropPlan) \in Seq(RequestType)
    BY <2>1
  <2>3. PICK s \in Session, keepPlan \in BOOLEAN :
          StartSession(d, s, IF keepPlan THEN spec[d] ELSE Append(spec[d], DropPlan))
    BY <1>2 DEF ForkStart
  <2>4. CASE keepPlan
    BY <2>1, <2>3, <2>4, CallersStarting
  <2>5. CASE ~keepPlan
    BY <2>2, <2>3, <2>5, CallersStarting
  <2> QED
    BY <2>4, <2>5
<1>3. ASSUME NEW d \in Client, Exit(d) PROVE \A c \in Client : CallerInv(c)'
  <2> TAKE c \in Client
  <2>1. on' = on /\ sent' = sent /\ box' = box /\ proc' = proc /\ pc' = [pc EXCEPT ![d] = "idle"]
    BY <1>3 DEF Exit, sessionVars
  <2>2. CASE c = d
    <3>1. ~Asks(c)'
      BY <2>1, <2>2 DEF Asks, TypeOK
    <3> QED
      BY <3>1 DEF CallerInv
  <2>3. CASE c # d
    <3>1. pc'[c] = pc[c]
      BY <2>1, <2>3 DEF TypeOK
    <3>2. on'[c] = on[c] /\ sent'[c] = sent[c] /\ proc'[on[c]] = proc[on[c]]
      BY <2>1
    <3>3. \A i \in DOMAIN box[on[c]] : \E j \in DOMAIN box'[on[c]] : box'[on[c]][j] = box[on[c]][i]
      BY <2>1
    <3> QED
      BY <3>1, <3>2, <3>3, CallerKept
  <2> QED
    BY <2>2, <2>3
<1>4. CASE UNCHANGED vars
  <2> TAKE c \in Client
  <2>1. on' = on /\ sent' = sent /\ box' = box /\ proc' = proc /\ pc' = pc
    BY <1>4 DEF vars
  <2>2. on'[c] = on[c] /\ sent'[c] = sent[c] /\ pc'[c] = pc[c] /\ proc'[on[c]] = proc[on[c]]
    BY <2>1
  <2>3. \A i \in DOMAIN box[on[c]] : \E j \in DOMAIN box'[on[c]] : box'[on[c]][j] = box[on[c]][i]
    BY <2>1
  <2> QED
    BY <2>2, <2>3, CallerKept
<1> QED
  BY <1>1, <1>2, <1>3, <1>4, CallersSending, CallersHandled, CallersElsewhere
     DEF Next, TimeOut, NoProcess

(* No caller waits for an answer that cannot come.                           *)
THEOREM SessionNoCallerForgotten == Spec => []NoCallerForgotten
<1>1. Init => NoCallerForgotten
  BY DEF Init, NoCallerForgotten
<1>2. TypeOK /\ NoCallerForgotten /\ [Next]_vars => NoCallerForgotten'
  <2> SUFFICES ASSUME TypeOK, NoCallerForgotten, [Next]_vars PROVE NoCallerForgotten'
    OBVIOUS
  <2>1. \A c \in Client : CallerInv(c)'
    BY CallersNext, CallerInvIs
  <2> QED
    BY <2>1 DEF NoCallerForgotten, CallerInv, Asks, Heard
<1> QED
  BY <1>1, <1>2, SessionTypeOK, PTL DEF Spec

-----------------------------------------------------------------------------
(* A fork is its parent's journal, and then only what it was sent itself.    *)

Extends(o, q, s) ==
  /\ Len(o) <= Len(q)
  /\ \A i \in 1..Len(o) : q[i] = o[i]
  /\ \A i \in 1..Len(q) : i > Len(o) => q[i].to = s

LEMMA ExtendsAppend ==
  ASSUME NEW S, NEW o \in Seq(S), NEW q \in Seq(S), NEW r \in S, NEW s,
         Extends(o, q, s), r.to = s
  PROVE  Extends(o, Append(q, r), s)
<1>1. Len(o) \in Nat /\ Len(q) \in Nat /\ Len(Append(q, r)) = Len(q) + 1
  OBVIOUS
<1>2. \A i \in 1..Len(q) : Append(q, r)[i] = q[i]
  OBVIOUS
<1>3. Append(q, r)[Len(q) + 1] = r
  OBVIOUS
<1>4. Len(o) <= Len(q) + 1 /\ \A i \in 1..Len(o) : i \in 1..Len(q)
  BY <1>1 DEF Extends
<1>5. \A i \in 1..(Len(q) + 1) : i \in 1..Len(q) \/ i = Len(q) + 1
  BY <1>1
<1> QED
  BY <1>1, <1>2, <1>3, <1>4, <1>5 DEF Extends

ForkInv(s) ==
  /\ proc[s] \in {"starting", "up"} => Extends(origin[s], Log(s), s)
  /\ live[s] => Extends(origin[s], guest[s], s)

LEMMA ForkNext ==
  ASSUME TypeOK, NEW s \in Session, GuestInv(s), ForkInv(s), Moves(s)
  PROVE  ForkInv(s)'
<1>1. /\ guest[s] \in Seq(RequestType) /\ journal[s] \in Seq(RequestType)
      /\ origin[s] \in Seq(RequestType) /\ Log(s) \in Seq(RequestType)
  BY LogOf DEF TypeOK
<1>2. ASSUME Handles(s) PROVE Acting(s) \in RequestType /\ Acting(s).to = s
  BY <1>2, TypeOfHead DEF Handles, Acting, Request
<1>3. CASE Rests(s)
  BY <1>3, LogOf DEF Rests, SameJournal, SameInstance, ForkInv
<1>4. CASE Begins(s)
  <2>1. PICK log \in Seq(RequestType) : journal'[s] = Reverse(log) /\ origin'[s] = log
    BY <1>4 DEF Begins
  <2>2. Log(s)' = log
    BY <2>1, ReverseTwice DEF Log
  <2>3. Len(log) \in Nat
    BY <2>1
  <2>4. \A i \in 1..Len(log) : ~(i > Len(log))
    BY <2>3
  <2>5. Extends(log, log, s)
    BY <2>3, <2>4 DEF Extends
  <2>6. ~live'[s]
    BY <1>4 DEF Begins, SameInstance, GuestInv
  <2> QED
    BY <2>1, <2>2, <2>5, <2>6 DEF ForkInv
<1>5. CASE Loses(s)
  <2>1. ~live'[s] /\ origin'[s] = origin[s] /\ Log(s)' = Log(s)
    BY <1>5, LogOf DEF Loses, Dropped, SameJournal
  <2>2. proc'[s] \in {"starting", "up"} => proc[s] \in {"starting", "up"}
    BY <1>5 DEF Loses
  <2> QED
    BY <2>1, <2>2 DEF ForkInv
<1>6. CASE Stops(s)
  BY <1>6 DEF Stops, Dropped, ForkInv
<1>7. CASE Loads(s)
  BY <1>7, LogOf DEF Loads, SameJournal, ForkInv
<1>8. CASE Applies(s)
  <2>1. Acting(s) \in RequestType /\ Acting(s).to = s /\ proc[s] = "up" /\ origin'[s] = origin[s] /\ live[s]
    BY <1>2, <1>8 DEF Applies, Handles
  <2>2. Extends(origin[s], Append(Log(s), Acting(s)), s)
    BY <1>1, <2>1, ExtendsAppend DEF ForkInv
  <2>3. Extends(origin[s], Append(guest[s], Acting(s)), s)
    BY <1>1, <2>1, ExtendsAppend DEF ForkInv
  <2>4. Extends(origin[s], Log(s), s)'
    BY <1>8, <2>1, <2>2, LogOf
  <2>5. live'[s] => guest'[s] = Append(guest[s], Acting(s))
    BY <1>8 DEF Applies, Dropped
  <2> QED
    BY <2>1, <2>3, <2>4, <2>5 DEF ForkInv
<1>9. CASE Blurs(s)
  <2>1. /\ proc'[s] = proc[s] /\ origin'[s] = origin[s] /\ Log(s)' = Log(s) /\ live[s]
    BY <1>9, LogOf DEF Blurs, SameJournal
  <2>2. CASE guest'[s] = guest[s]
    BY <2>1, <2>2 DEF ForkInv
  <2>3. CASE Handles(s) /\ guest'[s] = Append(guest[s], Acting(s))
    <3>1. Extends(origin[s], Append(guest[s], Acting(s)), s)
      BY <1>1, <1>2, <2>1, <2>3, ExtendsAppend DEF ForkInv
    <3> QED
      BY <2>1, <2>3, <3>1 DEF ForkInv
  <2> QED
    BY <1>9, <2>2, <2>3 DEF Blurs
<1> QED
  BY <1>3, <1>4, <1>5, <1>6, <1>7, <1>8, <1>9 DEF Moves

LEMMA ExtendsIsPrefix ==
  ASSUME NEW S, NEW o \in Seq(S), NEW q \in Seq(S), NEW s, Extends(o, q, s)
  PROVE  IsPrefix(o, q) /\ \A i \in DOMAIN q : i > Len(o) => q[i].to = s
<1>1. Len(o) \in Nat /\ Len(q) \in Nat /\ DOMAIN q = 1..Len(q) /\ Len(o) <= Len(q)
  BY DEF Extends
<1>2. SubSeq(o, 1, Len(o)) = o
  OBVIOUS
<1>3. SubSeq(q, 1, Len(o)) \in Seq(S) /\ Len(SubSeq(q, 1, Len(o))) = Len(o)
  BY <1>1
<1>4. \A i \in 1..Len(o) : SubSeq(q, 1, Len(o))[i] = o[i]
  <2>1. \A i \in 1..Len(o) : SubSeq(q, 1, Len(o))[i] = q[i]
    BY <1>1
  <2> QED
    BY <2>1 DEF Extends
<1>5. SubSeq(q, 1, Len(o)) = o
  BY <1>3, <1>4
<1> QED
  BY <1>1, <1>2, <1>5 DEF Extends, IsPrefix

(* What the parent of a fork does later does not reach the fork.             *)
THEOREM SessionForkIsolated == Spec => []ForkIsolated
<1>1. Init => \A s \in Session : ForkInv(s)
  BY DEF Init, ForkInv
<1>2. SessionInv /\ (\A s \in Session : ForkInv(s)) /\ [Next]_vars => (\A s \in Session : ForkInv(s))'
  <2> SUFFICES ASSUME SessionInv, \A s \in Session : ForkInv(s), [Next]_vars, NEW s \in Session
               PROVE  ForkInv(s)'
    OBVIOUS
  <2>1. TypeOK /\ GuestInv(s) /\ Moves(s)
    BY StepMoves DEF SessionInv
  <2> QED
    BY <2>1, ForkNext
<1>3. SessionInv /\ (\A s \in Session : ForkInv(s)) => ForkIsolated
  <2> SUFFICES ASSUME TypeOK, NEW s \in Session, live[s], ForkInv(s)
               PROVE  /\ IsPrefix(origin[s], guest[s])
                      /\ \A i \in DOMAIN guest[s] : i > Len(origin[s]) => guest[s][i].to = s
    BY DEF SessionInv, ForkIsolated
  <2>1. guest[s] \in Seq(RequestType) /\ origin[s] \in Seq(RequestType)
    BY DEF TypeOK
  <2> QED
    BY <2>1, ExtendsIsPrefix DEF ForkInv
<1> QED
  BY <1>1, <1>2, <1>3, SessionInvariant, PTL DEF Spec

-----------------------------------------------------------------------------
(* The order of effects.  First what a step does to the mailboxes, to the    *)
(* callers' counts and to the journals they carry to a fork.                 *)

BoxKeeps(s) ==
  box'[s] = box[s] \/ (box[s] # <<>> /\ box'[s] = Tail(box[s])) \/ box'[s] = <<>>

BoxGets(s) ==
  \E m \in MessageType :
    /\ m.n = sent[m.by] + 1 /\ sent'[m.by] = sent[m.by] + 1
    /\ box'[s] = Append(box[s], m)

Carries == \A c \in Client : spec'[c] = spec[c] \/ \E s \in Session : spec'[c] = Log(s)

Counts == \A c \in Client : sent'[c] \in Nat /\ sent'[c] >= sent[c]

LEMMA WaitCounts ==
  ASSUME TypeOK, NEW c \in Client, NEW s \in Session, NEW kind, Wait(c, s, kind)
  PROVE  sent'[c] = sent[c] + 1 /\ Counts
<1>1. sent \in [Client -> Nat] /\ sent' = [sent EXCEPT ![c] = @ + 1]
  BY DEF Wait, TypeOK
<1>2. \A d \in Client : sent[d] \in Nat /\ (sent'[d] = sent[d] \/ sent'[d] = sent[d] + 1)
  BY <1>1
<1> QED
  BY <1>1, <1>2 DEF Counts

LEMMA MessageOf ==
  ASSUME NEW c, NEW kind, NEW op
  PROVE  Message(c, kind, op).by = c /\ Message(c, kind, op).n = sent[c] + 1
BY DEF Message

LEMMA StartBoxes ==
  ASSUME TypeOK, NEW c \in Client, NEW s \in Session, NEW log, StartSession(c, s, log)
  PROVE  Carries /\ Counts /\ \A x \in Session : BoxKeeps(x) \/ BoxGets(x)
<1> DEFINE m == Message(c, "await", "none")
<1>1. m \in MessageType /\ m.by = c /\ m.n = sent[c] + 1
  BY TypeOfMessage, MessageOf
<1>2. spec' = spec /\ Wait(c, s, "await")
  BY DEF StartSession
<1>3. box'[s] = Append(box[s], m) /\ \A x \in Session : x # s => box'[x] = box[x]
  BY DEF StartSession, TypeOK
<1>4. sent'[c] = sent[c] + 1 /\ Counts
  BY <1>2, WaitCounts
<1> HIDE DEF m
<1>5. BoxGets(s)
  BY <1>1, <1>3, <1>4 DEF BoxGets
<1> QED
  BY <1>2, <1>3, <1>4, <1>5 DEF Carries, BoxKeeps

LEMMA StepBoxes ==
  ASSUME TypeOK, [Next]_vars
  PROVE  Carries /\ Counts /\ \A x \in Session : BoxKeeps(x) \/ BoxGets(x)
<1> DEFINE Goal == Carries /\ Counts /\ \A x \in Session : BoxKeeps(x) \/ BoxGets(x)
<1>1. ASSUME NEW c \in Client, New(c) \/ ForkStart(c) PROVE Goal
  <2>1. \E s \in Session : \E log : StartSession(c, s, log)
    BY <1>1 DEF New, ForkStart
  <2> QED
    BY <2>1, StartBoxes
<1>2. ASSUME NEW c \in Client, Send(c) PROVE Goal
  <2>1. PICK s \in Session, p \in ({"op"} \X Op) \cup ({"free", "recover", "fork"} \X {"none"}) :
          /\ box' = [box EXCEPT ![s] = Append(@, Message(c, p[1], p[2]))]
          /\ Wait(c, s, p[1])
    BY <1>2 DEF Send
  <2> DEFINE m == Message(c, p[1], p[2])
  <2>2. p[1] \in {"await", "op", "free", "recover", "fork"} /\ p[2] \in Op \cup {"none"}
    OBVIOUS
  <2>3. m \in MessageType /\ m.by = c /\ m.n = sent[c] + 1
    BY <2>2, TypeOfMessage, MessageOf
  <2>4. box'[s] = Append(box[s], m) /\ \A x \in Session : x # s => box'[x] = box[x]
    BY <2>1 DEF TypeOK
  <2>5. sent'[c] = sent[c] + 1 /\ Counts
    BY <2>1, WaitCounts
  <2>6. spec' = spec
    BY <1>2 DEF Send
  <2> HIDE DEF m
  <2>7. BoxGets(s)
    BY <2>3, <2>4, <2>5 DEF BoxGets
  <2> QED
    BY <2>4, <2>5, <2>6, <2>7 DEF Carries, BoxKeeps
<1>3. ASSUME sent' = sent PROVE Counts
  BY <1>3 DEF Counts, TypeOK
<1>4. ASSUME sent' = sent, spec' = spec, box' = box PROVE Goal
  BY <1>3, <1>4 DEF Carries, BoxKeeps
<1>5. ASSUME NEW c \in Client, Exit(c) PROVE Goal
  BY <1>4, <1>5 DEF Exit, sessionVars
<1>6. ASSUME NEW s \in Session, Boot(s) \/ InstanceDies(s) PROVE Goal
  BY <1>4, <1>6 DEF Boot, InstanceDies, clientVars
<1>7. ASSUME NEW s \in Session, ProcessDies(s) PROVE Goal
  <2>1. sent' = sent /\ spec' = spec /\ \A x \in Session : box'[x] = box[x] \/ box'[x] = <<>>
    BY <1>7 DEF ProcessDies, Stopped, clientVars, TypeOK
  <2> QED
    BY <1>3, <2>1 DEF Carries, BoxKeeps
<1>8. ASSUME NEW s \in Session, Handle(s) PROVE Goal
  <2>1. sent' = sent
    BY <1>8 DEF Handle, AwaitReady, AwaitBootError, OpLost, OpOk, OpError, OpTrapped, OpTimedOut,
                Free, Recover, ForkSpec
  <2>2. \/ box[s] # <<>> /\ box' = [box EXCEPT ![s] = Tail(@)]
        \/ box' = [box EXCEPT ![s] = <<>>]
    BY <1>8 DEF Handle, Take, AwaitReady, AwaitBootError, OpLost, OpOk, OpError, OpTrapped,
                OpTimedOut, Free, Recover, ForkSpec, Stopped
  <2>3. \A x \in Session : BoxKeeps(x)
    BY <2>2 DEF BoxKeeps, TypeOK
  <2>4. CASE ForkSpec(s)
    <3>1. spec' = spec \/ spec' = [spec EXCEPT ![Head(box[s]).by] = Log(s)]
      BY <2>4 DEF ForkSpec
    <3> QED
      BY <1>3, <2>1, <2>3, <3>1 DEF Carries, TypeOK
  <2>5. CASE ~ForkSpec(s)
    <3>1. spec' = spec
      BY <1>8, <2>5 DEF Handle, AwaitReady, AwaitBootError, OpLost, OpOk, OpError, OpTrapped,
                        OpTimedOut, Free, Recover
    <3> QED
      BY <1>3, <2>1, <2>3, <3>1 DEF Carries
  <2> QED
    BY <2>4, <2>5
<1>9. CASE UNCHANGED vars
  BY <1>4, <1>9 DEF vars
<1> QED
  BY <1>1, <1>2, <1>5, <1>6, <1>7, <1>8, <1>9 DEF Next, TimeOut, NoProcess

-----------------------------------------------------------------------------
ByCaller(r) == r.by # "fork"

Precedes(a, b) == a.by = b.by /\ ByCaller(a) /\ a.to = b.to => a.n < b.n

Ordered(q) == \A i, j \in 1..Len(q) : i < j => Precedes(q[i], q[j])

(* The messages of one caller in one mailbox.                                *)
BoxInv(s) ==
  /\ \A i \in 1..Len(box[s]) : box[s][i].n <= sent[box[s][i].by]
  /\ \A i, j \in 1..Len(box[s]) : i < j /\ box[s][i].by = box[s][j].by => box[s][i].n < box[s][j].n

(* A request that was applied, or is journaled: its session was started, and *)
(* what its caller has in that session's mailbox is younger.                 *)
Old(r) ==
  ByCaller(r) =>
    /\ r.to \in Session /\ proc[r.to] # "absent"
    /\ r.n <= sent[r.by]
    /\ \A i \in 1..Len(box[r.to]) : box[r.to][i].by = r.by => r.n < box[r.to][i].n

Seen == UNION ({Requests(guest[s]) : s \in Session} \cup {Requests(journal[s]) : s \in Session}
               \cup {Requests(spec[c]) : c \in Client})

OrderInv ==
  /\ \A s \in Session : BoxInv(s) /\ Ordered(guest[s]) /\ Ordered(Log(s))
  /\ \A c \in Client : Ordered(spec[c])
  /\ \A r \in Seen : Old(r)

LEMMA OrderedAppend ==
  ASSUME NEW S, NEW q \in Seq(S), NEW r \in S, Ordered(q),
         \A a \in Requests(q) : Precedes(a, r)
  PROVE  Ordered(Append(q, r))
<1>1. Len(q) \in Nat /\ Len(Append(q, r)) = Len(q) + 1
  OBVIOUS
<1>2. \A i \in 1..Len(q) : Append(q, r)[i] = q[i] /\ q[i] \in Requests(q)
  <2>1. DOMAIN q = 1..Len(q)
    OBVIOUS
  <2> QED
    BY <2>1 DEF Requests
<1>3. Append(q, r)[Len(q) + 1] = r
  OBVIOUS
<1>4. ASSUME NEW i \in 1..(Len(q) + 1), NEW j \in 1..(Len(q) + 1), i < j
      PROVE  Precedes(Append(q, r)[i], Append(q, r)[j])
  <2>1. i \in 1..Len(q) /\ (j \in 1..Len(q) \/ j = Len(q) + 1)
    BY <1>1, <1>4
  <2>2. CASE j \in 1..Len(q)
    BY <1>2, <1>4, <2>1, <2>2 DEF Ordered
  <2>3. CASE j = Len(q) + 1
    BY <1>2, <1>3, <2>1, <2>3
  <2> QED
    BY <2>1, <2>2, <2>3
<1> QED
  BY <1>1, <1>4 DEF Ordered

LEMMA BoxNext ==
  ASSUME TypeOK, NEW s \in Session, BoxInv(s), Counts, BoxKeeps(s) \/ BoxGets(s)
  PROVE  BoxInv(s)'
<1> DEFINE q == box[s]
<1>1. q \in Seq(MessageType) /\ Len(q) \in Nat
  BY DEF TypeOK
<1>2. \A i \in 1..Len(q) : q[i].by \in Client /\ q[i].n \in Nat
  <2>1. \A i \in 1..Len(q) : q[i] \in MessageType
    BY <1>1
  <2> QED
    BY <2>1 DEF MessageType
<1>3. \A i \in 1..Len(q) : q[i].n <= sent[q[i].by] /\ q[i].n <= sent'[q[i].by]
  <2> TAKE i \in 1..Len(q)
  <2>1. /\ q[i].n <= sent[q[i].by] /\ sent[q[i].by] \in Nat
        /\ sent'[q[i].by] \in Nat /\ sent'[q[i].by] >= sent[q[i].by]
    BY <1>2 DEF BoxInv, Counts, TypeOK
  <2> QED
    BY <1>2, <2>1
<1>4. \A i, j \in 1..Len(q) : i < j /\ q[i].by = q[j].by => q[i].n < q[j].n
  BY DEF BoxInv
<1> HIDE DEF q
<1>5. CASE box'[s] = q
  BY <1>3, <1>4, <1>5 DEF BoxInv
<1>6. CASE box'[s] = <<>>
  BY <1>6 DEF BoxInv
<1>7. CASE q # <<>> /\ box'[s] = Tail(q)
  <2>1. Len(Tail(q)) = Len(q) - 1 /\ \A i \in 1..(Len(q) - 1) : Tail(q)[i] = q[i + 1]
    BY <1>1, <1>7
  <2>2. \A i \in 1..(Len(q) - 1) : i + 1 \in 1..Len(q)
    BY <1>1
  <2>3. \A i, j \in 1..(Len(q) - 1) : i < j => i + 1 < j + 1
    BY <1>1
  <2>4. \A i \in 1..Len(Tail(q)) : Tail(q)[i].n <= sent'[Tail(q)[i].by]
    BY <1>3, <2>1, <2>2
  <2>5. \A i, j \in 1..Len(Tail(q)) :
          i < j /\ Tail(q)[i].by = Tail(q)[j].by => Tail(q)[i].n < Tail(q)[j].n
    BY <1>4, <2>1, <2>2, <2>3
  <2> QED
    BY <1>7, <2>4, <2>5 DEF BoxInv
<1>8. ASSUME NEW m \in MessageType, m.n = sent[m.by] + 1, sent'[m.by] = sent[m.by] + 1,
             box'[s] = Append(q, m)
      PROVE  BoxInv(s)'
  <2>1. m.by \in Client /\ m.n \in Nat /\ sent[m.by] \in Nat
    BY DEF MessageType, TypeOK
  <2>2. Len(Append(q, m)) = Len(q) + 1 /\ Append(q, m)[Len(q) + 1] = m
    BY <1>1
  <2>3. \A i \in 1..Len(q) : Append(q, m)[i] = q[i]
    BY <1>1
  <2>4. \A i \in 1..(Len(q) + 1) : i \in 1..Len(q) \/ i = Len(q) + 1
    BY <1>1
  <2>5. \A i \in 1..Len(Append(q, m)) : Append(q, m)[i].n <= sent'[Append(q, m)[i].by]
    BY <1>3, <1>8, <2>1, <2>2, <2>3, <2>4
  <2>6. \A i \in 1..Len(q) : q[i].by = m.by => q[i].n < m.n
    BY <1>2, <1>3, <1>8, <2>1
  <2>7. ASSUME NEW i \in 1..(Len(q) + 1), NEW j \in 1..(Len(q) + 1), i < j,
               Append(q, m)[i].by = Append(q, m)[j].by
        PROVE  Append(q, m)[i].n < Append(q, m)[j].n
    <3>1. i \in 1..Len(q)
      BY <1>1, <2>7
    <3>2. CASE j \in 1..Len(q)
      BY <1>4, <2>3, <2>7, <3>1, <3>2
    <3>3. CASE j = Len(q) + 1
      BY <2>2, <2>3, <2>6, <2>7, <3>1, <3>3
    <3> QED
      BY <2>4, <3>2, <3>3
  <2> QED
    BY <1>8, <2>2, <2>5, <2>7 DEF BoxInv
<1> QED
  BY <1>5, <1>6, <1>7, <1>8 DEF BoxKeeps, BoxGets, q

LEMMA SeenTyped ==
  ASSUME TypeOK, NEW r \in Seen
  PROVE  r \in RequestType /\ (ByCaller(r) => r.by \in Client /\ r.n \in Nat)
<1>1. ASSUME NEW q \in Seq(RequestType), r \in Requests(q) PROVE r \in RequestType
  <2>1. DOMAIN q = 1..Len(q) /\ \A i \in 1..Len(q) : q[i] \in RequestType
    OBVIOUS
  <2> QED
    BY <1>1, <2>1 DEF Requests
<1>2. r \in RequestType
  BY <1>1 DEF Seen, TypeOK
<1> QED
  BY <1>2 DEF RequestType, DropPlan, ByCaller

LEMMA ProcNext ==
  ASSUME NEW s \in Session, Moves(s), proc[s] # "absent"
  PROVE  proc'[s] # "absent"
BY DEF Moves, Rests, Begins, Loses, Loads, Applies, Blurs, Stops, Handles

LEMMA OldNext ==
  ASSUME TypeOK, NEW r \in Seen, Old(r), ByCaller(r), Counts, \A s \in Session : Moves(s),
         \A s \in Session : BoxKeeps(s) \/ BoxGets(s)
  PROVE  Old(r)'
<1> DEFINE s == r.to
           q == box[s]
<1>1. /\ s \in Session /\ proc[s] # "absent" /\ r.n <= sent[r.by]
      /\ \A i \in 1..Len(q) : q[i].by = r.by => r.n < q[i].n
  BY DEF Old
<1>2. q \in Seq(MessageType) /\ Len(q) \in Nat
  BY <1>1 DEF TypeOK
<1>3. r.by \in Client /\ r.n \in Nat /\ sent[r.by] \in Nat /\ sent'[r.by] \in Nat
      /\ sent'[r.by] >= sent[r.by]
  BY SeenTyped DEF Counts, TypeOK
<1>4. proc'[s] # "absent"
  BY <1>1, ProcNext
<1>5. r.n <= sent'[r.by]
  BY <1>1, <1>3
<1>6. BoxKeeps(s) \/ BoxGets(s)
  BY <1>1
<1>7. \A i \in 1..Len(box'[s]) : box'[s][i].by = r.by => r.n < box'[s][i].n
  <2> HIDE DEF s
  <2>1. CASE box'[s] = q \/ box'[s] = <<>>
    BY <1>1, <2>1
  <2>2. CASE q # <<>> /\ box'[s] = Tail(q)
    <3> HIDE DEF q
    <3>1. Len(Tail(q)) = Len(q) - 1 /\ \A i \in 1..(Len(q) - 1) : Tail(q)[i] = q[i + 1]
      BY <1>2, <2>2
    <3>2. \A i \in 1..(Len(q) - 1) : i + 1 \in 1..Len(q)
      BY <1>2
    <3> QED
      BY <1>1, <2>2, <3>1, <3>2
  <2>3. ASSUME NEW m \in MessageType, m.n = sent[m.by] + 1, box'[s] = Append(q, m)
        PROVE  \A i \in 1..Len(box'[s]) : box'[s][i].by = r.by => r.n < box'[s][i].n
    <3> HIDE DEF q
    <3>1. /\ Len(Append(q, m)) = Len(q) + 1 /\ Append(q, m)[Len(q) + 1] = m
          /\ \A i \in 1..Len(q) : Append(q, m)[i] = q[i]
      BY <1>2
    <3>2. \A i \in 1..(Len(q) + 1) : i \in 1..Len(q) \/ i = Len(q) + 1
      BY <1>2
    <3>3. m.by = r.by => r.n < m.n
      BY <1>1, <1>3, <2>3
    <3> QED
      BY <1>1, <2>3, <3>1, <3>2, <3>3
  <2> QED
    BY <1>6, <2>1, <2>2, <2>3 DEF BoxKeeps, BoxGets
<1> QED
  BY <1>1, <1>4, <1>5, <1>7 DEF Old

LEMMA ActingOld ==
  ASSUME TypeOK, NEW s \in Session, BoxInv(s), Handles(s), Counts, NEW r, r = Acting(s)
  PROVE  Old(r)'
<1> DEFINE q == box[s]
<1>1. q \in Seq(MessageType) /\ Len(q) \in Nat /\ q # <<>> /\ box'[s] = Tail(q)
  BY DEF Handles, TypeOK
<1>2. r.to = s /\ r.by = q[1].by /\ r.n = q[1].n
  BY <1>1 DEF Acting, Request
<1>3. 1 \in 1..Len(q)
  BY <1>1
<1>4. r.by \in Client /\ r.n \in Nat
  BY <1>1, <1>2, TypeOfHead
<1>5. r.n <= sent'[r.by]
  <2>1. r.n <= sent[r.by] /\ sent[r.by] \in Nat /\ sent'[r.by] \in Nat /\ sent'[r.by] >= sent[r.by]
    BY <1>2, <1>3, <1>4 DEF BoxInv, Counts, TypeOK
  <2> QED
    BY <1>4, <2>1
<1>6. proc'[s] # "absent"
  BY DEF Handles
<1>7. \A i \in 1..Len(Tail(q)) : Tail(q)[i].by = r.by => r.n < Tail(q)[i].n
  <2>1. Len(Tail(q)) = Len(q) - 1 /\ \A i \in 1..(Len(q) - 1) : Tail(q)[i] = q[i + 1]
    BY <1>1
  <2>2. \A i \in 1..(Len(q) - 1) : i + 1 \in 1..Len(q) /\ 1 < i + 1
    BY <1>1
  <2>3. \A i, j \in 1..Len(q) : i < j /\ q[i].by = q[j].by => q[i].n < q[j].n
    BY DEF BoxInv
  <2> HIDE DEF q
  <2> QED
    BY <1>2, <1>3, <2>1, <2>2, <2>3
<1>8. \A i \in 1..Len(box'[s]) : box'[s][i].by = r.by => r.n < box'[s][i].n
  BY <1>1, <1>7
<1> QED
  BY <1>2, <1>5, <1>6, <1>8 DEF Old

LEMMA NothingSeen == Requests(<<>>) = {} /\ Ordered(<<>>) /\ Reverse(<<>>) = <<>>
<1>1. Len(Reverse(<<>>)) = 0 /\ Reverse(<<>>) \in Seq({})
  <2>1. <<>> \in Seq({}) /\ Len(<<>>) = 0
    OBVIOUS
  <2> QED
    BY <2>1, ReverseType
<1>2. Reverse(<<>>) = <<>>
  BY <1>1
<1> QED
  BY <1>2 DEF Requests, Ordered

LEMMA SeenOfSession ==
  ASSUME TypeOK, NEW s \in Session, Moves(s),
         NEW r \in Requests(guest'[s]) \cup Requests(journal'[s])
  PROVE  r \in Seen \/ ~ByCaller(r) \/ (Handles(s) /\ r = Acting(s))
<1>1. /\ guest[s] \in Seq(RequestType) /\ Requests(guest[s]) \subseteq Seen
      /\ Requests(journal[s]) \subseteq Seen
  BY DEF TypeOK, Seen
<1>2. ASSUME Handles(s)
      PROVE  Requests(Append(guest[s], Acting(s))) = Requests(guest[s]) \cup {Acting(s)}
  <2>1. Acting(s) \in RequestType
    BY <1>2, TypeOfHead DEF Handles, Acting
  <2> QED
    BY <1>1, <2>1, RequestsOfAppend
<1>3. CASE Rests(s)
  BY <1>1, <1>3 DEF Rests, SameJournal, SameInstance
<1>4. CASE Begins(s)
  <2>1. guest'[s] = guest[s]
    BY <1>4 DEF Begins, SameInstance
  <2>2. PICK log \in Seq(RequestType) :
          /\ \/ log = <<>>
             \/ \E c \in Client : log = spec[c] \/ log = Append(spec[c], DropPlan)
          /\ journal'[s] = Reverse(log)
    BY <1>4 DEF Begins
  <2>3. Requests(journal'[s]) = Requests(log)
    BY <2>2, RequestsOfReverse
  <2>4. CASE log = <<>>
    BY <1>1, <2>1, <2>3, <2>4, NothingSeen
  <2>5. ASSUME NEW c \in Client, log = spec[c] \/ log = Append(spec[c], DropPlan)
        PROVE  \A x \in Requests(log) : x \in Seen \/ ~ByCaller(x)
    <3>1. spec[c] \in Seq(RequestType) /\ DropPlan \in RequestType /\ ~ByCaller(DropPlan)
      BY DEF TypeOK, RequestType, DropPlan, ByCaller
    <3>2. Requests(Append(spec[c], DropPlan)) = Requests(spec[c]) \cup {DropPlan}
      BY <3>1, RequestsOfAppend
    <3>3. Requests(spec[c]) \subseteq Seen
      BY DEF Seen
    <3> QED
      BY <2>5, <3>1, <3>2, <3>3
  <2> QED
    BY <1>1, <2>1, <2>2, <2>3, <2>4, <2>5
<1>5. CASE Loses(s) \/ Stops(s)
  BY <1>1, <1>5, NothingSeen DEF Loses, Stops, Dropped, SameJournal
<1>6. CASE Loads(s)
  BY <1>1, <1>6, LogOf DEF Loads, SameJournal
<1>7. CASE Applies(s)
  <2>1. Requests(journal'[s]) = Requests(journal[s]) \cup {Acting(s)} /\ Handles(s)
    BY <1>7, JournalGrows DEF Applies
  <2>2. guest'[s] = <<>> \/ guest'[s] = Append(guest[s], Acting(s))
    BY <1>7 DEF Applies, Dropped
  <2> QED
    BY <1>1, <1>2, <2>1, <2>2, NothingSeen
<1>8. CASE Blurs(s)
  BY <1>1, <1>2, <1>8 DEF Blurs, SameJournal
<1> QED
  BY <1>3, <1>4, <1>5, <1>6, <1>7, <1>8 DEF Moves

LEMMA SeenNext ==
  ASSUME TypeOK, Carries, \A s \in Session : Moves(s), NEW r \in Seen'
  PROVE  r \in Seen \/ ~ByCaller(r) \/ \E s \in Session : Handles(s) /\ r = Acting(s)
<1>1. CASE \E s \in Session : r \in Requests(guest'[s]) \cup Requests(journal'[s])
  BY <1>1, SeenOfSession
<1>2. CASE \E c \in Client : r \in Requests(spec'[c])
  <2>1. PICK c \in Client : r \in Requests(spec'[c])
    BY <1>2
  <2>2. CASE spec'[c] = spec[c]
    BY <2>1, <2>2 DEF Seen
  <2>3. ASSUME NEW s \in Session, spec'[c] = Log(s) PROVE r \in Seen
    BY <2>1, <2>3, LogOf DEF Seen
  <2> QED
    BY <2>2, <2>3 DEF Carries
<1>3. r \in UNION ({Requests(guest'[s]) : s \in Session} \cup {Requests(journal'[s]) : s \in Session}
                   \cup {Requests(spec'[c]) : c \in Client})
  BY DEF Seen, Requests
<1> QED
  BY <1>1, <1>2, <1>3

LEMMA OrderedNext ==
  ASSUME TypeOK, NEW s \in Session, OrderInv, GuestInv(s), Moves(s)
  PROVE  Ordered(guest'[s]) /\ Ordered(Log(s)')
<1>1. /\ guest[s] \in Seq(RequestType) /\ Log(s) \in Seq(RequestType)
      /\ Ordered(guest[s]) /\ Ordered(Log(s)) /\ BoxInv(s)
      /\ Requests(guest[s]) \subseteq Seen /\ Requests(Log(s)) \subseteq Seen
  BY LogOf DEF TypeOK, OrderInv, Seen
<1>2. ASSUME Handles(s) PROVE \A a \in Seen : Precedes(a, Acting(s))
  <2> TAKE a \in Seen
  <2> SUFFICES ASSUME a.by = Acting(s).by, ByCaller(a), a.to = Acting(s).to
               PROVE  a.n < Acting(s).n
    BY DEF Precedes
  <2>1. box[s] \in Seq(MessageType) /\ box[s] # <<>>
    BY <1>2 DEF Handles, TypeOK
  <2>2. Acting(s).to = s /\ Acting(s).by = box[s][1].by /\ Acting(s).n = box[s][1].n
    BY <2>1 DEF Acting, Request
  <2>3. 1 \in 1..Len(box[s])
    BY <2>1
  <2>4. \A i \in 1..Len(box[a.to]) : box[a.to][i].by = a.by => a.n < box[a.to][i].n
    BY DEF OrderInv, Old
  <2> QED
    BY <2>2, <2>3, <2>4
<1>3. ASSUME Handles(s) PROVE Ordered(Append(guest[s], Acting(s))) /\ Ordered(Append(Log(s), Acting(s)))
  <2>1. Acting(s) \in RequestType
    BY <1>3, TypeOfHead DEF Handles, Acting
  <2> QED
    BY <1>1, <1>2, <1>3, <2>1, OrderedAppend
<1>4. CASE Rests(s)
  BY <1>1, <1>4, LogOf DEF Rests, SameInstance
<1>5. CASE Begins(s)
  <2>1. guest'[s] = guest[s]
    BY <1>5 DEF Begins, SameInstance
  <2>2. PICK log \in Seq(RequestType) :
          /\ \/ log = <<>>
             \/ \E c \in Client : log = spec[c] \/ log = Append(spec[c], DropPlan)
          /\ journal'[s] = Reverse(log)
    BY <1>5 DEF Begins
  <2>3. Log(s)' = log
    BY <2>2, ReverseTwice DEF Log
  <2>4. ASSUME NEW c \in Client PROVE Ordered(spec[c]) /\ Ordered(Append(spec[c], DropPlan))
    <3>1. spec[c] \in Seq(RequestType) /\ DropPlan \in RequestType
      BY DEF TypeOK, RequestType
    <3>2. Ordered(spec[c])
      BY DEF OrderInv
    <3>3. \A a \in Requests(spec[c]) : Precedes(a, DropPlan)
      BY DEF Precedes, ByCaller, DropPlan
    <3> QED
      BY <3>1, <3>2, <3>3, OrderedAppend
  <2> QED
    BY <1>1, <2>1, <2>2, <2>3, <2>4, NothingSeen
<1>6. CASE Loses(s)
  BY <1>1, <1>6, LogOf, NothingSeen DEF Loses, Dropped
<1>7. CASE Stops(s)
  <2>1. Log(s)' = <<>> /\ guest'[s] = <<>>
    BY <1>7, NothingSeen DEF Stops, Dropped, Log
  <2> QED
    BY <2>1, NothingSeen
<1>8. CASE Loads(s)
  BY <1>1, <1>8, LogOf DEF Loads
<1>9. CASE Applies(s)
  <2>1. Ordered(Log(s)')
    BY <1>3, <1>9, LogOf DEF Applies
  <2>2. guest'[s] = <<>> \/ guest'[s] = Append(guest[s], Acting(s))
    BY <1>9 DEF Applies, Dropped
  <2> QED
    BY <1>3, <1>9, <2>1, <2>2, NothingSeen DEF Applies
<1>10. CASE Blurs(s)
  BY <1>1, <1>3, <1>10, LogOf DEF Blurs
<1> QED
  BY <1>4, <1>5, <1>6, <1>7, <1>8, <1>9, <1>10 DEF Moves

LEMMA OrderNext ==
  ASSUME SessionInv, OrderInv, [Next]_vars
  PROVE  OrderInv'
<1>1. TypeOK /\ Carries /\ Counts /\ \A s \in Session : Moves(s) /\ (BoxKeeps(s) \/ BoxGets(s))
  BY StepMoves, StepBoxes DEF SessionInv
<1>2. \A s \in Session : BoxInv(s)'
  BY <1>1, BoxNext DEF OrderInv
<1>3. \A s \in Session : Ordered(guest'[s]) /\ Ordered(Log(s)')
  BY <1>1, OrderedNext DEF SessionInv
<1>4. \A c \in Client : Ordered(spec'[c])
  BY <1>1 DEF OrderInv, Carries
<1>5. ASSUME NEW r \in Seen' PROVE Old(r)'
  <2>1. CASE ~ByCaller(r)
    BY <2>1 DEF Old
  <2>2. CASE r \in Seen /\ ByCaller(r)
    BY <1>1, <2>2, OldNext DEF OrderInv
  <2>3. ASSUME NEW s \in Session, Handles(s), r = Acting(s) PROVE Old(r)'
    BY <1>1, <2>3, ActingOld DEF OrderInv
  <2> QED
    BY <1>1, <2>1, <2>2, <2>3, SeenNext
<1>6. \A s \in Session : Ordered(guest[s])' /\ Ordered(Log(s))'
  BY <1>3 DEF Ordered, Precedes, ByCaller
<1>7. \A c \in Client : Ordered(spec[c])'
  BY <1>4 DEF Ordered, Precedes, ByCaller
<1> QED
  BY <1>2, <1>5, <1>6, <1>7 DEF OrderInv

LEMMA OrderStart == Init => OrderInv
<1> SUFFICES ASSUME Init PROVE OrderInv
  OBVIOUS
<1>1. /\ \A s \in Session : guest[s] = <<>> /\ journal[s] = <<>> /\ box[s] = <<>>
      /\ \A c \in Client : spec[c] = <<>>
  BY DEF Init
<1>2. \A s \in Session : Log(s) = <<>>
  BY <1>1, NothingSeen DEF Log
<1>3. Seen = {}
  BY <1>1, NothingSeen DEF Seen
<1> QED
  BY <1>1, <1>2, <1>3, NothingSeen DEF OrderInv, BoxInv

(* A request takes effect at most once in an instance, and the requests of   *)
(* one caller in the order it made them.                                     *)
THEOREM SessionEffectsInOrder == Spec => []EffectsInOrder
<1>1. SessionInv /\ OrderInv => EffectsInOrder
  <2> SUFFICES ASSUME SessionInv, OrderInv, NEW s \in Session,
                      NEW i \in DOMAIN guest[s], NEW j \in DOMAIN guest[s],
                      i < j, guest[s][i].by = guest[s][j].by, guest[s][i].by # "fork",
                      guest[s][i].to = guest[s][j].to
               PROVE  guest[s][i].n < guest[s][j].n
    BY DEF EffectsInOrder
  <2>1. guest[s] \in Seq(RequestType)
    BY DEF SessionInv, TypeOK
  <2>2. DOMAIN guest[s] = 1..Len(guest[s])
    BY <2>1
  <2>3. Precedes(guest[s][i], guest[s][j])
    BY <2>2 DEF OrderInv, Ordered
  <2> QED
    BY <2>3 DEF Precedes, ByCaller
<1>2. SessionInv /\ OrderInv /\ [Next]_vars => OrderInv'
  BY OrderNext
<1> QED
  BY <1>1, <1>2, OrderStart, SessionInvariant, PTL DEF Spec

=============================================================================
