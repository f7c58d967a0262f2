--------------------------- MODULE WasmHostProofs ---------------------------
(* Theorems about WasmHost, for any callers, any requests and any number of  *)
(* faults.  HostInv, BoxInv and ClientInv are inductive together; PaidFor    *)
(* and FailuresMet rest on them.                                             *)
EXTENDS WasmHost, FiniteSetTheorems, TLAPS

(* What RestartsCounted and OnlyOwnedLives need to be inductive: a Host that *)
(* is down holds nothing, and one that holds an instance has booted it.      *)
HostInv ==
  /\ hostUp \in BOOLEAN /\ refused \in BOOLEAN
  /\ booted \in Nat /\ restarts \in Nat
  /\ inst \in 0..booted
  /\ firstBoot \in 0..booted
  /\ ~hostUp => inst = 0
  /\ inst # 0 => booted > firstBoot
  /\ hostUp => (refused <=> inst = 0)
  /\ OnlyOwnedLives
  /\ RestartsCounted

(* An exit in the mailbox is that of an instance that is dead for good: so   *)
(* the Host that takes one and finds its own instance named has nothing else *)
(* running when it boots the next.                                           *)
BoxInv ==
  /\ box \in Seq(Message)
  /\ \A i \in DOMAIN box : box[i].kind = "exit" => box[i].inst \in (1..booted) \ alive
  /\ using \in [Client -> Nat]

(* Instances are only added under new numbers.                               *)
InstancesAreFresh ==
  booted' \in Nat /\ booted' >= booted /\ alive' \subseteq alive \cup ((booted + 1)..booted')

LEMMA BoxShrinks ==
  ASSUME BoxInv, booted \in Nat, InstancesAreFresh, using' \in [Client -> Nat],
         box' = box \/ box' = <<>> \/ (box # <<>> /\ box' = Tail(box))
  PROVE  BoxInv'
<1>1. box' \in Seq(Message)
  <2>1. box \in Seq(Message)
    BY DEF BoxInv
  <2>2. CASE box # <<>> /\ box' = Tail(box)
    BY <2>1, <2>2
  <2>3. CASE box' = <<>>
    BY <2>3
  <2>4. CASE box' = box
    BY <2>1, <2>4
  <2> QED
    BY <2>2, <2>3, <2>4
<1>2. ASSUME NEW i \in DOMAIN box' PROVE \E j \in DOMAIN box : box'[i] = box[j]
  <2>1. CASE box' = box
    BY <2>1, <1>2
  <2>2. CASE box' = <<>>
    BY <2>2, <1>2
  <2>3. CASE box # <<>> /\ box' = Tail(box)
    <3>1. i + 1 \in DOMAIN box /\ box'[i] = box[i + 1]
      BY <2>3, <1>2 DEF BoxInv
    <3> QED
      BY <3>1
  <2> QED
    BY <2>1, <2>2, <2>3
<1>3. ASSUME NEW i \in DOMAIN box', box'[i].kind = "exit"
      PROVE  box'[i].inst \in (1..booted') \ alive'
  <2>1. PICK j \in DOMAIN box : box'[i] = box[j]
    BY <1>2
  <2>2. box[j].inst \in (1..booted) \ alive
    BY <1>3, <2>1 DEF BoxInv
  <2> QED
    BY <2>1, <2>2 DEF InstancesAreFresh
<1> QED
  BY <1>1, <1>3 DEF BoxInv

LEMMA BoxGrows ==
  ASSUME BoxInv, booted \in Nat, InstancesAreFresh, UNCHANGED using,
         NEW m \in Message, box' = Append(box, m),
         m.kind = "exit" => m.inst \in (1..booted') \ alive'
  PROVE  BoxInv'
<1>1. box' \in Seq(Message)
  BY DEF BoxInv
<1>2. ASSUME NEW i \in DOMAIN box', box'[i].kind = "exit"
      PROVE  box'[i].inst \in (1..booted') \ alive'
  <2>1. CASE i = Len(box) + 1
    BY <1>2, <2>1 DEF BoxInv
  <2>2. CASE i # Len(box) + 1
    <3>1. i \in DOMAIN box /\ box'[i] = box[i]
      BY <1>2, <2>2 DEF BoxInv
    <3>2. box[i].inst \in (1..booted) \ alive
      BY <1>2, <3>1 DEF BoxInv
    <3> QED
      BY <3>1, <3>2 DEF InstancesAreFresh
  <2> QED
    BY <2>1, <2>2
<1> QED
  BY <1>1, <1>2 DEF BoxInv

(* boot/1, called for an instance that is being replaced.                    *)
LEMMA BootKeeps ==
  ASSUME HostInv, hostUp, inst # 0, Boot({}, TRUE), UNCHANGED <<hostUp, firstBoot>>
  PROVE  HostInv'
<1>1. CASE booted' = booted + 1 /\ inst' = booted + 1 /\ alive' = {booted + 1}
             /\ refused' = FALSE /\ restarts' = restarts + 1
  <2>1. OnlyOwnedLives'
    BY <1>1 DEF OnlyOwnedLives, HostInv
  <2>2. RestartsCounted'
    BY <1>1 DEF HostInv, RestartsCounted
  <2>3. hostUp' \in BOOLEAN /\ refused' \in BOOLEAN
    BY <1>1 DEF HostInv
  <2> QED
    BY <1>1, <2>1, <2>2, <2>3 DEF HostInv
<1>2. CASE inst' = 0 /\ alive' = {} /\ refused' = TRUE /\ restarts' = restarts
             /\ UNCHANGED booted
  <2>1. OnlyOwnedLives'
    BY <1>2 DEF OnlyOwnedLives
  <2>2. RestartsCounted'
    BY <1>2 DEF HostInv, RestartsCounted
  <2>3. hostUp' \in BOOLEAN /\ refused' \in BOOLEAN
    BY <1>2 DEF HostInv
  <2> QED
    BY <1>2, <2>1, <2>2, <2>3 DEF HostInv
<1> QED
  BY <1>1, <1>2 DEF Boot, Bump

(* ensure_alive/1 replaces only an instance that is dead, so nothing is left *)
(* alive beside it.                                                          *)
LEMMA EnsureAliveKeeps ==
  ASSUME HostInv, hostUp, EnsureAlive, UNCHANGED <<hostUp, firstBoot>>
  PROVE  HostInv'
<1>1. CASE inst # 0 /\ inst \notin alive
  <2>1. alive = {}
    BY <1>1 DEF HostInv, OnlyOwnedLives
  <2>2. Boot(alive, TRUE)
    BY <1>1 DEF EnsureAlive
  <2> QED
    BY <1>1, <2>1, <2>2, BootKeeps
<1>2. CASE ~(inst # 0 /\ inst \notin alive)
  <2>1. UNCHANGED <<inst, refused, restarts, booted, alive>>
    BY <1>2 DEF EnsureAlive
  <2> QED
    BY <2>1 DEF HostInv, OnlyOwnedLives, RestartsCounted
<1> QED
  BY <1>1, <1>2

(* A step that leaves the Host and the instances alone.                      *)
LEMMA FrameKeeps ==
  ASSUME HostInv, UNCHANGED <<hostUp, inst, refused, restarts, firstBoot, booted, alive>>
  PROVE  HostInv'
  BY DEF HostInv, OnlyOwnedLives, RestartsCounted

LEMMA HostInvInit == Init => HostInv
<1> SUFFICES ASSUME Init PROVE HostInv
  OBVIOUS
<1>1. hostUp \in BOOLEAN /\ refused \in BOOLEAN /\ OnlyOwnedLives /\ RestartsCounted
  BY DEF Init, OnlyOwnedLives, RestartsCounted
<1> QED
  BY <1>1 DEF Init, HostInv

LEMMA HostInvStep == HostInv /\ BoxInv /\ [Next]_vars => HostInv'
<1> SUFFICES ASSUME HostInv, BoxInv, [Next]_vars
             PROVE  HostInv'
  OBVIOUS
<1>1. CASE HostStarts
  <2>1. inst = 0 /\ alive = {}
    BY <1>1 DEF HostStarts, HostInv, OnlyOwnedLives
  <2>2. hostUp' = TRUE /\ firstBoot' = booted /\ restarts' = 0
    BY <1>1 DEF HostStarts
  <2>3. CASE booted' = booted + 1 /\ inst' = booted + 1 /\ alive' = {booted + 1} /\ refused' = FALSE
    <3>1. OnlyOwnedLives' /\ RestartsCounted'
      BY <2>2, <2>3 DEF HostInv, OnlyOwnedLives, RestartsCounted
    <3>2. hostUp' \in BOOLEAN /\ refused' \in BOOLEAN
      BY <2>2, <2>3
    <3> QED
      BY <2>2, <2>3, <3>1, <3>2 DEF HostInv
  <2>4. CASE inst' = 0 /\ refused' = TRUE /\ booted' = booted /\ alive' = {}
    <3>1. OnlyOwnedLives' /\ RestartsCounted'
      BY <2>2, <2>4 DEF HostInv, OnlyOwnedLives, RestartsCounted
    <3>2. hostUp' \in BOOLEAN /\ refused' \in BOOLEAN
      BY <2>2, <2>4
    <3> QED
      BY <2>2, <2>4, <3>1, <3>2 DEF HostInv
  <2> QED
    BY <1>1, <2>1, <2>3, <2>4 DEF HostStarts
<1>2. CASE HandleInstance
  BY <1>2, EnsureAliveKeeps DEF HandleInstance, Take
<1>3. CASE HandleRebuild
  <2>1. hostUp /\ UNCHANGED <<hostUp, firstBoot>>
    BY <1>3 DEF HandleRebuild, Take
  <2>2. CASE Names(Head(box).inst)
    <3>1. inst # 0 /\ Drop(inst) = {}
      BY <2>2 DEF Names, Drop, HostInv, OnlyOwnedLives
    <3>2. Boot(Drop(inst), TRUE)
      BY <1>3, <2>2 DEF HandleRebuild
    <3> QED
      BY <2>1, <3>1, <3>2, BootKeeps
  <2>3. CASE ~Names(Head(box).inst)
    BY <1>3, <2>1, <2>3, EnsureAliveKeeps DEF HandleRebuild
  <2> QED
    BY <2>2, <2>3
<1>4. CASE HandleExit
  <2>1. hostUp /\ UNCHANGED <<hostUp, firstBoot>>
    BY <1>4 DEF HandleExit, Take
  <2>2. CASE inst # 0 /\ Head(box).inst = inst
    <3>1. Boot(alive, TRUE)
      BY <1>4, <2>2 DEF HandleExit
    <3>2. Head(box).kind = "exit" /\ box # <<>>
      BY <1>4 DEF HandleExit, Take
    <3>3. 1 \in DOMAIN box /\ Head(box) = box[1]
      BY <3>2 DEF BoxInv
    <3>4. inst \notin alive
      BY <2>2, <3>2, <3>3 DEF BoxInv
    <3>5. alive = {}
      BY <3>4 DEF HostInv, OnlyOwnedLives
    <3> QED
      BY <2>1, <2>2, <3>1, <3>5, BootKeeps
  <2>3. CASE ~(inst # 0 /\ Head(box).inst = inst)
    <3>1. UNCHANGED <<inst, refused, restarts, booted, alive>>
      BY <1>4, <2>3 DEF HandleExit
    <3> QED
      BY <2>1, <3>1, FrameKeeps
  <2> QED
    BY <2>2, <2>3
<1>5. CASE \E c \in Client : Invoke(c)
  <2>1. UNCHANGED <<hostUp, inst, refused, restarts, firstBoot, booted, alive>>
    BY <1>5 DEF Invoke, Ask, Unavailable, CallReturns, Retry, RetryWithoutRebuild,
                GiveUp, CallTimesOut, hostVars, instVars
  <2> QED
    BY <2>1, FrameKeeps
<1>6. CASE InstanceDies
  BY <1>6 DEF InstanceDies, HostInv, OnlyOwnedLives, RestartsCounted
<1>7. CASE HostDies
  <2>1. hostUp' = FALSE /\ inst' = 0 /\ refused' = FALSE /\ restarts' = 0
        /\ UNCHANGED <<firstBoot, booted>>
    BY <1>7 DEF HostDies
  <2>2. alive' = {}
    BY <1>7 DEF HostDies, HostInv, OnlyOwnedLives
  <2>3. OnlyOwnedLives' /\ RestartsCounted' /\ hostUp' \in BOOLEAN /\ refused' \in BOOLEAN
    BY <2>1, <2>2 DEF OnlyOwnedLives, RestartsCounted
  <2> QED
    BY <2>1, <2>2, <2>3 DEF HostInv
<1>8. CASE UNCHANGED vars
  BY <1>8, FrameKeeps DEF vars
<1> QED
  BY <1>1, <1>2, <1>3, <1>4, <1>5, <1>6, <1>7, <1>8 DEF Next, Host

LEMMA BootIsFresh ==
  ASSUME booted \in Nat, NEW kept \in SUBSET alive, NEW bump, Boot(kept, bump)
  PROVE  InstancesAreFresh /\ inst' \in Nat
<1>1. CASE booted' = booted + 1 /\ inst' = booted + 1 /\ alive' = kept \cup {booted + 1}
  BY <1>1 DEF InstancesAreFresh
<1>2. CASE booted' = booted /\ inst' = 0 /\ alive' = kept
  BY <1>2 DEF InstancesAreFresh
<1> QED
  BY <1>1, <1>2 DEF Boot

LEMMA EnsureAliveIsFresh ==
  ASSUME booted \in Nat, inst \in Nat, EnsureAlive
  PROVE  InstancesAreFresh /\ inst' \in Nat
<1>1. CASE inst # 0 /\ inst \notin alive
  <2>1. Boot(alive, TRUE)
    BY <1>1 DEF EnsureAlive
  <2> QED
    BY <2>1, BootIsFresh
<1>2. CASE ~(inst # 0 /\ inst \notin alive)
  <2>1. UNCHANGED <<inst, booted, alive>>
    BY <1>2 DEF EnsureAlive
  <2> QED
    BY <2>1 DEF InstancesAreFresh
<1> QED
  BY <1>1, <1>2

LEMMA BoxInvInit == Init => BoxInv
  BY DEF Init, BoxInv

LEMMA BoxInvStep == HostInv /\ BoxInv /\ [Next]_vars => BoxInv'
<1> SUFFICES ASSUME HostInv, BoxInv, [Next]_vars
             PROVE  BoxInv'
  OBVIOUS
<1> booted \in Nat /\ inst \in Nat
  BY DEF HostInv
<1>1. CASE HostStarts
  <2>1. InstancesAreFresh /\ UNCHANGED <<box, using>>
    BY <1>1 DEF HostStarts, InstancesAreFresh, clientVars
  <2> QED
    BY <2>1, BoxShrinks DEF BoxInv
<1>2. CASE HandleInstance
  <2>1. InstancesAreFresh /\ inst' \in Nat
    BY <1>2, EnsureAliveIsFresh DEF HandleInstance
  <2>2. box # <<>> /\ box' = Tail(box)
    BY <1>2 DEF HandleInstance, Take
  <2>3. using' = using \/ using' = [using EXCEPT ![Head(box).from] = inst']
    BY <1>2 DEF HandleInstance, clientVars
  <2> QED
    BY <2>1, <2>2, <2>3, BoxShrinks DEF BoxInv
<1>3. CASE HandleRebuild
  <2>1. InstancesAreFresh
    <3>1. CASE Boot(Drop(inst), TRUE)
      <4>1. Drop(inst) \in SUBSET alive
        BY DEF Drop
      <4> QED
        BY <3>1, <4>1, BootIsFresh
    <3>2. CASE EnsureAlive
      BY <3>2, EnsureAliveIsFresh
    <3> QED
      BY <1>3, <3>1, <3>2 DEF HandleRebuild
  <2>2. box # <<>> /\ box' = Tail(box) /\ UNCHANGED using
    BY <1>3 DEF HandleRebuild, Take, clientVars
  <2> QED
    BY <2>1, <2>2, BoxShrinks DEF BoxInv
<1>4. CASE HandleExit
  <2>1. InstancesAreFresh
    <3>1. CASE Boot(alive, TRUE)
      BY <3>1, BootIsFresh
    <3>2. CASE UNCHANGED <<booted, alive>>
      BY <3>2 DEF InstancesAreFresh
    <3> QED
      BY <1>4, <3>1, <3>2 DEF HandleExit
  <2>2. box # <<>> /\ box' = Tail(box) /\ UNCHANGED using
    BY <1>4 DEF HandleExit, Take, clientVars
  <2> QED
    BY <2>1, <2>2, BoxShrinks DEF BoxInv
<1>5. ASSUME NEW c \in Client, Invoke(c) PROVE BoxInv'
  <2>1. InstancesAreFresh /\ UNCHANGED using
    BY <1>5 DEF Invoke, Ask, Unavailable, CallReturns, Retry, RetryWithoutRebuild,
                GiveUp, CallTimesOut, InstancesAreFresh, instVars
  <2>2. CASE Tell("instance", c) \/ Tell("rebuild", c)
    <3>1. PICK k \in {"instance", "rebuild"} : Tell(k, c)
      BY <2>2
    <3>2. [kind |-> k, from |-> c, inst |-> using[c]] \in Message
      BY DEF Message, BoxInv
    <3> QED
      BY <2>1, <3>1, <3>2, BoxGrows DEF Tell
  <2>3. CASE box' = box
    BY <2>1, <2>3, BoxShrinks DEF BoxInv
  <2> QED
    BY <1>5, <2>2, <2>3 DEF Invoke, Ask, Unavailable, CallReturns, Retry,
                            RetryWithoutRebuild, GiveUp, CallTimesOut, hostVars
<1>6. CASE InstanceDies
  <2>1. PICK i \in alive : /\ alive' = alive \ {i}
                           /\ box' = IF hostUp /\ i = inst
                                     THEN Append(box, [kind |-> "exit", from |-> "link", inst |-> i])
                                     ELSE box
    BY <1>6 DEF InstanceDies
  <2>2. InstancesAreFresh /\ UNCHANGED using /\ booted' = booted
    BY <1>6, <2>1 DEF InstanceDies, InstancesAreFresh, clientVars
  <2>3. i \in 1..booted
    BY DEF HostInv, OnlyOwnedLives
  <2>4. [kind |-> "exit", from |-> "link", inst |-> i] \in Message
    BY <2>3 DEF Message
  <2>5. CASE box' = box
    BY <2>2, <2>5, BoxShrinks DEF BoxInv
  <2>6. CASE box' = Append(box, [kind |-> "exit", from |-> "link", inst |-> i])
    BY <2>1, <2>2, <2>3, <2>4, <2>6, BoxGrows
  <2> QED
    BY <2>1, <2>5, <2>6
<1>7. CASE HostDies
  <2>1. InstancesAreFresh /\ UNCHANGED using /\ box' = <<>>
    BY <1>7 DEF HostDies, InstancesAreFresh, clientVars
  <2> QED
    BY <2>1, BoxShrinks DEF BoxInv
<1>8. CASE UNCHANGED vars
  <2>1. InstancesAreFresh /\ UNCHANGED <<box, using>>
    BY <1>8 DEF vars, InstancesAreFresh
  <2> QED
    BY <2>1, BoxShrinks DEF BoxInv
<1> QED
  BY <1>1, <1>2, <1>3, <1>4, <1>5, <1>6, <1>7, <1>8 DEF Next, Host

(* What is left of the types.                                                *)
ClientInv ==
  /\ hung \subseteq 1..booted
  /\ pc \in [Client -> {"ask", "asked", "call", "replay", "rebuilding", "done"}]
  /\ retries \in [Client -> {0, 1}]
  /\ answer \in [Client -> {"none", "ok", "rejected", "refused", "unavailable", "trapped", "timeout"}]
  /\ faults \in 0..MaxFaults

LEMMA ClientInvStep == HostInv /\ BoxInv /\ ClientInv /\ [Next]_vars => ClientInv'
<1> SUFFICES ASSUME HostInv, BoxInv, ClientInv, [Next]_vars
             PROVE  ClientInv'
  OBVIOUS
<1> booted \in Nat /\ inst \in Nat /\ faults \in 0..MaxFaults /\ MaxFaults \in Nat
  BY WasmHostAssumption DEF HostInv, ClientInv
<1>1. ASSUME NEW kept, NEW bump, Boot(kept, bump)
      PROVE  booted' \in Nat /\ booted' >= booted /\ faults' \in 0..MaxFaults
  <2>1. CASE booted' = booted + 1 /\ UNCHANGED faults
    BY <2>1
  <2>2. CASE Fault /\ UNCHANGED booted
    BY <2>2 DEF Fault
  <2> QED
    BY <1>1, <2>1, <2>2 DEF Boot
<1>2. ASSUME EnsureAlive PROVE booted' \in Nat /\ booted' >= booted /\ faults' \in 0..MaxFaults
  <2>1. CASE Boot(alive, TRUE)
    BY <2>1, <1>1
  <2>2. CASE UNCHANGED <<booted, faults>>
    BY <2>2
  <2> QED
    BY <1>2, <2>1, <2>2 DEF EnsureAlive
<1>3. CASE HostStarts
  <2>1. booted' \in Nat /\ booted' >= booted /\ faults' \in 0..MaxFaults
    BY <1>3 DEF HostStarts, Fault
  <2> QED
    BY <1>3, <2>1 DEF HostStarts, ClientInv, clientVars
<1>4. CASE HandleInstance
  <2>1. booted' \in Nat /\ booted' >= booted /\ faults' \in 0..MaxFaults /\ hung' = hung
    BY <1>2, <1>4 DEF HandleInstance
  <2>2. UNCHANGED retries /\ pc' \in [Client -> {"ask", "asked", "call", "replay", "rebuilding", "done"}]
        /\ answer' \in [Client -> {"none", "ok", "rejected", "refused", "unavailable", "trapped", "timeout"}]
    BY <1>4 DEF HandleInstance, ClientInv, clientVars
  <2> QED
    BY <2>1, <2>2 DEF ClientInv
<1>5. CASE HandleRebuild
  <2>1. booted' \in Nat /\ booted' >= booted /\ faults' \in 0..MaxFaults /\ hung' = hung
    BY <1>1, <1>2, <1>5 DEF HandleRebuild
  <2>2. UNCHANGED <<retries, answer>> /\ pc' \in [Client -> {"ask", "asked", "call", "replay", "rebuilding", "done"}]
    BY <1>5 DEF HandleRebuild, ClientInv, clientVars
  <2> QED
    BY <2>1, <2>2 DEF ClientInv
<1>6. CASE HandleExit
  <2>1. booted' \in Nat /\ booted' >= booted /\ faults' \in 0..MaxFaults /\ UNCHANGED <<hung, clientVars>>
    <3>1. CASE Boot(alive, TRUE)
      BY <1>1, <1>6, <3>1 DEF HandleExit
    <3>2. CASE UNCHANGED <<booted, faults>>
      BY <1>6, <3>2 DEF HandleExit
    <3> QED
      BY <1>6, <3>1, <3>2 DEF HandleExit
  <2> QED
    BY <2>1 DEF ClientInv, clientVars
<1>7. ASSUME NEW c \in Client, Invoke(c) PROVE ClientInv'
  <2>1. CASE Ask(c)
    BY <2>1 DEF Ask, ClientInv, instVars
  <2>2. CASE Unavailable(c)
    BY <2>2 DEF Unavailable, Done, ClientInv, instVars
  <2>3. CASE CallReturns(c)
    BY <2>3 DEF CallReturns, Done, ClientInv, instVars
  <2>4. CASE Retry(c)
    BY <2>4 DEF Retry, CanRetry, ClientInv, instVars
  <2>5. CASE RetryWithoutRebuild(c)
    BY <2>5 DEF RetryWithoutRebuild, CanRetry, ClientInv, instVars
  <2>6. CASE GiveUp(c)
    BY <2>6 DEF GiveUp, Done, ClientInv, instVars
  <2>7. CASE CallTimesOut(c)
    <3>1. using[c] \in 1..booted
      <4>1. using[c] \in alive
        BY <2>7 DEF CallTimesOut
      <4>2. alive \subseteq {inst} \ {0} /\ inst \in 0..booted /\ booted \in Nat
        BY DEF HostInv, OnlyOwnedLives
      <4>3. using[c] = inst /\ inst # 0
        BY <4>1, <4>2
      <4>4. inst \in 1..booted
        BY <4>2, <4>3
      <4> QED
        BY <4>3, <4>4
    <3>2. CASE UNCHANGED <<hung, faults>>
      BY <2>7, <3>2 DEF CallTimesOut, Done, ClientInv
    <3>3. CASE Fault /\ hung' = hung \cup {using[c]}
      <4>1. hung' \subseteq 1..booted
        BY <3>1, <3>3 DEF ClientInv
      <4>2. faults' \in 0..MaxFaults
        BY <3>3 DEF Fault
      <4> QED
        BY <2>7, <4>1, <4>2 DEF CallTimesOut, Done, ClientInv
    <3> QED
      BY <2>7, <3>2, <3>3 DEF CallTimesOut
  <2> QED
    BY <1>7, <2>1, <2>2, <2>3, <2>4, <2>5, <2>6, <2>7 DEF Invoke
<1>8. CASE InstanceDies
  <2>1. UNCHANGED <<booted, hung, clientVars>> /\ faults' = faults + 1 /\ faults < MaxFaults
    BY <1>8 DEF InstanceDies, Fault
  <2> QED
    BY <2>1 DEF ClientInv, clientVars
<1>9. CASE HostDies
  BY <1>9 DEF HostDies, Fault, ClientInv, clientVars
<1>10. CASE UNCHANGED vars
  BY <1>10 DEF vars, ClientInv
<1> QED
  BY <1>3, <1>4, <1>5, <1>6, <1>7, <1>8, <1>9, <1>10 DEF Next, Host

LEMMA ClientInvInit == Init => ClientInv
  BY WasmHostAssumption DEF Init, ClientInv

(* The invariant of the Host, its mailbox and its callers (host.ex:125-202). *)
THEOREM HostInvariant == Spec => [](HostInv /\ BoxInv /\ ClientInv)
  BY HostInvInit, HostInvStep, BoxInvInit, BoxInvStep, ClientInvInit, ClientInvStep, PTL DEF Spec

(* Type correctness of the Host and its callers.                             *)
THEOREM HostTypeOK == Spec => []TypeOK
<1>1. HostInv /\ BoxInv /\ ClientInv => TypeOK
  <2> SUFFICES ASSUME HostInv, BoxInv, ClientInv PROVE TypeOK
    OBVIOUS
  <2>1. alive \subseteq 1..booted
    BY DEF HostInv, OnlyOwnedLives
  <2>2. hostUp \in BOOLEAN /\ refused \in BOOLEAN
    BY DEF HostInv
  <2> QED
    BY <2>1, <2>2 DEF HostInv, BoxInv, ClientInv, TypeOK
<1> QED
  BY <1>1, HostInvariant, PTL

(* The Host leaks no instance.                                               *)
THEOREM NoInstanceLeaks == Spec => []OnlyOwnedLives
<1>1. HostInv => OnlyOwnedLives
  BY DEF HostInv
<1> QED
  BY <1>1, HostInvariant, PTL

(* A refusal stays for as long as the Host lives (host.ex:186-191).          *)
THEOREM HostRefusalStays == Spec => RefusalStays
<1>1. ASSUME HostInv, [Next]_vars, hostUp, hostUp', refused
      PROVE  refused' /\ inst' = 0 /\ UNCHANGED <<booted, restarts>>
  <2>1. inst = 0
    BY <1>1 DEF HostInv
  <2>2. EnsureAlive => UNCHANGED <<inst, refused, restarts, booted>>
    BY <2>1 DEF EnsureAlive
  <2>3. CASE HostStarts \/ HostDies
    BY <1>1, <2>3 DEF HostStarts, HostDies
  <2>4. CASE HandleInstance
    BY <1>1, <2>1, <2>2, <2>4 DEF HandleInstance
  <2>5. CASE HandleRebuild
    BY <1>1, <2>1, <2>2, <2>5 DEF HandleRebuild, Names
  <2>6. CASE HandleExit
    BY <1>1, <2>1, <2>6 DEF HandleExit
  <2>7. CASE (\E c \in Client : Invoke(c)) \/ InstanceDies \/ UNCHANGED vars
    <3>1. UNCHANGED <<inst, refused, restarts, booted>>
      BY <2>7 DEF Invoke, Ask, Unavailable, CallReturns, Retry, RetryWithoutRebuild, GiveUp, CallTimesOut,
        hostVars, instVars, InstanceDies, vars
    <3> QED
      BY <1>1, <2>1, <3>1
  <2> QED
    BY <1>1, <2>3, <2>4, <2>5, <2>6, <2>7 DEF Next, Host
<1>2. HostInv /\ [Next]_vars => [hostUp /\ hostUp' /\ refused
        => refused' /\ inst' = 0 /\ UNCHANGED <<booted, restarts>>]_vars
  BY <1>1
<1> QED
  BY <1>2, HostInvariant, PTL DEF Spec, RefusalStays

(* restarts counts what it says.                                             *)
THEOREM RestartsAreCounted == Spec => []RestartsCounted
<1>1. HostInv => RestartsCounted
  BY DEF HostInv
<1> QED
  BY <1>1, HostInvariant, PTL

-----------------------------------------------------------------------------
(* Why every boot has a cause: one is due while nothing is alive or a        *)
(* request to rebuild the instance waits in the mailbox, and what has booted *)
(* or is due was paid for by a fault or by the retry of a request that traps.*)
Spent == {c \in Poison : retries[c] = 0}

RebuildWaits == \E i \in DOMAIN box : box[i].kind = "rebuild" /\ box[i].inst = inst

Due == IF alive = {} \/ RebuildWaits THEN 1 ELSE 0

NumbersKnown ==
  /\ \A i \in DOMAIN box : box[i].inst <= booted
  /\ \A c \in Client : using[c] <= booted
  /\ ~hostUp => box = <<>>

PaidFor == NumbersKnown /\ booted + Due <= 1 + faults + Cardinality(Spent)

LEMMA SpentFinite == IsFiniteSet(Spent) /\ Cardinality(Spent) \in Nat /\ Cardinality(Spent) <= Cardinality(Poison)
<1>1. IsFiniteSet(Poison) /\ Spent \in SUBSET Poison
  BY WasmHostAssumption DEF Spent
<1> QED
  BY <1>1, FS_Subset, FS_CardinalityType

(* A caller that spends its retry adds one, if its request traps. *)
LEMMA SpentGrows ==
  ASSUME ClientInv, ClientInv', \A c \in Client : retries'[c] <= retries[c]
  PROVE  /\ Cardinality(Spent') \in Nat /\ Cardinality(Spent) <= Cardinality(Spent')
         /\ (\E c \in Poison : retries[c] # 0 /\ retries'[c] = 0) => Cardinality(Spent) + 1 <= Cardinality(Spent')
<1>1. Spent \subseteq Spent'
  <2> SUFFICES ASSUME NEW c \in Poison, retries[c] = 0 PROVE retries'[c] = 0
    BY DEF Spent
  <2>1. retries[c] \in {0, 1} /\ retries'[c] \in {0, 1} /\ retries'[c] <= retries[c]
    BY WasmHostAssumption DEF ClientInv
  <2> QED
    BY <2>1
<1>2. IsFiniteSet(Spent') /\ Cardinality(Spent') \in Nat
  <2>1. IsFiniteSet(Poison) /\ Spent' \in SUBSET Poison
    BY WasmHostAssumption DEF Spent
  <2> QED
    BY <2>1, FS_Subset, FS_CardinalityType
<1>3. Cardinality(Spent) <= Cardinality(Spent')
  BY <1>1, <1>2, FS_Subset
<1>4. ASSUME NEW c \in Poison, retries[c] # 0, retries'[c] = 0
      PROVE  Cardinality(Spent) + 1 <= Cardinality(Spent')
  <2>1. c \notin Spent /\ Spent \cup {c} \in SUBSET Spent'
    BY <1>1, <1>4 DEF Spent
  <2>2. Cardinality(Spent \cup {c}) = Cardinality(Spent) + 1
    BY <2>1, SpentFinite, FS_AddElement
  <2> QED
    BY <1>2, <2>1, <2>2, FS_Subset
<1> QED
  BY <1>2, <1>3, <1>4

(* A boot is due when boot/1 is called, and afterwards none is: nobody knows *)
(* the number of the new instance yet.                                       *)
LEMMA BootIsPaid ==
  ASSUME HostInv, ClientInv, PaidFor, NEW kept, NEW bump, Boot(kept, bump), Due = 1,
         \A i \in DOMAIN box' : \E j \in DOMAIN box : box'[i] = box[j], UNCHANGED retries
  PROVE  booted' \in Nat /\ booted <= booted' /\ booted' + Due' <= 1 + faults' + Cardinality(Spent')
<1>1. booted \in Nat /\ faults \in Nat /\ Spent' = Spent /\ Cardinality(Spent) \in Nat
  BY SpentFinite, WasmHostAssumption DEF HostInv, ClientInv, Spent
<1>2. CASE booted' = booted + 1 /\ inst' = booted + 1 /\ alive' = kept \cup {booted + 1} /\ UNCHANGED faults
  <2>1. ~RebuildWaits'
    <3> SUFFICES ASSUME NEW i \in DOMAIN box', box'[i].inst = inst' PROVE FALSE
      BY DEF RebuildWaits
    <3>1. PICK j \in DOMAIN box : box'[i] = box[j]
      OBVIOUS
    <3>2. box[j].inst <= booted /\ box[j].inst = booted + 1
      BY <1>2, <3>1 DEF PaidFor, NumbersKnown
    <3> QED
      BY <1>1, <3>2
  <2>2. Due' = 0
    BY <1>2, <2>1 DEF Due
  <2> QED
    BY <1>1, <1>2, <2>2 DEF PaidFor
<1>3. CASE Fault /\ UNCHANGED booted
  <2>1. Due' \in {0, 1} /\ faults' = faults + 1
    BY <1>3 DEF Due, Fault
  <2> QED
    BY <1>1, <1>3, <2>1 DEF PaidFor
<1> QED
  BY <1>2, <1>3 DEF Boot

(* ensure_alive/1 boots only for an instance that is dead.                   *)
LEMMA EnsureIsPaid ==
  ASSUME HostInv, ClientInv, PaidFor, EnsureAlive,
         \A i \in DOMAIN box' : \E j \in DOMAIN box : box'[i] = box[j], UNCHANGED retries
  PROVE  booted' \in Nat /\ booted <= booted' /\ booted' + Due' <= 1 + faults' + Cardinality(Spent')
<1>1. CASE inst # 0 /\ inst \notin alive
  <2>1. Boot(alive, TRUE) /\ Due = 1
    BY <1>1 DEF EnsureAlive, Due, HostInv, OnlyOwnedLives
  <2> QED
    BY <2>1, BootIsPaid
<1>2. CASE UNCHANGED <<inst, booted, alive, faults>>
  <2>1. RebuildWaits' => RebuildWaits
    BY <1>2 DEF RebuildWaits
  <2>2. Due' <= Due /\ Due \in Nat /\ Due' \in Nat
    BY <1>2, <2>1 DEF Due
  <2>3. booted \in Nat /\ faults \in Nat /\ Spent' = Spent /\ Cardinality(Spent) \in Nat
    BY SpentFinite, WasmHostAssumption DEF HostInv, ClientInv, Spent
  <2> QED
    BY <1>2, <2>2, <2>3 DEF PaidFor
<1> QED
  BY <1>1, <1>2 DEF EnsureAlive

LEMMA Shrinks ==
  ASSUME BoxInv, box' = box \/ box' = <<>> \/ (box # <<>> /\ box' = Tail(box))
  PROVE  \A i \in DOMAIN box' : \E j \in DOMAIN box : box'[i] = box[j]
<1> SUFFICES ASSUME NEW i \in DOMAIN box' PROVE \E j \in DOMAIN box : box'[i] = box[j]
  OBVIOUS
<1>1. CASE box # <<>> /\ box' = Tail(box)
  <2>1. i + 1 \in DOMAIN box /\ box'[i] = box[i + 1]
    BY <1>1 DEF BoxInv
  <2> QED
    BY <2>1
<1> QED
  BY <1>1

(* The Host takes a message: all that is left named instances before. *)
LEMMA NumbersStayKnown ==
  ASSUME HostInv, HostInv', BoxInv, BoxInv', NumbersKnown, booted <= booted',
         \A i \in DOMAIN box' : \E j \in DOMAIN box : box'[i] = box[j], hostUp',
         \A c \in Client : using'[c] = using[c] \/ using'[c] = inst'
  PROVE  NumbersKnown'
<1>1. booted \in Nat /\ booted' \in Nat /\ inst' \in 0..booted'
  BY DEF HostInv
<1>2. ASSUME NEW i \in DOMAIN box' PROVE box'[i].inst <= booted'
  <2>1. PICK j \in DOMAIN box : box'[i] = box[j]
    OBVIOUS
  <2>2. box[j] \in Message
    BY DEF BoxInv
  <2>3. box[j].inst <= booted /\ box[j].inst \in Nat
    BY <2>2 DEF NumbersKnown, Message
  <2> QED
    BY <1>1, <2>1, <2>3
<1>3. ASSUME NEW c \in Client PROVE using'[c] <= booted'
  <2>1. using[c] \in Nat /\ using[c] <= booted
    BY DEF NumbersKnown, BoxInv
  <2>2. CASE using'[c] = using[c]
    BY <1>1, <2>1, <2>2
  <2>3. CASE using'[c] = inst'
    BY <1>1, <2>3
  <2> QED
    BY <2>2, <2>3
<1> QED
  BY <1>2, <1>3 DEF NumbersKnown

LEMMA PaidForInit == Init => PaidFor
<1> SUFFICES ASSUME Init PROVE PaidFor
  OBVIOUS
<1>1. NumbersKnown
  BY DEF Init, NumbersKnown
<1>2. booted = 0 /\ faults = 0 /\ Due = 1 /\ Cardinality(Spent) \in Nat
  BY SpentFinite DEF Init, Due
<1> QED
  BY <1>1, <1>2 DEF PaidFor

LEMMA PaidForStep ==
  HostInv /\ HostInv' /\ BoxInv /\ BoxInv' /\ ClientInv /\ ClientInv' /\ PaidFor /\ [Next]_vars => PaidFor'
<1> SUFFICES ASSUME HostInv, HostInv', BoxInv, BoxInv', ClientInv, ClientInv', PaidFor, [Next]_vars
             PROVE  PaidFor'
  OBVIOUS
<1> DEFINE Paid == booted' + Due' <= 1 + faults' + Cardinality(Spent')
<1>0. /\ booted \in Nat /\ booted' \in Nat /\ faults \in Nat /\ faults' \in Nat /\ NumbersKnown
      /\ Due \in {0, 1} /\ Due' \in {0, 1} /\ Cardinality(Spent) \in Nat
      /\ booted + Due <= 1 + faults + Cardinality(Spent)
  BY SpentFinite, WasmHostAssumption DEF HostInv, ClientInv, Due, PaidFor
<1>1. CASE HostStarts
  <2>1. UNCHANGED <<retries, box, using>> /\ box = <<>> /\ alive = {} /\ Due = 1 /\ hostUp'
    BY <1>0, <1>1 DEF HostStarts, clientVars, NumbersKnown, HostInv, OnlyOwnedLives, Due
  <2>2. Spent' = Spent /\ ~RebuildWaits'
    BY <2>1 DEF Spent, RebuildWaits
  <2>3. CASE booted' = booted + 1 /\ alive' # {} /\ UNCHANGED faults
    <3>1. Due' = 0
      BY <2>2, <2>3 DEF Due
    <3>2. Paid
      BY <1>0, <2>1, <2>2, <2>3, <3>1
    <3>3. NumbersKnown'
      BY <1>0, <2>1, <2>3, NumbersStayKnown
    <3> QED
      BY <3>2, <3>3 DEF PaidFor
  <2>4. CASE Fault /\ UNCHANGED booted
    <3>1. faults' = faults + 1
      BY <2>4 DEF Fault
    <3>2. Paid
      BY <1>0, <2>1, <2>2, <2>4, <3>1
    <3>3. NumbersKnown'
      BY <1>0, <2>1, <2>4, NumbersStayKnown
    <3> QED
      BY <3>2, <3>3 DEF PaidFor
  <2> QED
    BY <1>1, <2>3, <2>4 DEF HostStarts
<1>2. CASE HandleInstance
  <2>1. hostUp' /\ box # <<>> /\ box' = Tail(box) /\ EnsureAlive /\ UNCHANGED retries
        /\ (using' = using \/ using' = [using EXCEPT ![Head(box).from] = inst'])
    BY <1>2 DEF HandleInstance, Take, clientVars
  <2>2. \A i \in DOMAIN box' : \E j \in DOMAIN box : box'[i] = box[j]
    BY <2>1, Shrinks
  <2>3. booted <= booted' /\ Paid
    BY <2>1, <2>2, EnsureIsPaid
  <2>4. \A c \in Client : using'[c] = using[c] \/ using'[c] = inst'
    BY <2>1 DEF BoxInv
  <2>5. NumbersKnown'
    BY <1>0, <2>1, <2>2, <2>3, <2>4, NumbersStayKnown
  <2> QED
    BY <2>3, <2>5 DEF PaidFor
<1>3. CASE HandleRebuild \/ HandleExit
  <2>1. hostUp' /\ hostUp /\ box # <<>> /\ box' = Tail(box) /\ UNCHANGED <<retries, using>>
    <3>1. CASE HandleRebuild
      BY <3>1 DEF HandleRebuild, Take, clientVars
    <3>2. CASE HandleExit
      BY <3>2 DEF HandleExit, Take, clientVars
    <3> QED
      BY <1>3, <3>1, <3>2
  <2>2. \A i \in DOMAIN box' : \E j \in DOMAIN box : box'[i] = box[j]
    BY <2>1, Shrinks
  <2>3. 1 \in DOMAIN box /\ Head(box) = box[1]
    BY <2>1 DEF BoxInv
  <2>4. booted <= booted' /\ Paid
    <3>1. CASE EnsureAlive
      BY <2>1, <2>2, <3>1, EnsureIsPaid
    <3>2. CASE HandleRebuild /\ Names(Head(box).inst) /\ Boot(Drop(inst), TRUE)
      <4>1. RebuildWaits
        BY <2>3, <3>2 DEF HandleRebuild, Take, Names, RebuildWaits
      <4>2. Due = 1
        BY <4>1 DEF Due
      <4> QED
        BY <2>1, <2>2, <3>2, <4>2, BootIsPaid
    <3>3. CASE HandleExit /\ inst # 0 /\ Head(box).inst = inst /\ Boot(alive, TRUE)
      <4>1. inst \notin alive
        BY <2>3, <3>3 DEF HandleExit, Take, BoxInv
      <4>2. Due = 1
        BY <4>1 DEF Due, HostInv, OnlyOwnedLives
      <4> QED
        BY <2>1, <2>2, <3>3, <4>2, BootIsPaid
    <3>4. CASE HandleExit /\ UNCHANGED <<inst, booted, alive, faults>>
      <4>1. RebuildWaits' => RebuildWaits
        BY <2>2, <3>4 DEF RebuildWaits
      <4>2. Due' <= Due /\ Spent' = Spent
        BY <2>1, <3>4, <4>1 DEF Due, Spent
      <4> QED
        BY <1>0, <3>4, <4>2
    <3> QED
      BY <1>3, <3>1, <3>2, <3>3, <3>4 DEF HandleRebuild, HandleExit
  <2>5. NumbersKnown'
    BY <1>0, <2>1, <2>2, <2>4, NumbersStayKnown
  <2> QED
    BY <2>4, <2>5 DEF PaidFor
<1>4. ASSUME NEW c \in Client, Invoke(c) PROVE PaidFor'
  <2>1. UNCHANGED <<hostUp, inst, booted, alive, using>>
    BY <1>4 DEF Invoke, Ask, Unavailable, CallReturns, Retry, RetryWithoutRebuild, GiveUp, CallTimesOut,
      hostVars, instVars
  <2>2. faults <= faults'
    BY <1>0, <1>4 DEF Invoke, Ask, Unavailable, CallReturns, Retry, RetryWithoutRebuild, GiveUp, CallTimesOut, Fault
  <2>3. \A k \in Client : retries'[k] <= retries[k]
    <3>1. retries' = retries \/ (CanRetry(c) /\ retries' = [retries EXCEPT ![c] = @ - 1])
      BY <1>4 DEF Invoke, Ask, Unavailable, CallReturns, Retry, RetryWithoutRebuild, GiveUp, CallTimesOut
    <3> QED
      BY <3>1 DEF ClientInv, CanRetry
  <2>4. CASE Retry(c)
    <3>1. box' = Append(box, [kind |-> "rebuild", from |-> c, inst |-> using[c]]) /\ hostUp /\ Failed(c)
          /\ CanRetry(c) /\ retries' = [retries EXCEPT ![c] = @ - 1]
      BY <2>4 DEF Retry, Tell
    <3>2. \A i \in DOMAIN box' : (i \in DOMAIN box /\ box'[i] = box[i])
                                 \/ box'[i] = [kind |-> "rebuild", from |-> c, inst |-> using[c]]
      BY <3>1 DEF BoxInv
    <3>3. NumbersKnown'
      BY <1>0, <2>1, <3>1, <3>2 DEF NumbersKnown
    <3>4. Paid
      <4>1. CASE Due = 1
        BY <1>0, <2>1, <2>2, <2>3, <4>1, SpentGrows
      <4>2. CASE Due = 0 /\ using[c] # inst
        <5>1. RebuildWaits' => RebuildWaits
          BY <2>1, <3>2, <4>2 DEF RebuildWaits
        <5>2. Due' = 0
          BY <2>1, <4>2, <5>1 DEF Due
        <5> QED
          BY <1>0, <2>1, <2>2, <2>3, <5>2, SpentGrows
      <4>3. CASE Due = 0 /\ using[c] = inst
        <5>1. inst \in alive
          BY <4>3 DEF Due, HostInv, OnlyOwnedLives
        <5>2. c \in Poison
          BY <3>1, <4>3, <5>1 DEF Failed
        <5>3. retries[c] # 0 /\ retries'[c] = 0
          BY <3>1 DEF CanRetry, ClientInv
        <5> QED
          BY <1>0, <2>1, <2>2, <2>3, <5>2, <5>3, SpentGrows
      <4> QED
        BY <1>0, <4>1, <4>2, <4>3
    <3> QED
      BY <3>3, <3>4 DEF PaidFor
  <2>5. CASE Ask(c)
    <3>1. box' = Append(box, [kind |-> "instance", from |-> c, inst |-> using[c]]) /\ hostUp
      BY <2>5 DEF Ask, Tell
    <3>2. \A i \in DOMAIN box' : (i \in DOMAIN box /\ box'[i] = box[i])
                                 \/ box'[i] = [kind |-> "instance", from |-> c, inst |-> using[c]]
      BY <3>1 DEF BoxInv
    <3>3. NumbersKnown'
      BY <1>0, <2>1, <3>1, <3>2 DEF NumbersKnown
    <3>4. Due' <= Due
      BY <2>1, <3>2 DEF Due, RebuildWaits
    <3>5. Paid
      BY <1>0, <2>1, <2>2, <2>3, <3>4, SpentGrows
    <3> QED
      BY <3>3, <3>5 DEF PaidFor
  <2>6. CASE UNCHANGED box
    <3>1. NumbersKnown' /\ Due' = Due
      BY <1>0, <2>1, <2>6 DEF NumbersKnown, Due, RebuildWaits
    <3>2. Paid
      BY <1>0, <2>1, <2>2, <2>3, <3>1, SpentGrows
    <3> QED
      BY <3>1, <3>2 DEF PaidFor
  <2> QED
    BY <1>4, <2>4, <2>5, <2>6 DEF Invoke, Unavailable, CallReturns, RetryWithoutRebuild, GiveUp, CallTimesOut, hostVars
<1>5. CASE InstanceDies \/ HostDies
  <2>1. UNCHANGED <<booted, retries, using>> /\ faults' = faults + 1
    BY <1>5 DEF InstanceDies, HostDies, clientVars, Fault
  <2>2. Paid
    <3>1. Spent' = Spent
      BY <2>1 DEF Spent
    <3> QED
      BY <1>0, <2>1, <3>1
  <2>3. NumbersKnown'
    <3>1. CASE HostDies
      BY <1>0, <2>1, <3>1 DEF HostDies, NumbersKnown
    <3>2. CASE InstanceDies
      <4>1. PICK i \in alive : box' = IF hostUp /\ i = inst
                                      THEN Append(box, [kind |-> "exit", from |-> "link", inst |-> i]) ELSE box
        BY <3>2 DEF InstanceDies
      <4>2. hostUp' = hostUp
        BY <3>2 DEF InstanceDies
      <4>3. CASE box' = box
        BY <1>0, <2>1, <4>2, <4>3 DEF NumbersKnown
      <4>4. CASE hostUp /\ i = inst /\ box' = Append(box, [kind |-> "exit", from |-> "link", inst |-> i])
        <5>1. i <= booted
          BY <1>0, <4>4 DEF HostInv
        <5>2. \A k \in DOMAIN box' : (k \in DOMAIN box /\ box'[k] = box[k])
                                     \/ box'[k] = [kind |-> "exit", from |-> "link", inst |-> i]
          BY <4>4 DEF BoxInv
        <5> QED
          BY <1>0, <2>1, <4>2, <4>4, <5>1, <5>2 DEF NumbersKnown
      <4> QED
        BY <4>1, <4>3, <4>4
    <3> QED
      BY <1>5, <3>1, <3>2
  <2> QED
    BY <2>2, <2>3 DEF PaidFor
<1>6. CASE UNCHANGED vars
  <2>1. NumbersKnown' /\ Due' = Due /\ Spent' = Spent /\ UNCHANGED <<booted, faults>>
    BY <1>0, <1>6 DEF vars, NumbersKnown, Due, RebuildWaits, Spent
  <2> QED
    BY <1>0, <2>1 DEF PaidFor
<1> QED
  BY <1>1, <1>2, <1>3, <1>4, <1>5, <1>6 DEF Next, Host

-----------------------------------------------------------------------------
(* Who failed without a trap of his own met dead instances, one per attempt. *)
Dead == (1..booted) \ alive

FailuresMet ==
  \A c \in Client \ Poison :
    /\ pc[c] \in {"call", "replay"} => using[c] \in 1..booted
    /\ retries[c] = 0 /\ pc[c] \in {"rebuilding", "ask", "asked"} => Dead # {}
    /\ retries[c] = 0 /\ pc[c] \in {"call", "replay"} => Dead \ {using[c]} # {}
    /\ answer[c] = "trapped" => \E d, e \in Dead : d # e

LEMMA DeadStay == ASSUME booted \in Nat, InstancesAreFresh PROVE Dead \subseteq Dead' /\ 1..booted \subseteq 1..booted'
BY DEF Dead, InstancesAreFresh

LEMMA FailuresMetInit == Init => FailuresMet
BY DEF Init, FailuresMet

(* Callers who stay where they are have met what they met. *)
LEMMA FailuresStayMet ==
  ASSUME FailuresMet, Dead \subseteq Dead', 1..booted \subseteq 1..booted',
         NEW c \in Client \ Poison, UNCHANGED <<pc[c], using[c], retries[c], answer[c]>>
  PROVE  /\ pc'[c] \in {"call", "replay"} => using'[c] \in 1..booted'
         /\ retries'[c] = 0 /\ pc'[c] \in {"rebuilding", "ask", "asked"} => Dead' # {}
         /\ retries'[c] = 0 /\ pc'[c] \in {"call", "replay"} => Dead' \ {using'[c]} # {}
         /\ answer'[c] = "trapped" => \E d, e \in Dead' : d # e
BY DEF FailuresMet

LEMMA FailuresMetStep ==
  HostInv /\ HostInv' /\ BoxInv /\ ClientInv /\ FailuresMet /\ [Next]_vars => FailuresMet'
<1> SUFFICES ASSUME HostInv, HostInv', BoxInv, ClientInv, FailuresMet, [Next]_vars, NEW c \in Client \ Poison
             PROVE  /\ pc'[c] \in {"call", "replay"} => using'[c] \in 1..booted'
                    /\ retries'[c] = 0 /\ pc'[c] \in {"rebuilding", "ask", "asked"} => Dead' # {}
                    /\ retries'[c] = 0 /\ pc'[c] \in {"call", "replay"} => Dead' \ {using'[c]} # {}
                    /\ answer'[c] = "trapped" => \E d, e \in Dead' : d # e
  BY DEF FailuresMet
<1> booted \in Nat /\ inst \in Nat
  BY DEF HostInv
<1>0. /\ pc[c] \in {"call", "replay"} => using[c] \in 1..booted
      /\ retries[c] = 0 /\ pc[c] \in {"rebuilding", "ask", "asked"} => Dead # {}
      /\ retries[c] = 0 /\ pc[c] \in {"call", "replay"} => Dead \ {using[c]} # {}
      /\ answer[c] = "trapped" => \E d, e \in Dead : d # e
  BY DEF FailuresMet
<1>1. CASE HostStarts \/ HandleExit \/ InstanceDies \/ HostDies
  <2>1. InstancesAreFresh /\ UNCHANGED clientVars
    <3>1. CASE HostStarts
      <4>1. (booted' = booted + 1 /\ alive' = alive \cup {booted + 1}) \/ UNCHANGED <<booted, alive>>
        BY <3>1 DEF HostStarts
      <4>2. InstancesAreFresh
        BY <4>1 DEF InstancesAreFresh
      <4> QED
        BY <3>1, <4>2 DEF HostStarts
    <3>2. CASE HandleExit
      <4>1. Boot(alive, TRUE) \/ UNCHANGED <<booted, alive>>
        BY <3>2 DEF HandleExit
      <4>2. CASE Boot(alive, TRUE)
        BY <3>2, <4>2, BootIsFresh DEF HandleExit
      <4>3. CASE UNCHANGED <<booted, alive>>
        BY <3>2, <4>3 DEF HandleExit, InstancesAreFresh
      <4> QED
        BY <4>1, <4>2, <4>3
    <3>3. CASE InstanceDies \/ HostDies
      <4>1. booted' = booted /\ alive' \subseteq alive /\ UNCHANGED clientVars
        BY <3>3 DEF InstanceDies, HostDies
      <4> QED
        BY <4>1 DEF InstancesAreFresh
    <3> QED
      BY <1>1, <3>1, <3>2, <3>3
  <2> QED
    BY <2>1, DeadStay, FailuresStayMet DEF clientVars
<1>2. CASE HandleInstance
  <2>1. InstancesAreFresh /\ EnsureAlive
    BY <1>2, EnsureAliveIsFresh DEF HandleInstance
  <2>2. Dead \subseteq Dead' /\ 1..booted \subseteq 1..booted'
    BY <2>1, DeadStay
  <2>3. CASE UNCHANGED <<pc[c], using[c], retries[c], answer[c]>>
    BY <2>2, <2>3, FailuresStayMet
  <2>4. CASE /\ pc[c] = "asked" /\ inst' # 0 /\ pc' = [pc EXCEPT ![c] = "call"]
             /\ using' = [using EXCEPT ![c] = inst'] /\ UNCHANGED <<retries, answer>>
    <3>1. pc'[c] = "call" /\ using'[c] = inst'
      BY <2>4 DEF ClientInv, BoxInv
    <3>2. inst' \in alive' /\ inst' \in 1..booted'
      <4>1. inst' \in alive'
        BY <2>1, <2>4 DEF EnsureAlive, Boot
      <4> QED
        BY <2>4, <4>1 DEF HostInv
    <3>3. inst' \notin Dead'
      BY <3>2 DEF Dead
    <3> QED
      BY <1>0, <2>2, <2>4, <3>1, <3>2, <3>3
  <2>5. CASE /\ pc[c] = "asked" /\ pc' = [pc EXCEPT ![c] = "done"]
             /\ answer' = [answer EXCEPT ![c] = "refused"] /\ UNCHANGED <<using, retries>>
    <3>1. pc'[c] = "done" /\ answer'[c] = "refused"
      BY <2>5 DEF ClientInv
    <3> QED
      BY <3>1
  <2> QED
    <3> DEFINE k == Head(box).from
    <3>1. CASE k # c \/ ~Waits(k, "asked")
      <4>1. UNCHANGED <<pc[c], using[c], retries[c], answer[c]>>
        BY <1>2, <3>1 DEF HandleInstance, Waits, clientVars, ClientInv, BoxInv
      <4> QED
        BY <2>3, <4>1
    <3>2. CASE k = c /\ Waits(k, "asked")
      BY <1>2, <2>4, <2>5, <3>2 DEF HandleInstance, Waits
    <3> QED
      BY <3>1, <3>2
<1>3. CASE HandleRebuild
  <2>1. InstancesAreFresh
    <3>1. Drop(inst) \in SUBSET alive
      BY DEF Drop
    <3> QED
      BY <1>3, <3>1, BootIsFresh, EnsureAliveIsFresh DEF HandleRebuild
  <2>2. Dead \subseteq Dead' /\ 1..booted \subseteq 1..booted'
    BY <2>1, DeadStay
  <2>3. UNCHANGED <<using, retries, answer>>
    BY <1>3 DEF HandleRebuild, clientVars
  <2>4. pc'[c] = pc[c] \/ (pc[c] = "rebuilding" /\ pc'[c] = "ask")
    BY <1>3 DEF HandleRebuild, Waits, clientVars, ClientInv
  <2> QED
    BY <1>0, <2>2, <2>3, <2>4
<1>4. ASSUME NEW k \in Client, Invoke(k), k # c
      PROVE  UNCHANGED <<pc[c], using[c], retries[c], answer[c]>> /\ InstancesAreFresh
  <2>1. InstancesAreFresh
    BY <1>4 DEF Invoke, Ask, Unavailable, CallReturns, Retry, RetryWithoutRebuild, GiveUp, CallTimesOut, instVars,
      InstancesAreFresh
  <2>2. using' = using /\ (retries' = retries \/ retries' = [retries EXCEPT ![k] = @ - 1])
    BY <1>4 DEF Invoke, Ask, Unavailable, CallReturns, Retry, RetryWithoutRebuild, GiveUp, CallTimesOut
  <2>3. pc'[c] = pc[c]
    BY <1>4 DEF Invoke, Ask, Unavailable, CallReturns, Retry, RetryWithoutRebuild, GiveUp, CallTimesOut, Done, ClientInv
  <2>4. answer'[c] = answer[c]
    BY <1>4 DEF Invoke, Ask, Unavailable, CallReturns, Retry, RetryWithoutRebuild, GiveUp, CallTimesOut, Done, ClientInv
  <2>5. retries'[c] = retries[c]
    BY <1>4, <2>2 DEF ClientInv
  <2> QED
    BY <2>1, <2>2, <2>3, <2>4, <2>5
<1>5. CASE Invoke(c)
  <2>1. UNCHANGED <<booted, alive, using>>
    BY <1>5 DEF Invoke, Ask, Unavailable, CallReturns, Retry, RetryWithoutRebuild, GiveUp, CallTimesOut, instVars
  <2>2. Dead' = Dead
    BY <2>1 DEF Dead
  <2>3. CASE Ask(c)
    BY <1>0, <2>1, <2>2, <2>3 DEF Ask, ClientInv
  <2>4. CASE Unavailable(c)
    BY <1>0, <2>2, <2>4 DEF Unavailable, Done, ClientInv
  <2>5. CASE CallReturns(c)
    BY <1>0, <2>1, <2>2, <2>5 DEF CallReturns, Done, ClientInv
  <2>6. CASE Retry(c)
    <3>1. using[c] \in Dead
      BY <1>0, <2>6 DEF Retry, Failed, Dead
    <3>2. pc'[c] = "rebuilding" /\ answer' = answer
      BY <2>6 DEF Retry, ClientInv
    <3> QED
      BY <1>0, <2>2, <3>1, <3>2
  <2>7. CASE RetryWithoutRebuild(c)
    <3>1. pc'[c] = "ask" /\ answer' = answer
      BY <2>7 DEF RetryWithoutRebuild, ClientInv
    <3>2. CASE pc[c] = "rebuilding" /\ retries' = retries
      BY <1>0, <2>2, <3>1, <3>2
    <3>3. CASE Failed(c)
      <4>1. using[c] \in Dead
        BY <1>0, <3>3 DEF Failed, Dead
      <4> QED
        BY <1>0, <2>2, <3>1, <4>1
    <3> QED
      BY <2>7, <3>2, <3>3 DEF RetryWithoutRebuild
  <2>8. CASE GiveUp(c)
    <3>1. using[c] \in Dead /\ retries[c] = 0 /\ pc[c] \in {"call", "replay"}
      BY <1>0, <2>8 DEF GiveUp, Failed, CanRetry, Dead, ClientInv
    <3>2. PICK d \in Dead : d # using[c]
      BY <1>0, <3>1
    <3>3. pc'[c] = "done"
      BY <2>8 DEF GiveUp, Done, ClientInv
    <3> QED
      BY <2>2, <3>1, <3>2, <3>3
  <2>9. CASE CallTimesOut(c)
    BY <1>0, <2>2, <2>9 DEF CallTimesOut, Done, ClientInv
  <2> QED
    BY <1>5, <2>3, <2>4, <2>5, <2>6, <2>7, <2>8, <2>9 DEF Invoke
<1>6. CASE UNCHANGED vars
  <2>1. Dead' = Dead /\ UNCHANGED <<booted, pc, using, retries, answer>>
    BY <1>6 DEF vars, Dead
  <2> QED
    BY <1>0, <2>1
<1>7. CASE \E k \in Client : Invoke(k)
  <2>1. PICK k \in Client : Invoke(k)
    BY <1>7
  <2>2. CASE k = c
    BY <1>5, <2>1, <2>2
  <2>3. CASE k # c
    BY <1>4, <2>1, <2>3, DeadStay, FailuresStayMet
  <2> QED
    BY <2>2, <2>3
<1> QED
  BY <1>1, <1>2, <1>3, <1>6, <1>7 DEF Next, Host

(* No boot is refused, nothing hangs and nobody is told so before a fault.   *)
FaultMet ==
  faults = 0 => ~refused /\ hung = {} /\ \A c \in Client : answer[c] \notin {"timeout", "refused"}

LEMMA FaultMetInit == Init => FaultMet
BY DEF Init, FaultMet

LEMMA FaultMetStep ==
  HostInv /\ HostInv' /\ ClientInv /\ FaultMet /\ [Next]_vars => FaultMet'
<1> SUFFICES ASSUME HostInv, HostInv', ClientInv, FaultMet, [Next]_vars, faults' = 0
             PROVE  ~refused' /\ hung' = {} /\ \A c \in Client : answer'[c] \notin {"timeout", "refused"}
  BY DEF FaultMet
<1>1. faults \in Nat
  BY WasmHostAssumption DEF ClientInv
<1>2. ~Fault
  BY <1>1 DEF Fault
<1>3. faults = 0
  BY <1>1, <1>2 DEF Next, Host, HostStarts, HandleInstance, HandleRebuild, HandleExit, EnsureAlive, Boot, Invoke,
    Ask, Unavailable, CallReturns, Retry, RetryWithoutRebuild, GiveUp, CallTimesOut, InstanceDies, HostDies, vars
<1>4. ~refused /\ hung = {} /\ \A c \in Client : answer[c] \notin {"timeout", "refused"}
  BY <1>3 DEF FaultMet
<1>5. hung' = {}
  BY <1>2, <1>4 DEF Next, Host, HostStarts, HandleInstance, HandleRebuild, HandleExit, Invoke,
    Ask, Unavailable, CallReturns, Retry, RetryWithoutRebuild, GiveUp, CallTimesOut, InstanceDies, HostDies,
    instVars, vars
<1>6. ~refused'
  BY <1>2, <1>4 DEF Next, Host, HostStarts, HandleInstance, HandleRebuild, HandleExit, EnsureAlive, Boot, Invoke,
    Ask, Unavailable, CallReturns, Retry, RetryWithoutRebuild, GiveUp, CallTimesOut, InstanceDies, HostDies,
    hostVars, vars
<1>7. ASSUME NEW c \in Client PROVE answer'[c] \notin {"timeout", "refused"}
  <2>1. CASE HandleInstance
    <3>1. inst' # 0
      BY <1>6, <2>1 DEF HandleInstance, Take, HostInv
    <3> QED
      BY <1>4, <2>1, <3>1 DEF HandleInstance, clientVars
  <2>2. CASE \E k \in Client : Invoke(k)
    <3>1. PICK k \in Client : Invoke(k)
      BY <2>2
    <3>2. ~CallTimesOut(k)
      BY <1>2, <1>4 DEF CallTimesOut
    <3>3. answer' = answer \/ \E a \in {"ok", "rejected", "unavailable", "trapped"} : answer' = [answer EXCEPT ![k] = a]
      BY <3>1, <3>2 DEF Invoke, Ask, Unavailable, CallReturns, Retry, RetryWithoutRebuild, GiveUp, Done
    <3> QED
      BY <1>4, <3>3 DEF ClientInv
  <2>3. CASE ~HandleInstance /\ ~(\E k \in Client : Invoke(k))
    <3>1. answer' = answer
      BY <2>3 DEF Next, Host, HostStarts, HandleRebuild, HandleExit, InstanceDies, HostDies, clientVars, vars
    <3> QED
      BY <1>4, <3>1
  <2> QED
    BY <2>1, <2>2, <2>3
<1> QED
  BY <1>5, <1>6, <1>7

LEMMA CausesInvariant == Spec => [](PaidFor /\ FailuresMet /\ FaultMet)
<1>1. Init => PaidFor /\ FailuresMet /\ FaultMet
  BY PaidForInit, FailuresMetInit, FaultMetInit
<1>2. Spec => [](HostInv /\ BoxInv /\ ClientInv)
  BY HostInvariant
<1>3. /\ HostInv /\ BoxInv /\ ClientInv /\ (HostInv /\ BoxInv /\ ClientInv)'
      /\ PaidFor /\ FailuresMet /\ FaultMet /\ [Next]_vars
      => (PaidFor /\ FailuresMet /\ FaultMet)'
  BY PaidForStep, FailuresMetStep, FaultMetStep
<1> QED
  BY <1>1, <1>2, <1>3, PTL DEF Spec

(* Rebuilds have causes of their own: callers that fail on one instance have *)
(* it rebuilt once, and a late request does not tear down its replacement    *)
(* (handle_call({:rebuild, ..}), host.ex:160-168).                           *)
THEOREM HostRebuildsAreCaused == Spec => []RebuildsAreCaused
<1>1. HostInv /\ BoxInv /\ ClientInv /\ PaidFor => RebuildsAreCaused
  <2> SUFFICES ASSUME HostInv, ClientInv, PaidFor PROVE RebuildsAreCaused
    OBVIOUS
  <2>1. Cardinality(Poison) \in Nat
    BY WasmHostAssumption, FS_CardinalityType
  <2>2. booted \in Nat /\ faults \in Nat /\ Due \in {0, 1} /\ booted + Due <= 1 + faults + Cardinality(Spent)
    BY WasmHostAssumption DEF HostInv, ClientInv, PaidFor, Due
  <2> QED
    BY <2>1, <2>2, SpentFinite DEF RebuildsAreCaused
<1> QED
  BY <1>1, HostInvariant, CausesInvariant, PTL

(* A caller whose request does not trap is answered "trapped" only when two  *)
(* instances it used died, each death paid for, and "timeout" or "refused"   *)
(* only after a hang or a refused boot (invoke/5, host.ex:95-112).           *)
THEOREM HostBystandersFailForCause == Spec => []BystandersFailForCause
<1>1. ASSUME HostInv, ClientInv, PaidFor, FailuresMet, NEW c \in Client \ Poison, answer[c] = "trapped"
      PROVE  faults + Cardinality(Poison) >= 2
  <2> HostInv /\ ClientInv /\ PaidFor /\ FailuresMet /\ answer[c] = "trapped"
    BY <1>1
  <2>1. Cardinality(Poison) \in Nat
    BY WasmHostAssumption, FS_CardinalityType
  <2>2. booted \in Nat /\ faults \in Nat /\ Due \in {0, 1} /\ booted + Due <= 1 + faults + Cardinality(Spent)
    BY WasmHostAssumption DEF HostInv, ClientInv, PaidFor, Due
  <2>3. PICK d, e \in Dead : d # e
    BY DEF FailuresMet
  <2>4. d \in 1..booted /\ e \in 1..booted /\ d \notin alive /\ e \notin alive
    BY DEF Dead
  <2>5. booted + Due >= 3
    <3>1. CASE alive = {}
      <4>1. Due = 1
        BY <3>1 DEF Due
      <4> QED
        BY <2>2, <2>3, <2>4, <4>1
    <3>2. CASE alive # {}
      <4>1. inst \in alive /\ inst \in 1..booted
        <5>1. inst \in alive /\ inst # 0 /\ inst \in 0..booted
          BY <3>2 DEF HostInv, OnlyOwnedLives
        <5> QED
          BY <2>2, <5>1
      <4>2. inst # d /\ inst # e
        BY <2>4, <4>1
      <4> QED
        BY <2>2, <2>3, <2>4, <4>1, <4>2
    <3> QED
      BY <3>1, <3>2
  <2> QED
    BY <2>1, <2>2, <2>5, SpentFinite
<1>2. ASSUME ClientInv, FaultMet, NEW c \in Client \ Poison, answer[c] \in {"timeout", "refused"}
      PROVE  faults >= 1
  <2>1. faults \in Nat /\ faults # 0
    BY <1>2, WasmHostAssumption DEF ClientInv, FaultMet
  <2> QED
    BY <2>1
<1>3. HostInv /\ BoxInv /\ ClientInv /\ PaidFor /\ FailuresMet /\ FaultMet => BystandersFailForCause
  BY <1>1, <1>2 DEF BystandersFailForCause
<1> QED
  BY <1>3, HostInvariant, CausesInvariant, PTL
=============================================================================
