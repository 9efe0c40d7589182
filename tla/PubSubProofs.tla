---------------------------- MODULE PubSubProofs ----------------------------
(* Proofs about the pub/sub trampoline, for any number of threads and    *)
(* any bounds: type correctness, and the safety part of the refinement   *)
(* of PubSubAbstract with what it gives about the trampoline.            *)
EXTENDS PubSub, SequenceTheorems, TLAPS

\* Every step keeps the variables in their types.
LEMMA PubSubNextTypeOK == TypeOK /\ [Next]_vars => TypeOK'
<1> SUFFICES ASSUME TypeOK, [Next]_vars PROVE TypeOK'
  OBVIOUS
<1> USE PubSubAssumption DEF TypeOK, LocalRef, PubSubDataRec
<1>1. ASSUME NEW t \in HostThreads, setPubSubCallback(t) PROVE TypeOK'
  BY <1>1 DEF setPubSubCallback
<1>2. ASSUME NEW t \in HostThreads, returnToHost(t) PROVE TypeOK'
  BY <1>2 DEF returnToHost
<1>3. CASE serverPush
  BY <1>3 DEF serverPush
<1>4. CASE pubSubCallback
  <2>1. registered \in 1..Len(pubSubData)
    BY <1>4 DEF pubSubCallback
  <2>2. pubSubData[registered] \in PubSubDataRec
    BY <2>1, ElementOfSeq
  <2>3. QED
    BY <1>4, <2>2 DEF pubSubCallback, Live
<1>5. CASE UNCHANGED vars
  BY <1>5 DEF vars
<1>6. QED
  BY <1>1, <1>2, <1>3, <1>4, <1>5 DEF Next

\* The initial state is well typed.
LEMMA PubSubInitTypeOK == Init => TypeOK
<1> SUFFICES ASSUME Init PROVE TypeOK
  OBVIOUS
<1>1. pubSubData \in Seq(PubSubDataRec) /\ registered \in 0..Len(pubSubData)
  BY EmptySeq DEF Init
<1>2. lastRun \in [thread : {Reader}, env : HostThreads \cup {Reader},
                   thizLive : BOOLEAN]
  BY DEF Init, NoRun
<1>3. frame \in [HostThreads -> Nat] /\ inJNI \in [HostThreads -> BOOLEAN]
  BY DEF Init
<1>4. returned \in BOOLEAN
  BY Zenon DEF Init
<1>5. pushed \in 0..MaxNotifications /\ delivered \in 0..pushed
  BY PubSubAssumption DEF Init
<1>6. QED
  BY <1>1, <1>2, <1>3, <1>4, <1>5 DEF TypeOK

\* The pub/sub trampoline keeps every variable in its type.
THEOREM PubSubTypeCorrect == Spec => []TypeOK
BY PubSubInitTypeOK, PubSubNextTypeOK, PTL DEF Spec

-----------------------------------------------------------------------------
(* The refinement of PubSubAbstract. *)

(* setPubSubCallback registers the data it has just allocated: the       *)
(* library always holds the latest PubSubData.                            *)
LatestHeld == registered = Len(pubSubData)

RInv == TypeOK /\ LatestHeld

\* Every step keeps the latest PubSubData registered.
LEMMA NextLatestHeld == RInv /\ [Next]_vars => LatestHeld'
<1> SUFFICES ASSUME RInv, [Next]_vars PROVE LatestHeld'
  OBVIOUS
<1> USE DEF RInv, LatestHeld, TypeOK
<1>1. ASSUME NEW t \in HostThreads, setPubSubCallback(t) PROVE LatestHeld'
  BY <1>1 DEF setPubSubCallback
<1>2. ASSUME NEW t \in HostThreads, returnToHost(t) PROVE LatestHeld'
  BY <1>2 DEF returnToHost
<1>3. CASE serverPush \/ pubSubCallback \/ UNCHANGED vars
  BY <1>3 DEF serverPush, pubSubCallback, vars
<1>4. QED
  BY <1>1, <1>2, <1>3 DEF Next

\* The initial state satisfies the refinement's invariant.
LEMMA InitRInv == Init => RInv
<1>1. Init => TypeOK
  BY PubSubInitTypeOK
<1>2. Init => LatestHeld
  BY DEF Init, LatestHeld
<1>3. QED
  BY <1>1, <1>2 DEF RInv

\* Every step preserves it.
LEMMA NextRInv == RInv /\ [Next]_vars => RInv'
BY PubSubNextTypeOK, NextLatestHeld DEF RInv

\* The initial state maps to the channel's initial state.
LEMMA InitRefines == Init => Abs!AInit
BY DEF Init, Abs!AInit, Subscriber

\* Every step of the trampoline is a step of the channel or leaves it as
\* it is.
LEMMA NextRefines == RInv /\ [Next]_vars => [Abs!ANext]_Abs!avars
<1> SUFFICES ASSUME RInv, [Next]_vars PROVE [Abs!ANext]_Abs!avars
  OBVIOUS
<1> USE DEF RInv, LatestHeld
<1>1. ASSUME NEW t \in HostThreads, setPubSubCallback(t) PROVE Abs!Subscribe(t)
  <2>1. /\ pubSubData' = Append(pubSubData, [env |-> t, thiz |-> [thread |-> t, frame |-> frame[t] + 1]])
        /\ registered' = Len(pubSubData) + 1
        /\ UNCHANGED <<pushed, delivered>>
    BY <1>1 DEF setPubSubCallback
  <2>2. pubSubData \in Seq(PubSubDataRec)
    BY DEF TypeOK
  <2>3. Len(pubSubData') = Len(pubSubData) + 1 /\ pubSubData'[Len(pubSubData) + 1].env = t
    BY <2>1, <2>2, AppendProperties
  <2>4. Subscriber' = t
    BY <2>1, <2>3, LenProperties, <2>2 DEF Subscriber
  <2>5. QED
    BY <2>1, <2>3, <2>4 DEF Abs!Subscribe
<1>2. ASSUME NEW t \in HostThreads, returnToHost(t) PROVE UNCHANGED Abs!avars
  BY <1>2 DEF returnToHost, Abs!avars, Subscriber
<1>3. CASE serverPush
  BY <1>3 DEF serverPush, Abs!ANext, Abs!Publish, Subscriber
<1>4. CASE pubSubCallback
  <2>1. registered \in 1..Len(pubSubData) /\ delivered < pushed
    BY <1>4 DEF pubSubCallback, TypeOK
  <2>2. pubSubData[registered].env \in HostThreads
    <3>1. pubSubData[registered] \in PubSubDataRec
      BY <2>1, ElementOfSeq DEF TypeOK
    <3>2. QED
      BY <3>1 DEF PubSubDataRec
  <2>3. Subscriber # Reader /\ Subscriber' = Subscriber
    BY <1>4, <2>1, <2>2, PubSubAssumption DEF pubSubCallback, Subscriber
  <2>4. Abs!Deliver
    BY <1>4, <2>1, <2>3 DEF pubSubCallback, Abs!Deliver
  <2>5. QED
    BY <2>4 DEF Abs!ANext
<1>5. CASE UNCHANGED vars
  BY <1>5 DEF vars, Abs!avars, Subscriber
<1>6. QED
  BY <1>1, <1>2, <1>3, <1>4, <1>5 DEF Next, Abs!ANext

\* Every behaviour of the trampoline is a behaviour of the notification
\* channel, for any threads and bounds: each setPubSubCallback call makes
\* its caller the subscriber, and each pubSubCallback run delivers the next
\* pushed notification, once, while a registration is held.  (The fairness
\* conjunct of ImplementsPubSub is checked by TLC only.)
THEOREM PubSubRefinesChannel == Spec => Abs!AInit /\ [][Abs!ANext]_Abs!avars
<1>1. Spec => []RInv
  BY InitRInv, NextRInv, PTL DEF Spec
<1>2. QED
  BY <1>1, InitRefines, NextRefines, PTL DEF Spec

\* The channel's initial state satisfies its invariant.
LEMMA AbsInitInv == Abs!AInit => Abs!AInv
BY DEF Abs!AInit, Abs!AInv

\* Every step of the channel preserves its invariant.
LEMMA AbsNextInv == Abs!AInv /\ [Abs!ANext]_Abs!avars => Abs!AInv'
<1> SUFFICES ASSUME Abs!AInv, [Abs!ANext]_Abs!avars PROVE Abs!AInv'
  OBVIOUS
<1>1. ASSUME NEW t \in HostThreads, Abs!Subscribe(t) PROVE Abs!AInv'
  BY <1>1, PubSubAssumption DEF Abs!Subscribe, Abs!AInv
<1>2. CASE Abs!Publish
  BY <1>2 DEF Abs!Publish, Abs!AInv
<1>3. CASE Abs!Deliver
  BY <1>3 DEF Abs!Deliver, Abs!AInv
<1>4. CASE UNCHANGED Abs!avars
  BY <1>4 DEF Abs!avars, Abs!AInv
<1>5. QED
  BY <1>1, <1>2, <1>3, <1>4 DEF Abs!ANext

\* Through the refinement, for any threads and bounds: pubSubCallback never
\* runs more often than the server pushed, the library holds a PubSubData
\* exactly once some setPubSubCallback call has been made, and no callback
\* runs before the first one.
THEOREM DeliveredOnlyToRegistration == Spec => []Abs!AInv
<1>1. Abs!AInit /\ [][Abs!ANext]_Abs!avars => []Abs!AInv
  BY AbsInitInv, AbsNextInv, PTL
<1>2. QED
  BY <1>1, PubSubRefinesChannel
====
