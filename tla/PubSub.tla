------------------------------- MODULE PubSub -------------------------------
(***************************************************************************)
(* The pub/sub trampoline of sqlitecloud.cpp: setPubSubCallback (200-207)  *)
(* and pubSubCallback (191-198).                                           *)
(*                                                                         *)
(* Host threads call setPubSubCallback.  It allocates a PubSubData holding *)
(* the caller's JNIEnv and its `thiz`, a JNI local reference that lives    *)
(* only until that call returns, and registers it with the library.  The   *)
(* library keeps one (callback, data) pair per connection, replacing the   *)
(* previous one, and its reader thread calls pubSubCallback for every      *)
(* notification the server pushes.                                         *)
(***************************************************************************)
EXTENDS Naturals, Sequences

CONSTANTS
    HostThreads,       \* the JVM threads that call into the bridge
    Reader,            \* the library's reader thread
    MaxRegistrations,  \* bound on setPubSubCallback calls
    MaxNotifications   \* bound on notifications the server pushes

ASSUME PubSubAssumption ==
    /\ Reader \notin HostThreads
    /\ MaxRegistrations \in Nat /\ MaxNotifications \in Nat

VARIABLES
    frame,       \* frame[t]: how many JNI calls thread t has entered
    inJNI,       \* inJNI[t]: t is inside setPubSubCallback
    pubSubData,  \* every PubSubData allocated, in order (none is deleted)
    registered,  \* the index of the data the library holds, 0 for none
    returned,    \* some setPubSubCallback call has returned to the host
    pushed,      \* notifications the server has pushed
    delivered,   \* notifications handed to pubSubCallback
    lastRun      \* the JNI context of the last pubSubCallback run

vars == <<frame, inJNI, pubSubData, registered, returned, pushed, delivered, lastRun>>

(* A local reference: the thread and the frame that created it. *)
LocalRef == [thread : HostThreads, frame : Nat]
PubSubDataRec == [env : HostThreads, thiz : LocalRef]
NoRun == [thread |-> Reader, env |-> Reader, thizLive |-> TRUE]

(* A local reference is valid while its frame is the thread's current one. *)
Live(r) == inJNI[r.thread] /\ frame[r.thread] = r.frame

TypeOK ==
    /\ frame \in [HostThreads -> Nat]
    /\ inJNI \in [HostThreads -> BOOLEAN]
    /\ pubSubData \in Seq(PubSubDataRec)
    /\ registered \in 0..Len(pubSubData)
    /\ returned \in BOOLEAN
    /\ pushed \in 0..MaxNotifications /\ delivered \in 0..pushed
    /\ lastRun \in [thread : {Reader}, env : HostThreads \cup {Reader},
                    thizLive : BOOLEAN]

Init ==
    /\ frame = [t \in HostThreads |-> 0]
    /\ inJNI = [t \in HostThreads |-> FALSE]
    /\ pubSubData = <<>>
    /\ registered = 0
    /\ returned = FALSE
    /\ pushed = 0 /\ delivered = 0
    /\ lastRun = NoRun

(* Thread t enters setPubSubCallback: `new PubSubData` with its env and  *)
(* thiz, then SQCloudSetPubSubCallback, which makes the library drop the  *)
(* pointer to the previous data.                                           *)
setPubSubCallbackNoRegister(t) ==
    /\ ~inJNI[t]
    /\ Len(pubSubData) < MaxRegistrations
    /\ frame' = [frame EXCEPT ![t] = @ + 1]
    /\ inJNI' = [inJNI EXCEPT ![t] = TRUE]
    /\ pubSubData' = Append(pubSubData, [env |-> t, thiz |-> [thread |-> t, frame |-> frame[t] + 1]])
    /\ UNCHANGED <<registered, returned, pushed, delivered, lastRun>>

(* The library handed the previous call's data (an off-by-one index). *)
setPubSubCallbackPrevData(t) ==
    /\ ~inJNI[t]
    /\ Len(pubSubData) < MaxRegistrations
    /\ frame' = [frame EXCEPT ![t] = @ + 1]
    /\ inJNI' = [inJNI EXCEPT ![t] = TRUE]
    /\ pubSubData' = Append(pubSubData, [env |-> t, thiz |-> [thread |-> t, frame |-> frame[t] + 1]])
    /\ registered' = Len(pubSubData)
    /\ UNCHANGED <<returned, pushed, delivered, lastRun>>

setPubSubCallback(t) ==
    /\ ~inJNI[t]
    /\ Len(pubSubData) < MaxRegistrations
    /\ frame' = [frame EXCEPT ![t] = @ + 1]
    /\ inJNI' = [inJNI EXCEPT ![t] = TRUE]
    /\ pubSubData' = Append(pubSubData, [env |-> t, thiz |-> [thread |-> t, frame |-> frame[t] + 1]])
    /\ registered' = Len(pubSubData) + 1
    /\ UNCHANGED <<returned, pushed, delivered, lastRun>>

(* setPubSubCallback returns: the JVM frees the frame's local references. *)
returnToHost(t) ==
    /\ inJNI[t]
    /\ inJNI' = [inJNI EXCEPT ![t] = FALSE]
    /\ returned' = TRUE
    /\ UNCHANGED <<frame, pubSubData, registered, pushed, delivered, lastRun>>

(* The server pushes a notification to the connection. *)
serverPush ==
    /\ pushed < MaxNotifications
    /\ pushed' = pushed + 1
    /\ UNCHANGED <<frame, inJNI, pubSubData, registered, returned, delivered, lastRun>>

(* The reader thread runs pubSubCallback for the next notification with   *)
(* the registered data: it wraps the result and calls the host's          *)
(* pubSubCallback method through data->env on data->thiz.                 *)
pubSubCallback ==
    /\ registered # 0
    /\ delivered < pushed
    /\ LET d == pubSubData[registered] IN
         lastRun' = [thread |-> Reader, env |-> d.env, thizLive |-> Live(d.thiz)]
    /\ delivered' = delivered + 1
    /\ UNCHANGED <<frame, inJNI, pubSubData, registered, returned, pushed>>

Next ==
    \/ \E t \in HostThreads : setPubSubCallback(t) \/ returnToHost(t)
    \/ serverPush
    \/ pubSubCallback

(* The reader thread is scheduled by the OS and the JNI call returns: *)
(* both are weakly fair; the host and the server need not act.         *)
Fairness ==
    /\ WF_vars(pubSubCallback)
    /\ \A t \in HostThreads : WF_vars(returnToHost(t))

Spec == Init /\ [][Next]_vars /\ Fairness

-----------------------------------------------------------------------------
(* The refinement mapping to PubSubAbstract: the subscriber is the thread *)
(* whose PubSubData the library holds (Reader, no host thread, stands for *)
(* the empty slot); the subscriptions are the PubSubData allocated, one   *)
(* per setPubSubCallback call; published and delivered are the server's   *)
(* pushes and the callback runs.                                           *)
Subscriber == IF registered = 0 THEN Reader ELSE pubSubData[registered].env

Abs == INSTANCE PubSubAbstract
         WITH Subscribers <- HostThreads, NoSubscriber <- Reader,
              subscriber <- Subscriber,
              subscriptions <- Len(pubSubData), sent <- pushed, received <- delivered

(* The trampoline implements the notification channel: every callback run *)
(* delivers the next pushed notification to the latest registration, and  *)
(* a pending notification is delivered while a registration is held.     *)
ImplementsPubSub == Abs!ASpec

-----------------------------------------------------------------------------
(* pubSubCallback calls the host's method on a `thiz` that is still a    *)
(* valid local reference: the frame of the setPubSubCallback call that   *)
(* stored it is still the registering thread's current frame.            *)
CallbackRefLive == lastRun.thizLive

(* Once a setPubSubCallback call has returned, every notification the    *)
(* server pushes is eventually handed to pubSubCallback.                  *)
NotificationsDelivered ==
    \A n \in 1..MaxNotifications :
        (returned /\ pushed >= n) ~> (delivered >= n)

====
