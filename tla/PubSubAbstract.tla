---------------------------- MODULE PubSubAbstract ----------------------------
(***************************************************************************)
(* What the pub/sub trampoline promises, with JNI frames, references and  *)
(* the PubSubData allocations abstracted away: a notification channel     *)
(* with one subscriber slot.  A subscription replaces the subscriber; the  *)
(* server publishes notifications; they are delivered one at a time, in   *)
(* the order published, each once, and only while someone is subscribed.  *)
(* Notifications are counted, not queued (an immutable queue: `received`  *)
(* is the index of the next one to deliver).                              *)
(***************************************************************************)
EXTENDS Naturals

CONSTANTS
    Subscribers,   \* who may subscribe
    NoSubscriber   \* the empty slot

VARIABLES
    subscriber,     \* the current subscriber, or NoSubscriber
    subscriptions,  \* subscribe calls made
    sent,        \* notifications published
    received     \* notifications delivered

avars == <<subscriber, subscriptions, sent, received>>

AInit ==
    /\ subscriber = NoSubscriber
    /\ subscriptions = 0
    /\ sent = 0
    /\ received = 0

(* A subscribe call of t takes the subscriber slot. *)
Subscribe(t) ==
    /\ subscriber' = t
    /\ subscriptions' = subscriptions + 1
    /\ UNCHANGED <<sent, received>>

(* The server publishes a notification. *)
Publish ==
    /\ sent' = sent + 1
    /\ UNCHANGED <<subscriber, subscriptions, received>>

(* The next published notification is delivered to the subscriber. *)
Deliver ==
    /\ subscriber # NoSubscriber
    /\ received < sent
    /\ received' = received + 1
    /\ UNCHANGED <<subscriber, subscriptions, sent>>

ANext == (\E t \in Subscribers : Subscribe(t)) \/ Publish \/ Deliver

(* A pending notification is delivered while someone is subscribed. *)
ASpec == AInit /\ [][ANext]_avars /\ WF_avars(Deliver)

(* Nothing is delivered that was not published, the slot is held exactly *)
(* once someone has subscribed, and so nothing is delivered before the    *)
(* first subscription.                                                     *)
AInv ==
    /\ subscriptions \in Nat /\ sent \in Nat /\ received \in 0..sent
    /\ subscriber \in Subscribers \cup {NoSubscriber}
    /\ subscriber # NoSubscriber <=> subscriptions > 0
    /\ received > 0 => subscriptions > 0
====
