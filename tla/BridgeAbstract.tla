---------------------------- MODULE BridgeAbstract ----------------------------
(***************************************************************************)
(* What the bridge promises a host that obeys the whole calling contract, *)
(* with the native heap abstracted away: a registry of the objects the    *)
(* host has open.  The host has at most one connection open; it opens      *)
(* results, VMs and blobs, uses them and closes them.  An object is opened *)
(* only at an address that no open object has, and every native call is   *)
(* about an open object.                                                   *)
(***************************************************************************)
EXTENDS TLAPS

CONSTANTS Addr, Null

VARIABLES
    conn,   \* the open connection, or Null
    open,   \* the handles the host has open
    used    \* the object the last step handed to the library

avars == <<conn, open, used>>

Ptr == Addr \cup {Null}
HandleKinds == {"result", "vm", "blob"}
Handle == [addr : Addr, kind : HandleKinds, owner : Ptr]
Use == [ptr : Ptr, kind : HandleKinds \cup {"conn", "none"}, owner : Ptr]
NoUse == [ptr |-> Null, kind |-> "none", owner |-> Null]
ConnUse == [ptr |-> conn, kind |-> "conn", owner |-> Null]
UseOf(h) == [ptr |-> h.addr, kind |-> h.kind, owner |-> h.owner]

(* An address is free to open at when it is neither the connection's nor *)
(* the address of another open object.                                    *)
Unaliased(h) == h.addr # conn /\ \A g \in open : g.addr = h.addr => g = h

AInit ==
    /\ conn = Null
    /\ open = {}
    /\ used = NoUse

(* A step that hands nothing to the library. *)
Idle ==
    /\ used' = NoUse
    /\ UNCHANGED <<conn, open>>

Connect ==
    /\ conn = Null
    /\ \E p \in Addr :
         /\ \A g \in open : g.addr # p
         /\ conn' = p
    /\ used' = NoUse
    /\ UNCHANGED open

(* The connection is closed once its VMs and blobs are. *)
Disconnect ==
    /\ conn # Null
    /\ \A g \in open : g.kind \in {"vm", "blob"} => g.owner # conn
    /\ used' = ConnUse
    /\ conn' = Null
    /\ UNCHANGED open

(* A call on the connection, which may open a result, VM or blob. *)
UseConn ==
    /\ conn # Null
    /\ used' = ConnUse
    /\ \/ open' = open
       \/ \E p \in Addr, k \in HandleKinds :
            LET h == [addr |-> p, kind |-> k,
                      owner |-> IF k = "result" THEN Null ELSE conn]
            IN  Unaliased(h) /\ open' = open \cup {h}
    /\ UNCHANGED conn

(* A call on an open object; a VM may hand out the result it owns. *)
UseOpen ==
    \E h \in open :
       /\ used' = UseOf(h)
       /\ \/ open' = open
          \/ /\ h.kind = "vm"
             /\ \E p \in Addr :
                  LET r == [addr |-> p, kind |-> "result", owner |-> h.addr]
                  IN  Unaliased(r) /\ open' = open \cup {r}
       /\ UNCHANGED conn

(* Closing an object; closing a VM also closes the results it owns, and  *)
(* a result a VM owns is closed only with its VM.                         *)
Close ==
    \E h \in open :
       /\ h.kind = "result" => h.owner = Null
       /\ used' = UseOf(h)
       /\ open' = (open \ {h}) \ {g \in open : g.kind = "result" /\ g.owner = h.addr}
       /\ UNCHANGED conn

ANext == Idle \/ Connect \/ Disconnect \/ UseConn \/ UseOpen \/ Close

ASpec == AInit /\ [][ANext]_avars

-----------------------------------------------------------------------------
(* No two open objects share an address, and none shares the connection's *)
(* (so no call on one can reach another).                                  *)
NoAliasing ==
    /\ \A g, h \in open : g.addr = h.addr => g = h
    /\ \A g \in open : g.addr # conn

-----------------------------------------------------------------------------
(* The inductive invariant: the open objects are handles, the connection *)
(* a pointer, and nothing aliases.                                         *)
AInv == open \subseteq Handle /\ conn \in Ptr /\ NoAliasing

LEMMA AInitInv == ASSUME Null \notin Addr PROVE AInit => AInv
BY DEF AInit, AInv, NoAliasing, Ptr

LEMMA ANextInv ==
  ASSUME Null \notin Addr
  PROVE  AInv /\ [ANext]_avars => AInv'
<1> SUFFICES ASSUME AInv, [ANext]_avars PROVE AInv'
  OBVIOUS
<1> USE DEF AInv, NoAliasing, Ptr, Handle, HandleKinds, Unaliased
<1>1. CASE Idle BY <1>1 DEF Idle
<1>2. CASE Connect BY <1>2 DEF Connect
<1>3. CASE Disconnect BY <1>3 DEF Disconnect
<1>4. CASE UseConn BY <1>4 DEF UseConn
<1>5. CASE UseOpen BY <1>5 DEF UseOpen
<1>6. CASE Close BY <1>6 DEF Close
<1>7. CASE UNCHANGED avars BY <1>7 DEF avars
<1>8. QED BY <1>1, <1>2, <1>3, <1>4, <1>5, <1>6, <1>7 DEF ANext

\* The registry never lets two open objects, or an open object and the
\* connection, share an address.
LEMMA RegistryUnaliased ==
  ASSUME Null \notin Addr
  PROVE  ASpec => []NoAliasing
<1>1. AInit => AInv BY AInitInv
<1>2. AInv /\ [ANext]_avars => AInv' BY ANextInv
<1>3. AInv => NoAliasing BY DEF AInv
<1>4. QED BY <1>1, <1>2, <1>3, PTL DEF ASpec

=============================================================================
