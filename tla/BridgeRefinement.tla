--------------------------- MODULE BridgeRefinement ---------------------------
(***************************************************************************)
(* Proof that Bridge, under the whole calling contract, implements the    *)
(* registry of BridgeAbstract through the mapping Abs of Bridge.          *)
(***************************************************************************)
EXTENDS BridgeProofs

\* The mapped connection.
AConn == IF connected THEN field ELSE Null

\* A fresh native address is neither the connection's nor a held handle's.
LEMMA FreshUnaliased ==
  ASSUME IInv, NEW p \in Addr, heap[p].kind = "free"
  PROVE  /\ p # AConn
         /\ \A g \in held : g.addr # p
<1>1. p # AConn
  BY BridgeAssumption DEF IInv, HandlesValid, ConnectionValid, AConn
<1>2. \A g \in held : g.addr # p
  BY DEF IInv, TypeOK, HandlesValid, HeldLive, Handle, HandleKinds
<1>3. QED BY <1>1, <1>2

\* Two held handles at one address are the same handle.
LEMMA HeldDetermined ==
  ASSUME IInv, NEW g \in held, NEW h \in held, g.addr = h.addr
  PROVE  g = h
BY DEF IInv, TypeOK, HandlesValid, HeldLive, Handle, Cell, HandleKinds

\* The initial state is the registry's initial state.
LEMMA InitRefines == Init => Abs!AInit
BY BridgeAssumption DEF Init, Abs!AInit, Abs!NoUse, NoCall

\* A call on the live connection that may open a new result, VM or blob is
\* a UseConn step of the registry.
LEMMA ConnStep ==
  ASSUME IInv, connected, connected' = connected, field' = field,
         call'.ptr = field, call'.kind = "conn", call'.owner = Null,
         NEW k \in HandleKinds, NEW p \in Fresh,
         \/ held' = held
         \/ held' = held \cup wrapPointer(p, k, IF k = "result" THEN Null ELSE field)
  PROVE  Abs!UseConn
<1> DEFINE h == [addr |-> p, kind |-> k, owner |-> IF k = "result" THEN Null ELSE field]
<1>1. /\ [ptr |-> call.ptr, kind |-> call.kind, owner |-> call.owner]' = Abs!ConnUse
      /\ AConn # Null /\ AConn' = AConn
  BY BridgeAssumption DEF Abs!ConnUse, AConn, IInv, HandlesValid, ConnectionValid
<1>2. CASE held' = held \/ p = Null
  <2>1. held' = held
    BY <1>2 DEF wrapPointer
  <2>2. QED
    BY <1>1, <2>1 DEF Abs!UseConn, AConn
<1>3. CASE held' # held /\ p # Null
  <2>1. p \in Addr /\ heap[p].kind = "free"
    BY <1>3, BridgeAssumption DEF Fresh
  <2>2. held' = held \cup {h}
    BY <1>3 DEF wrapPointer
  <2>3. Abs!Unaliased(h)
    BY <2>1, FreshUnaliased DEF Abs!Unaliased, AConn
  <2>4. h.owner = IF k = "result" THEN Null ELSE AConn
    BY DEF AConn
  <2>5. k \in Abs!HandleKinds
    BY DEF HandleKinds, Abs!HandleKinds
  <2>6. QED
    BY <1>1, <2>1, <2>2, <2>3, <2>4, <2>5 DEF Abs!UseConn, AConn
<1>4. QED
  BY <1>2, <1>3

\* A call on a held handle that leaves the handles as they are is a
\* UseOpen step of the registry.
LEMMA OpenStep ==
  ASSUME NEW h \in held, held' = held, connected' = connected, field' = field,
         call'.ptr = h.addr, call'.kind = h.kind, call'.owner = h.owner
  PROVE  Abs!UseOpen
BY DEF Abs!UseOpen, Abs!UseOf

\* No held result is owned by a live object other than a VM.
LEMMA OwnedByVM ==
  ASSUME IInv, NEW h \in held, h.kind # "vm"
  PROVE  {g \in held : g.kind = "result" /\ g.owner = h.addr} = {}
<1> SUFFICES ASSUME NEW g \in held, g.kind = "result", g.owner = h.addr
             PROVE  FALSE
  OBVIOUS
<1>1. h.addr \in Addr /\ heap[h.addr].kind = h.kind
  BY DEF IInv, TypeOK, HandlesValid, HeldLive, Handle
<1>2. heap[g.addr].kind = "result" /\ heap[g.addr].parent = h.addr
  BY DEF IInv, TypeOK, HandlesValid, HeldLive, Handle
<1>3. g.addr \in Addr
  BY DEF IInv, TypeOK, Handle
<1>4. heap[h.addr].kind = "vm"
  BY <1>1, <1>2, <1>3, BridgeAssumption DEF IInv, HandlesValid, VMResultsOwned
<1>5. QED
  BY <1>1, <1>4

\* Under the whole contract every step of the bridge is a step of the
\* registry or leaves the mapped state unchanged.
LEMMA NextRefines ==
  ASSUME Contract = Rules
  PROVE  IInv /\ [Next]_vars => [Abs!ANext]_Abs!avars
<1> SUFFICES ASSUME IInv, [Next]_vars PROVE [Abs!ANext]_Abs!avars
  OBVIOUS
<1> USE ObeysAll, BridgeAssumption
<1>0. /\ TypeOK /\ ConnectionValid
      /\ Null \in Fresh /\ "result" \in HandleKinds
  BY DEF IInv, HandlesValid, Fresh, HandleKinds
<1>1. CASE doConnect
  <2>1. PICK p \in Fresh : /\ Allocated(p, "conn", Null)
                           /\ field' = p
                           /\ connected' = (p # Null)
    BY <1>1 DEF doConnect
  <2>2. ~connected /\ call' = NoCall /\ held' = held
    BY <1>1 DEF doConnect
  <2>3. AConn = Null
    BY <2>2 DEF AConn
  <2>4. [ptr |-> call.ptr, kind |-> call.kind, owner |-> call.owner]' = Abs!NoUse
    BY <2>2 DEF NoCall, Abs!NoUse
  <2>5. CASE p = Null
    <3>1. Abs!Idle
      BY <2>1, <2>2, <2>3, <2>4, <2>5 DEF Abs!Idle, AConn
    <3>2. QED BY <3>1 DEF Abs!ANext
  <2>6. CASE p # Null
    <3>1. p \in Addr /\ heap[p].kind = "free"
      BY <2>6 DEF Fresh
    <3>2. \A g \in held : g.addr # p
      BY <3>1, FreshUnaliased
    <3>3. Abs!Connect
      BY <2>1, <2>2, <2>3, <2>4, <2>6, <3>1, <3>2 DEF Abs!Connect, AConn
    <3>4. QED BY <3>3 DEF Abs!ANext
  <2>7. QED BY <2>5, <2>6
<1>2. CASE doDisconnect
  <2>1. /\ connected /\ ~connected' /\ held' = held
        /\ Held("vm") \cup Held("blob") = {}
        /\ call' = Call("SQCloudDisconnect", field, "conn", Null)
    BY <1>2 DEF doDisconnect, getConnection
  <2>2. \A g \in held : g.kind \notin {"vm", "blob"}
    BY <2>1 DEF Held
  <2>3. [ptr |-> call.ptr, kind |-> call.kind, owner |-> call.owner]' = Abs!ConnUse
    BY <2>1 DEF Abs!ConnUse, AConn, Call
  <2>4. AConn # Null /\ AConn' = Null
    BY <1>0, <2>1 DEF AConn, ConnectionValid
  <2>5. Abs!Disconnect
    BY <2>1, <2>2, <2>3, <2>4 DEF Abs!Disconnect, AConn
  <2>6. QED BY <2>5 DEF Abs!ANext
<1>3. CASE connectionQuery \/ transferDatabase
  <2>1. /\ connected /\ connected' = connected /\ field' = field /\ held' = held
        /\ call'.ptr = field /\ call'.kind = "conn" /\ call'.owner = Null
    BY <1>3 DEF connectionQuery, transferDatabase, getConnection, Call
  <2>2. Abs!UseConn
    BY <2>1, ConnStep, <1>0
  <2>3. QED BY <2>2 DEF Abs!ANext
<1>4. CASE getClientUUID
  <2>1. CASE field = Null
    <3>1. ~connected
      BY <1>0, <2>1 DEF ConnectionValid
    <3>2. Abs!Idle
      BY <1>4, <2>1, <3>1 DEF getClientUUID, getConnection, Abs!Idle,
                              Abs!NoUse, NoCall
    <3>3. QED BY <3>2 DEF Abs!ANext
  <2>2. CASE field # Null
    <3>1. connected
      BY <1>0, <2>2 DEF ConnectionValid, TypeOK, Ptr
    <3>2. /\ connected' = connected /\ field' = field /\ held' = held
          /\ call'.ptr = field /\ call'.kind = "conn" /\ call'.owner = Null
      BY <1>4, <2>2 DEF getClientUUID, getConnection, Call
    <3>3. Abs!UseConn
      BY <3>1, <3>2, ConnStep, <1>0
    <3>4. QED BY <3>3 DEF Abs!ANext
  <2>3. QED BY <2>1, <2>2
<1>5. CASE executeCommand \/ vmCompile \/ openBlob
  <2>1. PICK k \in HandleKinds, p \in Fresh :
          /\ connected /\ connected' = connected /\ field' = field
          /\ call'.ptr = field /\ call'.kind = "conn" /\ call'.owner = Null
          /\ held' = held \cup wrapPointer(p, k, IF k = "result" THEN Null ELSE field)
    BY <1>5 DEF executeCommand, vmCompile, openBlob, getConnection, Call, HandleKinds
  <2>2. Abs!UseConn
    BY <2>1, ConnStep
  <2>3. QED BY <2>2 DEF Abs!ANext
<1>6. CASE resultQuery \/ vmStep \/ vmBind \/ vmQuery \/ vmColumn
           \/ reopenBlob \/ blobIO
  <2>1. PICK h \in held :
          /\ held' = held /\ connected' = connected /\ field' = field
          /\ call'.ptr = h.addr /\ call'.kind = h.kind /\ call'.owner = h.owner
    <3>1. CASE resultQuery
      BY <3>1 DEF resultQuery, Held, Call
    <3>2. CASE vmStep
      BY <3>2 DEF vmStep, Held, Call
    <3>3. CASE vmBind \/ vmQuery \/ vmColumn
      BY <3>3 DEF vmBind, vmQuery, vmColumn, vmAccess, Held, Call
    <3>4. CASE reopenBlob \/ blobIO
      BY <3>4 DEF reopenBlob, blobIO, blobAccess, Held, Call
    <3>5. QED BY <1>6, <3>1, <3>2, <3>3, <3>4
  <2>2. Abs!UseOpen
    BY <2>1, OpenStep
  <2>3. QED BY <2>2 DEF Abs!ANext
<1>7. CASE vmErrorQuery
  <2>1. PICK h \in Held("vm") \cup {NullVM} :
          /\ call' = IF h.addr = Null THEN NoCall
                     ELSE Call("vmError", h.addr, "vm", h.owner)
          /\ UNCHANGED <<heap, field, connected, held>>
    BY <1>7 DEF vmErrorQuery
  <2>2. CASE h = NullVM
    <3>1. Abs!Idle
      BY <2>1, <2>2 DEF NullVM, NoCall, Abs!Idle, Abs!NoUse, AConn
    <3>2. QED BY <3>1 DEF Abs!ANext
  <2>3. CASE h # NullVM
    <3>1. h \in held /\ h.kind = "vm" /\ h.addr # Null
      BY <1>0, <2>1, <2>3 DEF Held, TypeOK, Handle, NullVM
    <3>2. Abs!UseOpen
      BY <2>1, <3>1, OpenStep DEF Call
    <3>3. QED BY <3>2 DEF Abs!ANext
  <2>4. QED BY <2>2, <2>3
<1>8. CASE vmResult
  <2>1. PICK h \in Held("vm") :
          /\ call' = Call("SQCloudVMResult", h.addr, "vm", h.owner)
          /\ held' = held \cup wrapPointer(heap[h.addr].res, "result", h.addr)
          /\ UNCHANGED <<heap, field, connected>>
    BY <1>8 DEF vmResult
  <2>2. CASE heap[h.addr].res = Null
    <3>1. held' = held
      BY <2>1, <2>2 DEF wrapPointer
    <3>2. Abs!UseOpen
      BY <2>1, <3>1, OpenStep DEF Held, Call
    <3>3. QED BY <3>2 DEF Abs!ANext
  <2>3. CASE heap[h.addr].res # Null
    <3> DEFINE r == [addr |-> heap[h.addr].res, kind |-> "result", owner |-> h.addr]
    <3>1. h \in held /\ h.kind = "vm" /\ h.addr \in Addr /\ heap[h.addr].kind = "vm"
      BY DEF Held, IInv, TypeOK, HandlesValid, HeldLive, Handle
    <3>2. r.addr \in Addr /\ heap[r.addr].kind = "result" /\ heap[r.addr].parent = h.addr
      BY <2>3, <3>1 DEF IInv, HandlesValid, VMResultsOwned
    <3>3. held' = held \cup {r}
      BY <2>1, <2>3 DEF wrapPointer
    <3>4. r.addr # AConn
      BY <1>0, <3>2 DEF AConn, ConnectionValid
    <3>5. \A g \in held : g.addr = r.addr => g = r
      BY <3>2 DEF IInv, TypeOK, HandlesValid, HeldLive, Handle, HandleKinds
    <3>6. Abs!UseOpen
      <4>1. [ptr |-> call.ptr, kind |-> call.kind, owner |-> call.owner]' = Abs!UseOf(h)
        BY <2>1 DEF Call, Abs!UseOf, Held
      <4>2. Abs!Unaliased(r)
        BY <3>4, <3>5 DEF Abs!Unaliased, AConn
      <4>3. AConn' = AConn
        BY <2>1 DEF AConn
      <4>4. QED
        BY <3>1, <3>2, <3>3, <4>1, <4>2, <4>3 DEF Abs!UseOpen, AConn
    <3>7. QED BY <3>6 DEF Abs!ANext
  <2>4. QED BY <2>2, <2>3
<1>9. CASE freeResult \/ closeBlob \/ vmClose
  <2>1. PICK h \in held :
          /\ h.kind = "result" => h.owner = Null
          /\ call'.ptr = h.addr /\ call'.kind = h.kind /\ call'.owner = h.owner
          /\ held' = (held \ {h}) \ {g \in held : g.kind = "result" /\ g.owner = h.addr}
          /\ connected' = connected /\ field' = field
    <3>1. CASE freeResult \/ closeBlob
      <4>1. PICK h \in held : /\ h.kind \in {"result", "blob"}
                              /\ h.kind = "result" => h.owner = Null
                              /\ call'.ptr = h.addr /\ call'.kind = h.kind
                              /\ call'.owner = h.owner
                              /\ held' = held \ {h}
                              /\ connected' = connected /\ field' = field
        BY <3>1 DEF freeResult, closeBlob, Held, Call, Obeys
      <4>2. {g \in held : g.kind = "result" /\ g.owner = h.addr} = {}
        BY <4>1, OwnedByVM
      <4>3. QED BY <4>1, <4>2
    <3>2. CASE vmClose
      BY <3>2 DEF vmClose, Held, Call, Obeys
    <3>3. QED BY <1>9, <3>1, <3>2
  <2>2. Abs!Close
    BY <2>1 DEF Abs!Close, Abs!UseOf, AConn
  <2>3. QED BY <2>2 DEF Abs!ANext
<1>10. CASE UNCHANGED vars
  BY <1>10 DEF vars, Abs!avars, AConn
<1>11. QED
  BY <1>1, <1>2, <1>3, <1>4, <1>5, <1>6, <1>7, <1>8, <1>9, <1>10 DEF Next

\* A host obeying the whole contract sees only behaviours of the registry.
THEOREM Refinement ==
  ASSUME Contract = Rules
  PROVE  Spec => ImplementsRegistry
<1>1. Spec => []IInv
  BY TypeCorrect, HandlesStayValid, PTL DEF IInv
<1>2. IInv /\ [Next]_vars => [Abs!ANext]_Abs!avars
  BY NextRefines
<1>3. Init => Abs!AInit
  BY InitRefines
<1>4. QED
  BY <1>1, <1>2, <1>3, PTL DEF Spec, ImplementsRegistry, Abs!ASpec

\* Through the registry: no two handles a contract-obeying host holds share
\* an address, and none shares the connection's.
THEOREM HandlesUnaliased ==
  ASSUME Contract = Rules
  PROVE  Spec => []Abs!NoAliasing
<1>1. Spec => ImplementsRegistry
  BY Refinement
<1>2. ImplementsRegistry => []Abs!NoAliasing
  BY BridgeAssumption, Abs!RegistryUnaliased DEF ImplementsRegistry
<1>3. QED
  BY <1>1, <1>2

====
