---------------------------- MODULE BridgeProofs ----------------------------
(***************************************************************************)
(* Proofs about Bridge, for every set of addresses.                        *)
(*   TypeCorrect      : Spec => []TypeOK, for any contract.                *)
(*   HandlesStayValid : under the whole contract, Spec => []HandlesValid.  *)
(*   CallsAreSafe     : under the whole contract, Spec => NativeCallsSafe. *)
(***************************************************************************)
EXTENDS Bridge, TLAPS

-----------------------------------------------------------------------------
(* Type correctness. *)

\* Every JNI entry point keeps every variable in its type.
LEMMA NextTypeOK == TypeOK /\ [Next]_vars => TypeOK'
<1> SUFFICES ASSUME TypeOK, [Next]_vars PROVE TypeOK'
  OBVIOUS
<1> USE BridgeAssumption DEF TypeOK, Cell, FreeCell, NewCell, Handle, CallRec,
        NoCall, Call, Fns, Kinds, HandleKinds, Ptr, Held, getConnection, Fresh,
        Allocated, wrapPointer
<1>1. CASE doConnect BY <1>1 DEF doConnect
<1>2. CASE doDisconnect BY <1>2 DEF doDisconnect
<1>3. CASE connectionQuery BY <1>3 DEF connectionQuery
<1>4. CASE getClientUUID BY <1>4 DEF getClientUUID
<1>5. CASE executeCommand BY <1>5 DEF executeCommand
<1>6. CASE transferDatabase BY <1>6 DEF transferDatabase
<1>7. CASE freeResult BY <1>7 DEF freeResult
<1>8. CASE resultQuery BY <1>8 DEF resultQuery
<1>9. CASE vmCompile BY <1>9 DEF vmCompile
<1>10. CASE vmStep BY <1>10 DEF vmStep
<1>11. CASE vmBind \/ vmQuery \/ vmColumn
  BY <1>11 DEF vmBind, vmQuery, vmColumn, vmAccess
<1>12. CASE vmErrorQuery BY <1>12 DEF vmErrorQuery, NullVM
<1>13. CASE vmResult BY <1>13 DEF vmResult
<1>14. CASE vmClose BY <1>14 DEF vmClose
<1>15. CASE openBlob BY <1>15 DEF openBlob
<1>16. CASE reopenBlob \/ blobIO BY <1>16 DEF reopenBlob, blobIO, blobAccess
<1>17. CASE closeBlob BY <1>17 DEF closeBlob
<1>18. CASE UNCHANGED vars BY <1>18 DEF vars
<1>19. QED
  BY <1>1, <1>2, <1>3, <1>4, <1>5, <1>6, <1>7, <1>8, <1>9, <1>10, <1>11,
     <1>12, <1>13, <1>14, <1>15, <1>16, <1>17, <1>18 DEF Next

\* The initial state is well typed.
LEMMA InitTypeOK == Init => TypeOK
<1>1. FreeCell \in Cell
  BY DEF FreeCell, Cell, Ptr
<1>2. NoCall \in CallRec
  BY DEF NoCall, CallRec, Fns, Kinds, Ptr
<1>3. QED
  BY <1>1, <1>2 DEF Init, TypeOK, Ptr

\* Bridge keeps every variable in its type, whatever contract the host obeys.
THEOREM TypeCorrect == Spec => []TypeOK
BY InitTypeOK, NextTypeOK, PTL DEF Spec

-----------------------------------------------------------------------------
(* Memory safety under the whole calling contract. *)

\* The inductive invariant: the type invariant and HandlesValid.
IInv == TypeOK /\ HandlesValid

\* A host obeying the whole contract obeys each of its rules.
LEMMA ObeysAll ==
  ASSUME Contract = Rules
  PROVE  /\ Obeys("ClearOnDisconnect")
         /\ Obeys("ChildrenFirst")
         /\ Obeys("NoFreeBorrowed")
         /\ Obeys("BorrowedDieWithVM")
BY DEF Obeys, Rules

\* Allocating a VM or a blob on the live connection, and holding it, keeps
\* the handles valid.
LEMMA AllocChild ==
  ASSUME IInv, connected,
         NEW k \in {"vm", "blob"}, NEW p \in Fresh,
         Allocated(p, k, field),
         held' = held \cup wrapPointer(p, k, field),
         field' = field, connected' = connected
  PROVE  HandlesValid'
<1> USE BridgeAssumption
    DEF IInv, TypeOK, HandlesValid, ConnectionValid, HeldLive, ChildrenHeld,
        VMResultsOwned, Cell, FreeCell, NewCell, Handle, Ptr, Fresh, Allocated,
        wrapPointer, Kinds, HandleKinds
<1>1. CASE p = Null
  BY <1>1
<1>2. CASE p # Null
  <2>1. /\ p \in Addr /\ heap[p].kind = "free"
        /\ heap' = [heap EXCEPT ![p] = NewCell(k, field)]
        /\ held' = held \cup {[addr |-> p, kind |-> k, owner |-> field]}
        /\ field \in Addr /\ heap[field].kind = "conn"
    BY <1>2
  <2>2. ConnectionValid'
    BY <2>1
  <2>3. HeldLive'
    BY <2>1
  <2>4. ChildrenHeld'
    <3> SUFFICES ASSUME NEW a \in Addr, heap'[a].kind \in {"vm", "blob"}
                 PROVE  /\ \E h \in held' : h.addr = a
                        /\ heap'[a].parent \in Addr
                        /\ heap'[heap'[a].parent].kind = "conn"
      BY DEF ChildrenHeld
    <3>1. field # p
      BY <2>1
    <3>2. CASE a = p
      <4>1. [addr |-> p, kind |-> k, owner |-> field] \in held'
        BY <2>1
      <4>2. heap'[a].parent = field
        BY <2>1, <3>2
      <4>3. heap'[field] = heap[field]
        BY <2>1, <3>1
      <4>4. QED
        BY <2>1, <3>2, <4>1, <4>2, <4>3
    <3>3. CASE a # p
      <4>1. heap'[a] = heap[a] /\ heap[a].kind \in {"vm", "blob"}
        BY <2>1, <3>3
      <4>2. heap[a].parent \in Addr /\ heap[heap[a].parent].kind = "conn"
            /\ \E h \in held : h.addr = a
        BY <4>1
      <4>3. heap[a].parent # p
        BY <4>2, <2>1
      <4>4. QED
        BY <2>1, <4>1, <4>2, <4>3
    <3>4. QED
      BY <3>2, <3>3
  <2>5. VMResultsOwned'
    BY <2>1
  <2>6. QED
    BY <2>2, <2>3, <2>4, <2>5
<1>3. QED
  BY <1>1, <1>2

\* Every JNI entry point keeps the handles valid under the whole contract.
LEMMA NextHandlesValid ==
  ASSUME Contract = Rules
  PROVE  IInv /\ [Next]_vars => HandlesValid'
<1> SUFFICES ASSUME IInv, [Next]_vars PROVE HandlesValid'
  OBVIOUS
<1> USE ObeysAll, BridgeAssumption
    DEF IInv, TypeOK, HandlesValid, ConnectionValid, HeldLive, ChildrenHeld,
        VMResultsOwned, Cell, FreeCell, NewCell, Handle, Ptr, Held,
        getConnection, Fresh, Allocated, wrapPointer, Kinds, HandleKinds
<1>1. CASE doConnect
  <2>1. PICK p \in Fresh : /\ Allocated(p, "conn", Null)
                           /\ field' = p
                           /\ connected' = (p # Null)
    BY <1>1 DEF doConnect
  <2>2. UNCHANGED held
    BY <1>1 DEF doConnect
  <2>3. CASE p = Null
    BY <1>1, <2>1, <2>2, <2>3
  <2>4. CASE p # Null
    <3>1. heap' = [heap EXCEPT ![p] = NewCell("conn", Null)] /\ heap[p].kind = "free"
      BY <2>1, <2>4
    <3>0. p \in Addr /\ connected' /\ field' = p
      BY <2>1, <2>4
    <3>2. ConnectionValid'
      BY <3>0, <3>1
    <3>3. HeldLive'
      BY <2>2, <3>1
    <3>4. ChildrenHeld'
      BY <2>2, <3>1
    <3>5. VMResultsOwned'
      BY <3>1
    <3>6. QED
      BY <3>2, <3>3, <3>4, <3>5
  <2>5. QED
    BY <2>3, <2>4
<1>2. CASE doDisconnect BY <1>2 DEF doDisconnect
<1>3. CASE connectionQuery BY <1>3 DEF connectionQuery
<1>4. CASE getClientUUID BY <1>4 DEF getClientUUID
<1>5. CASE executeCommand BY <1>5 DEF executeCommand
<1>6. CASE transferDatabase BY <1>6 DEF transferDatabase
<1>7. CASE freeResult BY <1>7 DEF freeResult
<1>8. CASE resultQuery BY <1>8 DEF resultQuery
<1>9. CASE vmCompile
  BY <1>9, AllocChild DEF vmCompile
<1>10. CASE vmStep
  <2>1. PICK h \in Held("vm"), p \in Fresh :
          /\ heap' = IF p = Null \/ heap[h.addr].res # Null THEN heap
                     ELSE [heap EXCEPT ![p] = NewCell("result", h.addr),
                                       ![h.addr].res = p]
          /\ UNCHANGED <<field, connected, held>>
    BY <1>10 DEF vmStep
  <2>2. CASE p = Null \/ heap[h.addr].res # Null
    BY <2>1, <2>2
  <2>3. CASE p # Null /\ heap[h.addr].res = Null
    <3>1. /\ heap' = [heap EXCEPT ![p] = NewCell("result", h.addr), ![h.addr].res = p]
          /\ p \in Addr /\ heap[p].kind = "free" /\ p # h.addr
          /\ h \in held /\ heap[h.addr].kind = "vm"
      BY <2>1, <2>3
    <3>2. ConnectionValid'
      BY <2>1, <3>1
    <3>3. HeldLive'
      BY <2>1, <3>1
    <3>4. ChildrenHeld'
      BY <2>1, <3>1
    <3>5. VMResultsOwned'
      BY <2>3, <3>1
    <3>6. QED
      BY <3>2, <3>3, <3>4, <3>5
  <2>4. QED
    BY <2>2, <2>3
<1>11. CASE vmBind \/ vmQuery \/ vmColumn
  BY <1>11 DEF vmBind, vmQuery, vmColumn, vmAccess
<1>12. CASE vmErrorQuery BY <1>12 DEF vmErrorQuery, NullVM
<1>13. CASE vmResult BY <1>13 DEF vmResult
<1>14. CASE vmClose BY <1>14 DEF vmClose
<1>15. CASE openBlob
  BY <1>15, AllocChild DEF openBlob
<1>16. CASE reopenBlob \/ blobIO BY <1>16 DEF reopenBlob, blobIO, blobAccess
<1>17. CASE closeBlob BY <1>17 DEF closeBlob
<1>18. CASE UNCHANGED vars BY <1>18 DEF vars
<1>19. QED
  BY <1>1, <1>2, <1>3, <1>4, <1>5, <1>6, <1>7, <1>8, <1>9, <1>10, <1>11,
     <1>12, <1>13, <1>14, <1>15, <1>16, <1>17, <1>18 DEF Next

\* Under the whole contract, every native call a step makes is safe.
LEMMA NextSafeCall ==
  ASSUME Contract = Rules
  PROVE  IInv /\ [Next]_vars => [call' # NoCall => SafeCall(call')]_vars
<1> SUFFICES ASSUME IInv, [Next]_vars
             PROVE  [call' # NoCall => SafeCall(call')]_vars
  OBVIOUS
<1>1. CASE UNCHANGED vars
  BY <1>1 DEF vars
<1>2. SUFFICES ASSUME Next, call' # NoCall PROVE SafeCall(call')
  BY <1>1
<1> USE ObeysAll, BridgeAssumption
    DEF IInv, TypeOK, HandlesValid, ConnectionValid, HeldLive, ChildrenHeld,
        VMResultsOwned, Handle, Ptr, Held, getConnection, Call, NoCall, SafeCall
<1>3. CASE doConnect BY <1>2, <1>3 DEF doConnect
<1>4. CASE doDisconnect BY <1>4 DEF doDisconnect
<1>5. CASE connectionQuery BY <1>5 DEF connectionQuery
<1>6. CASE getClientUUID BY <1>2, <1>6 DEF getClientUUID
<1>7. CASE executeCommand BY <1>7 DEF executeCommand
<1>8. CASE transferDatabase BY <1>8 DEF transferDatabase
<1>9. CASE freeResult BY <1>9 DEF freeResult
<1>10. CASE resultQuery BY <1>10 DEF resultQuery
<1>11. CASE vmCompile BY <1>11 DEF vmCompile
<1>12. CASE vmStep BY <1>12 DEF vmStep
<1>13. CASE vmBind \/ vmQuery \/ vmColumn
  BY <1>13 DEF vmBind, vmQuery, vmColumn, vmAccess
<1>14. CASE vmErrorQuery BY <1>2, <1>14 DEF vmErrorQuery, NullVM
<1>15. CASE vmResult BY <1>15 DEF vmResult
<1>16. CASE vmClose BY <1>16 DEF vmClose
<1>17. CASE openBlob BY <1>17 DEF openBlob
<1>18. CASE reopenBlob \/ blobIO BY <1>18 DEF reopenBlob, blobIO, blobAccess
<1>19. CASE closeBlob BY <1>19 DEF closeBlob
<1>20. QED
  BY <1>2, <1>3, <1>4, <1>5, <1>6, <1>7, <1>8, <1>9, <1>10, <1>11, <1>12,
     <1>13, <1>14, <1>15, <1>16, <1>17, <1>18, <1>19 DEF Next

\* A host obeying the whole contract never holds a dangling handle, and no
\* live VM, blob or VM-owned result points at freed memory.
THEOREM HandlesStayValid ==
  ASSUME Contract = Rules
  PROVE  Spec => []HandlesValid
<1>1. Init => IInv
  BY InitTypeOK, BridgeAssumption DEF Init, IInv, HandlesValid, ConnectionValid,
     HeldLive, ChildrenHeld, VMResultsOwned, FreeCell
<1>2. IInv /\ [Next]_vars => IInv'
  BY NextTypeOK, NextHandlesValid DEF IInv
<1>3. IInv => HandlesValid
  BY DEF IInv
<1>4. QED
  BY <1>1, <1>2, <1>3, PTL DEF Spec

\* A host obeying the whole contract never makes the bridge pass the native
\* library a null, dangling or reused pointer.
THEOREM CallsAreSafe ==
  ASSUME Contract = Rules
  PROVE  Spec => NativeCallsSafe
<1>1. Init => IInv
  BY InitTypeOK, BridgeAssumption DEF Init, IInv, HandlesValid, ConnectionValid,
     HeldLive, ChildrenHeld, VMResultsOwned, FreeCell
<1>2. IInv /\ [Next]_vars => IInv'
  BY NextTypeOK, NextHandlesValid DEF IInv
<1>3. QED
  BY <1>1, <1>2, NextSafeCall, PTL DEF Spec, NativeCallsSafe

=============================================================================
