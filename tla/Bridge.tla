------------------------------- MODULE Bridge -------------------------------
(***************************************************************************)
(* The JNI bridge of sqlitecloud.cpp as a protocol over native handles.   *)
(*                                                                         *)
(* Every native object the bridge hands to the Kotlin host (connection,    *)
(* result, virtual machine, blob) lives at an address of the native heap   *)
(* and crosses the boundary as a direct ByteBuffer wrapping that address   *)
(* (wrapPointer / unwrapPointer).  The connection is not passed as an      *)
(* argument: every connection-level entry point reads it back from the     *)
(* host object's `connection` field (getConnection).                       *)
(*                                                                         *)
(* One action is one JNI entry point called by the host, together with    *)
(* the host's bookkeeping of the handle it gets back or gives up.  The     *)
(* native library (sqcloud) is the environment: it allocates at any free   *)
(* address (so addresses are reused) or fails and returns NULL.            *)
(*                                                                         *)
(* The host follows a calling contract.  Each rule a host may or may not   *)
(* obey is named in Rules; Contract is the set it obeys.                   *)
(***************************************************************************)
EXTENDS FiniteSets

CONSTANTS
    Addr,       \* native heap addresses
    Null,       \* the null pointer / null jobject
    Contract    \* the rules of the calling contract the host obeys

\* ClearOnDisconnect: the host sets `connection` to null after doDisconnect.
\* ChildrenFirst:     the host closes its VMs and blobs before doDisconnect.
\* NoFreeBorrowed:    the host never calls freeResult on a vmResult result.
\* BorrowedDieWithVM: the host drops the vmResult results of a VM it closes.
Rules == {"ClearOnDisconnect", "ChildrenFirst", "NoFreeBorrowed",
          "BorrowedDieWithVM"}

ASSUME BridgeAssumption ==
    /\ Null \notin Addr
    /\ Contract \subseteq Rules

Obeys(rule) == rule \in Contract

VARIABLES
    heap,       \* heap[a]: the native object at address a
    field,      \* address wrapped by the host's `connection` ByteBuffer
    connected,  \* the host's own notion that it holds an open connection
    held,       \* the result / VM / blob handles the host holds
    call        \* the native call with a pointer argument made by the last step

vars == <<heap, field, connected, held, call>>

Kinds       == {"conn", "result", "vm", "blob"}
HandleKinds == {"result", "vm", "blob"}
Ptr         == Addr \cup {Null}

(* A heap cell: its kind, the object it belongs to (the connection of a   *)
(* VM or blob, the VM of a VM-owned result) and a VM's current result.    *)
Cell     == [kind : Kinds \cup {"free"}, parent : Ptr, res : Ptr]
FreeCell == [kind |-> "free", parent |-> Null, res |-> Null]
NewCell(k, p) == [kind |-> k, parent |-> p, res |-> Null]

(* A host-side handle: the wrapped address, the Kotlin type it is held as *)
(* and the owner the host got it from (connection or VM).                  *)
Handle == [addr : Addr, kind : HandleKinds, owner : Ptr]

(* The native functions with pointer arguments, grouped by effect. *)
Fns == {"none", "SQCloudDisconnect", "connQuery", "SQCloudUUID", "exec",
        "SQCloudResultFree", "resultQuery", "SQCloudVMCompile",
        "SQCloudVMStep", "vmBind", "vmQuery", "vmColumn", "vmError",
        "SQCloudVMResult", "SQCloudVMClose", "SQCloudBlobOpen",
        "SQCloudBlobReOpen", "blobIO", "SQCloudBlobClose", "transfer"}

(* cb: what is passed where the library expects a callback function. *)
CallRec == [fn : Fns, ptr : Ptr, kind : Kinds \cup {"none"}, owner : Ptr,
            cb : {"none", "jobject"}]
NoCall == [fn |-> "none", ptr |-> Null, kind |-> "none", owner |-> Null,
           cb |-> "none"]
Call(f, p, k, o) == [fn |-> f, ptr |-> p, kind |-> k, owner |-> o, cb |-> "none"]

-----------------------------------------------------------------------------
(* Bridge helpers. *)

(* getConnection: GetDirectBufferAddress of the `connection` field; a null *)
(* buffer yields NULL on the Android runtime.                              *)
getConnection == field

(* wrapPointer: NULL becomes a null jobject (no handle for the host), any *)
(* other pointer a direct ByteBuffer the host keeps.                       *)
wrapPointerNoGuard(p, k, o) == {[addr |-> p, kind |-> k, owner |-> o]}
wrapPointer(p, k, o) == IF p = Null THEN {} ELSE {[addr |-> p, kind |-> k, owner |-> o]}

(* The library's allocator: a free address, or NULL when it fails. *)
Fresh == {a \in Addr : heap[a].kind = "free"} \cup {Null}
Allocated(p, k, o) ==
    heap' = IF p = Null THEN heap ELSE [heap EXCEPT ![p] = NewCell(k, o)]

Held(k) == {h \in held : h.kind = k}

-----------------------------------------------------------------------------
(* Connection-level entry points. *)

doConnectNoGuard ==
    /\ \E p \in Fresh :
         /\ Allocated(p, "conn", Null)
         /\ field' = p
         /\ connected' = (p # Null)
    /\ call' = NoCall
    /\ UNCHANGED held

doConnect ==
    /\ ~connected
    /\ \E p \in Fresh :
         /\ Allocated(p, "conn", Null)
         /\ field' = p
         /\ connected' = (p # Null)
    /\ call' = NoCall
    /\ UNCHANGED held

doDisconnect ==
    /\ connected
    /\ Obeys("ChildrenFirst") => Held("vm") \cup Held("blob") = {}
    /\ call' = Call("SQCloudDisconnect", getConnection, "conn", Null)
    /\ heap' = [heap EXCEPT ![getConnection] = FreeCell]
    /\ connected' = FALSE
    /\ field' = IF Obeys("ClearOnDisconnect") THEN Null ELSE field
    /\ UNCHANGED held

(* isError, isSQLiteError, errorCode, errorMessage, extendedErrorCode,   *)
(* errorOffset: read the connection's error state.                        *)
connectionQuery ==
    /\ connected
    /\ call' = Call("connQuery", getConnection, "conn", Null)
    /\ UNCHANGED <<heap, field, connected, held>>

(* getClientUUID may be called in any state: it checks for a null       *)
(* connection itself.                                                     *)
getClientUUIDNoGuard ==
    /\ call' = Call("SQCloudUUID", getConnection, "conn", Null)
    /\ UNCHANGED <<heap, field, connected, held>>

getClientUUID ==
    /\ call' = IF getConnection = Null THEN NoCall
               ELSE Call("SQCloudUUID", getConnection, "conn", Null)
    /\ UNCHANGED <<heap, field, connected, held>>

(* executeCommand, executeArrayCommand, setPubSubOnly: a new result. *)
executeCommand ==
    /\ connected
    /\ call' = Call("exec", getConnection, "conn", Null)
    /\ \E p \in Fresh :
         /\ Allocated(p, "result", Null)
         /\ held' = held \cup wrapPointer(p, "result", Null)
    /\ UNCHANGED <<field, connected>>

(* uploadDatabase, downloadDatabase: the jobject `callback` is passed,   *)
(* reinterpret_cast, where the library expects a C function pointer.      *)
transferDatabase ==
    /\ connected
    /\ call' = [Call("transfer", getConnection, "conn", Null) EXCEPT !.cb = "jobject"]
    /\ UNCHANGED <<heap, field, connected, held>>

-----------------------------------------------------------------------------
(* Results. *)

freeResultKeepHandle ==
    \E h \in Held("result") :
       /\ Obeys("NoFreeBorrowed") => h.owner = Null
       /\ call' = Call("SQCloudResultFree", h.addr, "result", h.owner)
       /\ heap' = [heap EXCEPT ![h.addr] = FreeCell]
       /\ UNCHANGED <<field, connected, held>>

freeResult ==
    \E h \in Held("result") :
       /\ Obeys("NoFreeBorrowed") => h.owner = Null
       /\ call' = Call("SQCloudResultFree", h.addr, "result", h.owner)
       /\ heap' = [heap EXCEPT ![h.addr] = FreeCell]
       /\ held' = held \ {h}
       /\ UNCHANGED <<field, connected>>

(* resultType ... rowsetResultBufferValue, rowsetColumnName: read-only *)
(* accessors of a result.                                              *)
resultQuery ==
    \E h \in Held("result") :
       /\ call' = Call("resultQuery", h.addr, "result", h.owner)
       /\ UNCHANGED <<heap, field, connected, held>>

-----------------------------------------------------------------------------
(* Virtual machines (prepared statements). *)

vmCompile ==
    /\ connected
    /\ call' = Call("SQCloudVMCompile", getConnection, "conn", Null)
    /\ \E p \in Fresh :
         /\ Allocated(p, "vm", getConnection)
         /\ held' = held \cup wrapPointer(p, "vm", getConnection)
    /\ UNCHANGED <<field, connected>>

(* A step may leave the VM with a result, owned by the VM.  Assumed of  *)
(* the library (its source is not in this repository): SQCloudVMStep     *)
(* never frees or replaces a result the VM already holds, so a VM that   *)
(* has a result keeps it and the step allocates nothing.                 *)
vmStep ==
    \E h \in Held("vm"), p \in Fresh :
       /\ call' = Call("SQCloudVMStep", h.addr, "vm", h.owner)
       /\ heap' = IF p = Null \/ heap[h.addr].res # Null THEN heap
                  ELSE [heap EXCEPT ![p] = NewCell("result", h.addr),
                                    ![h.addr].res = p]
       /\ UNCHANGED <<field, connected, held>>

vmAccess(f) ==
    \E h \in Held("vm") :
       /\ call' = Call(f, h.addr, "vm", h.owner)
       /\ UNCHANGED <<heap, field, connected, held>>

(* vmBindInt ... vmBindNull *)
vmBind == vmAccess("vmBind")

(* vmColumnCount ... vmColumnType *)
vmQuery == vmAccess("vmQuery")

(* vmColumnInt64 ... vmColumnBlob *)
vmColumn == vmAccess("vmColumn")

(* vmErrorCode, vmErrorMessage: the host may pass a null VM (the one a   *)
(* failed vmCompile returned); the bridge then makes no native call.      *)
NullVM == [addr |-> Null, kind |-> "vm", owner |-> Null]

vmErrorQuery ==
    \E h \in Held("vm") \cup {NullVM} :
       /\ call' = IF h.addr = Null THEN NoCall
                  ELSE Call("vmError", h.addr, "vm", h.owner)
       /\ UNCHANGED <<heap, field, connected, held>>

vmResult ==
    \E h \in Held("vm") :
       /\ call' = Call("SQCloudVMResult", h.addr, "vm", h.owner)
       /\ held' = held \cup wrapPointer(heap[h.addr].res, "result", h.addr)
       /\ UNCHANGED <<heap, field, connected>>

(* The library frees the VM and the result it owns. *)
vmClose ==
    \E h \in Held("vm") :
       LET v == h.addr
           r == heap[v].res
       IN  /\ call' = Call("SQCloudVMClose", v, "vm", h.owner)
           /\ heap' = [a \in Addr |-> IF a = v \/ a = r THEN FreeCell ELSE heap[a]]
           /\ held' = (held \ {h}) \
                        (IF Obeys("BorrowedDieWithVM")
                         THEN {g \in Held("result") : g.owner = v} ELSE {})
           /\ UNCHANGED <<field, connected>>

-----------------------------------------------------------------------------
(* Blobs. *)

openBlob ==
    /\ connected
    /\ call' = Call("SQCloudBlobOpen", getConnection, "conn", Null)
    /\ \E p \in Fresh :
         /\ Allocated(p, "blob", getConnection)
         /\ held' = held \cup wrapPointer(p, "blob", getConnection)
    /\ UNCHANGED <<field, connected>>

blobAccess(f) ==
    \E h \in Held("blob") :
       /\ call' = Call(f, h.addr, "blob", h.owner)
       /\ UNCHANGED <<heap, field, connected, held>>

reopenBlob == blobAccess("SQCloudBlobReOpen")

(* blobFieldSize, readBlob, writeBlob *)
blobIO == blobAccess("blobIO")

closeBlob ==
    \E h \in Held("blob") :
       /\ call' = Call("SQCloudBlobClose", h.addr, "blob", h.owner)
       /\ heap' = [heap EXCEPT ![h.addr] = FreeCell]
       /\ held' = held \ {h}
       /\ UNCHANGED <<field, connected>>

-----------------------------------------------------------------------------

Init ==
    /\ heap = [a \in Addr |-> FreeCell]
    /\ field = Null
    /\ connected = FALSE
    /\ held = {}
    /\ call = NoCall

Next ==
    \/ doConnect \/ doDisconnect \/ connectionQuery \/ getClientUUID
    \/ executeCommand \/ transferDatabase
    \/ freeResult \/ resultQuery
    \/ vmCompile \/ vmStep \/ vmBind \/ vmQuery \/ vmColumn
    \/ vmErrorQuery \/ vmResult \/ vmClose
    \/ openBlob \/ reopenBlob \/ blobIO \/ closeBlob

Spec == Init /\ [][Next]_vars

-----------------------------------------------------------------------------
(* Properties. *)

\* Type invariant: every variable holds a value of its intended kind.
TypeOK ==
    /\ heap \in [Addr -> Cell]
    /\ field \in Ptr
    /\ connected \in BOOLEAN
    /\ held \subseteq Handle
    /\ call \in CallRec

(* A native call is safe when its pointer designates a live object of the *)
(* kind the function expects, belonging to the owner the host got it from *)
(* (not a freed cell, nor a different object at a reused address); a VM   *)
(* or blob call also reaches its connection, and SQCloudVMClose also frees *)
(* the VM's result, which must still be that VM's.                        *)
SafeCall(c) ==
    /\ c.ptr \in Addr
    /\ heap[c.ptr].kind = c.kind
    /\ heap[c.ptr].parent = c.owner
    /\ c.kind \in {"vm", "blob"} =>
          heap[c.ptr].parent \in Addr /\ heap[heap[c.ptr].parent].kind = "conn"
    /\ c.fn = "SQCloudVMClose" /\ heap[c.ptr].res # Null =>
          /\ heap[c.ptr].res \in Addr
          /\ heap[heap[c.ptr].res].kind = "result"
          /\ heap[heap[c.ptr].res].parent = c.ptr

(* Memory safety of the bridge: no JNI entry point passes the native      *)
(* library a null, dangling or re-used pointer (getConnection, unwrapVM,  *)
(* unwrapResult, unwrapBlob and the library's own reach from a VM or blob *)
(* to its connection).                                                    *)
NativeCallsSafe == [][call' # NoCall => SafeCall(call')]_vars

(* The strengthened state invariant behind NativeCallsSafe, in parts.     *)
\* The `connection` field wraps a live connection exactly while connected.
ConnectionValid ==
    /\ connected => field \in Addr
    /\ field \in Addr => connected /\ heap[field].kind = "conn"
                         /\ heap[field].parent = Null

\* Every handle the host holds designates the live object it was given.
HeldLive ==
    \A h \in held : heap[h.addr].kind = h.kind /\ heap[h.addr].parent = h.owner

\* Every live VM and blob is held by the host and its connection is live.
ChildrenHeld ==
    \A a \in Addr : heap[a].kind \in {"vm", "blob"} =>
        /\ \E h \in held : h.addr = a
        /\ heap[a].parent \in Addr
        /\ heap[heap[a].parent].kind = "conn"

\* A VM-owned result and its VM point at each other, both live.
VMResultsOwned ==
    /\ \A a \in Addr : heap[a].kind = "vm" /\ heap[a].res # Null =>
          /\ heap[a].res \in Addr
          /\ heap[heap[a].res].kind = "result"
          /\ heap[heap[a].res].parent = a
    /\ \A a \in Addr : heap[a].kind = "result" /\ heap[a].parent # Null =>
          /\ heap[a].parent \in Addr
          /\ heap[heap[a].parent].kind = "vm"
          /\ heap[heap[a].parent].res = a

(* No handle the host holds, and no pointer inside a live native object,  *)
(* is dangling: the invariant a host obeying the whole contract keeps.    *)
HandlesValid == ConnectionValid /\ HeldLive /\ ChildrenHeld /\ VMResultsOwned

-----------------------------------------------------------------------------
(* Refinement: the bridge, seen through the host's handles, implements the *)
(* registry of BridgeAbstract.  The open connection is the field while     *)
(* connected, the open objects are the held handles, and the object a step *)
(* hands the library is the pointer, kind and owner of its native call.    *)
Abs == INSTANCE BridgeAbstract
         WITH conn <- IF connected THEN field ELSE Null,
              open <- held,
              used <- [ptr |-> call.ptr, kind |-> call.kind, owner |-> call.owner]

(* A host obeying the whole contract sees only the registry's behaviours: *)
(* every object is opened at an address no open object has, every call is *)
(* on the connection or an open object, and a VM's results close with it. *)
ImplementsRegistry == Abs!ASpec

=============================================================================
