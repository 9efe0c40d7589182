# Verification of the sqlitecloud-kotlin JNI bridge

The repository's native code is one file,
`src/sqlitecloud/src/main/cpp/sqlitecloud.cpp`. It is the JNI layer between the
Kotlin class `io.sqlitecloud.SQLiteCloudBridge` and the native sqcloud client
library. It owns no protocol logic. What it does own is the way native objects
cross the boundary, and that is what this project models.

- Native pointers become direct `ByteBuffer`s (`wrapPointer`) and become
  pointers again (`unwrapPointer`, `unwrapResult`, `unwrapVM`, `unwrapBlob`).
- The connection is never passed as an argument. Every connection entry point
  reads it back from the host object's `connection` field (`getConnection`).
- A few entry points guard against NULL. The others pass whatever they are
  given.
- Callbacks: `setPubSubCallback` registers a trampoline, and the
  upload/download functions cast a jobject.
- Strings and parameter arrays are marshalled into C buffers.

## 1. Inventory

| Component | State it touches | Operations (source lines) |
|---|---|---|
| Connection | the native connection object; the host's `connection` field | `doConnect` 48-103, `doDisconnect` 105-108, error queries 110-166, `getClientUUID` 216-223, `executeCommand`/`executeArrayCommand` 225-270, `setPubSubOnly` 209-213 |
| Results | native result objects; host result handles | `freeResult` 272-277, accessors 279-432 and 661-668 |
| Virtual machines | native VMs (each tied to a connection), the VM-owned result | `vmCompile` 564-569, binds 513-562, `vmStep` 571-576, `vmClose` 578-582, queries 584-652, `vmResult` 654-659, columns 670-699, `vmErrorCode/Message` 168-189 |
| Blobs | native blob handles (tied to a connection) | `openBlob` 459-472, `reopenBlob` 474-478, `closeBlob` 480-483, size/read/write 485-511 |
| Transfer | the connection and a callback | `uploadDatabase`/`downloadDatabase` 434-457 |
| Pub/sub | a heap `PubSubData {env, thiz}` and the library's reader thread | `setPubSubCallback` 200-207, `pubSubCallback` 191-198 |
| Marshalling | JNI string copies, `calloc` arrays, pinned int arrays | `cString` 13-18, parameter loop 246-266, `NewStringUTF` on library buffers |

**How the components interact.** The host calls the entry points. The
connection creates results, VMs and blobs. A VM owns the result that
`vmResult` returns. The library calls back into the host through
`pubSubCallback` on its own thread. It also calls whatever upload/download was
given as a callback.

**What is hard.**
- Lifetimes across the boundary. Nothing ties a `ByteBuffer` to the life of
  the object it wraps. `doDisconnect` does not clear the field. The allocator
  reuses addresses.
- Ownership that the handle types do not show. A VM result looks like any
  other result.
- A callback that runs on another thread with a captured `JNIEnv` and local
  reference.
- Marshalling edge cases:
  - UTF-16 length against modified-UTF-8 bytes;
  - a types array shorter than the parameter array;
  - null strings;
  - heap (non-direct) buffers under `VALUE_BLOB`;
  - buffers that are never released.

**What makes each component correct.**
- Connection, results, VMs and blobs: no entry point passes the library a
  null, freed or reused pointer, and no handle the host holds dangles.
- Transfer: the callback is a function. The cast is unconditional, so no
  property checks it (see section 9).
- Pub/sub: every pushed notification is delivered to the latest
  registration, and the callback calls the host on a reference that is still
  valid.
- Marshalling: the length passed equals the byte length of the buffer, no
  JNI function is applied where it is undefined, and nothing is read out of
  bounds.

The hazards in `PROJECT.json` list each of these at the line where it bites.

## 2. Modules

| Module | Models | Theorems |
|---|---|---|
| Bridge | connection, results, VMs, blobs, transfer (section 3) | BridgeProofs, BridgeRefinement |
| BridgeAbstract | what Bridge promises: a registry of open objects (section 4) | in the module |
| PubSub | `setPubSubCallback`, `pubSubCallback`, the reader thread (section 5) | PubSubProofs |
| PubSubAbstract | what PubSub promises: a notification channel with one subscriber slot (section 5) | PubSubProofs |
| Marshal | one `executeArrayCommand` call and `cString` (section 6) | MarshalProofs |
| SeqLemmas | no code: facts about `FlattenSeq` and the least-number principle | in the module |

Bridge and PubSub share only the connection, and PubSub abstracts it as
always open. A composition (disconnect racing a delivery) is not modelled; see
section 9.

## 3. Module Bridge

**State.**
- `heap[a]` is the native object at address `a`: its kind, its parent (the
  connection of a VM or blob, the VM of a VM-owned result) and a VM's current
  result.
- `field` is the address in the host's `connection` field.
- `connected` is the host's own flag.
- `held` is the set of result, VM and blob handles the host holds. Each is an
  address, a Kotlin type and the owner it came from.
- `call` is the native call made by the last step: function, pointer, expected
  kind and owner, and what was passed as a callback.

**Actions.** There is one action per entry point, or per group of entry points
with the same effect on this state. The host's bookkeeping is part of each
action: it keeps a returned handle and drops a released one.
- `doConnect`: the library allocates a connection at a free address, or fails
  and returns NULL. The host stores the buffer.
- `doDisconnect`: frees the connection. The field is left as the code leaves
  it, unless the host clears it (rule ClearOnDisconnect).
- `getClientUUID` and `vmErrorQuery`: carry the code's null checks.
- `executeCommand`, `vmCompile` and `openBlob`: allocate and go through
  `wrapPointer`. NULL becomes no handle.
- `vmStep`: may give the VM a result, if it has none.
- `vmResult`: wraps that result as a handle owned by the VM.
- `vmClose`: frees the VM and its result.
- `freeResult` and `closeBlob`: free what they are given.
- The other accessors read a held handle.
- `transferDatabase`: records that a jobject is passed as the callback.

**The native library** is not in this repository. It is the environment, with
these assumptions:
- allocation may fail;
- freed addresses are reused;
- a VM and a blob use their connection;
- a VM owns its result and frees it on close;
- `SQCloudVMStep` never frees or replaces a result the VM already holds. A VM
  that has a result keeps it, and the step allocates nothing. The proofs of
  `HandlesValid` and the refinement rest on this: a step that freed the held
  result would leave the host's `vmResult` handle dangling;
- any NULL, freed or wrong-kind pointer is undefined behaviour.

**The Kotlin host** is not in the source tree either. Its behaviour is a
calling contract, `Contract ⊆ Rules`. Whatever the contract:
- the host uses only handles it holds;
- it calls connection methods, other than `getClientUUID`, only while
  connected;
- it connects only when it is not connected.

The rules a host may or may not obey are:
- **ClearOnDisconnect**: null the field after `doDisconnect`;
- **ChildrenFirst**: close VMs and blobs before disconnecting;
- **NoFreeBorrowed**: never call `freeResult` on a `vmResult` result;
- **BorrowedDieWithVM**: drop a VM's results when closing it.

**Properties.**
- `TypeOK`.
- `NativeCallsSafe` (action property): every native call's pointer designates
  a live object of the expected kind and owner. For a VM or blob call, its
  connection is live too. For `SQCloudVMClose`, the VM's result is still the
  VM's.
- `HandlesValid`: the strengthening, in named parts.
  - `ConnectionValid`: the field wraps a live connection exactly while
    connected.
  - `HeldLive`: every held handle designates the object it was given.
  - `ChildrenHeld`: every live VM and blob is held and has a live connection.
  - `VMResultsOwned`: a VM and its result point at each other.

## 4. Module BridgeAbstract and the refinement

BridgeAbstract states what the bridge promises a host that keeps the whole
contract, without the native heap. Its state is `conn` (the open connection or
`Null`), `open` (the handles open, each an address, a kind and an owner) and
`used` (the object the last step handed the library). Its actions are
`Connect`, `Disconnect` (only once the connection's VMs and blobs are closed),
`UseConn` (which may open a result, VM or blob at an address no open object
has), `UseOpen` (a VM may open a result it owns), `Close` (closing a VM closes
its results) and `Idle`.

Bridge implements it. `Bridge.tla` ends with

    Abs == INSTANCE BridgeAbstract
             WITH conn <- IF connected THEN field ELSE Null,
                  open <- held,
                  used <- [ptr |-> call.ptr, kind |-> call.kind, owner |-> call.owner]

and `ImplementsRegistry == Abs!ASpec` is a PROPERTY of `bridge_contract_safe`.
Every Bridge step maps to one abstract step or a stutter: every call that
reads a held handle maps to `UseOpen`; every allocation maps to `UseConn`; the
frees map to `Close`.

## 5. Module PubSub

**State.**
- `frame[t]` and `inJNI[t]`: the JNI frames of host thread `t`. A local
  reference is the thread and frame that created it, and it is live while
  that frame is current.
- `pubSubData`: every `PubSubData` allocated, in order. None is ever freed.
- `registered`: the one the library holds.
- `pushed` and `delivered`: notifications pushed by the server and handed
  to `pubSubCallback`.
- `lastRun`: the thread, env and reference liveness of the last callback.

**Actions.**
- `setPubSubCallback(t)` (lines 200-207): enter the call, `new PubSubData`
  with `t`'s env and `thiz`, then register it. The library replaces the
  previous registration.
- `returnToHost(t)`: the frame is popped, and `thiz` dies with it.
- `serverPush`.
- `pubSubCallback` (191-198): the reader thread runs with the registered
  data.

**Fairness.** Weak fairness applies only to `pubSubCallback`, because the
library's reader thread is scheduled whenever a notification is queued, and to
`returnToHost`, because a JNI call that does not block returns. The host and
the server need not act, so there is no fairness on `setPubSubCallback` or
`serverPush`.

**Abstraction.** `PubSubAbstract` is what the trampoline promises, without
frames, references or allocations. It is a channel with:
- a subscriber slot;
- a count of subscribe calls;
- notifications sent and received, counted rather than queued.

Its actions are `Subscribe(t)`, `Publish` and `Deliver`. `Deliver` hands
over the next notification, only while the slot is held, and is weakly fair.
`PubSub`'s `Abs == INSTANCE PubSubAbstract WITH ...` maps:
- the subscriber to `pubSubData[registered].env`, or to `Reader` (no host
  thread) while nothing is registered;
- the subscriptions to `Len(pubSubData)`;
- sent to `pushed`, and received to `delivered`.

`ImplementsPubSub == Abs!ASpec` is a property of `pubsub_delivery`.
`setPubSubCallback` is a `Subscribe` of its caller, a callback run is a
`Deliver`, and `returnToHost` is a stutter. A registration that handed the
library the previous call's data (mutant `setPubSubCallbackPrevData`) breaks
the refinement at its first step.

**Property.** `CallbackRefLive`: `pubSubCallback` calls the host's method on a
`thiz` whose frame is still its thread's current one. It is violated only
after a registration, the registering call's return, a push and a callback, in
that order. The run's trace shows exactly that sequence.

## 6. Module Marshal

One `executeArrayCommand` call (lines 236-270), with `cString` (13-18).
- `Init` chooses the host's `params` and `param_types` from `HostCalls`.
- Actions:
  - `prologue` (246-251): the copy of the command, the two `calloc`s and the
    pinned types.
  - `loopBlob` (253-257): `GetDirectBufferAddress` and
    `GetDirectBufferCapacity`, selected by `IsBlobType` (line 254). A heap
    buffer, a String or null gives `NULL` and -1, and the -1 is stored as
    `(-1) % 2^LengthBits`.
  - `loopText` (258-261): `cString`, which is null-checked, then
    `GetStringLength`.
  - `execArray` (263-269): the second pin and the library call.
- Reading `paramTypes[i]` past its end may yield any code, and is recorded in
  `ub`. So is a JNI string function applied to null or to a non-String.
- The conversions are modelled by what they do:
  - `UTF16` splits code points above U+FFFF into surrogates;
  - `GetStringUTFChars` encodes each UTF-16 unit alone (modified UTF-8,
    where NUL takes two bytes) and appends a NUL;
  - `GetStringLength` counts UTF-16 units.
- `UTF8` is the reference encoding the server expects.
- Nothing is freed, so `unreleased` collects every copy and array acquired.
  The code has no release or free call at all. A property about it would
  only restate that, so the leak is a hazard without a property.

`LengthBits` is the width of `paramLengths`' elements: 32 in the code and 16
in the runs, because TLC's integers are 32-bit signed. Every stored length,
`GetDirectBufferCapacity`'s jlong and `GetStringLength`'s jsize alike, is
taken modulo `2^LengthBits`, as the assignment to a `uint32_t` does. In the
runs only the value -1 wraps, so the width does not change any outcome; the
proofs cover every width.

`MarshalAssumption` says what a call of the host is: a sequence of nulls,
Strings (of code points in `CodePoints`, U+0000 to U+10FFFF), direct and
heap buffers, and a sequence of type codes. It also states `UIntRange =
2^LengthBits` to be a positive natural, which the provers cannot derive from
`^`. `HostContract(c)` is what a well-typed call of the Kotlin host
satisfies: a type code for every parameter, `VALUE_BLOB` for a buffer and a
text type for a non-null String. The contract run draws its calls from it.
`MC_Marshal`'s `MCContractWellTyped` checks that they satisfy it.
`BlobsDirect(c)` is weaker. It requires only a type code for every parameter
and a direct buffer under every `VALUE_BLOB`; text parameters may be anything.
It is the hypothesis of the over-read theorem.

**Properties.**
- `NoUndefinedBehaviour`: `ub` stays empty.
- `UBExactly`: at the end, `ub` is empty exactly when `TextParamsAreStrings`
  holds: every parameter has a type code, and each one not coded `VALUE_BLOB`
  is a String. It is checked over arbitrary calls: every kind of parameter,
  and types arrays shorter and longer than `params`.
- `NoOverRead`: every length is within its buffer, and `param_types` has
  `paramCount` entries.
- `ParamsArriveIntact`: the library receives the UTF-8 of each text and the
  bytes of each blob.

## 7. Runs

| Run | cfg | Expect | Shows |
|---|---|---|---|
| bridge_contract_safe | MC_Bridge.cfg | pass (402 states) | under the whole contract TypeOK, HandlesValid and NativeCallsSafe hold with 4 reusable addresses, and Bridge implements BridgeAbstract |
| bridge_uuid_after_disconnect | MC_Bridge_KeepField.cfg | violation | connect, disconnect, getClientUUID: the freed connection reaches SQCloudUUID; the null check at line 219 cannot see it |
| bridge_vm_after_disconnect | MC_Bridge_AnyOrder.cfg | violation | compile, disconnect, vmStep: the VM reaches its freed connection |
| marshal_contract | MC_Marshal.cfg | pass (207 states) | for calls of up to two text/blob parameters with matching types, no undefined JNI use and no length beyond its buffer |
| marshal_lengths | MC_Marshal_Lengths.cfg | violation | `é` or `€` arrives truncated, because its length is counted in UTF-16 units; a character above U+FFFF arrives as CESU |
| marshal_null_param | MC_Marshal_Null.cfg | violation | a null text parameter reaches `GetStringLength(null)` |
| marshal_ub_exact | MC_Marshal_AnyCall.cfg | pass (1503 states) | over all 273 calls of up to two parameters and up to two codes, undefined behaviour occurs exactly for a short types array or a non-String under a text code |
| marshal_heap_blob | MC_Marshal_Heap.cfg | violation | a heap buffer under `VALUE_BLOB` reaches the library as `NULL` with length 2^16-1 (2^32-1 in the code) |
| pubsub_delivery | MC_PubSub.cfg | pass (165 states) | every notification pushed after a registration returned is delivered (liveness under the fairness above), and PubSub implements PubSubAbstract, fairness included |
| pubsub_env | MC_PubSub_Env.cfg | violation | register, return, push, callback: the callback calls the host on the `thiz` of a frame that has returned (and with the registering thread's env) |

**Bounds.**
- **Bridge.** `Addr` has four model values, under symmetry. That is enough for
  a connection, a VM, its result and a second result or blob to be live at
  once, and for every address to be freed and reused by an object of another
  kind. The model has no counters, so the state space is finite and TLC
  explores all of it.
- **Marshal.** The text values cover 1-, 2-, 3- and 4-byte UTF-8 characters
  and an embedded NUL, plus a 2-byte buffer, in calls of up to two parameters.
  That covers every branch of each conversion and both loop branches in either
  order. The any-call run uses one value of each kind (String, null, direct
  buffer, heap buffer) with every types array of up to two codes. That
  covers a short types array, a text code on each non-String, and a blob code
  on each non-buffer.
- **PubSub.** There are two host threads (under symmetry in the violation
  runs), two registrations and two notifications. That allows a
  re-registration from the other thread, and a notification before and after
  it.

**Deadlock.** Bridge checks for deadlock, since `getClientUUID` is always
enabled. Marshal models a single call, which ends at `pc = "done"`. PubSub's
host and server stop at their bounds. Both of these last two therefore say
`CHECK_DEADLOCK FALSE`.

**Fairness.** Bridge assumes none: its properties are safety properties, and
the host may stop calling at any time. PubSub's fairness is given in
section 5.

## 8. Proofs (checked by tlapm)

- **BridgeProofs.**
  - `TypeCorrect: Spec => []TypeOK` holds for every contract. Its lemmas are
    `InitTypeOK` and `NextTypeOK`, with one step per action.
  - `HandlesStayValid` proves `Spec => []HandlesValid`, assuming
    `Contract = Rules`. The inductive invariant is `IInv == TypeOK /\ HandlesValid`. `HandlesValid` already has to be strengthened beyond "held
    handles are live":
    - `ChildrenHeld` is what lets `ChildrenFirst`, which speaks of held
      handles, protect the live VMs.
    - `VMResultsOwned` is what makes `vmClose` free only the result it owns.
    - `heap[field].parent = Null` is what lets a connection call match its
      expected owner.
    - The lemma `AllocChild` covers `vmCompile` and `openBlob`: a fresh
      address is free, so no live object or handle points at it.
  - `CallsAreSafe` proves `Spec => NativeCallsSafe`, assuming the same. It
    follows from `IInv` through the lemma `NextSafeCall`.
- **BridgeAbstract.** The lemma `RegistryUnaliased: ASpec => []NoAliasing`
  holds through the inductive invariant `AInv`. `AInv` adds to `NoAliasing`
  that the open objects are handles and the connection is a pointer. It is
  a fact about the abstract registry only, and `HandlesUnaliased` carries
  it to the code.
- **BridgeRefinement.**
  - `Refinement: Spec => ImplementsRegistry`, assuming `Contract = Rules`.
    - `InitRefines` shows that initial states map to initial states.
    - `NextRefines` takes `[Next]_vars` under `IInv == TypeOK /\ HandlesValid` to
      `[Abs!ANext]_Abs!avars`, with one case per group of actions. It rests
      on these lemmas:
      - `HeldDetermined`: a held handle is fixed by its address;
      - `FreshUnaliased`: a fresh address is unaliased in the abstract
        registry;
      - `ConnStep` and `OpenStep`;
      - `OwnedByVM`: only a VM owns held results, so closing anything else
        closes no results.
    - The temporal step combines these with `TypeCorrect` and
      `HandlesStayValid` by PTL.
  - `HandlesUnaliased: Spec => []Abs!NoAliasing`, for any set of addresses.
    It follows from `Refinement` and `Abs!RegistryUnaliased`: a fact about
    the implementation derived through the abstraction.
- **PubSubProofs.** `PubSubTypeCorrect: Spec => []TypeOK`. TypeOK is
  inductive as it stands, and it includes `registered \in
  0..Len(pubSubData)` (the registered data exists) and `delivered \in
  0..pushed`. The lemma `PubSubNextTypeOK` has one step per action.
  - `PubSubRefinesChannel: Spec => Abs!AInit /\ [][Abs!ANext]_Abs!avars`
    is the safety part of `ImplementsPubSub`. It needs the invariant
    `LatestHeld == registered = Len(pubSubData)`: the library holds the
    data just allocated. Without it, a callback run could not be shown to
    reach the subscriber that the mapping names. `InitRefines` and
    `NextRefines` take each action to its abstract step.
  - `DeliveredOnlyToRegistration: Spec => []Abs!AInv` is derived through
    the refinement from the channel's inductive invariant (`AbsInitInv`,
    `AbsNextInv`). Read as facts about the trampoline:
    - `delivered <= pushed`;
    - the library holds a `PubSubData` exactly when `setPubSubCallback` has
      been called;
    - no callback runs before the first registration.

- **SeqLemmas.**
  - `LeastElement`: every nonempty set of naturals has a least element,
    derived from `WFMin` and `NatLessThanWellFounded` of
    WellFoundedInduction, which take no operator parameter.
  - `FlattenSeqType`: `FlattenSeq` of a sequence of sequences over S is a
    sequence over S, and it is at least as long as its argument when every
    part is nonempty. `FlattenSeq` is defined by a local recursive function.
    The proof shows by least counterexample that a function satisfying its
    recursive equation exists (`FlattenFcn` is then the CHOOSE of one), and
    again by least counterexample that its m-th value is a sequence over S
    of length at least m.
- **MarshalProofs.**
  - Conversion lemmas:
    - `UTF16UnitsType` and `ModifiedUTF8UnitType`: a code point gives one or
      two UTF-16 units, and a unit gives one to three bytes.
    - `UTF16Type` and `UTFCharsType` lift these through `FlattenSeqType`.
      `GetStringUTFChars(cps)` is a sequence of bytes strictly longer than
      `GetStringLength(cps)`, since every unit takes a byte and a NUL
      follows.
  - `MarshalTypeCorrect: Spec => []TypeOK`, for any `HostCalls` and any
    `LengthBits`. TypeOK is not inductive alone. A loop step needs
    `params[i+1]` to have the type of a parameter and the two `calloc`'d
    arrays to have `paramCount` entries. The inductive invariant is
    `IInv == TypeOK /\ Shape`, where `Shape` says:
    - the arguments are a call of the host;
    - `i = 0` before the prologue;
    - both arrays have `paramCount` entries after it;
    - `i = paramCount` at the end.

    `NextIInv` has one lemma per action.

    No run checks Marshal's or PubSub's `TypeOK`. Their variables are given
    their ranges by construction (the `% 2^LengthBits` of every store, the
    index of the data just appended), and no plausible change to the code
    breaks them without first tripping a property the runs do check. The
    type theorems are the lemmas the other proofs stand on.
  - `UBCharacterised: Spec => []UBExactly`, for any `HostCalls`, with no
    contract. Undefined behaviour occurs exactly for the calls that lack a
    type code or pass a non-String under a text code. Null text parameters
    (the `marshal_null_param` finding) and short types arrays are among
    those calls. A well-typed call meets none. The inductive invariant is
    `UInv`: `IInv`, and, after the prologue, `ub = {}` exactly when
    `TextParamsAreStrings(i)` holds for the first `i` parameters.
    `TextParamsStep` extends that condition by one parameter. `LoopUInv`
    splits on whether `paramTypes[i]` is in bounds. In bounds, the code
    read is the host's and decides the branch, and `StringUBEmpty` says a
    String function is defined exactly on a String. Out of bounds, `ub`
    gains `typesOutOfBounds` and the condition fails.
  - `NoOverReadUnderContract` proves `Spec => []NoOverRead`, assuming
    `DirectContract` (every call satisfies `BlobsDirect`). Text parameters
    may be null or buffers.
    - The inductive invariant is `OInv == IInv /\ LengthsWithin`.
      `LengthsWithin` says every entry of the `calloc`'d arrays is within
      its buffer: the zeros of `calloc` describe `NULL`, and the loop
      stores only lengths within their buffers.
    - `BlobParams` gives the type code read at `i+1`. Under `VALUE_BLOB`
      the parameter is a direct buffer.
    - A blob's length is `cap % 2^LengthBits <= cap` (`ModLeq`).
    - A String's length is `GetStringLength % 2^LengthBits`, below the
      length of the modified UTF-8 copy (`ModBelow`, `UTFCharsType`).
    - A non-String under a text code leaves its slot as `calloc` made it.
    - `ExceptWithin` shows the other entries are untouched.

    The hypothesis cannot be dropped. `marshal_heap_blob` shows a heap
    buffer breaking `NoOverRead`.

These hold for every value of the constants; the TLC runs check small ones.
The code points are written `{cp \in Nat : cp <= 1114111}` rather than as
an interval, and `Unit` in MarshalProofs likewise. tlapm's backends fail
(a stack overflow) on an integer interval with a large literal bound; the
two forms denote the same set, and TLC evaluates both.

**TLC only.**
- Liveness: `NotificationsDelivered` and the fairness conjunct
  `WF(Deliver)` of `ImplementsPubSub`. tlapm does not reason about fairness
  or ENABLED. The proved refinement covers `ImplementsPubSub`'s initial
  condition and its steps.
- Marshal: what the conversions compute element by element. The proofs
  establish only their types and lengths. `ParamsArriveIntact`, which compares
  them with `UTF8`, is violated by the code (a finding), so there is nothing
  to prove of it.
- The violation runs.

## 9. Not modelled

- The library's internals: the protocol, TLS and the data encodings.
- The values the accessors return.
- `NewStringUTF` on library result buffers (line 310 and the
  `*StringValue` accessors). Whether those buffers are NUL-terminated is the
  library's business.
- Concurrent calls from several host threads on one connection. Each JNI
  call is atomic in Bridge. This is listed as a hazard.
- The database-transfer callback. `transferDatabase` records that a jobject
  is handed over as the C callback. The cast is unconditional, so a property
  would only restate it, and the library's use of the pointer is outside
  this repository.
- The composition of PubSub with Bridge (a delivery racing `doDisconnect`).
  The library's reader-thread shutdown is not in this repository.
