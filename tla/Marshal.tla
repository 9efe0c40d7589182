------------------------------- MODULE Marshal -------------------------------
(***************************************************************************)
(* Parameter marshalling of executeArrayCommand (sqlitecloud.cpp 236-270) *)
(* and cString (13-18), for one call.                                      *)
(*                                                                         *)
(* A Java string is a sequence of Unicode code points.  The JVM holds it   *)
(* as UTF-16 code units; GetStringUTFChars copies it out in the JVM's      *)
(* "modified UTF-8" (each UTF-16 unit encoded alone, U+0000 as two bytes)  *)
(* and GetStringLength counts UTF-16 units.  The native library reads     *)
(* exactly paramLengths[i] bytes of nativeParams[i] and expects the        *)
(* standard UTF-8 encoding of a text parameter.                            *)
(***************************************************************************)
EXTENDS Integers, Sequences, SequencesExt

CONSTANTS
    HostCalls,  \* the <<params, param_types>> pairs the host may pass
    LengthBits  \* the width of paramLengths' elements (uint32_t: 32)

(* The type codes of sqcloud.h the loop can meet; only VALUE_BLOB is      *)
(* told apart.                                                             *)
TypeCodes == {"VALUE_INTEGER", "VALUE_TEXT", "VALUE_BLOB"}

(* A parameter: a java.lang.String, a direct ByteBuffer of some capacity, *)
(* a heap (non-direct) ByteBuffer, or a null reference.                    *)
NullRef == [obj |-> "null"]
Text(cps) == [obj |-> "String", cps |-> cps]
Blob(cap) == [obj |-> "ByteBuffer", cap |-> cap]
HeapBlob(cap) == [obj |-> "HeapByteBuffer", cap |-> cap]

(* What a native buffer pointer designates: NULL or a run of bytes. *)
NullBuf == [ptr |-> "NULL", bytes |-> <<>>]
Buf(bytes) == [ptr |-> "mem", bytes |-> bytes]

(* The Unicode code points a Java string can hold, U+0000 to U+10FFFF. *)
CodePoints == {cp \in Nat : cp <= 1114111}

(* The number of values of a paramLengths element. *)
UIntRange == 2^LengthBits

ASSUME MarshalAssumption ==
    /\ LengthBits \in Nat \ {0}
    /\ UIntRange \in Nat \ {0}    \* 2^LengthBits, stated for the provers
    /\ \A c \in HostCalls :
         /\ c[1] \in Seq([obj : {"null"}] \cup
                         [obj : {"String"}, cps : Seq(CodePoints)] \cup
                         [obj : {"ByteBuffer", "HeapByteBuffer"}, cap : Nat])
         /\ c[2] \in Seq(TypeCodes)

-----------------------------------------------------------------------------
(* The JVM's string conversions. *)

(* A code point as UTF-16 units: a surrogate pair above U+FFFF. *)
UTF16Units(cp) ==
    IF cp < 65536 THEN <<cp>>
    ELSE <<55296 + (cp - 65536) \div 1024, 56320 + ((cp - 65536) % 1024)>>

UTF16(cps) == FlattenSeq([k \in 1..Len(cps) |-> UTF16Units(cps[k])])

(* Modified UTF-8 of one UTF-16 unit: NUL takes two bytes, a surrogate    *)
(* three, so a supplementary character takes six.                         *)
ModifiedUTF8Unit(u) ==
    IF u # 0 /\ u < 128 THEN <<u>>
    ELSE IF u < 2048 THEN <<192 + u \div 64, 128 + (u % 64)>>
    ELSE <<224 + u \div 4096, 128 + ((u \div 64) % 64), 128 + (u % 64)>>

(* GetStringUTFChars: the modified UTF-8 bytes, then a NUL. *)
GetStringUTFChars(cps) ==
    LET units == UTF16(cps)
    IN  FlattenSeq([k \in 1..Len(units) |-> ModifiedUTF8Unit(units[k])]) \o <<0>>

(* GetStringLength: the length in UTF-16 units. *)
GetStringLengthInBytes(cps) == 2 * Len(UTF16(cps))
GetStringLength(cps) == Len(UTF16(cps))

(* The reference: standard UTF-8 of a code point sequence. *)
UTF8CodePoint(cp) ==
    IF cp < 128 THEN <<cp>>
    ELSE IF cp < 2048 THEN <<192 + cp \div 64, 128 + (cp % 64)>>
    ELSE IF cp < 65536
         THEN <<224 + cp \div 4096, 128 + ((cp \div 64) % 64), 128 + (cp % 64)>>
    ELSE <<240 + cp \div 262144, 128 + ((cp \div 4096) % 64),
           128 + ((cp \div 64) % 64), 128 + (cp % 64)>>

UTF8(cps) == FlattenSeq([k \in 1..Len(cps) |-> UTF8CodePoint(cps[k])])

-----------------------------------------------------------------------------
VARIABLES
    params, param_types,   \* the host's arguments (jobjectArray, jintArray)
    pc,                    \* "start", "loop" or "done" (SQCloudExecArray called)
    i,                     \* the loop index
    nativeParams,          \* the calloc'd array of buffer pointers
    paramLengths,          \* the calloc'd array of uint32_t lengths
    unreleased,            \* JNI copies and C arrays acquired and not released
    ub                     \* the undefined behaviours met so far

vars == <<params, param_types, pc, i, nativeParams, paramLengths, unreleased, ub>>

paramCount == Len(params)

(* A JNI copy or C array: the command, a parameter's UTF copy, an array. *)
Acquired(b) == [buf |-> b, k |-> 0]
ParamCopy(k) == [buf |-> "paramCopy", k |-> k]

TypeOK ==
    /\ pc \in {"start", "loop", "done"}
    /\ i \in 0..paramCount
    /\ nativeParams \in Seq([ptr : {"NULL", "mem"}, bytes : Seq(0..255)])
    /\ paramLengths \in Seq(0..(UIntRange - 1))
    /\ unreleased \subseteq {Acquired(b) : b \in {"command", "nativeParams", "paramLengths",
                                                 "paramTypes", "types"}}
                           \cup {ParamCopy(k) : k \in 1..paramCount}
    /\ ub \subseteq {"typesOutOfBounds", "GetStringLengthOfNull", "StringOfNonString"}

Init ==
    /\ \E c \in HostCalls : params = c[1] /\ param_types = c[2]
    /\ pc = "start"
    /\ i = 0
    /\ nativeParams = <<>>
    /\ paramLengths = <<>>
    /\ unreleased = {}
    /\ ub = {}

(* Lines 246-251: the command is copied out, two arrays are calloc'd and  *)
(* the int array is pinned.                                                *)
prologue ==
    /\ pc = "start"
    /\ nativeParams' = [k \in 1..paramCount |-> NullBuf]
    /\ paramLengths' = [k \in 1..paramCount |-> 0]
    /\ unreleased' = {Acquired(b) : b \in {"command", "nativeParams", "paramLengths",
                                           "paramTypes"}}
    /\ pc' = "loop"
    /\ UNCHANGED <<params, param_types, i, ub>>

TypeIndex == i
TypeRead(t) == TypeIndex < Len(param_types) => t = param_types[TypeIndex + 1]
TypeUB == IF TypeIndex < Len(param_types) THEN {} ELSE {"typesOutOfBounds"}

(* GetStringUTFChars / GetStringLength on what is not a String. *)
StringUB(p) ==
    CASE p.obj = "String" -> {}
      [] p.obj = "null"   -> {"GetStringLengthOfNull"}
      [] OTHER            -> {"StringOfNonString"}

(* Line 254: the code read for the parameter selects the blob branch.    *)
(* IsBlobTypeNotText tests for VALUE_TEXT instead, sending every other     *)
(* code down the blob branch.                                              *)
IsBlobTypeNotText(t) == t # "VALUE_TEXT"
IsBlobType(t) == t = "VALUE_BLOB"

(* Lines 253-257: a blob parameter.  GetDirectBufferAddress is NULL and  *)
(* GetDirectBufferCapacity -1 for an object that is not a direct buffer  *)
(* (a heap buffer, a String, null);                                        *)
(* the jlong is stored in a uint32_t, modulo 2^LengthBits.                 *)
loopBlob ==
    /\ pc = "loop" /\ i < paramCount
    /\ \E t \in TypeCodes : TypeRead(t) /\ IsBlobType(t)
    /\ LET p == params[i + 1] IN
       /\ nativeParams' = [nativeParams EXCEPT ![i + 1] =
                             IF p.obj = "ByteBuffer" THEN Buf([k \in 1..p.cap |-> 0])
                             ELSE NullBuf]
       /\ paramLengths' = [paramLengths EXCEPT ![i + 1] =
                             (IF p.obj = "ByteBuffer" THEN p.cap ELSE -1) % UIntRange]
    /\ ub' = ub \cup TypeUB
    /\ i' = i + 1
    /\ UNCHANGED <<params, param_types, pc, unreleased>>

(* Lines 258-262: any other type is taken as a string: cString (NULL for *)
(* a null reference) pins a modified UTF-8 copy, GetStringLength counts   *)
(* UTF-16 units, a jsize stored in a uint32_t.                              *)
loopText ==
    /\ pc = "loop" /\ i < paramCount
    /\ \E t \in TypeCodes : TypeRead(t) /\ ~IsBlobType(t)
    /\ LET p == params[i + 1] IN
       /\ ub' = ub \cup TypeUB \cup StringUB(p)
       /\ IF p.obj = "String"
          THEN /\ nativeParams' = [nativeParams EXCEPT ![i + 1] = Buf(GetStringUTFChars(p.cps))]
               /\ paramLengths' = [paramLengths EXCEPT ![i + 1] = GetStringLength(p.cps) % UIntRange]
               /\ unreleased' = unreleased \cup {ParamCopy(i + 1)}
          ELSE UNCHANGED <<nativeParams, paramLengths, unreleased>>
    /\ i' = i + 1
    /\ UNCHANGED <<params, param_types, pc>>

(* Lines 263-269: the int array is pinned a second time as `types`,       *)
(* SQCloudExecArray is called and the result returned; nothing acquired   *)
(* is released or freed.                                                   *)
execArray ==
    /\ pc = "loop" /\ i = paramCount
    /\ unreleased' = unreleased \cup {Acquired("types")}
    /\ pc' = "done"
    /\ UNCHANGED <<params, param_types, i, nativeParams, paramLengths, ub>>

Next == prologue \/ loopBlob \/ loopText \/ execArray

Spec == Init /\ [][Next]_vars

-----------------------------------------------------------------------------
(* A well-typed call of the Kotlin host: a type code for every parameter, *)
(* VALUE_BLOB for a direct buffer and a text type for a non-null String.   *)
HostContract(c) ==
    /\ Len(c[1]) <= Len(c[2])
    /\ \A k \in 1..Len(c[1]) :
         IF c[2][k] = "VALUE_BLOB" THEN c[1][k].obj = "ByteBuffer"
                                   ELSE c[1][k].obj = "String"

(* The weaker condition the over-read proof needs: a type code for every *)
(* parameter and a direct buffer under every VALUE_BLOB; text parameters  *)
(* may be anything.                                                        *)
BlobsDirect(c) ==
    /\ Len(c[1]) <= Len(c[2])
    /\ \A k \in 1..Len(c[1]) : c[2][k] = "VALUE_BLOB" => c[1][k].obj = "ByteBuffer"

-----------------------------------------------------------------------------
(* Properties of the call SQCloudExecArray receives (pc = "done"). *)

(* What the library reads of parameter k: paramLengths[k] bytes of it. *)
Received(k) == SubSeq(nativeParams[k].bytes, 1, paramLengths[k])

(* What the server should get: UTF-8 of a text, the bytes of a blob. *)
Expected(p) == IF p.obj = "String" THEN UTF8(p.cps) ELSE [k \in 1..p.cap |-> 0]

(* No JNI function is applied to an argument it is undefined on, and no   *)
(* read of paramTypes is out of bounds (executeArrayCommand's loop).      *)
NoUndefinedBehaviour == ub = {}

(* SQCloudExecArray never reads past a buffer: every length is within the *)
(* buffer it describes, and the types array has paramCount entries.       *)
NoOverRead ==
    pc = "done" =>
      /\ \A k \in 1..paramCount : paramLengths[k] <= Len(nativeParams[k].bytes)
      /\ paramCount <= Len(param_types)

(* The first n parameters can be marshalled without undefined behaviour: *)
(* the types array has an entry for each, and each whose code is not      *)
(* VALUE_BLOB is a String.                                                 *)
TextParamsAreStrings(n) ==
    /\ n <= Len(param_types)
    /\ \A k \in 1..n : param_types[k] # "VALUE_BLOB" => params[k].obj = "String"

(* Whatever the host passes, executeArrayCommand's loop meets undefined   *)
(* behaviour exactly when a parameter lacks its type code or one taken as *)
(* text (lines 258-261) is not a String: null, a buffer.  A blob code on  *)
(* any object is defined (GetDirectBufferAddress yields NULL).            *)
UBExactly == pc = "done" => (ub = {} <=> TextParamsAreStrings(paramCount))

(* Every parameter reaches the library intact: it reads exactly the UTF-8 *)
(* of each text and the bytes of each blob (executeArrayCommand's lengths).*)
ParamsArriveIntact ==
    pc = "done" /\ NoOverRead =>
      \A k \in 1..paramCount : Received(k) = Expected(params[k])

====
