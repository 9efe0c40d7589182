---------------------------- MODULE MarshalProofs ----------------------------
(***************************************************************************)
(* Proofs about the parameter marshalling of executeArrayCommand: the     *)
(* JVM's conversions produce bytes and UTF-16 units, every variable keeps  *)
(* its type, undefined behaviour arises exactly for the calls that lack a  *)
(* type code or pass a non-String as text, and no length passed to        *)
(* SQCloudExecArray exceeds its buffer when every blob is a direct buffer. *)
(***************************************************************************)
EXTENDS Marshal, SeqLemmas

(* UTF-16 code units and bytes, written so that no interval with a large  *)
(* bound reaches the provers.                                              *)
Unit == {u \in Nat : u <= 65535}
Byte == 0..255

\* A code point becomes one or two UTF-16 units.
LEMMA UTF16UnitsType ==
  ASSUME NEW cp \in CodePoints
  PROVE  UTF16Units(cp) \in Seq(Unit) /\ Len(UTF16Units(cp)) >= 1
<1>1. CASE cp < 65536
  <2>1. cp \in Unit
    BY <1>1 DEF CodePoints, Unit
  <2>2. QED
    BY <1>1, <2>1 DEF UTF16Units
<1>2. CASE ~(cp < 65536)
  <2>1. 55296 + (cp - 65536) \div 1024 \in Unit
    BY <1>2 DEF CodePoints, Unit
  <2>2. 56320 + ((cp - 65536) % 1024) \in Unit
    BY <1>2 DEF CodePoints, Unit
  <2>3. QED
    BY <1>2, <2>1, <2>2 DEF UTF16Units
<1>3. QED
  BY <1>1, <1>2

\* A UTF-16 unit becomes one to three bytes of modified UTF-8.
LEMMA ModifiedUTF8UnitType ==
  ASSUME NEW u \in Unit
  PROVE  ModifiedUTF8Unit(u) \in Seq(Byte) /\ Len(ModifiedUTF8Unit(u)) >= 1
<1>1. CASE u # 0 /\ u < 128
  BY <1>1 DEF ModifiedUTF8Unit, Unit, Byte
<1>2. CASE ~(u # 0 /\ u < 128) /\ u < 2048
  <2>1. 192 + u \div 64 \in Byte /\ 128 + (u % 64) \in Byte
    BY <1>2 DEF Unit, Byte
  <2>2. QED
    BY <1>2, <2>1 DEF ModifiedUTF8Unit
<1>3. CASE ~(u # 0 /\ u < 128) /\ ~(u < 2048)
  <2>1. /\ 224 + u \div 4096 \in Byte
        /\ 128 + ((u \div 64) % 64) \in Byte
        /\ 128 + (u % 64) \in Byte
    BY <1>3 DEF Unit, Byte
  <2>2. QED
    BY <1>3, <2>1 DEF ModifiedUTF8Unit
<1>4. QED
  BY <1>1, <1>2, <1>3

\* GetStringLength's UTF-16 view of a string is a sequence of units.
LEMMA UTF16Type ==
  ASSUME NEW cps \in Seq(CodePoints)
  PROVE  UTF16(cps) \in Seq(Unit)
<1> DEFINE s == [k \in 1..Len(cps) |-> UTF16Units(cps[k])]
<1>1. s \in Seq(Seq(Unit))
  BY UTF16UnitsType
<1>2. QED
  BY <1>1, FlattenSeqType DEF UTF16

\* GetStringUTFChars yields bytes, more of them than GetStringLength counts
\* units: every unit takes at least one byte and a NUL follows.
LEMMA UTFCharsType ==
  ASSUME NEW cps \in Seq(CodePoints)
  PROVE  /\ GetStringUTFChars(cps) \in Seq(Byte)
         /\ Len(GetStringUTFChars(cps)) > GetStringLength(cps)
<1> DEFINE units == UTF16(cps)
           s == [k \in 1..Len(units) |-> ModifiedUTF8Unit(units[k])]
<1>1. units \in Seq(Unit)
  BY UTF16Type
<1>2. s \in Seq(Seq(Byte)) /\ \A k \in 1..Len(s) : Len(s[k]) >= 1
  BY <1>1, ModifiedUTF8UnitType
<1>3. FlattenSeq(s) \in Seq(Byte) /\ Len(FlattenSeq(s)) >= Len(units)
  <2>1. FlattenSeq(s) \in Seq(Byte) /\ Len(FlattenSeq(s)) >= Len(s)
    BY <1>2, FlattenSeqType
  <2>2. Len(s) = Len(units)
    BY <1>1
  <2>3. QED
    BY <2>1, <2>2
<1>4. <<0>> \in Seq(Byte)
  BY DEF Byte
<1>5. GetStringUTFChars(cps) = FlattenSeq(s) \o <<0>>
  BY DEF GetStringUTFChars
<1>6. QED
  BY <1>3, <1>4, <1>5, ConcatProperties DEF GetStringLength
-----------------------------------------------------------------------------
(* The inductive invariant.  TypeOK alone is not inductive: a step of the *)
(* loop needs the arguments to be a call of the host (for the type of     *)
(* params[i+1]) and the two calloc'd arrays to have paramCount entries    *)
(* once the prologue has run.                                              *)
Shape ==
    /\ \E c \in HostCalls : params = c[1] /\ param_types = c[2]
    /\ pc = "start" => i = 0
    /\ pc # "start" => Len(nativeParams) = paramCount /\ Len(paramLengths) = paramCount
    /\ pc = "done" => i = paramCount

IInv == TypeOK /\ Shape

(* Every length in the calloc'd array is within its buffer: the zeros of *)
(* calloc describe NULL, and every length the loop stores is within the  *)
(* buffer it stores beside it.                                             *)
LengthsWithin ==
    pc # "start" => \A k \in 1..paramCount : paramLengths[k] <= Len(nativeParams[k].bytes)

(* The invariant of the over-read proof. *)
OInv == IInv /\ LengthsWithin

(* The invariant of the undefined-behaviour proof: ub is empty exactly   *)
(* while the parameters marshalled so far could be.                        *)
UInv ==
    /\ IInv
    /\ pc = "start" => ub = {}
    /\ pc # "start" => (ub = {} <=> TextParamsAreStrings(i))

(* What the host may pass as one parameter. *)
Param == [obj : {"null"}] \cup [obj : {"String"}, cps : Seq(CodePoints)] \cup
         [obj : {"ByteBuffer", "HeapByteBuffer"}, cap : Nat]

\* Every parameter of a call is a null, a String or a buffer, and every
\* type code one of TypeCodes.
LEMMA ParamsTyped ==
  ASSUME Shape
  PROVE  params \in Seq(Param) /\ param_types \in Seq(TypeCodes)
BY MarshalAssumption DEF Shape, Param

\* The initial state satisfies the inductive invariant.
LEMMA InitIInv == Init => IInv
<1> SUFFICES ASSUME Init PROVE IInv
  OBVIOUS
<1>1. Shape
  BY DEF Init, Shape
<1>2. params \in Seq(Param)
  BY <1>1, ParamsTyped
<1>3. TypeOK
  BY <1>2 DEF Init, TypeOK, paramCount
<1>4. QED
  BY <1>1, <1>3 DEF IInv

\* A direct buffer of capacity n holds n bytes.
LEMMA ZerosType ==
  ASSUME NEW n \in Nat
  PROVE  [k \in 1..n |-> 0] \in Seq(Byte) /\ Len([k \in 1..n |-> 0]) = n
<1>1. \A k \in 1..n : 0 \in Byte
  BY DEF Byte
<1>2. [k \in 1..n |-> 0] \in Seq(Byte)
  BY <1>1, IsASeq
<1>3. QED
  BY <1>2

\* A remainder modulo UIntRange is a paramLengths value.
LEMMA ModType ==
  ASSUME NEW x \in Int
  PROVE  x % UIntRange \in 0..(UIntRange - 1)
BY MarshalAssumption

\* The prologue calloc's two arrays of paramCount entries.
LEMMA PrologueIInv == IInv /\ prologue => IInv'
<1> SUFFICES ASSUME IInv, prologue PROVE IInv'
  OBVIOUS
<1>1. 0 \in 0..(UIntRange - 1)
  BY MarshalAssumption
<1>2. TypeOK'
  BY <1>1 DEF IInv, TypeOK, prologue, paramCount, NullBuf, Acquired
<1>3. Shape'
  BY DEF IInv, Shape, prologue, paramCount
<1>4. QED
  BY <1>2, <1>3 DEF IInv

\* A blob parameter stores a buffer and its capacity.
LEMMA LoopBlobIInv == IInv /\ loopBlob => IInv'
<1> SUFFICES ASSUME IInv, loopBlob PROVE IInv'
  OBVIOUS
<1> DEFINE p == params[i + 1]
           buf == IF p.obj = "ByteBuffer" THEN Buf([k \in 1..p.cap |-> 0]) ELSE NullBuf
           len == (IF p.obj = "ByteBuffer" THEN p.cap ELSE -1) % UIntRange
<1> USE DEF p, buf, len
<1>1. i \in 0..(paramCount - 1) /\ pc = "loop"
  BY ParamsTyped DEF IInv, TypeOK, loopBlob, paramCount
<1>2. p \in Param
  BY <1>1, ParamsTyped DEF IInv, paramCount
<1>3. buf \in [ptr : {"NULL", "mem"}, bytes : Seq(0..255)]
  <2>1. CASE p.obj = "ByteBuffer"
    <3>1. p.cap \in Nat
      BY <1>2, <2>1 DEF Param
    <3>2. [k \in 1..p.cap |-> 0] \in Seq(0..255)
      BY <3>1, ZerosType DEF Byte
    <3>3. QED
      BY <2>1, <3>2 DEF Buf
  <2>2. CASE p.obj # "ByteBuffer"
    BY <2>2 DEF NullBuf
  <2>3. QED
    BY <2>1, <2>2
<1>4. len \in 0..(UIntRange - 1)
  BY <1>2, ModType DEF Param
<1>5. /\ nativeParams' = [nativeParams EXCEPT ![i + 1] = buf]
      /\ paramLengths' = [paramLengths EXCEPT ![i + 1] = len]
  BY DEF loopBlob
<1>6. /\ nativeParams' \in Seq([ptr : {"NULL", "mem"}, bytes : Seq(0..255)])
      /\ Len(nativeParams') = paramCount
      /\ paramLengths' \in Seq(0..(UIntRange - 1))
      /\ Len(paramLengths') = paramCount
  BY <1>1, <1>3, <1>4, <1>5, ExceptSeq DEF IInv, TypeOK, Shape
<1>7. QED
  BY <1>1, <1>6 DEF loopBlob, IInv, TypeOK, Shape, paramCount, TypeUB

\* Any other parameter is converted as a string, or left as calloc'd.
LEMMA LoopTextIInv == IInv /\ loopText => IInv'
<1> SUFFICES ASSUME IInv, loopText PROVE IInv'
  OBVIOUS
<1> DEFINE p == params[i + 1]
<1> USE DEF p
<1>1. i \in 0..(paramCount - 1) /\ pc = "loop"
  BY ParamsTyped DEF IInv, TypeOK, loopText, paramCount
<1>2. p \in Param
  BY <1>1, ParamsTyped DEF IInv, paramCount
<1>3. ub' \subseteq {"typesOutOfBounds", "GetStringLengthOfNull", "StringOfNonString"}
  BY DEF loopText, IInv, TypeOK, TypeUB, StringUB
<1>4. CASE p.obj = "String"
  <2>1. p.cps \in Seq(CodePoints)
    BY <1>2, <1>4 DEF Param
  <2>2. Buf(GetStringUTFChars(p.cps)) \in [ptr : {"NULL", "mem"}, bytes : Seq(0..255)]
    BY <2>1, UTFCharsType DEF Buf, Byte
  <2>3. GetStringLength(p.cps) % UIntRange \in 0..(UIntRange - 1)
    BY ModType DEF GetStringLength
  <2>4. /\ nativeParams' = [nativeParams EXCEPT ![i + 1] = Buf(GetStringUTFChars(p.cps))]
        /\ paramLengths' = [paramLengths EXCEPT ![i + 1] = GetStringLength(p.cps) % UIntRange]
        /\ unreleased' = unreleased \cup {ParamCopy(i + 1)}
    BY <1>4 DEF loopText
  <2>5. /\ nativeParams' \in Seq([ptr : {"NULL", "mem"}, bytes : Seq(0..255)])
        /\ Len(nativeParams') = paramCount
        /\ paramLengths' \in Seq(0..(UIntRange - 1))
        /\ Len(paramLengths') = paramCount
    BY <1>1, <2>2, <2>3, <2>4, ExceptSeq DEF IInv, TypeOK, Shape
  <2>6. QED
    BY <1>1, <1>3, <2>4, <2>5 DEF loopText, IInv, TypeOK, Shape, paramCount, ParamCopy
<1>5. CASE p.obj # "String"
  BY <1>1, <1>3, <1>5 DEF loopText, IInv, TypeOK, Shape, paramCount
<1>6. QED
  BY <1>4, <1>5

\* SQCloudExecArray is reached once every parameter is marshalled.
LEMMA ExecArrayIInv == IInv /\ execArray => IInv'
BY DEF IInv, TypeOK, Shape, execArray, paramCount, Acquired

\* Every step of executeArrayCommand preserves the inductive invariant.
LEMMA NextIInv == IInv /\ [Next]_vars => IInv'
<1> SUFFICES ASSUME IInv, [Next]_vars PROVE IInv'
  OBVIOUS
<1>1. CASE prologue BY <1>1, PrologueIInv
<1>2. CASE loopBlob BY <1>2, LoopBlobIInv
<1>3. CASE loopText BY <1>3, LoopTextIInv
<1>4. CASE execArray BY <1>4, ExecArrayIInv
<1>5. CASE UNCHANGED vars
  BY <1>5 DEF vars, IInv, TypeOK, Shape, paramCount
<1>6. QED
  BY <1>1, <1>2, <1>3, <1>4, <1>5 DEF Next

\* executeArrayCommand keeps every variable in its type, for any calls of
\* the host and any width of the length array's elements: every buffer
\* pointer designates bytes and every stored length fits a uint32_t.
THEOREM MarshalTypeCorrect == Spec => []TypeOK
<1>1. Init => IInv
  BY InitIInv
<1>2. IInv /\ [Next]_vars => IInv'
  BY NextIInv
<1>3. IInv => TypeOK
  BY DEF IInv
<1>4. QED
  BY <1>1, <1>2, <1>3, PTL DEF Spec


-----------------------------------------------------------------------------
(* Undefined behaviour, for any call of the host. *)

\* What a String function meets: no undefined behaviour exactly on a String.
LEMMA StringUBEmpty ==
  ASSUME NEW p \in Param
  PROVE  StringUB(p) = {} <=> p.obj = "String"
BY DEF Param, StringUB

\* The prefix condition grows by one parameter at a time.
LEMMA TextParamsStep ==
  ASSUME Shape, NEW n \in Nat, n < paramCount
  PROVE  /\ n < Len(param_types) =>
              (TextParamsAreStrings(n + 1) <=>
                 /\ TextParamsAreStrings(n)
                 /\ param_types[n + 1] # "VALUE_BLOB" => params[n + 1].obj = "String")
         /\ ~(n < Len(param_types)) => ~TextParamsAreStrings(n + 1)
<1>1. param_types \in Seq(TypeCodes) /\ params \in Seq(Param)
  BY ParamsTyped
<1>2. QED
  BY <1>1 DEF TextParamsAreStrings, paramCount

\* The prologue starts the loop at the first parameter with ub empty.
LEMMA PrologueUInv == UInv /\ prologue => UInv'
<1> SUFFICES ASSUME UInv, prologue PROVE UInv'
  OBVIOUS
<1>1. IInv'
  BY PrologueIInv DEF UInv
<1>2. ub' = {} /\ i' = 0 /\ pc' = "loop"
  BY DEF UInv, IInv, Shape, prologue
<1>3. TextParamsAreStrings(0)'
  BY <1>1, ParamsTyped DEF IInv, TextParamsAreStrings, prologue
<1>4. QED
  BY <1>1, <1>2, <1>3 DEF UInv

\* A step of the loop adds undefined behaviour exactly when the parameter
\* it marshals breaks the prefix condition.
LEMMA LoopUInv ==
  ASSUME UInv, loopBlob \/ loopText
  PROVE  UInv'
<1> DEFINE p == params[i + 1]
<1> USE DEF p
<1>1. IInv'
  BY LoopBlobIInv, LoopTextIInv DEF UInv
<1>2. /\ pc = "loop" /\ pc' = "loop" /\ i \in Nat /\ i < paramCount /\ i' = i + 1
      /\ params' = params /\ param_types' = param_types
  BY ParamsTyped DEF UInv, IInv, TypeOK, loopBlob, loopText, paramCount
<1>3. p \in Param
  BY <1>2, ParamsTyped DEF UInv, IInv, paramCount
<1>4. (ub = {} <=> TextParamsAreStrings(i))
  BY <1>2 DEF UInv
<1>5. TextParamsAreStrings(i)' <=> TextParamsAreStrings(i + 1)
  BY <1>2 DEF TextParamsAreStrings
<1>6. Len(param_types) \in Nat
  BY ParamsTyped DEF UInv, IInv
<1>7. CASE i < Len(param_types)
  <2>1. TypeUB = {}
    BY <1>7 DEF TypeUB, TypeIndex
  <2>2. TextParamsAreStrings(i + 1) <=>
          /\ TextParamsAreStrings(i)
          /\ param_types[i + 1] # "VALUE_BLOB" => p.obj = "String"
    BY <1>2, <1>7, TextParamsStep DEF UInv, IInv
  <2>3. CASE loopBlob
    <3>1. PICK t \in TypeCodes : TypeRead(t) /\ IsBlobType(t)
      BY <2>3 DEF loopBlob
    <3>2. param_types[i + 1] = "VALUE_BLOB"
      BY <1>7, <3>1 DEF TypeRead, TypeIndex, IsBlobType
    <3>3. ub' = ub
      BY <2>1, <2>3 DEF loopBlob
    <3>4. QED
      BY <1>1, <1>2, <1>4, <1>5, <2>2, <3>2, <3>3 DEF UInv
  <2>4. CASE loopText
    <3>1. PICK t \in TypeCodes : TypeRead(t) /\ ~IsBlobType(t)
      BY <2>4 DEF loopText
    <3>2. param_types[i + 1] # "VALUE_BLOB"
      BY <1>7, <3>1 DEF TypeRead, TypeIndex, IsBlobType
    <3>3. ub' = ub \cup StringUB(p)
      BY <2>1, <2>4 DEF loopText
    <3>4. (ub' = {}) <=> (ub = {} /\ p.obj = "String")
      BY <1>3, <3>3, StringUBEmpty
    <3>5. QED
      BY <1>1, <1>2, <1>4, <1>5, <2>2, <3>2, <3>4 DEF UInv
  <2>5. QED
    BY <2>3, <2>4
<1>8. CASE ~(i < Len(param_types))
  <2>1. TypeUB = {"typesOutOfBounds"}
    BY <1>8 DEF TypeUB, TypeIndex
  <2>2. ub' # {}
    BY <2>1 DEF loopBlob, loopText
  <2>3. ~TextParamsAreStrings(i + 1)
    BY <1>2, <1>8, TextParamsStep DEF UInv, IInv
  <2>4. QED
    BY <1>1, <1>2, <1>5, <2>2, <2>3 DEF UInv
<1>9. QED
  BY <1>7, <1>8

\* Every step keeps the undefined-behaviour invariant.
LEMMA NextUInv == UInv /\ [Next]_vars => UInv'
<1> SUFFICES ASSUME UInv, [Next]_vars PROVE UInv'
  OBVIOUS
<1>1. CASE prologue BY <1>1, PrologueUInv
<1>2. CASE loopBlob \/ loopText BY <1>2, LoopUInv
<1>3. CASE execArray
  <2>1. IInv'
    BY <1>3, ExecArrayIInv DEF UInv
  <2>2. pc = "loop" /\ pc' = "done" /\ UNCHANGED <<ub, i, params, param_types>>
    BY <1>3 DEF execArray
  <2>3. QED
    BY <2>1, <2>2 DEF UInv, TextParamsAreStrings
<1>4. CASE UNCHANGED vars
  <2>1. IInv'
    BY <1>4, NextIInv DEF UInv
  <2>2. QED
    BY <1>4, <2>1 DEF UInv, vars, TextParamsAreStrings
<1>5. QED
  BY <1>1, <1>2, <1>3, <1>4 DEF Next

\* For any calls of the host, executeArrayCommand's loop applies a String
\* function to a null or a non-String, or reads paramTypes past its end,
\* exactly when some parameter has no type code or one taken as text is
\* not a String: so a null text parameter always reaches GetStringLength,
\* and a well-typed call never meets undefined behaviour.
THEOREM UBCharacterised == Spec => []UBExactly
<1>1. Init => UInv
  BY InitIInv DEF Init, UInv
<1>2. UInv /\ [Next]_vars => UInv'
  BY NextUInv
<1>3. UInv => UBExactly
  BY DEF UInv, IInv, Shape, UBExactly
<1>4. QED
  BY <1>1, <1>2, <1>3, PTL DEF Spec

-----------------------------------------------------------------------------
(* No over-read, for the calls whose blobs are direct buffers. *)

(* Every call the host may make passes a direct buffer under VALUE_BLOB. *)
DirectContract == \A c \in HostCalls : BlobsDirect(c)

\* Under that contract every parameter has its type code, and a VALUE_BLOB
\* one is a direct buffer.
LEMMA BlobParams ==
  ASSUME DirectContract, Shape
  PROVE  /\ paramCount <= Len(param_types)
         /\ \A k \in 1..paramCount :
              param_types[k] = "VALUE_BLOB" => params[k].obj = "ByteBuffer"
BY DEF DirectContract, BlobsDirect, Shape, paramCount

\* Storing a natural number in a uint32_t never makes it larger.
LEMMA ModLeq ==
  ASSUME NEW x \in Nat
  PROVE  x % UIntRange <= x
BY MarshalAssumption

\* A length below a buffer's stays below it once stored in a uint32_t.
LEMMA ModBelow ==
  ASSUME NEW a \in Nat, NEW b \in Nat, a < b
  PROVE  a % UIntRange <= b
BY MarshalAssumption

\* Storing a buffer and a length within it at slot i + 1 keeps every
\* length within its buffer.
LEMMA ExceptWithin ==
  ASSUME IInv, LengthsWithin, pc = "loop", i \in 0..(paramCount - 1),
         NEW b, NEW l \in Int, l <= Len(b.bytes),
         nativeParams' = [nativeParams EXCEPT ![i + 1] = b],
         paramLengths' = [paramLengths EXCEPT ![i + 1] = l],
         pc' = pc, params' = params
  PROVE  LengthsWithin'
<1> SUFFICES ASSUME NEW k \in 1..paramCount
             PROVE  paramLengths'[k] <= Len(nativeParams'[k].bytes)
  BY DEF LengthsWithin, paramCount
<1>1. Len(nativeParams) = paramCount /\ Len(paramLengths) = paramCount
      /\ paramCount \in Nat
  BY DEF IInv, Shape, TypeOK, paramCount
<1>2. CASE k = i + 1
  BY <1>1, <1>2
<1>3. CASE k # i + 1
  <2>1. paramLengths[k] <= Len(nativeParams[k].bytes)
    BY DEF LengthsWithin
  <2>2. QED
    BY <1>1, <1>3, <2>1
<1>4. QED
  BY <1>2, <1>3

\* A blob step under the contract stores a direct buffer and its capacity.
LEMMA LoopBlobWithin ==
  ASSUME DirectContract, OInv, loopBlob
  PROVE  LengthsWithin'
<1> DEFINE p == params[i + 1]
<1> USE DEF p
<1>1. i \in 0..(paramCount - 1) /\ pc = "loop"
  BY ParamsTyped DEF OInv, IInv, TypeOK, loopBlob, paramCount
<1>2. i < Len(param_types) /\ (param_types[i + 1] = "VALUE_BLOB" => p.obj = "ByteBuffer")
  <2>1. /\ paramCount <= Len(param_types)
        /\ \A k \in 1..paramCount :
             param_types[k] = "VALUE_BLOB" => params[k].obj = "ByteBuffer"
    BY BlobParams DEF OInv, IInv
  <2>2. i + 1 \in 1..paramCount
    BY <1>1 DEF paramCount
  <2>3. i < Len(param_types)
    BY <1>1, <2>1, ParamsTyped, LenProperties DEF OInv, IInv, paramCount
  <2>4. QED
    BY <2>1, <2>2, <2>3
<1>3. PICK t \in TypeCodes : TypeRead(t) /\ IsBlobType(t)
  BY DEF loopBlob
<1>4. p.obj = "ByteBuffer"
  BY <1>2, <1>3 DEF TypeRead, TypeIndex, IsBlobType
<1>5. p.cap \in Nat
  BY <1>1, <1>4, ParamsTyped DEF OInv, IInv, Param, paramCount
<1>6. /\ nativeParams' = [nativeParams EXCEPT ![i + 1] = Buf([k \in 1..p.cap |-> 0])]
      /\ paramLengths' = [paramLengths EXCEPT ![i + 1] = p.cap % UIntRange]
  BY <1>4 DEF loopBlob
<1>7. p.cap % UIntRange <= Len(Buf([k \in 1..p.cap |-> 0]).bytes)
  <2>1. Len(Buf([k \in 1..p.cap |-> 0]).bytes) = p.cap
    BY <1>5, ZerosType DEF Buf
  <2>2. QED
    BY <1>5, <2>1, ModLeq
<1>8. p.cap % UIntRange \in Int
  BY <1>5, ModType
<1>9. QED
  BY <1>1, <1>6, <1>7, <1>8, ExceptWithin DEF OInv, loopBlob

\* A text step stores a String's copy and a length below it, or leaves a
\* non-String's slot as calloc'd.
LEMMA LoopTextWithin ==
  ASSUME OInv, loopText
  PROVE  LengthsWithin'
<1> DEFINE p == params[i + 1]
<1> USE DEF p
<1>1. i \in 0..(paramCount - 1) /\ pc = "loop"
  BY ParamsTyped DEF OInv, IInv, TypeOK, loopText, paramCount
<1>2. CASE p.obj = "String"
  <2>1. p.cps \in Seq(CodePoints)
    BY <1>1, <1>2, ParamsTyped DEF OInv, IInv, Param, paramCount
  <2>2. /\ nativeParams' = [nativeParams EXCEPT ![i + 1] = Buf(GetStringUTFChars(p.cps))]
        /\ paramLengths' = [paramLengths EXCEPT ![i + 1] = GetStringLength(p.cps) % UIntRange]
    BY <1>2 DEF loopText
  <2>3. GetStringLength(p.cps) % UIntRange <= Len(Buf(GetStringUTFChars(p.cps)).bytes)
    <3>1. GetStringLength(p.cps) \in Nat
      BY <2>1, UTF16Type DEF GetStringLength
    <3>2. Len(GetStringUTFChars(p.cps)) > GetStringLength(p.cps)
      BY <2>1, UTFCharsType
    <3>3. Len(GetStringUTFChars(p.cps)) \in Nat
      BY <2>1, UTFCharsType, LenProperties
    <3>4. Buf(GetStringUTFChars(p.cps)).bytes = GetStringUTFChars(p.cps)
      BY DEF Buf
    <3>5. QED
      BY <3>1, <3>2, <3>3, <3>4, ModBelow
  <2>4. GetStringLength(p.cps) % UIntRange \in Int
    BY <2>1, UTF16Type, ModType DEF GetStringLength
  <2>5. QED
    BY <1>1, <2>2, <2>3, <2>4, ExceptWithin DEF OInv, loopText
<1>3. CASE p.obj # "String"
  BY <1>1, <1>3 DEF OInv, loopText, LengthsWithin, paramCount
<1>4. QED
  BY <1>2, <1>3

\* Under the contract every step keeps the over-read invariant.
LEMMA NextOInv ==
  ASSUME DirectContract
  PROVE  OInv /\ [Next]_vars => OInv'
<1> SUFFICES ASSUME OInv, [Next]_vars PROVE OInv'
  OBVIOUS
<1>1. IInv'
  BY NextIInv DEF OInv
<1>2. CASE prologue
  <2>1. \A k \in 1..paramCount : paramLengths'[k] = 0 /\ nativeParams'[k] = NullBuf
    BY <1>2 DEF prologue
  <2>2. LengthsWithin'
    BY <1>2, <2>1 DEF prologue, LengthsWithin, NullBuf, paramCount
  <2>3. QED
    BY <1>1, <2>2 DEF OInv
<1>3. CASE loopBlob BY <1>1, <1>3, LoopBlobWithin DEF OInv
<1>4. CASE loopText BY <1>1, <1>4, LoopTextWithin DEF OInv
<1>5. CASE execArray
  BY <1>1, <1>5 DEF execArray, OInv, LengthsWithin, paramCount
<1>6. CASE UNCHANGED vars
  BY <1>1, <1>6 DEF vars, OInv, LengthsWithin, paramCount
<1>7. QED
  BY <1>2, <1>3, <1>4, <1>5, <1>6 DEF Next

\* For every call whose VALUE_BLOB parameters are direct buffers (text
\* parameters may be null or anything else), every length
\* executeArrayCommand passes SQCloudExecArray is within its buffer (a
\* length wrapped modulo 2^LengthBits only shrinks), and the types array
\* has paramCount entries.  A heap buffer breaks it (MC_Marshal_Heap.cfg).
THEOREM NoOverReadUnderContract ==
  ASSUME DirectContract
  PROVE  Spec => []NoOverRead
<1>1. Init => OInv
  BY InitIInv DEF Init, OInv, LengthsWithin
<1>2. OInv /\ [Next]_vars => OInv'
  BY NextOInv
<1>3. OInv => NoOverRead
  <2> SUFFICES ASSUME OInv, pc = "done"
               PROVE  /\ \A k \in 1..paramCount :
                           paramLengths[k] <= Len(nativeParams[k].bytes)
                      /\ paramCount <= Len(param_types)
    BY DEF NoOverRead
  <2>1. \A k \in 1..paramCount : paramLengths[k] <= Len(nativeParams[k].bytes)
    BY DEF OInv, LengthsWithin
  <2>2. paramCount <= Len(param_types)
    BY BlobParams DEF OInv, IInv
  <2>3. QED
    BY <2>1, <2>2
<1>4. QED
  BY <1>1, <1>2, <1>3, PTL DEF Spec
====
