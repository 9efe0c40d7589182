----------------------------- MODULE MC_Marshal -----------------------------
(* Model-checking instance of Marshal: calls of up to two parameters.  It *)
(* extends MarshalProofs so that TLC evaluates the definitions the proofs *)
(* are stated with on the same instance.                                   *)
EXTENDS MarshalProofs

(* Texts of one- to four-byte UTF-8 characters and an embedded NUL, and *)
(* direct buffers.                                                          *)
MCValues == {Text(<<65, 66>>), Text(<<233>>), Text(<<8364>>), Text(<<128512>>),
             Text(<<65, 0>>), Blob(2)}

MCParamSeqs(S) == UNION {[1..n -> S] : n \in 0..2}

(* The host passes one type code per parameter, VALUE_BLOB for a buffer. *)
MCTypesFor(ps) ==
    [k \in DOMAIN ps |-> IF ps[k].obj = "ByteBuffer" THEN "VALUE_BLOB" ELSE "VALUE_TEXT"]

MCContractCalls == {<<ps, MCTypesFor(ps)>> : ps \in MCParamSeqs(MCValues)}

(* The calls of the contract run are well typed, the hypothesis of the    *)
(* theorems of MarshalProofs.                                              *)
ASSUME MCContractWellTyped == \A c \in MCContractCalls : HostContract(c)

(* The same, and a null String parameter (a nullable Kotlin argument). *)
MCNullCalls == MCContractCalls \cup
               {<<ps, MCTypesFor(ps)>> : ps \in MCParamSeqs({Text(<<65, 66>>), NullRef})}

(* The same, and a heap ByteBuffer (ByteBuffer.wrap, allocate) under      *)
(* VALUE_BLOB.                                                             *)
MCHeapCalls == MCContractCalls \cup {<<<<HeapBlob(2)>>, <<"VALUE_BLOB">>>>}

(* Any call at all: up to two parameters of every kind, and a types array *)
(* of up to two codes, shorter or longer than params.                      *)
MCAnyCalls ==
    MCParamSeqs({Text(<<65>>), NullRef, Blob(1), HeapBlob(1)})
      \X MCParamSeqs(TypeCodes)
====
