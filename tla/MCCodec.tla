------------------------------- MODULE MCCodec --------------------------------
(***************************************************************************)
(* Values for Codec: every kind of value, numbers at the borders between   *)
(* encodings, names at the borders of a length of one byte and two, alone  *)
(* and inside arrays and objects, with something behind them.              *)
(***************************************************************************)
EXTENDS Codec

A == <<97>>
B == <<98>>

Name(n) == [i \in 1 .. n |-> 97]

Wholes ==
    {-2147483647 - 1, -268435457, -268435456, -1, 0, 63, 268435455, 268435456, 2147483647}

Scalars ==
    {Null, Undefined, Bool(TRUE), Bool(FALSE), NaN, Infinity, NegativeZero, [wide |-> 1],
     [float |-> 4], [date |-> <<50, 48>>]}
      \cup {Integer(n) : n \in Wholes}
      \cup {Str(s) : s \in {<< >>, A, <<195, 169>>, <<0>>, Name(63), Name(64), Name(127)}}

Nested ==
    {Arr(<< >>), Obj(<< >>), Arr(<<Undefined, Integer(1), Arr(<<Str(A)>>)>>), Obj(<<<<A, Undefined>>>>),
     Arr([i \in 1 .. 11 |-> Integer(i)]), Obj(<<<<B, Null>>, <<A, Obj(<<<<A, NaN>>>>)>>>>),
     Obj(<<<<<< >>, Null>>>>), Obj(<<<<<< >>, Integer(1)>>>>), Obj(<<<<<<97, 0, 98>>, Bool(TRUE)>>>>)}

MCDocuments ==
    {Obj(<<<<A, v>>, <<B, w>>>>) : v \in Scalars \cup Nested, w \in {Null, Str(A), Arr(<<Integer(1)>>)}}
      \cup {Obj(<<<<k, Integer(1)>>>>) : k \in {<< >>, Name(64), Name(128)}}

MCOwner == <<0, 1, 128, 255>>

MCDocumentId == [i \in 1 .. DocumentIdBytes |-> 20 * i]

Names == {Name(n) : n \in {1, 2, 3, 4, 5, 126, 127, 128, 129}} \cup {<<195, 169>>}

MCOperations ==
    {[kind |-> "dco1", id |-> MCOwner], [kind |-> "del1", id |-> MCOwner, doc |-> MCDocumentId]}
      \cup {[kind |-> "ncl1", id |-> MCOwner, name |-> n] : n \in Names}
      \cup {[kind |-> "dix1", id |-> MCOwner, field |-> n] : n \in Names}
      \cup {[kind |-> "idx1", id |-> MCOwner, field |-> n, type |-> t, unique |-> u] :
                n \in Names, t \in {"string", "number"}, u \in BOOLEAN}
      \cup {[kind |-> "idx1 before 0.1.4", id |-> MCOwner, field |-> n, type |-> t] :
                n \in Names, t \in {"string", "number"}}

====
