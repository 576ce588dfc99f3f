------------------------------- MODULE Answers -------------------------------
(* What the queries of the clients answer: a member of Result with a value.  *)
EXTENDS Integers, Sequences, SequencesExt

\* An answer: Success with a value, or another result and no value, for the
\* output is cleared.  So it is when a Success is marked occluded.
Answer(v) == [result |-> "Success", value |-> v]
Fail(r) == [result |-> r]
Occluded == Fail("Occluded")
Succeeds(a) == a.result = "Success"

\* The places in a list of the elements that pass a test, the first of them,
\* and the elements at such places in their order.
Places(list, Test(_)) == {i \in DOMAIN list : Test(list[i])}
First(places) == CHOOSE i \in places : \A j \in places : i <= j
Selected(list, places) ==
    LET chosen[n \in 0 .. Len(list)] ==
            IF n = 0 THEN <<>>
            ELSE IF n \in places THEN Append(chosen[n - 1], list[n]) ELSE chosen[n - 1]
    IN chosen[Len(list)]
Those(list, Test(_)) == Selected(list, Places(list, Test))

\* The first element of a list that passes a test, handed to Found.
FirstOf(list, Test(_), Found(_), missing) ==
    LET hits == Places(list, Test) IN IF hits = {} THEN missing ELSE Found(list[First(hits)])

\* The element with an index that counts from 0.
At(list, i, Value(_)) == IF i >= Len(list) THEN Fail("InvalidIndex") ELSE Answer(Value(list[i + 1]))
Name(x) == x.name
Id(x) == x.id

\* What is taken for granted of a list and of the keys of its elements.
IsList(list) == list \in Seq(Range(list))
Distinct(list, Key(_)) == \A i, j \in DOMAIN list : Key(list[i]) = Key(list[j]) => i = j
=============================================================================
