------------------------------ MODULE LossyCache ------------------------------
(* What the render path may assume of its caches, and all it may assume: an
   entry can be gone at any time, but what get returns is what was last put
   under the key since the cache was last cleared.                            *)
CONSTANTS Keys, Values, Nothing

VARIABLES
  memo,  \* per key, the value or Nothing
  last   \* the last call, with what it stored or returned

Call(op, k, v) == [op |-> op, key |-> k, value |-> v]
NoCall == Call("clear", Nothing, Nothing)

Empty == [k \in Keys |-> Nothing]

Init == memo = Empty /\ last = NoCall

Put(k, v) ==
  /\ \E kept \in SUBSET Keys :
       memo' = [j \in Keys |-> IF j = k THEN v
                               ELSE IF j \in kept THEN memo[j] ELSE Nothing]
  /\ last' = Call("put", k, v)

Hit(k) == memo[k] # Nothing /\ last' = Call("get", k, memo[k]) /\ UNCHANGED memo

Miss(k) == memo' = [memo EXCEPT ![k] = Nothing] /\ last' = Call("get", k, Nothing)

Clear == memo' = Empty /\ last' = NoCall

Next == \/ \E k \in Keys, v \in Values : Put(k, v)
        \/ \E k \in Keys : Hit(k) \/ Miss(k)
        \/ Clear

Spec == Init /\ [][Next]_<<memo, last>>
===============================================================================
