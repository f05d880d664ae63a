------------------------------ MODULE WorkFIFO ------------------------------
(***************************************************************************)
(* What CLibuvAdapter::AsyncOperate promises its callers: the operations   *)
(* posted to the loop thread are executed one after the other, in the      *)
(* order in which they were posted, each of them once.  WorkQueue.tla      *)
(* models how the mutex, the queue and the wake-up of libuv keep that      *)
(* promise.                                                                *)
(***************************************************************************)
EXTENDS Sequences

CONSTANT Works          \* the operations (uv__work blocks) that may be posted

VARIABLES queue,        \* operations posted and not yet completed, in order
          ran           \* operations completed, in order

vars == <<queue, ran>>

Elements(s) == {s[i] : i \in DOMAIN s}

Init == queue = <<>> /\ ran = <<>>

(* AsyncOperate allocates a fresh block each time: no operation is posted  *)
(* twice.                                                                  *)
Post(w) ==
    /\ w \notin Elements(queue) \cup Elements(ran)
    /\ queue' = Append(queue, w)
    /\ UNCHANGED ran

Run ==
    /\ queue # <<>>
    /\ ran' = Append(ran, Head(queue))
    /\ queue' = Tail(queue)

Next == Run \/ \E w \in Works : Post(w)

Safety == Init /\ [][Next]_vars
=============================================================================
