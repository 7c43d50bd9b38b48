------------------------------ MODULE Broadcast ------------------------------
(***************************************************************************)
(* What a publish/subscribe queue promises: each subscription has an inbox  *)
(* of its own; a publication enters every inbox there is at one instant, in *)
(* the same order for all; a subscription starts empty, a copy of one with  *)
(* what its original had still to read.                                     *)
(*                                                                          *)
(* PubSubQueue.tla, one linked list that every subscription walks at its    *)
(* own pace without a lock, is shown to implement this specification.       *)
(***************************************************************************)
EXTENDS Sequences

CONSTANTS Publishers, Subscribers, Values, NoValue

VARIABLES
  active,     (* the subscriptions there are                                *)
  inbox,      (* what each has still to read                                *)
  got,        (* what its last dequeue returned                             *)
  publishing  (* the value of a publish that has not taken effect yet       *)

vars == <<active, inbox, got, publishing>>

Init ==
  /\ active = {}
  /\ inbox = [s \in Subscribers |-> <<>>]
  /\ got = [s \in Subscribers |-> NoValue]
  /\ publishing = [p \in Publishers |-> NoValue]

CallPublish(p, v) ==
  /\ publishing[p] = NoValue
  /\ publishing' = [publishing EXCEPT ![p] = v]
  /\ UNCHANGED <<active, inbox, got>>

Publish(p) ==
  /\ publishing[p] # NoValue
  /\ inbox' = [s \in Subscribers |->
                 IF s \in active THEN Append(inbox[s], publishing[p]) ELSE <<>>]
  /\ publishing' = [publishing EXCEPT ![p] = NoValue]
  /\ UNCHANGED <<active, got>>

(* The publication fails: nobody receives it.                               *)
Throw(p) ==
  /\ publishing' = [publishing EXCEPT ![p] = NoValue]
  /\ UNCHANGED <<active, inbox, got>>

Subscribe(s) ==
  /\ s \notin active
  /\ active' = active \cup {s}
  /\ UNCHANGED <<inbox, got, publishing>>

Copy(s, t) ==
  /\ s \in active
  /\ t \notin active
  /\ active' = active \cup {t}
  /\ inbox' = [inbox EXCEPT ![t] = inbox[s]]
  /\ UNCHANGED <<got, publishing>>

Drop(s) ==
  /\ active' = active \ {s}
  /\ inbox' = [inbox EXCEPT ![s] = <<>>]
  /\ got' = [got EXCEPT ![s] = NoValue]
  /\ UNCHANGED publishing

Dequeue(s) ==
  /\ s \in active
  /\ \/ inbox[s] = <<>> /\ got' = [got EXCEPT ![s] = NoValue] /\ UNCHANGED inbox
     \/ /\ inbox[s] # <<>>
        /\ got' = [got EXCEPT ![s] = Head(inbox[s])]
        /\ inbox' = [inbox EXCEPT ![s] = Tail(@)]
  /\ UNCHANGED <<active, publishing>>

Next ==
  \/ \E p \in Publishers : Publish(p) \/ Throw(p) \/ \E v \in Values : CallPublish(p, v)
  \/ \E s \in Subscribers : Subscribe(s) \/ Drop(s) \/ Dequeue(s)
  \/ \E s, t \in Subscribers : Copy(s, t)

Spec == Init /\ [][Next]_vars
=============================================================================
