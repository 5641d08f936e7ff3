----------------------------- MODULE ObjectPool -----------------------------
(***************************************************************************)
(* What EbSystemResource promises its clients, without queues, fifos,      *)
(* semaphores or live counts: a wrapper is free, or posted, or held by     *)
(* some threads, and it becomes free exactly when its last holder lets go. *)
(***************************************************************************)
CONSTANTS Objects, Threads

VARIABLES free, posted, holders

vars == <<free, posted, holders>>

Init ==
    /\ free = Objects
    /\ posted = {}
    /\ holders = [o \in Objects |-> {}]

(* svt_get_empty_object returns.                                            *)
Take(t, o) ==
    /\ o \in free
    /\ free' = free \ {o}
    /\ holders' = [holders EXCEPT ![o] = {t}]
    /\ UNCHANGED posted

(* svt_post_full_object: only an unshared wrapper may be posted.            *)
Publish(t, o) ==
    /\ holders[o] = {t}
    /\ holders' = [holders EXCEPT ![o] = {}]
    /\ posted' = posted \cup {o}
    /\ UNCHANGED free

(* svt_get_full_object returns.                                             *)
Receive(t, o) ==
    /\ o \in posted
    /\ posted' = posted \ {o}
    /\ holders' = [holders EXCEPT ![o] = {t}]
    /\ UNCHANGED free

(* svt_object_inc_live_count, and the reference goes to u.                  *)
Lend(t, u, o) ==
    /\ t \in holders[o] /\ u \notin holders[o]
    /\ holders' = [holders EXCEPT ![o] = @ \cup {u}]
    /\ UNCHANGED <<free, posted>>

(* svt_release_object.                                                      *)
LetGo(t, o) ==
    /\ t \in holders[o]
    /\ holders' = [holders EXCEPT ![o] = @ \ {t}]
    /\ free' = IF holders[o] = {t} THEN free \cup {o} ELSE free
    /\ UNCHANGED posted

Next ==
    \E t \in Threads, o \in Objects :
        \/ Take(t, o) \/ Publish(t, o) \/ Receive(t, o) \/ LetGo(t, o)
        \/ \E u \in Threads : Lend(t, u, o)

Spec == Init /\ [][Next]_vars
=============================================================================
