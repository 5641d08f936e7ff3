--------------------------- MODULE SystemResource ---------------------------
(***************************************************************************)
(* EbSystemResource of Codec/sys_resource_manager.c in its multi-threaded  *)
(* mode: a pool of reference-counted object wrappers, an "empty" muxing    *)
(* queue that hands free wrappers to producers and a "full" muxing queue   *)
(* that hands posted wrappers to consumers.                                *)
(*                                                                         *)
(* A muxing queue pairs waiting threads with waiting objects: a thread     *)
(* that wants an object pushes its own fifo on the FRONT of the process    *)
(* queue, svt_muxing_queue_assignation moves objects to the fifos at the   *)
(* head of the process queue, and the thread sleeps on the counting        *)
(* semaphore of its fifo.  A thread has one fifo, so the fifo is named     *)
(* after its thread.                                                       *)
(*                                                                         *)
(* Grain: a section under a mutex is one step, except for the loop of      *)
(* svt_muxing_queue_assignation, whose semaphore posts come after the      *)
(* fifo mutex has been released: there one iteration is two steps, both    *)
(* taken with the queue's lockout_mutex (qlock) held.                      *)
(*                                                                         *)
(* The clients follow the encoder's discipline: a thread asks for an       *)
(* object only when it holds none, except for the sequence control set a   *)
(* Pinner keeps across requests (scs_active of resource coordination); a   *)
(* wrapper that is posted is not shared; a producer shares a wrapper by    *)
(* raising the live count before it hands the reference on.                *)
(***************************************************************************)
EXTENDS CircularBuffer, Sequences, FiniteSets

CONSTANTS
    Objects,      \* wrapper_ptr_pool
    Producers,    \* threads with a fifo on the empty queue
    Consumers,    \* threads with a fifo on the full queue
    Holders,      \* threads that only receive and release references
    Pollers,      \* consumers that call svt_get_full_object_non_blocking
    Pinners,      \* producers that keep an object with release disabled
    CanShutdown   \* whether the application tears the resource down

Threads == Producers \cup Consumers \cup Holders

ASSUME ThreadsAssumption ==
    /\ IsFiniteSet(Objects) /\ Objects # {}
    /\ IsFiniteSet(Producers) /\ Producers # {}
    /\ IsFiniteSet(Consumers) /\ IsFiniteSet(Holders)
    /\ Producers \cap Consumers = {}
    /\ Holders \cap (Producers \cup Consumers) = {}
    /\ Pollers \subseteq Consumers /\ Pinners \subseteq Producers
    /\ CanShutdown \in BOOLEAN

ASSUME NullAssumption == NULL \notin Objects \cup Threads

(* The output stream and the recon resource, the only two that are polled,  *)
(* have one consumer, the application.                                      *)
ASSUME PollersAssumption == Pollers # {} => Cardinality(Consumers) = 1

(* The pool of sequence control sets has one producer, resource             *)
(* coordination.                                                            *)
ASSUME PinnersAssumption == Pinners # {} => Cardinality(Producers) = 1

(* EB_ObjectWrapperReleasedValue: ~0u is -1 here.                           *)
Released == -1

Queues == {"empty", "full"}

(* A resource without consumers has no full queue; one slot nobody uses     *)
(* stands for it.                                                           *)
Slots(S) == IF S = {} THEN 1 ELSE Cardinality(S)

ObjectSlots == Slots(Objects)

ProcessSlots(q) == IF q = "empty" THEN Slots(Producers) ELSE Slots(Consumers)

VARIABLES
    liveCount,      \* EbObjectWrapper.live_count
    releaseEnable,  \* EbObjectWrapper.release_enable
    objectQueue,    \* EbMuxingQueue.object_queue, per queue
    processQueue,   \* EbMuxingQueue.process_queue, per queue
    qlock,          \* who is inside svt_muxing_queue_assignation, per queue
    fifo,           \* the wrappers linked in EbFifo, per thread
    sem,            \* EbFifo.counting_semaphore, per thread
    quit,           \* EbFifo.quit_signal, per thread
    pc,             \* where a thread is
    op,             \* what it returns to once it leaves the muxing queue
    target,         \* the fifo whose semaphore it is about to post
    held,           \* the objects a thread has a reference to
    active,         \* scs_active of a Pinner
    signalled,      \* consumers whose quit_signal shutdown has set
    posting         \* the consumer whose semaphore shutdown posts next

wrappers == <<liveCount, releaseEnable>>
queues   == <<objectQueue, processQueue, qlock>>
fifos    == <<fifo, sem, quit>>
threads  == <<pc, op, target>>
clients  == <<held, active>>
shutdown == <<signalled, posting>>
vars == <<wrappers, queues, fifos, threads, clients, shutdown>>

PCs == {"idle", "assign", "signal", "wait", "pop", "peek", "again", "unpin",
        "check", "drop", "exited"}
Ops == {"get", "poll", "post", "release"}

(* The queue whose lockout_mutex an operation of t takes.                   *)
QueueOf(t) == IF op[t] = "release" \/ (op[t] = "get" /\ t \in Producers)
              THEN "empty" ELSE "full"

Init ==
    /\ liveCount = [o \in Objects |-> 0]
    /\ releaseEnable = [o \in Objects |-> TRUE]
    /\ \E s \in [0..(ObjectSlots - 1) -> Objects] :
          /\ {s[i] : i \in 0..(ObjectSlots - 1)} = Objects
          /\ objectQueue = [q \in Queues |->
                IF q = "empty" THEN [slot |-> s, head |-> 0, tail |-> 0]
                ELSE Ctor(ObjectSlots)]
    /\ processQueue = [q \in Queues |-> Ctor(ProcessSlots(q))]
    /\ qlock = [q \in Queues |-> NULL]
    /\ fifo = [t \in Threads |-> <<>>]
    /\ sem = [t \in Threads |-> 0]
    /\ quit = [t \in Threads |-> FALSE]
    /\ pc = [t \in Threads |-> "idle"]
    /\ op = [t \in Threads |-> "release"]
    /\ target = [t \in Threads |-> NULL]
    /\ held = [t \in Threads |-> {}]
    /\ active = [t \in Pinners |-> NULL]
    /\ signalled = {}
    /\ posting = NULL

-----------------------------------------------------------------------------
(* Helpers: entering and leaving the section under qlock.                   *)

Enter(t, q, what) ==
    /\ qlock[q] = NULL
    /\ qlock' = [qlock EXCEPT ![q] = t]
    /\ pc' = [pc EXCEPT ![t] = "assign"]
    /\ op' = [op EXCEPT ![t] = what]
    /\ target' = [target EXCEPT ![t] = NULL]

DecLive(n) == IF n = 0 THEN 0 ELSE n - 1

-----------------------------------------------------------------------------
(* Faulty variants of the definitions below, one plausible bug each.        *)

(* The live count of the last life is kept.                                 *)
PopEmptyStale(p) ==
    /\ pc[p] = "pop" /\ p \in Producers
    /\ fifo' = [fifo EXCEPT ![p] = Tail(@)]
    /\ held' = [held EXCEPT ![p] = @ \cup {Head(fifo[p])}]
    /\ releaseEnable' = [releaseEnable EXCEPT ![Head(fifo[p])] = TRUE]
    /\ pc' = [pc EXCEPT ![p] = "idle"]
    /\ UNCHANGED <<liveCount, queues, sem, quit, op, target, active, shutdown>>

PostBody(p, o, queue, kept) ==
    /\ pc[p] = "idle" /\ p \in Producers \ Pinners /\ o \in held[p]
    /\ Consumers # {} /\ liveCount[o] = 0
    /\ objectQueue' = [objectQueue EXCEPT !["full"] = queue]
    /\ held' = [held EXCEPT ![p] = kept]
    /\ UNCHANGED <<wrappers, processQueue, fifos, active, shutdown>>

(* No assignation after the push; the newest first.                         *)
PostUnassigned(p, o) ==
    /\ PostBody(p, o, PushBack(ObjectSlots, objectQueue["full"], o), held[p] \ {o})
    /\ qlock["full"] = NULL
    /\ UNCHANGED <<qlock, threads>>
PostFront(p, o) ==
    /\ PostBody(p, o, PushFront(ObjectSlots, objectQueue["full"], o), held[p] \ {o})
    /\ Enter(p, "full", "post")

ReleaseIf(t, o, goes) ==
    /\ qlock["empty"] = NULL
    /\ liveCount' = [liveCount EXCEPT ![o] = IF goes THEN Released ELSE DecLive(@)]
    /\ IF goes
       THEN objectQueue' = [objectQueue EXCEPT !["empty"] = PushFront(ObjectSlots, @, o)]
       ELSE UNCHANGED objectQueue
    /\ IF goes
       THEN Enter(t, "empty", "release")
       ELSE /\ pc' = [pc EXCEPT ![t] = "idle"]
            /\ target' = [target EXCEPT ![t] = NULL]
            /\ UNCHANGED <<qlock, op>>
    /\ UNCHANGED <<releaseEnable, processQueue, fifos, shutdown>>

(* release_enable ignored; the count tested before it is lowered.           *)
ReleaseAlways(t, o) == ReleaseIf(t, o, DecLive(liveCount[o]) = 0)
ReleaseTestFirst(t, o) == ReleaseIf(t, o, releaseEnable[o] /\ liveCount[o] = 0)

(* A reference is handed on and the live count is not raised.               *)
ShareActiveUncounted(p, u) ==
    /\ pc[p] = "idle" /\ p \in Pinners
    /\ pc[u] = "idle" /\ u \in Holders
    /\ active[p] # NULL /\ active[p] \notin held[u]
    /\ held' = [held EXCEPT ![u] = @ \cup {active[p]}]
    /\ UNCHANGED <<wrappers, queues, fifos, threads, active, shutdown>>

(* The previous sequence control set is dropped without looking.            *)
DropUnchecked(p) ==
    /\ pc[p] = "check"
    /\ pc' = [pc EXCEPT ![p] = "drop"]
    /\ UNCHANGED <<wrappers, queues, fifos, op, target, clients, shutdown>>

(* The semaphore is posted and the quit signal is not set, or conversely.   *)
SetQuitUnseen(c) ==
    /\ CanShutdown /\ posting = NULL /\ c \in Consumers \ signalled
    /\ signalled' = signalled \cup {c}
    /\ posting' = c
    /\ UNCHANGED <<wrappers, queues, fifos, threads, clients>>
PostQuitSilent ==
    /\ posting # NULL
    /\ posting' = NULL
    /\ UNCHANGED <<wrappers, queues, fifos, threads, clients, signalled>>

-----------------------------------------------------------------------------
(* svt_release_process up to the assignation: register the fifo, in front.  *)
RequestProcess(t, q, what) ==
    /\ Enter(t, q, what)
    /\ processQueue' =
          [processQueue EXCEPT ![q] = PushFront(ProcessSlots(q), @, t)]
    /\ UNCHANGED <<wrappers, objectQueue, fifos, clients, shutdown>>

-----------------------------------------------------------------------------
(* svt_muxing_queue_assignation, run by the thread that holds qlock.        *)

Pair(t) ==
    LET q == QueueOf(t)
        f == Front(processQueue[q])
        o == Front(objectQueue[q])
    IN  /\ pc[t] = "assign"
        /\ ~EmptyCheck(objectQueue[q]) /\ ~EmptyCheck(processQueue[q])
        /\ processQueue' = [processQueue EXCEPT ![q] = PopFront(ProcessSlots(q), @)]
        /\ objectQueue' = [objectQueue EXCEPT ![q] = PopFront(ObjectSlots, @)]
        /\ fifo' = [fifo EXCEPT ![f] = Append(@, o)]
        /\ target' = [target EXCEPT ![t] = f]
        /\ pc' = [pc EXCEPT ![t] = "signal"]
        /\ UNCHANGED <<wrappers, qlock, sem, quit, op, clients, shutdown>>

Signal(t) ==
    /\ pc[t] = "signal"
    /\ sem' = [sem EXCEPT ![target[t]] = @ + 1]
    /\ target' = [target EXCEPT ![t] = NULL]
    /\ pc' = [pc EXCEPT ![t] = "assign"]
    /\ UNCHANGED <<wrappers, queues, fifo, quit, op, clients, shutdown>>

Unlock(t) ==
    LET q == QueueOf(t)
    IN  /\ pc[t] = "assign"
        /\ EmptyCheck(objectQueue[q]) \/ EmptyCheck(processQueue[q])
        /\ qlock' = [qlock EXCEPT ![q] = NULL]
        /\ pc' = [pc EXCEPT ![t] = CASE op[t] = "get" -> "wait"
                                     [] op[t] = "poll" -> "peek"
                                     [] OTHER -> "idle"]
        /\ UNCHANGED <<wrappers, objectQueue, processQueue, fifos, op, target,
                       clients, shutdown>>

-----------------------------------------------------------------------------
(* svt_get_empty_object and svt_get_full_object.                            *)

RequestEmpty(p) ==
    /\ pc[p] = "idle" /\ p \in Producers /\ held[p] = {}
    /\ RequestProcess(p, "empty", "get")

RequestFull(c) ==
    /\ c \in Consumers
    /\ \/ pc[c] = "idle" /\ held[c] = {}
       \/ pc[c] = "again"
    /\ RequestProcess(c, "full", "get")

(* svt_block_on_semaphore.                                                  *)
Wait(t) ==
    /\ pc[t] = "wait" /\ sem[t] > 0
    /\ sem' = [sem EXCEPT ![t] = @ - 1]
    /\ pc' = [pc EXCEPT ![t] = "pop"]
    /\ UNCHANGED <<wrappers, queues, fifo, quit, op, target, clients, shutdown>>

(* What svt_fifo_pop_front does for thread t.                               *)
PopFifo(t) ==
    /\ fifo' = [fifo EXCEPT ![t] = Tail(@)]
    /\ held' = [held EXCEPT ![t] = @ \cup {Head(fifo[t])}]

PopEmpty(p) ==
    /\ pc[p] = "pop" /\ p \in Producers
    /\ PopFifo(p)
    /\ liveCount' = [liveCount EXCEPT ![Head(fifo[p])] = 0]
    /\ releaseEnable' = [releaseEnable EXCEPT ![Head(fifo[p])] = TRUE]
    /\ pc' = [pc EXCEPT ![p] = "idle"]
    /\ UNCHANGED <<queues, sem, quit, op, target, active, shutdown>>

PopFull(c) ==
    /\ pc[c] = "pop" /\ c \in Consumers
    /\ IF quit[c]
       THEN /\ pc' = [pc EXCEPT ![c] = "exited"]
            /\ UNCHANGED <<fifo, held>>
       ELSE /\ PopFifo(c)
            /\ pc' = [pc EXCEPT ![c] = "idle"]
    /\ UNCHANGED <<wrappers, queues, sem, quit, op, target, active, shutdown>>

(* svt_get_full_object_non_blocking: register, look, and only then call     *)
(* svt_get_full_object, which registers again.  A poll that finds nothing   *)
(* leaves the fifo registered.                                              *)
Poll(c) ==
    /\ pc[c] = "idle" /\ c \in Pollers /\ held[c] = {}
    /\ RequestProcess(c, "full", "poll")

Peek(c) ==
    /\ pc[c] = "peek"
    /\ pc' = [pc EXCEPT ![c] = IF quit[c] \/ fifo[c] = <<>> THEN "idle" ELSE "again"]
    /\ UNCHANGED <<wrappers, queues, fifos, op, target, clients, shutdown>>

-----------------------------------------------------------------------------
(* svt_post_full_object: the poster gives its reference away.               *)
Post(p, o) ==
    /\ pc[p] = "idle" /\ p \in Producers \ Pinners /\ o \in held[p]
    /\ Consumers # {} /\ liveCount[o] = 0
    /\ Enter(p, "full", "post")
    /\ objectQueue' = [objectQueue EXCEPT !["full"] = PushBack(ObjectSlots, @, o)]
    /\ held' = [held EXCEPT ![p] = @ \ {o}]
    /\ UNCHANGED <<wrappers, processQueue, fifos, active, shutdown>>

(* The body of svt_release_object by thread t.  It asserts that the wrapper *)
(* is not a released one; a build without assertions goes on.               *)
ReleaseBody(t, o) ==
    /\ qlock["empty"] = NULL
    /\ IF releaseEnable[o] /\ DecLive(liveCount[o]) = 0
       THEN /\ liveCount' = [liveCount EXCEPT ![o] = Released]
            /\ objectQueue' = [objectQueue EXCEPT !["empty"] = PushFront(ObjectSlots, @, o)]
            /\ Enter(t, "empty", "release")
       ELSE /\ liveCount' = [liveCount EXCEPT ![o] = DecLive(@)]
            /\ pc' = [pc EXCEPT ![t] = "idle"]
            /\ target' = [target EXCEPT ![t] = NULL]
            /\ UNCHANGED <<objectQueue, qlock, op>>
    /\ UNCHANGED <<releaseEnable, processQueue, fifos, shutdown>>

Release(t, o) ==
    /\ pc[t] = "idle" /\ t \notin Pinners /\ o \in held[t]
    /\ ReleaseBody(t, o)
    /\ held' = [held EXCEPT ![t] = @ \ {o}]
    /\ UNCHANGED active

(* svt_object_inc_live_count(w, 1), for the caller's own reference ...      *)
Claim(p, o) ==
    /\ pc[p] = "idle" /\ p \in Producers \ Pinners /\ o \in held[p]
    /\ qlock["empty"] = NULL
    /\ liveCount[o] = 0
    /\ liveCount' = [liveCount EXCEPT ![o] = @ + 1]
    /\ UNCHANGED <<releaseEnable, queues, fifos, threads, clients, shutdown>>

(* ... and for a reference it hands to another thread.                      *)
Share(p, u, o) ==
    /\ pc[p] = "idle" /\ p \in Producers /\ o \in held[p] \ held[u]
    /\ pc[u] = "idle" /\ u \in Holders
    /\ qlock["empty"] = NULL
    /\ liveCount[o] > 0
    /\ liveCount' = [liveCount EXCEPT ![o] = @ + 1]
    /\ held' = [held EXCEPT ![u] = @ \cup {o}]
    /\ UNCHANGED <<releaseEnable, queues, fifos, threads, active, shutdown>>

-----------------------------------------------------------------------------
(* Resource coordination keeps one sequence control set with release        *)
(* disabled.  It gets a new one, disables its release, enables the release  *)
(* of the previous one and releases that if nobody uses it any more; the    *)
(* last test reads live_count without a lock.  target holds the previous    *)
(* one between the steps.                                                   *)

Pin(p, o) ==
    /\ pc[p] = "idle" /\ p \in Pinners /\ o \in held[p]
    /\ liveCount[o] = 0 /\ active[p] # o
    /\ qlock["empty"] = NULL
    /\ releaseEnable' = [releaseEnable EXCEPT ![o] = FALSE]
    /\ held' = [held EXCEPT ![p] = @ \ {o}]
    /\ active' = [active EXCEPT ![p] = o]
    /\ target' = [target EXCEPT ![p] = active[p]]
    /\ pc' = [pc EXCEPT ![p] = IF active[p] = NULL THEN "idle" ELSE "unpin"]
    /\ UNCHANGED <<liveCount, queues, fifos, op, shutdown>>

Unpin(p) ==
    /\ pc[p] = "unpin"
    /\ qlock["empty"] = NULL
    /\ releaseEnable' = [releaseEnable EXCEPT ![target[p]] = TRUE]
    /\ pc' = [pc EXCEPT ![p] = "check"]
    /\ UNCHANGED <<liveCount, queues, fifos, op, target, clients, shutdown>>

(* prev_scs_wrapper->live_count == 0, read without the lock ...             *)
CheckPrevious(p) ==
    /\ pc[p] = "check"
    /\ IF liveCount[target[p]] = 0
       THEN /\ pc' = [pc EXCEPT ![p] = "drop"]
            /\ UNCHANGED target
       ELSE /\ pc' = [pc EXCEPT ![p] = "idle"]
            /\ target' = [target EXCEPT ![p] = NULL]
    /\ UNCHANGED <<wrappers, queues, fifos, op, clients, shutdown>>

(* ... and if so svt_release_object(prev_scs_wrapper).                      *)
DropPrevious(p) ==
    /\ pc[p] = "drop"
    /\ ReleaseBody(p, target[p])
    /\ UNCHANGED clients

(* A reference on the active one, taken for a picture and handed to u.      *)
ShareActive(p, u) ==
    /\ pc[p] = "idle" /\ p \in Pinners
    /\ pc[u] = "idle" /\ u \in Holders
    /\ active[p] # NULL /\ active[p] \notin held[u]
    /\ qlock["empty"] = NULL
    /\ liveCount' = [liveCount EXCEPT ![active[p]] = @ + 1]
    /\ held' = [held EXCEPT ![u] = @ \cup {active[p]}]
    /\ UNCHANGED <<releaseEnable, queues, fifos, threads, active, shutdown>>
-----------------------------------------------------------------------------
(* svt_shutdown_process: for every consumer fifo set quit_signal under the  *)
(* fifo mutex and then post its semaphore.                                  *)

SetQuit(c) ==
    /\ CanShutdown /\ posting = NULL /\ c \in Consumers \ signalled
    /\ quit' = [quit EXCEPT ![c] = TRUE]
    /\ signalled' = signalled \cup {c}
    /\ posting' = c
    /\ UNCHANGED <<wrappers, queues, fifo, sem, threads, clients>>

PostQuit ==
    /\ posting # NULL
    /\ sem' = [sem EXCEPT ![posting] = @ + 1]
    /\ posting' = NULL
    /\ UNCHANGED <<wrappers, queues, fifo, quit, threads, clients, signalled>>

-----------------------------------------------------------------------------
(* Steps a thread takes without needing another one to let go of a lock.    *)
Internal(t) ==
    \/ Pair(t) \/ Signal(t) \/ Unlock(t)
    \/ Wait(t) \/ PopEmpty(t) \/ PopFull(t) \/ Peek(t)
    \/ t \in Pinners /\ CheckPrevious(t)

(* Asking for an object.                                                    *)
Request(t) == RequestEmpty(t) \/ RequestFull(t) \/ Poll(t)

(* Letting go of an object.                                                 *)
LetGo(t) ==
    \/ \E o \in Objects : Post(t, o) \/ Release(t, o) \/ Pin(t, o)
    \/ t \in Pinners /\ (Unpin(t) \/ DropPrevious(t))

(* Spreading references to it.                                              *)
Spread(t) ==
    \/ \E o \in Objects : Claim(t, o) \/ \E u \in Holders : Share(t, u, o)
    \/ \E u \in Holders : ShareActive(t, u)

Shutdown == PostQuit \/ \E c \in Consumers : SetQuit(c)

Next ==
    \/ \E t \in Threads : Internal(t) \/ Request(t) \/ LetGo(t) \/ Spread(t)
    \/ Shutdown

(* Threads run, a pthread mutex does not pass over a waiter for ever, a     *)
(* kernel loops back to its get call, and whoever holds an object lets go   *)
(* of it in the end.                                                        *)
Fairness ==
    /\ \A t \in Threads : WF_vars(Internal(t)) /\ SF_vars(Request(t)) /\ SF_vars(LetGo(t))
    /\ WF_vars(PostQuit)

Spec == Init /\ [][Next]_vars

FairSpec == Spec /\ Fairness
-----------------------------------------------------------------------------
(* Properties.                                                              *)

(* Every variable stays within its range: an index of a circular buffer     *)
(* never leaves the array and the pointer moved to a fifo is never NULL     *)
(* (svt_circular_buffer_*, svt_muxing_queue_assignation).                   *)
TypeOK ==
    /\ liveCount \in [Objects -> Int]
    /\ releaseEnable \in [Objects -> BOOLEAN]
    /\ objectQueue \in [Queues -> Buffers(ObjectSlots, Objects)]
    /\ DOMAIN processQueue = Queues
    /\ processQueue["empty"] \in Buffers(ProcessSlots("empty"), Producers)
    /\ processQueue["full"] \in Buffers(ProcessSlots("full"), Consumers)
    /\ qlock \in [Queues -> Threads \cup {NULL}]
    /\ fifo \in [Threads -> Seq(Objects)]
    /\ sem \in [Threads -> Nat]
    /\ quit \in [Threads -> BOOLEAN]
    /\ pc \in [Threads -> PCs]
    /\ op \in [Threads -> Ops]
    /\ target \in [Threads -> Threads \cup Objects \cup {NULL}]
    /\ held \in [Threads -> SUBSET Objects]
    /\ active \in [Pinners -> Objects \cup {NULL}]
    /\ signalled \in SUBSET Consumers
    /\ posting \in Consumers \cup {NULL}

(* Who has a reference to o.                                                *)
HoldersOf(o) == {t \in Threads : o \in held[t]}

(* A previous sequence control set is its pinner's while it may still have  *)
(* to drop it: until the check finds that somebody else uses it.            *)
KeptBy(p, o) ==
    \/ active[p] = o
    \/ pc[p] \in {"unpin", "drop"} /\ target[p] = o
    \/ pc[p] = "check" /\ target[p] = o /\ liveCount[o] = 0

InClient(o) == HoldersOf(o) # {} \/ \E p \in Pinners : KeptBy(p, o)

Queued(q) == Members(objectQueue[q])

Linked(t) == {fifo[t][i] : i \in 1..Len(fifo[t])}

(* Every place where o is.                                                  *)
Places(o) ==
    {<<"queue", q>> : q \in {r \in Queues : o \in Queued(r)}}
        \cup {<<"fifo", t>> : t \in {u \in Threads : o \in Linked(u)}}
        \cup {<<"client", x>> : x \in IF InClient(o) THEN {NULL} ELSE {}}

(* No wrapper is lost and none is in two places: it is in one slot of one   *)
(* object queue, linked once in one fifo, or with the clients.  A circular  *)
(* buffer that overflowed, a second release or a release by a thread that   *)
(* shares the wrapper with another one would break it (svt_release_object,  *)
(* svt_circular_buffer_push_front).                                         *)
ObjectConservation ==
    /\ \A q \in Queues : Distinct(objectQueue[q])
    /\ \A t \in Threads : \A i, j \in 1..Len(fifo[t]) : fifo[t][i] = fifo[t][j] => i = j
    /\ \A o \in Objects : \E x \in Places(o) : Places(o) = {x}

(* The live count is the number of references while a wrapper is shared;    *)
(* zero stands for the single reference of an unshared one, and a wrapper   *)
(* kept by a pinner counts its other users only (svt_object_inc_live_count, *)
(* svt_release_object, scs_active).                                         *)
LiveCountAgrees ==
    \A o \in Objects :
        LET users == Cardinality(HoldersOf(o))
        IN  /\ users > 0 => \/ liveCount[o] = users
                            \/ liveCount[o] = 0 /\ users = 1
            /\ (\E p \in Pinners : active[p] = o) => liveCount[o] = users

(* svt_fifo_pop_front dereferences first_ptr: a thread that has passed its  *)
(* semaphore finds its fifo non-empty, unless it was told to quit.          *)
NoNullPop ==
    \A t \in Threads : (pc[t] = "pop" /\ ~quit[t]) => fifo[t] # <<>>

(* No lost wakeup: while nobody is inside the muxing queue, a thread that   *)
(* sleeps in a get call with an empty fifo sleeps because no object is      *)
(* queued for it (svt_release_process, svt_muxing_queue_assignation).       *)
NoLostWakeup ==
    \A t \in Threads :
        (pc[t] = "wait" /\ fifo[t] = <<>> /\ qlock[QueueOf(t)] = NULL)
            => EmptyCheck(objectQueue[QueueOf(t)])

(* Deciding to drop the previous sequence control set is decided on an      *)
(* unlocked read of its live count; the decision still holds when the       *)
(* wrapper is released (resource_coordination_process.c:1098).              *)
DropIsCurrent ==
    \A p \in Pinners :
        pc[p] = "drop" => liveCount[target[p]] = 0 /\ HoldersOf(target[p]) = {}

(* Every posted wrapper reaches a consumer, whatever the interleaving,      *)
(* unless the resource is shut down first.                                  *)
PostedIsReceived ==
    \A o \in Objects :
        o \in Queued("full") ~> (\E c \in Consumers : o \in held[c]) \/ signalled # {}

(* A consumer that was told to quit leaves its kernel (the thread can be    *)
(* joined), even when it was asleep or about to sleep at that moment.       *)
QuitIsObeyed ==
    \A c \in Consumers \ Pollers : quit[c] ~> pc[c] = "exited"
-----------------------------------------------------------------------------
(* The abstract specifications.                                             *)

Pool == INSTANCE ObjectPool WITH
    free    <- Queued("empty") \cup UNION {Linked(p) : p \in Producers},
    posted  <- Queued("full") \cup UNION {Linked(c) : c \in Consumers},
    holders <- [o \in Objects |-> HoldersOf(o) \cup {p \in Pinners : KeptBy(p, o)}]

(* Every step of the queues, fifos and live counts is a step of the pool or *)
(* invisible: a wrapper is free exactly when nobody has it any more.        *)
ImplementsPool == Pool!Spec

TheConsumer == CHOOSE c \in Consumers : TRUE

Channel == INSTANCE ObjectChannel WITH
    channel <- fifo[TheConsumer] \o InOrder(ObjectSlots, objectQueue["full"])

(* With one consumer the wrappers arrive in the order they were posted,     *)
(* however polling leaves its fifo registered (svt_get_full_object_non_     *)
(* blocking).                                                               *)
ImplementsChannel == Channel!Spec
=============================================================================
