----------------------------- MODULE IoUringLoop -----------------------------
(***************************************************************************)
(* IoUringLoop of src/io_uring_loop.cpp: the thread that prepares          *)
(* operations and runs the loop, the kernel that completes them in any     *)
(* order, and a thread that calls stop().  Operations are prepared before  *)
(* run() and by callbacks.  They differ in what the kernel answers:        *)
(*   oneshot  one completion, if ever (read, send, recv, connect, ...)     *)
(*   timeout  one completion, when its time is over                        *)
(*   accept   multishot: completions with F_MORE, then perhaps a last one  *)
(*   send_zc  a result with F_MORE, then a notification                    *)
(*   recv     oneshot into a buffer of the pool                            *)
(*   provide  a buffer, or the pool, given to the kernel                   *)
(*   cancel   ends the operation it names                                  *)
(***************************************************************************)
EXTENDS Integers, FiniteSets, SequencesExt

CONSTANTS
    Kinds,          \* the operations callers use
    Depth,          \* queue_depth: slots of the submission queue
    Buffers,        \* ids of the buffers of the pool
    NoBuffer,
    MaxOps,         \* bound: operations prepared in all
    MaxShots,       \* bound: completions of one multishot accept
    MaxRefused      \* bound: operations answered at once with an error

VARIABLES
    sq,             \* operations prepared and not submitted
    inflight,       \* operations the kernel has
    cq,             \* completions, the oldest first
    seen,           \* completions process_completions() has gone through
    pending_,       \* the ids with a callback
    pending_ops_, next_id_, total_submissions_, total_completions_,
    ring,           \* what the last Depth entries taken of the queue hold, the oldest first
    refused,        \* history: operations answered at once with an error
    stale,          \* history: an entry was taken and not prepared
    running_,
    lpc,            \* "outside", "register", "submit", "wait", "process", "callback", "advance"
    pool,           \* buffers the kernel may use, the callers hold, nobody has any more
    ops,            \* history: each operation prepared, by its id
    calls           \* history: callbacks made for each id

loopVars == <<pending_, pending_ops_, next_id_, total_submissions_, total_completions_,
              ring, refused, stale>>
vars == <<sq, inflight, cq, seen, loopVars, running_, lpc, pool, ops, calls>>

ASSUME LoopAssumption ==
    /\ {Depth, MaxOps, MaxShots} \subseteq Nat \ {0} /\ MaxRefused \in Nat
    /\ Kinds \subseteq {"oneshot", "timeout", "accept", "send_zc", "recv", "cancel"}
    /\ Buffers \subseteq Nat \ {0} /\ NoBuffer \notin Buffers

Op(id, kind, arg) == [id |-> id, kind |-> kind, arg |-> arg]

Init ==
    /\ sq = <<>> /\ inflight = {} /\ cq = <<>> /\ seen = 0
    /\ pending_ = {} /\ pending_ops_ = 0 /\ next_id_ = 1
    /\ total_submissions_ = 0 /\ total_completions_ = 0
    /\ ring = [i \in 1..Depth |-> Op(0, "nop", 0)] /\ refused = 0 /\ stale = FALSE
    /\ running_ = FALSE /\ lpc = "outside"
    /\ pool = [kernel |-> {}, callers |-> {}, lost |-> {}, registered |-> FALSE]
    /\ ops = <<>> /\ calls = [id \in 1..MaxOps |-> 0]

-----------------------------------------------------------------------------
(* Preparing an operation.  Of arg, a cancel keeps the id it is about and a *)
(* provide the buffer.                                                      *)

(* Fault: no callback is kept for an operation prepared on a full queue. *)
RememberIfRoom(kind, arg) ==
    /\ next_id_ <= MaxOps
    /\ ops' = Append(ops, Op(next_id_, kind, arg))
    /\ next_id_' = next_id_ + 1
    /\ pending_' = IF Len(sq) < Depth THEN pending_ \cup {next_id_} ELSE pending_
    /\ pending_ops_' = pending_ops_ + 1

Remember(kind, arg) ==
    /\ next_id_ <= MaxOps
    /\ ops' = Append(ops, Op(next_id_, kind, arg))
    /\ next_id_' = next_id_ + 1
    /\ pending_' = pending_ \cup {next_id_}
    /\ pending_ops_' = pending_ops_ + 1

(* io_uring_get_sqe(), after a submit if the queue is full.                 *)
Enqueue(op) ==
    IF Len(sq) < Depth THEN sq' = Append(sq, op) /\ UNCHANGED inflight
    ELSE sq' = <<op>> /\ inflight' = inflight \cup ToSet(sq)

(* The queue is a ring: the entry given out holds what it held Depth        *)
(* entries ago, until it is prepared.                                       *)
Prepared(op) == ring' = Append(Tail(ring), op)

(* The callers' part of the thread: before run(), or in a callback.         *)
CallersTurn == lpc \in {"outside", "callback"}

Async(kind, target) ==
    /\ CallersTurn
    /\ kind = "recv" => pool.registered
    /\ kind = "cancel" <=> target # 0
    /\ target < next_id_
    /\ Remember(kind, target)
    /\ Enqueue(Op(next_id_, kind, target))
    /\ Prepared(Op(next_id_, kind, target))
    /\ total_submissions_' = total_submissions_ + 1
    /\ UNCHANGED <<cq, seen, total_completions_, refused, stale, running_, lpc, pool, calls>>

(* The errors answered at once, by a callback that is not kept.  -ENOMEM:   *)
(* the queue is full and submitting it fails.                               *)
AsyncNoRoom ==
    /\ CallersTurn /\ refused < MaxRefused /\ Len(sq) = Depth
    /\ refused' = refused + 1
    /\ UNCHANGED <<sq, inflight, cq, seen, pending_, pending_ops_, next_id_, total_submissions_,
                   total_completions_, ring, stale, running_, lpc, pool, ops, calls>>

(* -EINVAL: a receive without a pool, known only after the entry was taken. *)
(* The entry is submitted with the others as its last user left it.         *)
Unprepared == LET op == Head(ring) IN
    [id |-> op.id, kind |-> op.kind, arg |-> op.arg, copy |-> refused + 1]

RecvWithoutPool ==
    /\ CallersTurn /\ refused < MaxRefused /\ "recv" \in Kinds /\ ~pool.registered
    /\ Enqueue(Unprepared)
    /\ Prepared(Head(ring))
    /\ refused' = refused + 1 /\ stale' = TRUE
    /\ UNCHANGED <<cq, seen, pending_, pending_ops_, next_id_, total_submissions_,
                   total_completions_, running_, lpc, pool, ops, calls>>

(* register_buffer_pool(), which callers use before anything else: it waits *)
(* for a completion and takes it for its own, past handle_completion().     *)
RegisterBegin ==
    /\ lpc = "outside" /\ next_id_ = 1 /\ Len(sq) < Depth
    /\ Remember("provide", 0)
    /\ Prepared(Op(1, "provide", 0))
    /\ inflight' = {Op(1, "provide", 0)} \cup ToSet(sq) /\ sq' = <<>>
    /\ lpc' = "register"
    /\ UNCHANGED <<cq, seen, total_submissions_, total_completions_, refused, stale,
                   running_, pool, calls>>

(* The registration may have failed; a no-op taken for it has not.          *)
RegisterEnd ==
    /\ lpc = "register" /\ cq # <<>>
    /\ cq' = Tail(cq)
    /\ pool' = [pool EXCEPT !.registered = Head(cq).id = 1 => pool.kernel = Buffers]
    /\ lpc' = "outside"
    /\ UNCHANGED <<sq, inflight, seen, loopVars, running_, ops, calls>>

(* Fault: the index is one too high. *)
GiveNext(b) == Op(next_id_, "provide", IF b + 1 \in Buffers THEN b + 1 ELSE b)

GiveBack(b) == Op(next_id_, "provide", b)

(* return_provided_buffer().  Without a free slot nothing is done, and the  *)
(* buffer is lost; its operation is not among total_submissions_.           *)
ReturnBuffer(b) ==
    /\ CallersTurn /\ b \in pool.callers
    /\ \/ /\ Len(sq) < Depth
          /\ Remember("provide", b)
          /\ sq' = Append(sq, GiveBack(b)) /\ Prepared(GiveBack(b))
          /\ pool' = [pool EXCEPT !.callers = @ \ {b}]
       \/ /\ Len(sq) = Depth
          /\ pool' = [pool EXCEPT !.callers = @ \ {b}, !.lost = @ \cup {b}]
          /\ UNCHANGED <<sq, ops, next_id_, pending_, pending_ops_, ring>>
    /\ UNCHANGED <<inflight, cq, seen, total_submissions_, total_completions_, refused, stale,
                   running_, lpc, calls>>

-----------------------------------------------------------------------------
(* The kernel (external).                                                   *)
Completion(op, more, buffer) ==
    [id |-> op.id, more |-> more, buffer |-> buffer, notif |-> op.kind = "notify"]
Post(op, more, buffer) == cq' = Append(cq, Completion(op, more, buffer))
Ended(op) == inflight' = inflight \ {op}
Shots(id) == calls[id] + Cardinality({i \in (seen + 1)..Len(cq) : cq[i].id = id})
KernelUnchanged == UNCHANGED <<sq, seen, loopVars, running_, lpc, ops, calls>>

Answer(op) ==
    /\ op \in inflight /\ KernelUnchanged
    /\ \/ op.kind \in {"oneshot", "timeout", "nop"} /\ Post(op, FALSE, NoBuffer) /\ Ended(op) /\ UNCHANGED pool
       \/ op.kind = "accept" /\ Shots(op.id) < MaxShots /\ Post(op, TRUE, NoBuffer) /\ UNCHANGED <<inflight, pool>>
       \/ op.kind = "accept" /\ Post(op, FALSE, NoBuffer) /\ Ended(op) /\ UNCHANGED pool
       \/ /\ op.kind = "send_zc" /\ Post(op, TRUE, NoBuffer) /\ UNCHANGED pool
          /\ inflight' = (inflight \ {op}) \cup {[op EXCEPT !.kind = "notify"]}
       \/ op.kind = "notify" /\ Post(op, FALSE, NoBuffer) /\ Ended(op) /\ UNCHANGED pool
       \/ /\ op.kind = "recv" /\ pool.kernel # {} /\ Ended(op)
          /\ LET b == Min(pool.kernel) IN
             Post(op, FALSE, b) /\ pool' = [pool EXCEPT !.kernel = @ \ {b}]
       \/ op.kind = "recv" /\ pool.kernel = {} /\ Post(op, FALSE, NoBuffer) /\ Ended(op) /\ UNCHANGED pool
       \/ /\ op.kind = "provide" /\ Post(op, FALSE, NoBuffer) /\ Ended(op)
          /\ \/ pool' = [pool EXCEPT !.kernel = IF op.arg = 0 THEN Buffers ELSE @ \cup {op.arg}]
             \/ op.arg = 0 /\ UNCHANGED pool

(* A cancel: the operation it names ends, if the kernel still has it.       *)
AnswerCancel(op) ==
    /\ op \in inflight /\ op.kind = "cancel"
    /\ LET targets == {o \in inflight : o.id = op.arg /\ o.kind \notin {"notify", "provide"}} IN
       /\ inflight' = (inflight \ {op}) \ targets
       /\ cq' = cq \o SetToSeq({Completion(o, FALSE, NoBuffer) : o \in targets})
                   \o <<Completion(op, FALSE, NoBuffer)>>
    /\ UNCHANGED pool /\ KernelUnchanged

-----------------------------------------------------------------------------
(* run(): submit, wait, go through the completions, look at running_.       *)
Run ==
    /\ lpc = "outside" /\ ops # <<>>
    /\ running_' = TRUE /\ lpc' = "submit"
    /\ UNCHANGED <<sq, inflight, cq, seen, loopVars, pool, ops, calls>>

Submit ==
    /\ lpc = "submit"
    /\ inflight' = inflight \cup ToSet(sq) /\ sq' = <<>>
    /\ lpc' = "wait"
    /\ UNCHANGED <<cq, seen, loopVars, running_, pool, ops, calls>>

(* io_uring_submit() fails and its result is not looked at: the entries     *)
(* stay for the next turn.                                                  *)
SubmitFails ==
    /\ lpc = "submit"
    /\ lpc' = "wait"
    /\ UNCHANGED <<sq, inflight, cq, seen, loopVars, running_, pool, ops, calls>>

(* Fault: the loop does not look at running_. *)
AgainAlways == "submit"

Again == IF running_ THEN "submit" ELSE "outside"

(* A completion is there, or 100 ms are over, or a signal came.             *)
Wait ==
    /\ lpc = "wait"
    /\ lpc' \in {Again} \cup (IF cq # <<>> THEN {"process"} ELSE {})
    /\ UNCHANGED <<sq, inflight, cq, seen, loopVars, running_, pool, ops, calls>>

(* Any other error of the wait ends run(), with running_ still set.         *)
WaitFails ==
    /\ lpc = "wait"
    /\ lpc' = "outside"
    /\ UNCHANGED <<sq, inflight, cq, seen, loopVars, running_, pool, ops, calls>>

Current == cq[seen + 1]

(* handle_completion() up to the callback; an id nobody waits for is passed *)
(* over.                                                                    *)
HandleCompletion ==
    /\ lpc = "process" /\ seen < Len(cq)
    /\ \/ /\ Current.id \in pending_
          /\ lpc' = "callback"
          /\ calls' = [calls EXCEPT ![Current.id] = @ + 1]
          /\ pool' = IF Current.buffer = NoBuffer THEN pool
                     ELSE [pool EXCEPT !.callers = @ \cup {Current.buffer}]
          /\ UNCHANGED seen
       \/ Current.id \notin pending_ /\ seen' = seen + 1 /\ UNCHANGED <<lpc, calls, pool>>
    /\ UNCHANGED <<sq, inflight, cq, loopVars, running_, ops>>

Multishot(id) == ops[id].kind = "accept"

(* Fault: F_MORE keeps any operation. *)
KeptByFlag(c) == c.more

Kept(c) == Multishot(c.id) /\ c.more

(* The callback has returned.                                               *)
CallbackReturns ==
    /\ lpc = "callback"
    /\ lpc' = "process" /\ seen' = seen + 1
    /\ pending_' = IF Kept(Current) THEN pending_ ELSE pending_ \ {Current.id}
    /\ pending_ops_' = IF Kept(Current) THEN pending_ops_ ELSE pending_ops_ - 1
    /\ total_completions_' = total_completions_ + 1
    /\ UNCHANGED <<sq, inflight, cq, next_id_, total_submissions_, ring, refused, stale,
                   running_, pool, ops, calls>>

(* No completion is left: io_uring_for_each_cqe() ends.                     *)
ProcessEnds ==
    /\ lpc = "process" /\ seen = Len(cq)
    /\ lpc' = "advance"
    /\ UNCHANGED <<sq, inflight, cq, seen, loopVars, running_, pool, ops, calls>>

(* io_uring_cq_advance() by the completions gone through.                   *)
Advanced == SubSeq(cq, seen + 1, Len(cq))

Advance ==
    /\ lpc = "advance"
    /\ cq' = Advanced /\ seen' = 0
    /\ lpc' = Again
    /\ UNCHANGED <<sq, inflight, loopVars, running_, pool, ops, calls>>

Stop ==
    /\ running_
    /\ running_' = FALSE
    /\ UNCHANGED <<sq, inflight, cq, seen, loopVars, lpc, pool, ops, calls>>

LoopStep == Submit \/ Wait \/ HandleCompletion \/ CallbackReturns \/ ProcessEnds \/ Advance \/ RegisterEnd

Next ==
    \/ \E kind \in Kinds, target \in 0..MaxOps : Async(kind, target)
    \/ AsyncNoRoom \/ RecvWithoutPool \/ RegisterBegin
    \/ \E b \in Buffers : ReturnBuffer(b)
    \/ \E op \in inflight : Answer(op) \/ AnswerCancel(op)
    \/ Run \/ LoopStep \/ SubmitFails \/ WaitFails \/ Stop

Spec == Init /\ [][Next]_vars

(* The thread runs and does not spend its life in timeouts of the wait;     *)
(* time passes, and the kernel does what needs nobody else.                 *)
Prompt == {"timeout", "notify", "provide", "recv"}
Live ==
    /\ WF_vars(LoopStep) /\ SF_vars(Submit)
    /\ SF_vars(Wait /\ lpc' = "process")
    /\ \A id \in 1..MaxOps :
          WF_vars(\E op \in inflight : op.id = id /\ (AnswerCancel(op) \/ (op.kind \in Prompt /\ Answer(op))))

FairSpec == Spec /\ Live

-----------------------------------------------------------------------------
(* The shapes of the variables, with the counters: pending_ops_ counts the  *)
(* callbacks kept, total_submissions_ all but the buffers given to the      *)
(* kernel, total_completions_ the callbacks that have returned.             *)
CallsMade == UNION {{id} \X (1..calls[id]) : id \in DOMAIN calls}
TypeOK ==
    /\ Len(sq) <= Depth /\ seen \in 0..Len(cq)
    /\ pending_ \subseteq 1..(next_id_ - 1) /\ next_id_ = Len(ops) + 1
    /\ pending_ops_ = Cardinality(pending_)
    /\ total_submissions_ = Cardinality({id \in DOMAIN ops : ops[id].kind # "provide"})
    /\ total_completions_ + (IF lpc = "callback" THEN 1 ELSE 0) = Cardinality(CallsMade)
    /\ lpc \in {"outside", "register", "submit", "wait", "process", "callback", "advance"}

(* Nobody waits for nothing and no answer comes to nobody: an operation has *)
(* its callback exactly while it is prepared, with the kernel or answered   *)
(* and not yet handled.  Two exceptions: the registration of the pool keeps *)
(* its entry for ever, as its completion does not pass through              *)
(* handle_completion(), and the notification of a zero-copy send is nobody's. *)
Held(id) ==
    \/ \E i \in DOMAIN sq : sq[i].id = id
    \/ \E op \in inflight : op.id = id /\ op.kind # "notify"
    \/ \E i \in (seen + 1)..Len(cq) : cq[i].id = id /\ ~cq[i].notif
RegistersPool(id) == ops[id].kind = "provide" /\ ops[id].arg = 0
NoneForgotten ==
    \A id \in DOMAIN ops :
        (id \in pending_) <=> (Held(id) \/ (RegistersPool(id) /\ lpc # "register"))

(* A callback is called once; only a multishot accept's may be called       *)
(* again.  The notification of a zero-copy send is not a second result.     *)
CalledOnce ==
    \A id \in DOMAIN ops :
        /\ ~Multishot(id) => calls[id] <= 1
        /\ calls[id] = 0 => id \in pending_

(* Each operation is called back as often as it should be, and is forgotten *)
(* neither before nor kept after that, also when its callback submits more, *)
(* the registration of the pool failed or an operation was refused.  Until  *)
(* an entry is taken and left unprepared: see CalledWhenDone.               *)
CompletionsExact == ~stale => TypeOK /\ NoneForgotten /\ CalledOnce

(* An operation that was called back is over: neither the queue nor the     *)
(* kernel has it any more ("Async operations (submit to SQ, callback on     *)
(* CQ)", include/io_uring_loop.hpp:54).  async_recv_provided() without a    *)
(* pool leaves an entry that repeats the operation its slot held before.    *)
CalledWhenDone ==
    \A id \in DOMAIN ops : ~Multishot(id) /\ calls[id] > 0 =>
        \A op \in inflight \cup ToSet(sq) : op.id = id => op.kind = "notify"

(* Every buffer of the pool is in one place: the kernel may write it, a     *)
(* completion or an operation carries it, a caller holds it, or it was lost *)
(* on a full queue.  No receive writes where a caller still reads.          *)
InCompletion(b) == {i \in (seen + 1)..Len(cq) : cq[i].buffer = b /\ ~(lpc = "callback" /\ i = seen + 1)}
InOperation(b) == {op \in inflight \cup ToSet(sq) : op.kind = "provide" /\ op.arg = b}
BuffersInOnePlace ==
    pool.registered /\ ~stale => \A b \in Buffers :
        Cardinality({p \in {"kernel", "callers", "lost"} : b \in pool[p]})
            + Cardinality(InCompletion(b)) + Cardinality(InOperation(b)) = 1

(* While the loop runs a timeout or a cancel is answered.                   *)
TimeoutsFire ==
    \A id \in 1..MaxOps :
        (lpc # "outside" /\ id \in DOMAIN ops /\ ops[id].kind \in {"timeout", "cancel"})
            ~> (calls[id] > 0 \/ lpc = "outside")

(* Once stop() was called run() returns.                                    *)
StopReturns == (~running_ /\ lpc \notin {"outside", "register"}) ~> lpc = "outside"
=============================================================================
