----------------------------- MODULE ServerProofs -----------------------------
(***************************************************************************)
(* Proofs about Server: any number of workers, connections and addresses,  *)
(* any limits, any configuration file and any number of signals.           *)
(***************************************************************************)
EXTENDS Server, FiniteSetTheorems, TLAPS

(* The program points, in the classes that decide what a thread owns.       *)
Releasing == {"release", "release408"}
Ending == {"count408", "finish"}
Locked == {"pred", "block"}
Free == {"loop", "lock", "waiting", "exited"}
Points == Handling \cup Locked \cup Free \cup {"unborn"}
Judging == {"check", "admit", "refuse"}     \* the reactor has accepted, not admitted
ReactorPoints == {"starting", "loop", "load", "apply", "wait", "accept", "check", "admit",
                  "refuse", "push", "notify", "join", "done", "crashed"}
ConnStates == {"new", "backlog", "open", "closed"}

Shape ==
    /\ cstate \in [Conns -> ConnStates]
    /\ wconn \in [Workers -> Conns \cup {NoConn}]
    /\ wpc \in [Workers -> Points]
    /\ pending_ \in Seq(Conns)
    /\ queue_mutex_ \in Workers \cup {Nobody}
    /\ rpc \in ReactorPoints
    /\ rconn \in Conns \cup {NoConn}

(* Who has a connection in hand, and who has the mutex.                     *)
InHand ==
    /\ \A w \in Workers : wconn[w] # NoConn <=> wpc[w] \in Handling
    /\ rconn # NoConn <=> rpc \in Judging \cup {"push"}
    /\ \A w \in Workers : wpc[w] \in Locked <=> queue_mutex_ = w
    /\ \A w \in Workers : wpc[w] = "unborn" <=> rpc = "starting"

(* A worker about to block has seen the queue empty and still holds the     *)
(* mutex, so it is empty.                                                   *)
BlockSeesEmpty == \A w \in Workers : wpc[w] = "block" => pending_ = <<>>

(* A worker that is past close() has closed its connection.                 *)
PastClose == \A w \in Workers : wpc[w] \in Releasing \cup Ending => cstate[wconn[w]] = "closed"

OwnInv == Shape /\ InHand /\ BlockSeesEmpty /\ PastClose /\ NoDescriptorShared /\ NoDescriptorLost

control == <<cstate, wconn, wpc, pending_, queue_mutex_, rpc, rconn>>

(* A step in which every thread keeps what it owns.                         *)
SameClass(p, q) ==
    \A class \in {Serving, Releasing, Ending, Locked, Free, {"unborn"}} : p \in class => q \in class

Calm ==
    /\ UNCHANGED <<cstate, wconn, pending_, queue_mutex_, rconn>>
    /\ wpc' \in [Workers -> Points]
    /\ \A w \in Workers : SameClass(wpc[w], wpc'[w])
    /\ \A w \in Workers : wpc'[w] = "block" => wpc[w] = "block" \/ pending_ = <<>>
    /\ rpc' \in ReactorPoints
    /\ \/ rpc \in Judging /\ rpc' \in Judging
       \/ rpc = "push" /\ rpc' = "push"
       \/ rpc = "starting" /\ rpc' = "starting"
       \/ {rpc, rpc'} \cap (Judging \cup {"push", "starting"}) = {}

-----------------------------------------------------------------------------
(* What the queue holds after a push ...                                    *)
LEMMA QueueAppend ==
    ASSUME pending_ \in Seq(Conns), NEW c \in Conns, pending_' = Append(pending_, c)
    PROVE  /\ pending_' \in Seq(Conns)
           /\ \A x : InQueue(x)' <=> InQueue(x) \/ x = c
           /\ ~InQueue(c) /\ (\A i, j \in DOMAIN pending_ : pending_[i] = pending_[j] => i = j) =>
                 \A i, j \in DOMAIN pending_' : pending_'[i] = pending_'[j] => i = j
  <1>1. pending_' \in Seq(Conns) /\ Len(pending_') = Len(pending_) + 1 /\ Len(pending_) \in Nat
    OBVIOUS
  <1>2. DOMAIN pending_ = 1..Len(pending_) /\ DOMAIN pending_' = 1..(Len(pending_) + 1)
    BY <1>1
  <1>3. /\ \A i \in DOMAIN pending_ : pending_'[i] = pending_[i]
        /\ pending_'[Len(pending_) + 1] = c
    BY <1>1, <1>2
  <1>4. \A i \in DOMAIN pending_' : i \in DOMAIN pending_ \/ i = Len(pending_) + 1
    BY <1>1, <1>2
  <1>5. \A x : InQueue(x)' <=> InQueue(x) \/ x = c
    <2> TAKE x
    <2>1. InQueue(x)' => InQueue(x) \/ x = c
      BY <1>3, <1>4 DEF InQueue
    <2>2. InQueue(x) => InQueue(x)'
      BY <1>1, <1>2, <1>3 DEF InQueue
    <2>3. Len(pending_) + 1 \in DOMAIN pending_'
      BY <1>1, <1>2
    <2>4. x = c => InQueue(x)'
      BY <1>3, <2>3 DEF InQueue
    <2> QED
      BY <2>1, <2>2, <2>4
  <1>6. ASSUME ~InQueue(c), \A i, j \in DOMAIN pending_ : pending_[i] = pending_[j] => i = j,
               NEW i \in DOMAIN pending_', NEW j \in DOMAIN pending_', pending_'[i] = pending_'[j]
        PROVE  i = j
    BY <1>3, <1>4, <1>6 DEF InQueue
  <1> QED
    BY <1>1, <1>5, <1>6

(* ... and after a pop.                                                     *)
LEMMA QueueTail ==
    ASSUME pending_ \in Seq(Conns), pending_ # <<>>, pending_' = Tail(pending_),
           \A i, j \in DOMAIN pending_ : pending_[i] = pending_[j] => i = j
    PROVE  /\ pending_' \in Seq(Conns) /\ Head(pending_) \in Conns /\ InQueue(Head(pending_))
           /\ \A x : InQueue(x)' <=> InQueue(x) /\ x # Head(pending_)
           /\ \A i, j \in DOMAIN pending_' : pending_'[i] = pending_'[j] => i = j
  <1>1. /\ pending_' \in Seq(Conns) /\ Len(pending_) \in Nat /\ Len(pending_) >= 1
        /\ Len(pending_') = Len(pending_) - 1 /\ Head(pending_) = pending_[1]
    OBVIOUS
  <1>2. DOMAIN pending_ = 1..Len(pending_) /\ DOMAIN pending_' = 1..(Len(pending_) - 1)
    BY <1>1
  <1>3. \A i \in DOMAIN pending_' : pending_'[i] = pending_[i + 1] /\ i + 1 \in DOMAIN pending_ /\ i + 1 # 1
    BY <1>1, <1>2
  <1>4. 1 \in DOMAIN pending_ /\ pending_[1] \in Conns
    BY <1>1, <1>2
  <1>5. \A i \in DOMAIN pending_ : i # 1 => i - 1 \in DOMAIN pending_' /\ pending_'[i - 1] = pending_[i]
    <2> SUFFICES ASSUME NEW i \in DOMAIN pending_, i # 1
                 PROVE  i - 1 \in DOMAIN pending_' /\ pending_'[i - 1] = pending_[i]
      OBVIOUS
    <2>1. i \in Int /\ i - 1 \in DOMAIN pending_'
      BY <1>1, <1>2
    <2>2. (i - 1) + 1 = i
      BY <2>1
    <2> QED
      BY <1>3, <2>1, <2>2
  <1>6. \A x : InQueue(x)' <=> InQueue(x) /\ x # Head(pending_)
    <2> TAKE x
    <2>1. InQueue(x)' => InQueue(x) /\ x # Head(pending_)
      BY <1>1, <1>3, <1>4 DEF InQueue
    <2>2. InQueue(x) /\ x # Head(pending_) => InQueue(x)'
      <3> SUFFICES ASSUME NEW i \in DOMAIN pending_, pending_[i] = x, x # pending_[1]
                   PROVE  InQueue(x)'
        BY <1>1 DEF InQueue
      <3>1. i # 1
        OBVIOUS
      <3> QED
        BY <1>5, <3>1 DEF InQueue
    <2> QED
      BY <2>1, <2>2
  <1>7. ASSUME NEW i \in DOMAIN pending_', NEW j \in DOMAIN pending_', pending_'[i] = pending_'[j]
        PROVE  i = j
    <2>1. i + 1 = j + 1
      BY <1>3, <1>7
    <2> QED
      BY <1>2, <2>1
  <1> QED
    BY <1>1, <1>4, <1>6, <1>7 DEF InQueue

-----------------------------------------------------------------------------
(* Steps that move threads within their classes are calm.                   *)

SameReactorClass ==
    \/ rpc \in Judging /\ rpc' \in Judging
    \/ rpc = "push" /\ rpc' = "push"
    \/ rpc = "starting" /\ rpc' = "starting"
    \/ {rpc, rpc'} \cap (Judging \cup {"push", "starting"}) = {}

(* A step that leaves the reactor's point alone leaves its class alone.     *)
LEMMA StillReactor == Shape /\ rpc' = rpc => SameReactorClass /\ rpc' \in ReactorPoints
  BY DEF Shape, SameReactorClass

(* One worker moves within its class ...                                    *)
LEMMA OneWorkerMoves ==
    ASSUME Shape, NEW w \in Workers, NEW q \in Points, wpc' = [wpc EXCEPT ![w] = q],
           SameClass(wpc[w], q), q = "block" => pending_ = <<>>,
           UNCHANGED <<cstate, wconn, pending_, queue_mutex_, rconn>>,
           SameReactorClass, rpc' \in ReactorPoints
    PROVE  Calm
  <1>1. wpc' \in [Workers -> Points] /\ wpc'[w] = q /\ \A v \in Workers \ {w} : wpc'[v] = wpc[v]
    BY DEF Shape
  <1>2. \A v \in Workers : SameClass(wpc[v], wpc'[v])
    BY <1>1 DEF SameClass
  <1>3. \A v \in Workers : wpc'[v] = "block" => wpc[v] = "block" \/ pending_ = <<>>
    BY <1>1
  <1> QED
    BY <1>1, <1>2, <1>3 DEF Calm, SameReactorClass

(* ... or none moves.                                                       *)
LEMMA NoWorkerMoves ==
    ASSUME Shape, wpc' = wpc, UNCHANGED <<cstate, wconn, pending_, queue_mutex_, rconn>>,
           SameReactorClass, rpc' \in ReactorPoints
    PROVE  Calm
  BY DEF Calm, SameReactorClass, SameClass, Shape

(* handle_connection between its first statement and close(), and Count408. *)
LEMMA HandlingMoves ==
    ASSUME Shape, NEW w \in Workers, HandleStep(w) \/ ClientStep(w), UNCHANGED serverVars
    PROVE  Calm \/ CloseFd(w) \/ ReleaseSlot(w) \/ Finish(w)
  <1>1. UNCHANGED <<pending_, queue_mutex_, rpc, rconn>>
    BY DEF serverVars
  <1>2. SameReactorClass /\ rpc' \in ReactorPoints
    BY <1>1, StillReactor
  <1>3. ASSUME NEW q \in Serving, wpc[w] \in Serving, Goto(w, q), UNCHANGED <<cstate, wconn>>
        PROVE  Calm
    <2>1. q \in Points /\ q # "block"
      BY <1>3 DEF Points, Handling, Holding, Serving
    <2>2. SameClass(wpc[w], q)
      BY <1>3 DEF SameClass, Serving, Releasing, Ending, Locked, Free
    <2> QED
      BY <1>1, <1>2, <1>3, <2>1, <2>2, OneWorkerMoves DEF Goto
  <1>4. CASE BeginHandling(w) \/ HandshakeFails(w) \/ HandshakeDone(w) \/ ReadRequest(w) \/ ReadFails(w)
    BY <1>3, <1>4 DEF BeginHandling, HandshakeFails, HandshakeDone, ReadRequest, ReadFails, Serving
  <1>5. CASE WafBlocks(w) \/ WafPasses(w) \/ RateLimited(w) \/ WithinRate(w)
    BY <1>3, <1>5 DEF WafBlocks, WafPasses, RateLimited, WithinRate, Serving
  <1>6. CASE SendfileDone(w) \/ SendfileDeclines(w) \/ RouteAndRespond(w)
    BY <1>3, <1>6 DEF SendfileDone, SendfileDeclines, RouteAndRespond, Serving
  <1>7. CASE ReceiveTimeout(w) \/ WsMessage(w) \/ PeerGone(w)
    BY <1>3, <1>7 DEF ReceiveTimeout, WsMessage, PeerGone, Serving
  <1>8. CASE H2Request(w)
    BY <1>1, <1>2, <1>8, NoWorkerMoves DEF H2Request
  <1>9. CASE Count408(w)
    <2>1. wpc[w] = "count408" /\ wpc' = [wpc EXCEPT ![w] = "finish"] /\ UNCHANGED <<cstate, wconn>>
      BY <1>9 DEF Count408, Goto
    <2>2. SameClass("count408", "finish") /\ "finish" \in Points
      BY DEF SameClass, Serving, Releasing, Ending, Locked, Free, Points, Handling
    <2> QED
      BY <1>1, <1>2, <2>1, <2>2, OneWorkerMoves
  <1> QED
    BY <1>4, <1>5, <1>6, <1>7, <1>8, <1>9 DEF HandleStep, ClientStep

(* The dispatch loop around it.                                             *)
LEMMA DispatchMoves ==
    ASSUME Shape, NEW w \in Workers, Dispatch(w) \/ SpuriousWakeup(w)
    PROVE  Calm \/ Lock(w) \/ Block(w) \/ Take(w) \/ ReturnEmpty(w)
  <1>1. ASSUME NEW p \in Points, NEW q \in Points, wpc[w] = p, SameClass(p, q), Goto(w, q),
               q = "block" => pending_ = <<>>,
               UNCHANGED <<cstate, wconn>>, UNCHANGED serverVars
        PROVE  Calm
    <2>1. UNCHANGED <<pending_, queue_mutex_, rpc, rconn>>
      BY <1>1 DEF serverVars
    <2>2. SameReactorClass /\ rpc' \in ReactorPoints
      BY <2>1, StillReactor
    <2> QED
      BY <1>1, <2>1, <2>2, OneWorkerMoves DEF Goto
  <1>2. /\ {"loop", "lock", "exited", "waiting", "pred", "block"} \subseteq Points
        /\ SameClass("loop", "lock") /\ SameClass("loop", "exited")
        /\ SameClass("pred", "block") /\ SameClass("waiting", "lock")
    BY DEF SameClass, Serving, Releasing, Ending, Locked, Free, Points
  <1>3. CASE LoopTest(w)
    BY <1>1, <1>2, <1>3 DEF LoopTest
  <1>4. CASE PredicateFalse(w)
    BY <1>1, <1>2, <1>4 DEF PredicateFalse
  <1>5. CASE SpuriousWakeup(w)
    BY <1>1, <1>2, <1>5 DEF SpuriousWakeup
  <1> QED
    BY <1>3, <1>4, <1>5 DEF Dispatch

(* The main thread.                                                         *)
LEMMA ReactorMoves ==
    ASSUME Shape, Reactor
    PROVE  Calm \/ Start \/ Accept \/ RefuseClient \/ CheckPerIp \/ Enqueue
  <1>1. ASSUME UNCHANGED workerVars, UNCHANGED <<pending_, queue_mutex_, rconn>>,
               SameReactorClass, rpc' \in ReactorPoints
        PROVE  Calm
    BY <1>1, NoWorkerMoves DEF workerVars
  <1>2. CASE LoopTop
    BY <1>1, <1>2 DEF LoopTop, SameReactorClass, ReactorPoints, Judging
  <1>3. CASE ReadConfig
    BY <1>1, <1>3 DEF ReadConfig, SameReactorClass, ReactorPoints, Judging
  <1>4. CASE ApplyReload
    <2>1. SameReactorClass /\ rpc' \in ReactorPoints
      BY <1>4 DEF ApplyReload, SameReactorClass, ReactorPoints, Judging
    <2> QED
      BY <1>4, <2>1, NoWorkerMoves DEF ApplyReload
  <1>5. CASE ReloadThrows
    BY <1>1, <1>5 DEF ReloadThrows, SameReactorClass, ReactorPoints, Judging
  <1>6. CASE EpollReports
    BY <1>1, <1>6 DEF EpollReports, SameReactorClass, ReactorPoints, Judging
  <1>7. CASE EpollReturnsEmpty
    BY <1>1, <1>7 DEF EpollReturnsEmpty, SameReactorClass, ReactorPoints, Judging
  <1>8. CASE EpollFails
    BY <1>1, <1>8 DEF EpollFails, SameReactorClass, ReactorPoints, Judging
  <1>9. CASE AcceptFails
    BY <1>1, <1>9 DEF AcceptFails, SameReactorClass, ReactorPoints, Judging
  <1>10. CASE CheckTotal
    BY <1>1, <1>10 DEF CheckTotal, SameReactorClass, ReactorPoints, Judging
  <1>11. CASE Join
    BY <1>1, <1>11 DEF Join, SameReactorClass, ReactorPoints, Judging
  <1>12. CASE NotifyOne
    <2>1. SameReactorClass /\ rpc' \in ReactorPoints
      BY <1>12 DEF NotifyOne, SameReactorClass, ReactorPoints, Judging
    <2>2. UNCHANGED <<cstate, wconn, pending_, queue_mutex_, rconn>>
      BY <1>12 DEF NotifyOne
    <2>3. ASSUME NEW w \in Waiting, Goto(w, "lock") PROVE Calm
      <3>1. w \in Workers /\ wpc[w] = "waiting"
        BY DEF Waiting
      <3>2. "lock" \in Points /\ SameClass("waiting", "lock")
        BY DEF SameClass, Serving, Releasing, Ending, Locked, Free, Points
      <3> QED
        BY <2>1, <2>2, <2>3, <3>1, <3>2, OneWorkerMoves DEF Goto
    <2>4. CASE wpc' = wpc
      BY <2>1, <2>2, <2>4, NoWorkerMoves
    <2> QED
      BY <1>12, <2>3, <2>4 DEF NotifyOne
  <1> QED
    BY <1>2, <1>3, <1>4, <1>5, <1>6, <1>7, <1>8, <1>9, <1>10, <1>11, <1>12 DEF Reactor

(* Every step is calm or one of those that hand a connection or the mutex   *)
(* over.                                                                    *)
LEMMA NextMoves ==
    ASSUME Shape, [Next]_vars
    PROVE  \/ Calm
           \/ Start \/ Accept \/ RefuseClient \/ CheckPerIp \/ Enqueue
           \/ \E w \in Workers : Lock(w) \/ Block(w) \/ Take(w) \/ ReturnEmpty(w)
           \/ \E w \in Workers : (CloseFd(w) \/ ReleaseSlot(w) \/ Finish(w)) /\ UNCHANGED serverVars
           \/ \E c \in Conns : Connect(c)
  <1>1. ASSUME wpc' = wpc, UNCHANGED <<cstate, wconn, pending_, queue_mutex_, rconn, rpc>> PROVE Calm
    BY <1>1, StillReactor, NoWorkerMoves
  <1>2. CASE StopNotify
    <2>1. wpc' = [w \in Workers |-> IF wpc[w] = "waiting" THEN "lock" ELSE wpc[w]]
          /\ UNCHANGED <<cstate, wconn, pending_, queue_mutex_, rconn, rpc>>
      BY <1>2 DEF StopNotify
    <2>2. wpc' \in [Workers -> Points]
      BY <2>1 DEF Shape, Points, Free
    <2>3. \A w \in Workers : SameClass(wpc[w], wpc'[w])
      BY <2>1 DEF SameClass, Serving, Releasing, Ending, Locked, Free
    <2>4. \A w \in Workers : wpc'[w] = "block" => wpc[w] = "block"
      BY <2>1
    <2> QED
      BY <2>1, <2>2, <2>3, <2>4, StillReactor DEF Calm, SameReactorClass
  <1>3. CASE StopStore \/ EditConfigFile \/ Sighup
    BY <1>1, <1>3 DEF StopStore, EditConfigFile, Sighup, workerVars
  <1>4. CASE ClockTick
    BY <1>1, <1>4 DEF ClockTick, serverVars
  <1>5. CASE UNCHANGED vars
    BY <1>1, <1>5 DEF vars, workerVars, serverVars
  <1> QED
    BY <1>2, <1>3, <1>4, <1>5, ReactorMoves, DispatchMoves, HandlingMoves
    DEF Next, Environment, Terminated

-----------------------------------------------------------------------------
(* The classes are a partition: a thread that stays in its class owns what  *)
(* it owned.                                                                *)
LEMMA ClassesExact ==
    ASSUME NEW p \in Points, NEW q \in Points, SameClass(p, q)
    PROVE  /\ p \in Handling <=> q \in Handling
           /\ p \in Serving <=> q \in Serving
           /\ p \in Holding <=> q \in Holding
           /\ p \in Releasing \cup Ending <=> q \in Releasing \cup Ending
           /\ p \in Locked <=> q \in Locked
           /\ p = "unborn" <=> q = "unborn"
  BY DEF Points, Handling, Holding, Serving, Releasing, Ending, Locked, Free, SameClass

(* What the moves of one worker leave alone.                                *)
LEMMA OneMoves ==
    ASSUME Shape, NEW w \in Workers, NEW q \in Points, wpc' = [wpc EXCEPT ![w] = q]
    PROVE  wpc' \in [Workers -> Points] /\ wpc'[w] = q /\ \A v \in Workers \ {w} : wpc'[v] = wpc[v]
  BY DEF Shape

(* A calm step changes no owner.                                            *)
LEMMA CalmKeepsOwn == OwnInv /\ Calm => OwnInv'
  <1> SUFFICES ASSUME OwnInv, Calm PROVE OwnInv'
    OBVIOUS
  <1>1. UNCHANGED <<cstate, wconn, pending_, queue_mutex_, rconn>>
    BY DEF Calm
  <1>2. \A w \in Workers :
           /\ wpc[w] \in Handling <=> wpc'[w] \in Handling
           /\ wpc[w] \in Serving <=> wpc'[w] \in Serving
           /\ wpc[w] \in Releasing \cup Ending <=> wpc'[w] \in Releasing \cup Ending
           /\ wpc[w] \in Locked <=> wpc'[w] \in Locked
           /\ wpc[w] = "unborn" <=> wpc'[w] = "unborn"
    BY ClassesExact DEF Calm, OwnInv, Shape
  <1>3. (rpc \in Judging \cup {"push"} <=> rpc' \in Judging \cup {"push"})
        /\ (rpc = "starting" <=> rpc' = "starting")
    BY DEF Calm, Judging
  <1>4. Shape'
    BY <1>1 DEF Calm, OwnInv, Shape
  <1>5. InHand'
    BY <1>1, <1>2, <1>3 DEF OwnInv, InHand
  <1>6. BlockSeesEmpty'
    BY <1>1 DEF Calm, OwnInv, BlockSeesEmpty
  <1>7. PastClose'
    BY <1>1, <1>2 DEF OwnInv, PastClose
  <1>8. NoDescriptorShared'
    BY <1>1 DEF OwnInv, NoDescriptorShared, InQueue
  <1>9. NoDescriptorLost'
    BY <1>1, <1>2 DEF OwnInv, NoDescriptorLost, InQueue
  <1> QED
    BY <1>4, <1>5, <1>6, <1>7, <1>8, <1>9 DEF OwnInv

(* start() spawns the workers, which own nothing yet.                       *)
LEMMA StartKeepsOwn == OwnInv /\ Start => OwnInv'
  <1> SUFFICES ASSUME OwnInv, Start PROVE OwnInv'
    OBVIOUS
  <1>1. /\ rpc = "starting" /\ rpc' = "loop" /\ wpc' = [w \in Workers |-> "loop"]
        /\ UNCHANGED <<cstate, wconn, pending_, queue_mutex_, rconn>>
    BY DEF Start
  <1>2. \A w \in Workers : wpc[w] = "unborn" /\ wpc'[w] = "loop"
    BY <1>1 DEF OwnInv, InHand
  <1>3. "loop" \in Points /\ "loop" \notin Handling \cup Locked /\ "unborn" \notin Handling \cup Locked
    BY DEF Points, Free, Handling, Holding, Serving, Locked
  <1>4. Shape'
    BY <1>1, <1>3 DEF OwnInv, Shape, ReactorPoints
  <1>5. InHand'
    BY <1>1, <1>2, <1>3 DEF OwnInv, InHand, Judging
  <1>6. Serving \cup Releasing \cup Ending \subseteq Handling
    BY DEF Serving, Releasing, Ending, Handling, Holding
  <1>7. BlockSeesEmpty' /\ PastClose'
    BY <1>2, <1>3, <1>6 DEF BlockSeesEmpty, PastClose, Locked
  <1>8. NoDescriptorShared'
    BY <1>1 DEF OwnInv, NoDescriptorShared, InQueue
  <1>9. NoDescriptorLost'
    BY <1>1, <1>2, <1>3, <1>6 DEF OwnInv, NoDescriptorLost, InQueue
  <1> QED
    BY <1>4, <1>5, <1>7, <1>8, <1>9 DEF OwnInv

(* accept4(): a descriptor that nobody has yet.                             *)
LEMMA AcceptKeepsOwn == OwnInv /\ Accept => OwnInv'
  <1> SUFFICES ASSUME OwnInv, Accept PROVE OwnInv'
    OBVIOUS
  <1>1. PICK c \in Conns : cstate[c] = "backlog" /\ cstate' = [cstate EXCEPT ![c] = "open"] /\ rconn' = c
    BY DEF Accept
  <1>2. rpc = "accept" /\ rpc' = "check" /\ UNCHANGED <<wconn, wpc, pending_, queue_mutex_>>
    BY DEF Accept
  <1>3. cstate' \in [Conns -> ConnStates] /\ cstate'[c] = "open"
        /\ \A x \in Conns \ {c} : cstate'[x] = cstate[x]
    BY <1>1 DEF OwnInv, Shape, ConnStates
  <1>4. rconn = NoConn /\ c # NoConn
    BY <1>2, WorkerAssumption DEF OwnInv, InHand, Judging
  <1>5. \A w \in Workers : wconn[w] # c
    <2> SUFFICES ASSUME NEW w \in Workers, wconn[w] = c PROVE FALSE
      OBVIOUS
    <2>1. wpc[w] \in Serving \cup Releasing \cup Ending
      BY <1>4 DEF OwnInv, InHand, Handling, Holding, Releasing, Ending
    <2>2. cstate[c] \in {"open", "closed"}
      BY <2>1 DEF OwnInv, NoDescriptorLost, PastClose
    <2> QED
      BY <1>1, <2>2
  <1>6. ~InQueue(c)
    BY <1>1 DEF OwnInv, NoDescriptorLost
  <1>7. Shape'
    BY <1>1, <1>2, <1>3 DEF OwnInv, Shape, ReactorPoints
  <1>8. InHand'
    BY <1>1, <1>2, <1>4 DEF OwnInv, InHand, Judging
  <1>9. BlockSeesEmpty' /\ PastClose'
    <2>1. \A w \in Workers : wpc[w] \in Releasing \cup Ending => wconn[w] \in Conns
      BY WorkerAssumption DEF OwnInv, Shape, InHand, Handling, Holding, Releasing, Ending
    <2> QED
      BY <1>2, <1>3, <1>5, <2>1 DEF OwnInv, BlockSeesEmpty, PastClose
  <1>10. NoDescriptorShared'
    BY <1>1, <1>2, <1>5, <1>6 DEF OwnInv, NoDescriptorShared, InQueue
  <1>11. NoDescriptorLost'
    <2> SUFFICES ASSUME NEW x \in Conns
                 PROVE  cstate'[x] = "open" <=>
                            \/ rconn' = x
                            \/ InQueue(x)'
                            \/ \E w \in Workers : wconn'[w] = x /\ wpc'[w] \in Serving
      BY DEF NoDescriptorLost
    <2>1. InQueue(x)' = InQueue(x)
      BY <1>2 DEF InQueue
    <2>2. CASE x = c
      BY <1>1, <1>3, <2>2
    <2>3. CASE x # c
      <3>1. cstate[x] = "open" <=>
                \/ InQueue(x)
                \/ \E w \in Workers : wconn[w] = x /\ wpc[w] \in Serving
        BY <1>4, WorkerAssumption DEF OwnInv, NoDescriptorLost
      <3> QED
        BY <1>1, <1>2, <1>3, <2>1, <2>3, <3>1
    <2> QED
      BY <2>2, <2>3
  <1> QED
    BY <1>7, <1>8, <1>9, <1>10, <1>11 DEF OwnInv

(* A refused client is closed by the reactor, which forgets it.             *)
LEMMA RefuseKeepsOwn == OwnInv /\ RefuseClient => OwnInv'
  <1> SUFFICES ASSUME OwnInv, RefuseClient PROVE OwnInv'
    OBVIOUS
  <1>1. /\ rpc = "refuse" /\ rpc' = "accept" /\ rconn' = NoConn
        /\ cstate' = [cstate EXCEPT ![rconn] = "closed"]
        /\ UNCHANGED <<wconn, wpc, pending_, queue_mutex_>>
    BY DEF RefuseClient
  <1>2. rconn \in Conns /\ NoConn \notin Conns
    BY <1>1, WorkerAssumption DEF OwnInv, Shape, InHand, Judging
  <1>3. cstate' \in [Conns -> ConnStates] /\ cstate'[rconn] = "closed"
        /\ \A x \in Conns \ {rconn} : cstate'[x] = cstate[x]
    BY <1>1, <1>2 DEF OwnInv, Shape, ConnStates
  <1>4. ~InQueue(rconn) /\ \A w \in Workers : wconn[w] # rconn
    BY <1>2 DEF OwnInv, NoDescriptorShared
  <1>5. ~InQueue(NoConn)
    BY <1>2 DEF OwnInv, Shape, InQueue
  <1>6. Shape'
    BY <1>1, <1>3 DEF OwnInv, Shape, ReactorPoints
  <1>7. InHand'
    BY <1>1 DEF OwnInv, InHand, Judging
  <1>8. BlockSeesEmpty' /\ PastClose'
    <2>1. \A w \in Workers : wpc[w] \in Releasing \cup Ending => wconn[w] \in Conns
      BY WorkerAssumption DEF OwnInv, Shape, InHand, Handling, Holding, Releasing, Ending
    <2> QED
      BY <1>1, <1>3, <1>4, <2>1 DEF OwnInv, BlockSeesEmpty, PastClose
  <1>9. NoDescriptorShared'
    BY <1>1, <1>5 DEF OwnInv, NoDescriptorShared, InQueue
  <1>10. NoDescriptorLost'
    <2> SUFFICES ASSUME NEW x \in Conns
                 PROVE  cstate'[x] = "open" <=>
                            \/ rconn' = x
                            \/ InQueue(x)'
                            \/ \E w \in Workers : wconn'[w] = x /\ wpc'[w] \in Serving
      BY DEF NoDescriptorLost
    <2>1. InQueue(x)' = InQueue(x)
      BY <1>1 DEF InQueue
    <2>2. CASE x = rconn
      BY <1>1, <1>2, <1>3, <1>4, <2>1, <2>2
    <2>3. CASE x # rconn
      <3>1. cstate[x] = "open" <=>
                \/ InQueue(x)
                \/ \E w \in Workers : wconn[w] = x /\ wpc[w] \in Serving
        BY <2>3 DEF OwnInv, NoDescriptorLost
      <3> QED
        BY <1>1, <1>2, <1>3, <2>1, <2>3, <3>1
    <2> QED
      BY <2>2, <2>3
  <1> QED
    BY <1>6, <1>7, <1>8, <1>9, <1>10 DEF OwnInv

(* allow_connection under its lock.                                         *)
LEMMA CheckKeepsOwn == OwnInv /\ CheckPerIp => OwnInv'
  <1> SUFFICES ASSUME OwnInv, CheckPerIp PROVE OwnInv'
    OBVIOUS
  <1>1. /\ rpc = "admit" /\ rpc' \in {"push", "refuse"}
        /\ UNCHANGED <<cstate, wconn, wpc, pending_, queue_mutex_, rconn>>
    BY DEF CheckPerIp
  <1> QED
    BY <1>1 DEF OwnInv, Shape, ReactorPoints, InHand, Judging, BlockSeesEmpty, PastClose,
                NoDescriptorShared, NoDescriptorLost, InQueue

(* The reactor hands its connection to the queue.                           *)
LEMMA EnqueueKeepsOwn == OwnInv /\ Enqueue => OwnInv'
  <1> SUFFICES ASSUME OwnInv, Enqueue PROVE OwnInv'
    OBVIOUS
  <1>1. /\ rpc = "push" /\ rpc' = "notify" /\ rconn' = NoConn /\ queue_mutex_ = Nobody
        /\ pending_' = Append(pending_, rconn)
        /\ UNCHANGED <<cstate, wconn, wpc, queue_mutex_>>
    BY DEF Enqueue, workerVars
  <1>2. rconn \in Conns /\ NoConn \notin Conns /\ pending_ \in Seq(Conns)
    BY <1>1, WorkerAssumption DEF OwnInv, Shape, InHand
  <1>3. ~InQueue(rconn) /\ (\A w \in Workers : wconn[w] # rconn)
        /\ (\A i, j \in DOMAIN pending_ : pending_[i] = pending_[j] => i = j)
    BY <1>2 DEF OwnInv, NoDescriptorShared
  <1>4. PICK c \in Conns : c = rconn
    BY <1>2
  <1>5. /\ pending_' \in Seq(Conns)
        /\ \A x : InQueue(x)' <=> InQueue(x) \/ x = c
        /\ \A i, j \in DOMAIN pending_' : pending_'[i] = pending_'[j] => i = j
    BY <1>1, <1>2, <1>3, <1>4, QueueAppend
  <1>6. Shape'
    BY <1>1, <1>5 DEF OwnInv, Shape, ReactorPoints
  <1>7. InHand'
    BY <1>1 DEF OwnInv, InHand, Judging
  <1>8. BlockSeesEmpty'
    BY <1>1, ServerAssumption DEF OwnInv, InHand, Locked, BlockSeesEmpty
  <1>9. PastClose'
    BY <1>1 DEF OwnInv, PastClose
  <1>10. NoDescriptorShared'
    <2>1. \A w \in Workers : ~InQueue(wconn[w])'
      <3> TAKE w \in Workers
      <3>1. PICK x : x = wconn[w]
        OBVIOUS
      <3>2. ~InQueue(x) /\ x # c /\ wconn'[w] = x
        BY <1>1, <1>3, <1>4, <3>1 DEF OwnInv, NoDescriptorShared
      <3>3. ~InQueue(x)'
        BY <1>5, <3>2
      <3> QED
        BY <3>2, <3>3 DEF InQueue
    <2>2. ~InQueue(rconn)'
      <3>1. ~InQueue(NoConn)'
        BY <1>2, <1>5 DEF OwnInv, Shape, InQueue
      <3> QED
        BY <1>1, <3>1 DEF InQueue
    <2> QED
      BY <1>1, <1>5, <2>1, <2>2 DEF OwnInv, NoDescriptorShared
  <1>11. NoDescriptorLost'
    <2> SUFFICES ASSUME NEW x \in Conns
                 PROVE  cstate'[x] = "open" <=>
                            \/ rconn' = x
                            \/ InQueue(x)'
                            \/ \E w \in Workers : wconn'[w] = x /\ wpc'[w] \in Serving
      BY DEF NoDescriptorLost
    <2>1. cstate[x] = "open" <=>
              \/ rconn = x
              \/ InQueue(x)
              \/ \E w \in Workers : wconn[w] = x /\ wpc[w] \in Serving
      BY DEF OwnInv, NoDescriptorLost
    <2>2. InQueue(x)' <=> InQueue(x) \/ x = rconn
      BY <1>4, <1>5
    <2> QED
      BY <1>1, <1>2, <2>1, <2>2
  <1> QED
    BY <1>6, <1>7, <1>8, <1>9, <1>10, <1>11 DEF OwnInv

(* A worker's step that changes no descriptor: taking the mutex, giving it  *)
(* back, release_connection.                                                *)
LEMMA WorkerKeepsOwn ==
    ASSUME OwnInv, NEW w \in Workers, NEW q \in Points, wpc' = [wpc EXCEPT ![w] = q],
           wpc[w] # "unborn", q # "unborn", q # "block",
           wpc[w] \in Handling <=> q \in Handling,
           wpc[w] \in Serving <=> q \in Serving,
           UNCHANGED <<cstate, wconn, pending_, rpc, rconn>>,
           queue_mutex_' \in Workers \cup {Nobody},
           q \in Locked <=> queue_mutex_' = w,
           \A v \in Workers \ {w} : queue_mutex_' = v <=> queue_mutex_ = v
    PROVE  OwnInv'
  <1>1. wpc' \in [Workers -> Points] /\ wpc'[w] = q /\ \A v \in Workers \ {w} : wpc'[v] = wpc[v]
    BY OneMoves DEF OwnInv
  <1>2. Shape'
    BY <1>1 DEF OwnInv, Shape
  <1>3. InHand'
    <2>1. \A v \in Workers : wconn'[v] # NoConn <=> wpc'[v] \in Handling
      BY <1>1 DEF OwnInv, InHand
    <2>2. rconn' # NoConn <=> rpc' \in Judging \cup {"push"}
      BY DEF OwnInv, InHand
    <2>3. \A v \in Workers : wpc'[v] \in Locked <=> queue_mutex_' = v
      BY <1>1 DEF OwnInv, InHand
    <2>4. \A v \in Workers : wpc'[v] = "unborn" <=> rpc' = "starting"
      BY <1>1 DEF OwnInv, InHand
    <2> QED
      BY <2>1, <2>2, <2>3, <2>4 DEF InHand
  <1>4. BlockSeesEmpty'
    BY <1>1 DEF OwnInv, BlockSeesEmpty
  <1>5. PastClose'
    <2>1. Releasing \cup Ending = Handling \ Serving
      BY DEF Handling, Holding, Releasing, Ending, Serving
    <2> QED
      BY <1>1, <2>1 DEF OwnInv, PastClose
  <1>6. NoDescriptorShared'
    BY DEF OwnInv, NoDescriptorShared, InQueue
  <1>7. \A v \in Workers : wpc'[v] \in Serving <=> wpc[v] \in Serving
    BY <1>1
  <1>8. NoDescriptorLost'
    BY <1>7 DEF OwnInv, NoDescriptorLost, InQueue
  <1> QED
    BY <1>2, <1>3, <1>4, <1>5, <1>6, <1>8 DEF OwnInv

(* queue_mutex_ is taken and given back.                                    *)
LEMMA MutexKeepsOwn ==
    ASSUME OwnInv, NEW w \in Workers, Lock(w) \/ Block(w) \/ ReturnEmpty(w)
    PROVE  OwnInv'
  <1>0. Nobody \notin Workers
    BY ServerAssumption
  <1>1. /\ {"pred", "waiting", "exited"} \subseteq Points \ (Handling \cup Serving)
        /\ {"lock", "pred", "block"} \cap (Handling \cup Serving) = {}
        /\ "pred" \in Locked /\ {"waiting", "exited"} \cap Locked = {}
    BY DEF Points, Handling, Holding, Serving, Locked, Free
  <1>2. CASE Lock(w)
    <2>1. /\ wpc[w] = "lock" /\ wpc' = [wpc EXCEPT ![w] = "pred"]
          /\ queue_mutex_ = Nobody /\ queue_mutex_' = w
          /\ UNCHANGED <<cstate, wconn, pending_, rpc, rconn>>
      BY <1>2 DEF Lock, Goto
    <2> QED
      BY <1>0, <1>1, <2>1, WorkerKeepsOwn
  <1>3. CASE Block(w) \/ ReturnEmpty(w)
    <2>1. PICK q \in {"waiting", "exited"} :
             /\ wpc[w] \in Locked /\ wpc' = [wpc EXCEPT ![w] = q]
             /\ queue_mutex_' = Nobody
             /\ UNCHANGED <<cstate, wconn, pending_, rpc, rconn>>
      BY <1>3 DEF Block, ReturnEmpty, Goto, Locked
    <2>2. queue_mutex_ = w
      BY <2>1 DEF OwnInv, InHand
    <2>3. wpc[w] \in {"pred", "block"}
      BY <2>1 DEF Locked
    <2> QED
      BY <1>0, <1>1, <2>1, <2>2, <2>3, WorkerKeepsOwn
  <1> QED
    BY <1>2, <1>3

(* release_connection comes after close(): the descriptor is gone already.  *)
LEMMA ReleaseKeepsOwn ==
    ASSUME OwnInv, NEW w \in Workers, ReleaseSlot(w), UNCHANGED serverVars
    PROVE  OwnInv'
  <1>1. PICK q \in Ending : wpc[w] \in Releasing /\ wpc' = [wpc EXCEPT ![w] = q]
    BY DEF ReleaseSlot, Goto, Releasing, Ending
  <1>2. UNCHANGED <<cstate, wconn, pending_, queue_mutex_, rpc, rconn>>
    BY DEF ReleaseSlot, serverVars
  <1>3. /\ Releasing \cup Ending \subseteq (Points \cap Handling) \ Serving
        /\ (Releasing \cup Ending) \cap {"unborn", "block"} = {}
        /\ (Releasing \cup Ending) \cap Locked = {}
    BY DEF Points, Handling, Holding, Serving, Releasing, Ending, Locked
  <1>4. queue_mutex_ # w /\ queue_mutex_' \in Workers \cup {Nobody}
    BY <1>1, <1>2, <1>3 DEF OwnInv, InHand, Shape
  <1> QED
    BY <1>1, <1>2, <1>3, <1>4, WorkerKeepsOwn

(* A worker takes the front of the queue.                                   *)
LEMMA TakeKeepsOwn ==
    ASSUME OwnInv, NEW w \in Workers, Take(w)
    PROVE  OwnInv'
  <1>1. /\ wpc[w] = "pred" /\ pending_ # <<>>
        /\ wconn' = [wconn EXCEPT ![w] = Head(pending_)]
        /\ pending_' = Tail(pending_) /\ queue_mutex_' = Nobody
        /\ wpc' = [wpc EXCEPT ![w] = "handle"]
        /\ UNCHANGED <<cstate, rpc, rconn>>
    BY DEF Take, Goto
  <1>2. /\ "handle" \in Points /\ "handle" \in Serving /\ "handle" \in Handling
        /\ "handle" \notin Locked \cup Releasing \cup Ending \cup {"unborn", "block"}
        /\ "pred" \in Locked /\ "pred" \notin Handling /\ "pred" \notin Serving
    BY DEF Points, Handling, Holding, Serving, Locked, Releasing, Ending
  <1>3. wpc' \in [Workers -> Points] /\ wpc'[w] = "handle" /\ \A v \in Workers \ {w} : wpc'[v] = wpc[v]
    BY <1>1, <1>2, OneMoves DEF OwnInv
  <1>4. PICK c : c = Head(pending_)
    OBVIOUS
  <1>5. /\ pending_' \in Seq(Conns) /\ c \in Conns /\ InQueue(c)
        /\ \A x : InQueue(x)' <=> InQueue(x) /\ x # c
        /\ \A i, j \in DOMAIN pending_' : pending_'[i] = pending_'[j] => i = j
    BY <1>1, <1>4, QueueTail DEF OwnInv, Shape, NoDescriptorShared
  <1>6. wconn' \in [Workers -> Conns \cup {NoConn}] /\ wconn'[w] = c
        /\ \A v \in Workers \ {w} : wconn'[v] = wconn[v]
    BY <1>1, <1>4, <1>5 DEF OwnInv, Shape
  <1>7. queue_mutex_ = w /\ Nobody \notin Workers /\ NoConn \notin Conns
    BY <1>1, <1>2, ServerAssumption, WorkerAssumption DEF OwnInv, InHand
  <1>8. wconn[w] = NoConn /\ (\A v \in Workers : wconn[v] # c) /\ rconn # c
    BY <1>1, <1>2, <1>5 DEF OwnInv, InHand, NoDescriptorShared
  <1>9. Shape'
    BY <1>1, <1>3, <1>5, <1>6 DEF OwnInv, Shape
  <1>10. InHand'
    <2>1. \A v \in Workers : wconn'[v] # NoConn <=> wpc'[v] \in Handling
      BY <1>2, <1>3, <1>5, <1>6, <1>7 DEF OwnInv, InHand
    <2>2. rconn' # NoConn <=> rpc' \in Judging \cup {"push"}
      BY <1>1 DEF OwnInv, InHand
    <2>3. \A v \in Workers : wpc'[v] \in Locked <=> queue_mutex_' = v
      BY <1>1, <1>2, <1>3, <1>7 DEF OwnInv, InHand
    <2>4. \A v \in Workers : wpc'[v] = "unborn" <=> rpc' = "starting"
      BY <1>1, <1>2, <1>3 DEF OwnInv, InHand
    <2> QED
      BY <2>1, <2>2, <2>3, <2>4 DEF InHand
  <1>11. BlockSeesEmpty'
    BY <1>2, <1>3, <1>7 DEF OwnInv, InHand, BlockSeesEmpty, Locked
  <1>12. PastClose'
    BY <1>1, <1>2, <1>3, <1>6 DEF OwnInv, PastClose
  <1>13. NoDescriptorShared'
    <2>1. \A u, v \in Workers : wconn'[u] = wconn'[v] /\ wconn'[u] # NoConn => u = v
      BY <1>6, <1>8 DEF OwnInv, NoDescriptorShared
    <2>2. \A v \in Workers : ~InQueue(wconn[v])' /\ (wconn'[v] = rconn' => rconn' = NoConn)
      <3> TAKE v \in Workers
      <3>1. PICK x : x = wconn'[v]
        OBVIOUS
      <3>2. ~(InQueue(x) /\ x # c)
        BY <1>6, <3>1 DEF OwnInv, NoDescriptorShared
      <3>3. ~InQueue(x)'
        BY <1>5, <3>2
      <3>4. x = rconn => rconn = NoConn
        BY <1>6, <1>8, <3>1 DEF OwnInv, NoDescriptorShared
      <3> QED
        BY <1>1, <3>1, <3>3, <3>4 DEF InQueue
    <2>3. ~InQueue(rconn)'
      <3>1. PICK x : x = rconn
        OBVIOUS
      <3>2. ~InQueue(x)'
        BY <1>5, <3>1 DEF OwnInv, NoDescriptorShared
      <3> QED
        BY <1>1, <3>1, <3>2 DEF InQueue
    <2> QED
      BY <1>5, <2>1, <2>2, <2>3 DEF NoDescriptorShared
  <1>14. NoDescriptorLost'
    <2> SUFFICES ASSUME NEW x \in Conns
                 PROVE  cstate'[x] = "open" <=>
                            \/ rconn' = x
                            \/ InQueue(x)'
                            \/ \E v \in Workers : wconn'[v] = x /\ wpc'[v] \in Serving
      BY DEF NoDescriptorLost
    <2>1. cstate[x] = "open" <=>
              \/ rconn = x
              \/ InQueue(x)
              \/ \E v \in Workers : wconn[v] = x /\ wpc[v] \in Serving
      BY DEF OwnInv, NoDescriptorLost
    <2>2. InQueue(x)' <=> InQueue(x) /\ x # c
      BY <1>5
    <2>3. (\E v \in Workers : wconn'[v] = x /\ wpc'[v] \in Serving) <=>
              x = c \/ \E v \in Workers : wconn[v] = x /\ wpc[v] \in Serving
      BY <1>1, <1>2, <1>3, <1>6
    <2> QED
      BY <1>1, <1>5, <2>1, <2>2, <2>3
  <1> QED
    BY <1>9, <1>10, <1>11, <1>12, <1>13, <1>14 DEF OwnInv

(* close(): the one place where a worker's descriptor ends.                 *)
LEMMA CloseKeepsOwn ==
    ASSUME OwnInv, NEW w \in Workers, CloseFd(w), UNCHANGED serverVars
    PROVE  OwnInv'
  <1>1. PICK q \in Releasing : wpc[w] \in {"close", "close408"} /\ wpc' = [wpc EXCEPT ![w] = q]
    BY DEF CloseFd, Goto, Releasing
  <1>2. /\ cstate' = [cstate EXCEPT ![wconn[w]] = "closed"]
        /\ UNCHANGED <<wconn, pending_, queue_mutex_, rpc, rconn>>
    BY DEF CloseFd, serverVars
  <1>3. /\ {"close", "close408"} \subseteq Serving /\ Serving \subseteq Handling
        /\ Releasing \subseteq (Points \cap Handling) \ Serving
        /\ Releasing \cap ({"unborn", "block"} \cup Locked) = {}
        /\ {"close", "close408"} \cap ({"unborn"} \cup Locked) = {}
    BY DEF Points, Handling, Holding, Serving, Releasing, Ending, Locked
  <1>4. wpc' \in [Workers -> Points] /\ wpc'[w] = q /\ \A v \in Workers \ {w} : wpc'[v] = wpc[v]
    BY <1>1, <1>3, OneMoves DEF OwnInv
  <1>5. wconn[w] \in Conns
    BY <1>1, <1>3 DEF OwnInv, InHand, Shape
  <1>6. cstate' \in [Conns -> ConnStates] /\ cstate'[wconn[w]] = "closed"
        /\ \A x \in Conns \ {wconn[w]} : cstate'[x] = cstate[x]
    BY <1>2, <1>5 DEF OwnInv, Shape, ConnStates
  <1>7. Shape'
    BY <1>2, <1>4, <1>6 DEF OwnInv, Shape
  <1>8. InHand'
    <2>1. \A v \in Workers : wconn'[v] # NoConn <=> wpc'[v] \in Handling
      BY <1>1, <1>2, <1>3, <1>4 DEF OwnInv, InHand
    <2>2. rconn' # NoConn <=> rpc' \in Judging \cup {"push"}
      BY <1>2 DEF OwnInv, InHand
    <2>3. \A v \in Workers : wpc'[v] \in Locked <=> queue_mutex_' = v
      BY <1>1, <1>2, <1>3, <1>4 DEF OwnInv, InHand
    <2>4. \A v \in Workers : wpc'[v] = "unborn" <=> rpc' = "starting"
      BY <1>1, <1>2, <1>3, <1>4 DEF OwnInv, InHand
    <2> QED
      BY <2>1, <2>2, <2>3, <2>4 DEF InHand
  <1>9. BlockSeesEmpty'
    BY <1>2, <1>3, <1>4 DEF OwnInv, BlockSeesEmpty
  <1>10. PastClose'
    <2>1. \A v \in Workers : wpc[v] \in Releasing \cup Ending => wconn[v] \in Conns
      BY WorkerAssumption DEF OwnInv, Shape, InHand, Handling, Holding, Releasing, Ending
    <2> QED
      BY <1>2, <1>4, <1>6, <2>1 DEF OwnInv, PastClose
  <1>11. NoDescriptorShared'
    BY <1>2 DEF OwnInv, NoDescriptorShared, InQueue
  <1>12. NoDescriptorLost'
    <2> SUFFICES ASSUME NEW x \in Conns
                 PROVE  cstate'[x] = "open" <=>
                            \/ rconn' = x
                            \/ InQueue(x)'
                            \/ \E v \in Workers : wconn'[v] = x /\ wpc'[v] \in Serving
      BY DEF NoDescriptorLost
    <2>1. InQueue(x)' = InQueue(x)
      BY <1>2 DEF InQueue
    <2>2. CASE x = wconn[w]
      <3>1. rconn # x /\ ~InQueue(x) /\ \A v \in Workers \ {w} : wconn[v] # x
        BY <1>5, <2>2, WorkerAssumption DEF OwnInv, NoDescriptorShared
      <3> QED
        BY <1>2, <1>3, <1>4, <1>6, <2>1, <2>2, <3>1
    <2>3. CASE x # wconn[w]
      <3>1. (\E v \in Workers : wconn'[v] = x /\ wpc'[v] \in Serving) <=>
                \E v \in Workers : wconn[v] = x /\ wpc[v] \in Serving
        BY <1>2, <1>4, <2>3
      <3> QED
        BY <1>2, <1>6, <2>1, <2>3, <3>1 DEF OwnInv, NoDescriptorLost
    <2> QED
      BY <2>2, <2>3
  <1> QED
    BY <1>7, <1>8, <1>9, <1>10, <1>11, <1>12 DEF OwnInv

(* handle_connection returns.                                               *)
LEMMA FinishKeepsOwn ==
    ASSUME OwnInv, NEW w \in Workers, Finish(w), UNCHANGED serverVars
    PROVE  OwnInv'
  <1>1. /\ wpc[w] = "finish" /\ wpc' = [wpc EXCEPT ![w] = "loop"]
        /\ wconn' = [wconn EXCEPT ![w] = NoConn]
        /\ UNCHANGED <<cstate, pending_, queue_mutex_, rpc, rconn>>
    BY DEF Finish, Goto, serverVars
  <1>2. /\ "loop" \in Points /\ "loop" \notin Handling \cup Locked \cup Serving \cup Releasing \cup Ending
        /\ "finish" \in Handling /\ "finish" \notin Locked \cup Serving
    BY DEF Points, Handling, Holding, Serving, Releasing, Ending, Locked, Free
  <1>3. wpc' \in [Workers -> Points] /\ wpc'[w] = "loop" /\ \A v \in Workers \ {w} : wpc'[v] = wpc[v]
    BY <1>1, <1>2, OneMoves DEF OwnInv
  <1>4. wconn' \in [Workers -> Conns \cup {NoConn}] /\ wconn'[w] = NoConn
        /\ \A v \in Workers \ {w} : wconn'[v] = wconn[v]
    BY <1>1 DEF OwnInv, Shape
  <1>5. NoConn \notin Conns /\ ~InQueue(NoConn)
    BY WorkerAssumption DEF OwnInv, Shape, InQueue
  <1>6. Shape'
    BY <1>1, <1>3, <1>4 DEF OwnInv, Shape
  <1>7. InHand'
    <2>1. \A v \in Workers : wconn'[v] # NoConn <=> wpc'[v] \in Handling
      BY <1>2, <1>3, <1>4 DEF OwnInv, InHand
    <2>2. rconn' # NoConn <=> rpc' \in Judging \cup {"push"}
      BY <1>1 DEF OwnInv, InHand
    <2>3. \A v \in Workers : wpc'[v] \in Locked <=> queue_mutex_' = v
      BY <1>1, <1>2, <1>3 DEF OwnInv, InHand
    <2>4. \A v \in Workers : wpc'[v] = "unborn" <=> rpc' = "starting"
      BY <1>1, <1>3 DEF OwnInv, InHand
    <2> QED
      BY <2>1, <2>2, <2>3, <2>4 DEF InHand
  <1>8. BlockSeesEmpty' /\ PastClose'
    BY <1>1, <1>2, <1>3, <1>4 DEF OwnInv, BlockSeesEmpty, PastClose
  <1>9. NoDescriptorShared'
    <2>1. \A v \in Workers : ~InQueue(wconn[v])' /\ (wconn'[v] = rconn' => rconn' = NoConn)
      BY <1>1, <1>4, <1>5 DEF OwnInv, NoDescriptorShared, InQueue
    <2>2. \A u, v \in Workers : wconn'[u] = wconn'[v] /\ wconn'[u] # NoConn => u = v
      BY <1>4 DEF OwnInv, NoDescriptorShared
    <2> QED
      BY <1>1, <2>1, <2>2 DEF OwnInv, NoDescriptorShared, InQueue
  <1>10. NoDescriptorLost'
    <2>1. \A x \in Conns : (\E v \in Workers : wconn'[v] = x /\ wpc'[v] \in Serving) <=>
                               \E v \in Workers : wconn[v] = x /\ wpc[v] \in Serving
      BY <1>1, <1>2, <1>3, <1>4
    <2> QED
      BY <1>1, <2>1 DEF OwnInv, NoDescriptorLost, InQueue
  <1> QED
    BY <1>6, <1>7, <1>8, <1>9, <1>10 DEF OwnInv

(* A client in the backlog has no descriptor.                               *)
LEMMA ConnectKeepsOwn ==
    ASSUME OwnInv, NEW c \in Conns, Connect(c)
    PROVE  OwnInv'
  <1>1. /\ cstate[c] = "new" /\ cstate' = [cstate EXCEPT ![c] = "backlog"]
        /\ UNCHANGED <<wconn, wpc, pending_, queue_mutex_, rpc, rconn>>
    BY DEF Connect
  <1>2. cstate' \in [Conns -> ConnStates] /\ cstate'[c] = "backlog"
        /\ \A x \in Conns \ {c} : cstate'[x] = cstate[x]
    BY <1>1 DEF OwnInv, Shape, ConnStates
  <1>3. Shape' /\ InHand' /\ BlockSeesEmpty' /\ NoDescriptorShared'
    BY <1>1, <1>2 DEF OwnInv, Shape, InHand, BlockSeesEmpty, NoDescriptorShared, InQueue
  <1>4. PastClose'
    <2>1. \A v \in Workers : wpc[v] \in Releasing \cup Ending => wconn[v] \in Conns
      BY WorkerAssumption DEF OwnInv, Shape, InHand, Handling, Holding, Releasing, Ending
    <2> QED
      BY <1>1, <1>2, <2>1 DEF OwnInv, PastClose
  <1>5. \A x \in Conns : cstate'[x] = "open" <=> cstate[x] = "open"
    BY <1>1, <1>2
  <1>6. NoDescriptorLost'
    BY <1>1, <1>5 DEF OwnInv, NoDescriptorLost, InQueue
  <1> QED
    BY <1>3, <1>4, <1>6 DEF OwnInv

(* Ownership is inductive ...                                               *)
LEMMA OwnStep == OwnInv /\ [Next]_vars => OwnInv'
  <1> SUFFICES ASSUME OwnInv, [Next]_vars PROVE OwnInv'
    OBVIOUS
  <1>1. Shape
    BY DEF OwnInv
  <1> QED
    BY <1>1, NextMoves, CalmKeepsOwn, StartKeepsOwn, AcceptKeepsOwn, RefuseKeepsOwn, CheckKeepsOwn,
       EnqueueKeepsOwn, MutexKeepsOwn, TakeKeepsOwn, CloseKeepsOwn, ReleaseKeepsOwn, FinishKeepsOwn,
       ConnectKeepsOwn

(* ... and holds at the start.                                              *)
LEMMA OwnInit == Init => OwnInv
  <1> SUFFICES ASSUME Init PROVE OwnInv
    OBVIOUS
  <1>1. /\ cstate = [c \in Conns |-> "new"] /\ wpc = [w \in Workers |-> "unborn"]
        /\ wconn = [w \in Workers |-> NoConn] /\ pending_ = <<>> /\ queue_mutex_ = Nobody
        /\ rpc = "starting" /\ rconn = NoConn
    BY DEF Init
  <1>2. \A c : ~InQueue(c)
    BY <1>1 DEF InQueue
  <1>3. Shape
    BY <1>1 DEF Shape, Points, ReactorPoints, ConnStates
  <1>4. InHand
    BY <1>1, ServerAssumption DEF InHand, Judging, Handling, Holding, Serving, Locked
  <1>5. BlockSeesEmpty /\ PastClose
    BY <1>1 DEF BlockSeesEmpty, PastClose, Releasing, Ending
  <1>6. NoDescriptorShared
    BY <1>1, <1>2 DEF NoDescriptorShared
  <1>7. NoDescriptorLost
    BY <1>1, <1>2, WorkerAssumption DEF NoDescriptorLost
  <1> QED
    BY <1>3, <1>4, <1>5, <1>6, <1>7 DEF OwnInv

-----------------------------------------------------------------------------
(* The configuration.                                                       *)

(* What a reload that is under way has read is the file, unless the file    *)
(* was edited or a reload requested since; every reload has read a file.    *)
ReloadSound ==
    /\ conf_file \in FileConfigs \cup {Missing, Malformed}
    /\ new_config \in FileConfigs \cup {DefaultConfig}
    /\ rpc = "apply" /\ ~dirty /\ ~reload_requested_ => new_config = LoadFromFile(conf_file)

ConfigInv == ReloadSound /\ waf_enabled \in BOOLEAN /\ max_per_ip_ \in Int /\ ConfigFresh

configVars == <<conf_file, new_config, dirty, reload_requested_, waf_enabled, max_per_ip_>>

(* The steps that read or write none of it.                                 *)
ConfigIdle ==
    /\ UNCHANGED configVars
    /\ rpc' = rpc \/ {rpc, rpc'} \cap {"load", "apply", "crashed"} = {}

(* No operation of the guard but set_max_per_ip writes its limit.           *)
LEMMA GuardKeepsLimit ==
    ASSUME NEW ip
    PROVE  AdmitConnection(ip) \/ RefuseConnection(ip) \/ AllowRequest(ip) \/ DenyRequest(ip)
              \/ ReleaseConnection(ip) => UNCHANGED <<max_per_ip_, now>>
  BY DEF AdmitConnection, RefuseConnection, AllowRequest, DenyRequest, ReleaseConnection

(* Workers read the configuration and never write it.                       *)
LEMMA WorkersLeaveConfig ==
    ASSUME NEW w \in Workers, HandleStep(w) \/ ClientStep(w), UNCHANGED serverVars
    PROVE  ConfigIdle
  <1>1. UNCHANGED <<conf_file, new_config, dirty, reload_requested_, rpc>>
    BY DEF serverVars
  <1>2. CASE BeginHandling(w) \/ HandshakeFails(w) \/ HandshakeDone(w) \/ ReadRequest(w) \/ ReadFails(w)
    BY <1>1, <1>2 DEF BeginHandling, HandshakeFails, HandshakeDone, ReadRequest, ReadFails,
       ConfigIdle, configVars, guardVars
  <1>3. CASE WafBlocks(w) \/ WafPasses(w) \/ RateLimited(w) \/ WithinRate(w) \/ H2Request(w) \/ ReleaseSlot(w)
    BY <1>1, <1>3, GuardKeepsLimit DEF WafBlocks, WafPasses, RateLimited, WithinRate, H2Request,
       ReleaseSlot, ConfigIdle, configVars, guardVars
  <1>4. CASE SendfileDone(w) \/ SendfileDeclines(w) \/ RouteAndRespond(w) \/ CloseFd(w)
             \/ Count408(w) \/ Finish(w)
    BY <1>1, <1>4 DEF SendfileDone, SendfileDeclines, RouteAndRespond, CloseFd, Count408,
       Finish, ConfigIdle, configVars, guardVars
  <1>5. CASE ReceiveTimeout(w) \/ WsMessage(w) \/ PeerGone(w)
    BY <1>1, <1>5 DEF ReceiveTimeout, WsMessage, PeerGone, ConfigIdle, configVars, guardVars
  <1> QED
    BY <1>2, <1>3, <1>4, <1>5 DEF HandleStep, ClientStep

(* So only the reload and the operator touch it.                            *)
LEMMA OthersLeaveConfig ==
    ASSUME [Next]_vars
    PROVE  \/ ConfigIdle
           \/ LoopTop \/ ReadConfig \/ ApplyReload \/ ReloadThrows \/ EditConfigFile \/ Sighup
  <1>1. CASE \E w \in Workers : Dispatch(w) \/ SpuriousWakeup(w)
    BY <1>1 DEF Dispatch, LoopTest, Lock, PredicateFalse, Block, Take, ReturnEmpty, SpuriousWakeup,
                ConfigIdle, configVars, guardVars, serverVars
  <1>2. CASE Start \/ EpollReports \/ EpollReturnsEmpty \/ EpollFails \/ Accept \/ AcceptFails
    BY <1>2 DEF Start, EpollReports, EpollReturnsEmpty, EpollFails, Accept, AcceptFails,
                ConfigIdle, configVars, guardVars, workerVars
  <1>3. CASE CheckTotal \/ CheckPerIp \/ RefuseClient \/ Enqueue \/ NotifyOne \/ Join
    BY <1>3, GuardKeepsLimit DEF CheckTotal, CheckPerIp, RefuseClient, Enqueue, NotifyOne, Join,
                ConfigIdle, configVars, guardVars, workerVars
  <1>4. CASE StopNotify \/ StopStore \/ (\E c \in Conns : Connect(c)) \/ ClockTick \/ UNCHANGED vars
    BY <1>4 DEF StopNotify, StopStore, Connect, ClockTick, Tick, vars,
                ConfigIdle, configVars, guardVars, workerVars, serverVars
  <1> QED
    BY <1>1, <1>2, <1>3, <1>4, WorkersLeaveConfig DEF Next, Reactor, Environment, Terminated

(* load_from_file yields a configuration.                                   *)
LEMMA LoadedRecord ==
    ASSUME NEW f \in FileConfigs \cup {Missing}
    PROVE  /\ LoadFromFile(f) \in FileConfigs \cup {DefaultConfig}
           /\ LoadFromFile(f).max_per_ip \in Int /\ LoadFromFile(f).waf_enabled \in BOOLEAN
  <1>1. LoadFromFile(f) \in FileConfigs \cup {DefaultConfig}
    BY DEF LoadFromFile
  <1>2. LoadFromFile(f) \in ConfigRecord
    BY <1>1, ServerAssumption
  <1> QED
    BY <1>1, <1>2 DEF ConfigRecord

(* The reload keeps ConfigInv, whatever is edited or signalled between its halves. *)
LEMMA ConfigStep == ConfigInv /\ [Next]_vars => ConfigInv'
  <1> SUFFICES ASSUME ConfigInv, [Next]_vars PROVE ConfigInv'
    OBVIOUS
  <1>1. CASE ConfigIdle
    BY <1>1 DEF ConfigIdle, configVars, ConfigInv, ReloadSound, ConfigFresh, Alive
  <1>2. CASE LoopTop
    BY <1>2 DEF LoopTop, workerVars, ConfigInv, ReloadSound, ConfigFresh, Alive
  <1>3. CASE ReadConfig
    <2>1. conf_file \in FileConfigs \cup {Missing}
      BY <1>3 DEF ReadConfig, ConfigInv, ReloadSound
    <2> QED
      BY <1>3, <2>1, LoadedRecord DEF ReadConfig, workerVars, ConfigInv, ReloadSound, ConfigFresh, Alive
  <1>4. CASE ApplyReload
    <2>1. new_config.max_per_ip \in Int /\ new_config.waf_enabled \in BOOLEAN
      BY ServerAssumption DEF ConfigInv, ReloadSound, ConfigRecord
    <2>2. ReloadSound' /\ waf_enabled' \in BOOLEAN /\ max_per_ip_' \in Int
      BY <1>4, <2>1 DEF ApplyReload, SetMaxPerIp, ConfigInv, ReloadSound
    <2>3. ConfigFresh'
      BY <1>4 DEF ApplyReload, SetMaxPerIp, ConfigInv, ReloadSound, ConfigFresh
    <2> QED
      BY <2>2, <2>3 DEF ConfigInv
  <1>5. CASE ReloadThrows
    BY <1>5 DEF ReloadThrows, workerVars, ConfigInv, ReloadSound, ConfigFresh, Alive
  <1>6. CASE EditConfigFile
    BY <1>6 DEF EditConfigFile, workerVars, ConfigInv, ReloadSound, ConfigFresh, Alive
  <1>7. CASE Sighup
    BY <1>7 DEF Sighup, workerVars, ConfigInv, ReloadSound, ConfigFresh, Alive
  <1> QED
    BY <1>1, <1>2, <1>3, <1>4, <1>5, <1>6, <1>7, OthersLeaveConfig

(* The first load puts the file into effect.                                *)
LEMMA ConfigInit == Init => ConfigInv
  <1> SUFFICES ASSUME Init PROVE ConfigInv
    OBVIOUS
  <1>1. /\ rpc = "starting" /\ new_config = DefaultConfig
        /\ conf_file \in FileConfigs \cup {Missing}
        /\ max_per_ip_ = LoadFromFile(conf_file).max_per_ip
        /\ waf_enabled = LoadFromFile(conf_file).waf_enabled
    BY DEF Init, GuardInit
  <1> QED
    BY <1>1, LoadedRecord DEF ConfigInv, ReloadSound, ConfigFresh

-----------------------------------------------------------------------------
(* Wakeups.                                                                 *)

(* What one step of handle_connection does to the worker's program point.   *)
LEMMA HandlingPoints ==
    ASSUME Shape, NEW w \in Workers, HandleStep(w) \/ ClientStep(w)
    PROVE  /\ wpc[w] \in Handling
           /\ \E q \in Handling \cup {"loop"} : wpc' = [wpc EXCEPT ![w] = q]
  <1>0. ASSUME NEW q \in Handling \cup {"loop"}, Goto(w, q)
        PROVE  \E r \in Handling \cup {"loop"} : wpc' = [wpc EXCEPT ![w] = r]
    BY <1>0 DEF Goto
  <1>1. CASE BeginHandling(w) \/ HandshakeFails(w) \/ HandshakeDone(w) \/ ReadRequest(w) \/ ReadFails(w)
    BY <1>0, <1>1 DEF BeginHandling, HandshakeFails, HandshakeDone, ReadRequest, ReadFails,
       Handling, Holding, Serving
  <1>2. CASE WafBlocks(w) \/ WafPasses(w) \/ RateLimited(w) \/ WithinRate(w)
    BY <1>0, <1>2 DEF WafBlocks, WafPasses, RateLimited, WithinRate, Handling, Holding, Serving
  <1>3. CASE SendfileDone(w) \/ SendfileDeclines(w) \/ RouteAndRespond(w)
    BY <1>0, <1>3 DEF SendfileDone, SendfileDeclines, RouteAndRespond, Handling, Holding, Serving
  <1>4. CASE CloseFd(w) \/ ReleaseSlot(w) \/ Count408(w) \/ Finish(w)
    BY <1>0, <1>4 DEF CloseFd, ReleaseSlot, Count408, Finish, Handling, Holding, Serving
  <1>5. CASE ReceiveTimeout(w) \/ WsMessage(w) \/ PeerGone(w)
    BY <1>0, <1>5 DEF ReceiveTimeout, WsMessage, PeerGone, Handling, Holding, Serving
  <1>6. CASE H2Request(w)
    <2>1. wpc[w] = "h2" /\ wpc' = [wpc EXCEPT ![w] = "h2"]
      BY <1>6 DEF H2Request, Shape
    <2> QED
      BY <2>1 DEF Handling, Holding, Serving
  <1> QED
    BY <1>1, <1>2, <1>3, <1>4, <1>5, <1>6 DEF HandleStep, ClientStep

(* Any set of workers can be counted.                                       *)
LEMMA WorkersCount ==
    ASSUME NEW S, S \subseteq Workers
    PROVE  IsFiniteSet(S) /\ Cardinality(S) \in Nat
  BY ServerAssumption, FS_Subset, FS_CardinalityType

(* A step after which no fewer workers are en route, no more sleep and no   *)
(* more connections are queued.                                             *)
WakesNoFewer ==
    /\ running_' => running_
    /\ pending_' = pending_
    /\ EnRoute \subseteq EnRoute'
    /\ Waiting' \subseteq Waiting
    /\ rpc = "notify" => rpc' = "notify"

(* Such a step loses no wakeup.                                             *)
LEMMA WakesNoFewerKeeps == Shape /\ NoLostWakeup /\ WakesNoFewer => NoLostWakeup'
  <1> SUFFICES ASSUME Shape, NoLostWakeup, WakesNoFewer PROVE NoLostWakeup'
    OBVIOUS
  <1>1. EnRoute \subseteq Workers /\ EnRoute' \subseteq Workers
    BY DEF EnRoute
  <1>2. Cardinality(EnRoute) \in Nat /\ Cardinality(EnRoute') \in Nat /\ IsFiniteSet(EnRoute')
    BY <1>1, WorkersCount
  <1>3. Cardinality(EnRoute) <= Cardinality(EnRoute')
    BY <1>2, FS_Subset DEF WakesNoFewer
  <1>4. Len(pending_) \in Nat /\ pending_' = pending_
    BY DEF Shape, WakesNoFewer
  <1> QED
    BY <1>2, <1>3, <1>4 DEF NoLostWakeup, WakesNoFewer

(* One worker moves.                                                        *)
LEMMA OneWorkerWakes ==
    ASSUME Shape, NEW w \in Workers, NEW q, wpc' = [wpc EXCEPT ![w] = q],
           wpc[w] \in {"loop", "lock", "pred"} => q \in {"loop", "lock", "pred"},
           q # "waiting", UNCHANGED <<running_, pending_>>, rpc = "notify" => rpc' = "notify"
    PROVE  WakesNoFewer
  <1>1. wpc'[w] = q /\ \A v \in Workers \ {w} : wpc'[v] = wpc[v]
    BY DEF Shape
  <1>2. EnRoute \subseteq EnRoute'
    BY <1>1 DEF EnRoute
  <1>3. Waiting' \subseteq Waiting
    BY <1>1 DEF Waiting
  <1> QED
    BY <1>2, <1>3 DEF WakesNoFewer

(* Nor does one that moves no worker.                                       *)
LEMMA IdleWakes ==
    ASSUME UNCHANGED <<wpc, pending_>>, running_' => running_, rpc = "notify" => rpc' = "notify"
    PROVE  WakesNoFewer
  BY DEF WakesNoFewer, EnRoute, Waiting

(* A wakeup is lost by no step.                                             *)
LEMMA WakeupStep == OwnInv /\ NoLostWakeup /\ [Next]_vars => NoLostWakeup'
  <1> SUFFICES ASSUME OwnInv, NoLostWakeup, [Next]_vars PROVE NoLostWakeup'
    OBVIOUS
  <1>0. Shape /\ Len(pending_) \in Nat
    BY DEF OwnInv, Shape
  <1>1. ASSUME WakesNoFewer PROVE NoLostWakeup'
    BY <1>0, <1>1, WakesNoFewerKeeps
  <1>2. Cardinality(EnRoute) \in Nat /\ Cardinality(EnRoute') \in Nat
    BY WorkersCount DEF EnRoute
  <1>3. CASE Start
    BY <1>3 DEF Start, NoLostWakeup, Waiting
  <1>4. CASE \E w \in Workers : (HandleStep(w) \/ ClientStep(w)) /\ UNCHANGED serverVars
    <2>1. PICK w \in Workers : HandleStep(w) \/ ClientStep(w)
      BY <1>4
    <2>2. PICK q \in Handling \cup {"loop"} : wpc[w] \in Handling /\ wpc' = [wpc EXCEPT ![w] = q]
      BY <1>0, <2>1, HandlingPoints
    <2>3. q # "waiting" /\ wpc[w] \notin {"loop", "lock", "pred"}
      BY <2>2 DEF Handling, Holding, Serving
    <2>4. UNCHANGED <<running_, pending_, rpc>>
      BY <1>4 DEF serverVars
    <2> QED
      BY <1>0, <1>1, <2>2, <2>3, <2>4, OneWorkerWakes
  <1>5. CASE \E w \in Workers : SpuriousWakeup(w) \/ Lock(w) \/ (LoopTest(w) /\ running_)
    <2>1. PICK w \in Workers : \E q \in {"lock", "pred"} :
             /\ wpc' = [wpc EXCEPT ![w] = q] /\ UNCHANGED <<running_, pending_, rpc>>
      BY <1>5 DEF SpuriousWakeup, Lock, LoopTest, Goto, serverVars
    <2> QED
      BY <1>0, <1>1, <2>1, OneWorkerWakes
  <1>6. CASE \E w \in Workers : (LoopTest(w) /\ ~running_) \/ ReturnEmpty(w)
    BY <1>6 DEF LoopTest, ReturnEmpty, serverVars, NoLostWakeup
  <1>7. CASE \E w \in Workers : PredicateFalse(w) \/ Block(w)
    <2>1. pending_' = <<>>
      BY <1>7 DEF PredicateFalse, Block, serverVars, OwnInv, BlockSeesEmpty
    <2>2. Len(pending_') = 0
      BY <2>1
    <2> QED
      BY <1>2, <2>2 DEF NoLostWakeup
  <1>8. CASE \E w \in Workers : Take(w)
    <2>1. PICK w \in Workers : Take(w)
      BY <1>8
    <2>2. /\ wpc[w] = "pred" /\ pending_ # <<>> /\ pending_' = Tail(pending_)
          /\ wpc' = [wpc EXCEPT ![w] = "handle"] /\ UNCHANGED <<running_, rpc>>
      BY <2>1 DEF Take, Goto
    <2>3. wpc'[w] = "handle" /\ \A v \in Workers \ {w} : wpc'[v] = wpc[v]
      BY <2>2, <1>0 DEF Shape
    <2>4. w \in EnRoute /\ EnRoute' = EnRoute \ {w} /\ Waiting' = Waiting
      BY <2>2, <2>3 DEF EnRoute, Waiting
    <2>5. IsFiniteSet(EnRoute)
      BY WorkersCount DEF EnRoute
    <2>6. Cardinality(EnRoute') = Cardinality(EnRoute) - 1
      BY <2>4, <2>5, FS_RemoveElement
    <2>7. Len(pending_') = Len(pending_) - 1
      BY <2>2 DEF OwnInv, Shape
    <2> QED
      BY <1>0, <1>2, <2>2, <2>4, <2>6, <2>7 DEF NoLostWakeup
  <1>9. CASE Enqueue
    <2>1. /\ rpc = "push" /\ rpc' = "notify" /\ pending_' = Append(pending_, rconn)
          /\ UNCHANGED <<wpc, running_>>
      BY <1>9 DEF Enqueue, workerVars
    <2>2. EnRoute' = EnRoute /\ Waiting' = Waiting
      BY <2>1 DEF EnRoute, Waiting
    <2>3. rconn \in Conns
      BY <2>1 DEF OwnInv, Shape, InHand
    <2>4. Len(pending_') = Len(pending_) + 1
      BY <2>1, <2>3 DEF OwnInv, Shape
    <2> QED
      BY <1>0, <1>2, <2>1, <2>2, <2>4 DEF NoLostWakeup
  <1>10. CASE NotifyOne
    <2>1. rpc = "notify" /\ rpc' = "accept" /\ UNCHANGED <<running_, pending_>>
      BY <1>10 DEF NotifyOne
    <2>2. CASE Waiting = {} /\ wpc' = wpc
      BY <2>2 DEF Waiting, NoLostWakeup
    <2>3. ASSUME NEW w \in Waiting, Goto(w, "lock") PROVE NoLostWakeup'
      <3>1. w \in Workers /\ wpc[w] = "waiting" /\ wpc' = [wpc EXCEPT ![w] = "lock"]
        BY <2>3 DEF Waiting, Goto
      <3>2. wpc'[w] = "lock" /\ \A v \in Workers \ {w} : wpc'[v] = wpc[v]
        BY <3>1, <1>0 DEF Shape
      <3>3. w \notin EnRoute /\ EnRoute' = EnRoute \cup {w} /\ Waiting # {}
        BY <3>1, <3>2 DEF EnRoute, Waiting
      <3>4. IsFiniteSet(EnRoute)
        BY WorkersCount DEF EnRoute
      <3>5. Cardinality(EnRoute') = Cardinality(EnRoute) + 1
        BY <3>3, <3>4, FS_AddElement
      <3> QED
        BY <1>0, <1>2, <2>1, <3>3, <3>5 DEF NoLostWakeup
    <2> QED
      BY <1>10, <2>2, <2>3 DEF NotifyOne
  <1>11. CASE StopNotify
    <2>1. Waiting' = {}
      BY <1>11 DEF StopNotify, Waiting
    <2> QED
      BY <2>1 DEF NoLostWakeup
  <1>12. CASE LoopTop \/ ReadConfig \/ ApplyReload \/ ReloadThrows \/ EpollReports
              \/ EpollReturnsEmpty \/ EpollFails
    BY <1>1, <1>12, IdleWakes DEF LoopTop, ReadConfig, ApplyReload, ReloadThrows, EpollReports,
       EpollReturnsEmpty, EpollFails, workerVars
  <1>13. CASE Accept \/ AcceptFails \/ CheckTotal \/ CheckPerIp \/ RefuseClient \/ Join
    BY <1>1, <1>13, IdleWakes DEF Accept, AcceptFails, CheckTotal, CheckPerIp, RefuseClient, Join, workerVars
  <1>14. CASE StopStore \/ EditConfigFile \/ Sighup \/ (\E c \in Conns : Connect(c)) \/ ClockTick \/ UNCHANGED vars
    BY <1>1, <1>14, IdleWakes DEF StopStore, EditConfigFile, Sighup, Connect, ClockTick, vars,
       workerVars, serverVars
  <1> QED
    BY <1>3, <1>4, <1>5, <1>6, <1>7, <1>8, <1>9, <1>10, <1>11, <1>12, <1>13, <1>14
    DEF Next, Reactor, Dispatch, Environment, Terminated

-----------------------------------------------------------------------------
(* The gauges.                                                              *)

(* Points at which the request of a connection may still be counted.        *)
Uncounted == {"tls", "read", "waf", "limit", "sendfile", "route", "ws", "h2",
              "close408", "release408", "count408"}

Busy == {w \in Workers : wpc[w] \in Counted}
Owing == {w \in Workers : wpc[w] \in Uncounted}
Clients == {c \in Conns : cstate[c] = "closed" \/ \E w \in Workers : wconn[w] = c /\ wpc[w] \in Counted}

(* What GaugesExact needs to be inductive: every request still to be        *)
(* counted has its connection counted already.                              *)
GaugeInv ==
    /\ MetricsTypeOK
    /\ IsFiniteSet(Clients)
    /\ metrics.active_connections_ = Cardinality(Busy)
    /\ metrics.active_workers_ = Cardinality(Busy)
    /\ metrics.total_connections_ + metrics.blocked_ips_ = Cardinality(Clients)
    /\ metrics.total_requests_ + Cardinality(Owing) <= metrics.total_connections_

(* GaugeInv is stronger than GaugesExact.                                   *)
LEMMA GaugesFollow == GaugeInv => GaugesExact
  <1> SUFFICES ASSUME GaugeInv PROVE GaugesExact
    OBVIOUS
  <1>1. Cardinality(Owing) \in Nat
    BY WorkersCount DEF Owing
  <1>2. metrics.total_requests_ \in Nat /\ metrics.total_connections_ \in Nat
    BY DEF GaugeInv, MetricsTypeOK
  <1>3. metrics.total_requests_ <= metrics.total_connections_
    BY <1>1, <1>2 DEF GaugeInv
  <1> QED
    BY <1>3 DEF GaugesExact, GaugeInv, Busy, Clients

(* The three sets decide.                                                   *)
LEMMA GaugesByCounts ==
    ASSUME GaugeInv, MetricsTypeOK', Busy' = Busy, Clients' = Clients, Owing' \subseteq Owing,
           metrics'.active_connections_ = metrics.active_connections_,
           metrics'.active_workers_ = metrics.active_workers_,
           metrics'.total_connections_ = metrics.total_connections_,
           metrics'.blocked_ips_ = metrics.blocked_ips_,
           \/ metrics'.total_requests_ = metrics.total_requests_
           \/ metrics'.total_requests_ = metrics.total_requests_ + 1 /\ Owing' # Owing
    PROVE  GaugeInv'
  <1>1. /\ Cardinality(Owing) \in Nat /\ Cardinality(Owing') \in Nat
        /\ IsFiniteSet(Owing)
    BY WorkersCount DEF Owing
  <1>2. Cardinality(Owing') <= Cardinality(Owing) /\ (Owing' # Owing => Cardinality(Owing') < Cardinality(Owing))
    BY <1>1, FS_Subset
  <1>3. metrics.total_requests_ \in Nat /\ metrics.total_connections_ \in Nat
    BY DEF GaugeInv, MetricsTypeOK
  <1>4. metrics'.total_requests_ + Cardinality(Owing') <= metrics'.total_connections_
    BY <1>1, <1>2, <1>3 DEF GaugeInv
  <1> QED
    BY <1>4 DEF GaugeInv

(* One worker inside handle_connection moves, its connection stays.         *)
LEMMA ServingMove ==
    ASSUME Shape, GaugeInv, NEW w \in Workers, NEW q \in Counted, wpc[w] \in Counted,
           wpc' = [wpc EXCEPT ![w] = q], wconn' = wconn,
           \/ cstate' = cstate
           \/ wconn[w] \in Conns /\ cstate' = [cstate EXCEPT ![wconn[w]] = "closed"],
           q \in Uncounted => wpc[w] \in Uncounted
    PROVE  Busy' = Busy /\ Clients' = Clients /\ Owing' \subseteq Owing
           /\ (wpc[w] \in Uncounted /\ q \notin Uncounted => Owing' # Owing)
  <1>1. wpc'[w] = q /\ \A v \in Workers \ {w} : wpc'[v] = wpc[v]
    BY DEF Shape
  <1>2. Busy' = Busy
    BY <1>1 DEF Busy
  <1>3. Owing' \subseteq Owing /\ (wpc[w] \in Uncounted /\ q \notin Uncounted => Owing' # Owing)
    BY <1>1 DEF Owing
  <1>4. \A v \in Workers : wpc'[v] \in Counted <=> wpc[v] \in Counted
    BY <1>1
  <1>5. Clients' = Clients
    <2>1. CASE cstate' = cstate
      BY <1>4, <2>1 DEF Clients
    <2>2. CASE wconn[w] \in Conns /\ cstate' = [cstate EXCEPT ![wconn[w]] = "closed"]
      <3>1. cstate'[wconn[w]] = "closed" /\ \A x \in Conns \ {wconn[w]} : cstate'[x] = cstate[x]
        BY <2>2 DEF Shape
      <3>2. wconn[w] \in Clients /\ wconn[w] \in Clients'
        BY <2>2, <3>1 DEF Clients
      <3>3. \A x \in Conns \ {wconn[w]} : x \in Clients' <=> x \in Clients
        BY <1>4, <3>1 DEF Clients
      <3> QED
        BY <3>2, <3>3 DEF Clients
    <2> QED
      BY <2>1, <2>2
  <1> QED
    BY <1>2, <1>3, <1>5

(* A step outside handle_connection.                                        *)
LEMMA OutsideMove ==
    ASSUME GaugeInv, metrics' = metrics,
           \A c \in Conns : cstate'[c] = "closed" <=> cstate[c] = "closed",
           \A w \in Workers : /\ wpc'[w] \in Counted <=> wpc[w] \in Counted
                              /\ wpc[w] \in Counted => wpc'[w] = wpc[w] /\ wconn'[w] = wconn[w]
    PROVE  GaugeInv'
  <1>1. Busy' = Busy
    BY DEF Busy
  <1>2. Clients' = Clients
    BY DEF Clients
  <1>3. Uncounted \subseteq Counted
    BY DEF Uncounted, Counted, Handling, Holding, Serving
  <1>4. Owing' \subseteq Owing
    BY <1>3 DEF Owing
  <1>5. MetricsTypeOK'
    BY DEF GaugeInv, MetricsTypeOK
  <1> QED
    BY <1>1, <1>2, <1>4, <1>5, GaugesByCounts

(* A request is counted where its connection stops owing it.                *)
LEMMA HandlingKeepsGauges ==
    ASSUME OwnInv, GaugeInv, NEW w \in Workers, HandleStep(w) \/ ClientStep(w), UNCHANGED serverVars,
           ~BeginHandling(w), ~Finish(w)
    PROVE  GaugeInv'
  <1> DEFINE Type == [total_requests_ : Nat, total_connections_ : Nat,
                      active_connections_ : Int, blocked_ips_ : Nat,
                      waf_blocks_ : Nat, active_workers_ : Int]
  <1>0. Shape /\ metrics \in Type
    BY DEF OwnInv, GaugeInv, MetricsTypeOK
  <1>1. ASSUME NEW q \in Counted, wpc[w] \in Counted, wpc' = [wpc EXCEPT ![w] = q], wconn' = wconn,
               \/ cstate' = cstate
               \/ wconn[w] \in Conns /\ cstate' = [cstate EXCEPT ![wconn[w]] = "closed"],
               q \in Uncounted => wpc[w] \in Uncounted, metrics' = metrics
        PROVE  GaugeInv'
    <2>1. MetricsTypeOK'
      BY <1>0, <1>1 DEF MetricsTypeOK
    <2> QED
      BY <1>0, <1>1, <2>1, ServingMove, GaugesByCounts
  <1>2. ASSUME NEW q \in Counted \ Uncounted, wpc[w] \in Uncounted, wpc[w] \in Counted,
               wpc' = [wpc EXCEPT ![w] = q], UNCHANGED <<wconn, cstate>>,
               metrics' = RecordRequest(metrics) \/ metrics' = RecordRequest(RecordWafBlock(metrics))
        PROVE  GaugeInv'
    <2>1. /\ metrics' \in Type
          /\ metrics'.active_connections_ = metrics.active_connections_
          /\ metrics'.active_workers_ = metrics.active_workers_
          /\ metrics'.total_connections_ = metrics.total_connections_
          /\ metrics'.blocked_ips_ = metrics.blocked_ips_
          /\ metrics'.total_requests_ = metrics.total_requests_ + 1
      <3>1. CASE metrics' = RecordRequest(metrics)
        BY <1>0, <3>1 DEF RecordRequest
      <3>2. CASE metrics' = RecordRequest(RecordWafBlock(metrics))
        <4> DEFINE m == RecordWafBlock(metrics)
        <4>1. /\ m \in Type
              /\ m.active_connections_ = metrics.active_connections_
              /\ m.active_workers_ = metrics.active_workers_
              /\ m.total_connections_ = metrics.total_connections_
              /\ m.blocked_ips_ = metrics.blocked_ips_
              /\ m.total_requests_ = metrics.total_requests_
          BY <1>0 DEF RecordWafBlock
        <4>2. metrics' = RecordRequest(m)
          BY <3>2
        <4> HIDE DEF m
        <4> QED
          BY <4>1, <4>2 DEF RecordRequest
      <3> QED
        BY <1>2, <3>1, <3>2
    <2>2. MetricsTypeOK'
      BY <2>1 DEF MetricsTypeOK
    <2>3. Busy' = Busy /\ Clients' = Clients /\ Owing' \subseteq Owing /\ Owing' # Owing
      BY <1>0, <1>2, ServingMove
    <2> QED
      BY <2>1, <2>2, <2>3, GaugesByCounts
  <1>3. Uncounted \subseteq Counted /\ {"close", "release", "finish"} \subseteq Counted \ Uncounted
    BY DEF Counted, Uncounted, Handling, Holding, Serving
  <1>4. CASE HandshakeFails(w) \/ HandshakeDone(w) \/ ReadRequest(w) \/ ReadFails(w)
    BY <1>1, <1>3, <1>4 DEF HandshakeFails, HandshakeDone, ReadRequest, ReadFails, Goto, Uncounted
  <1>5. CASE WafPasses(w) \/ WithinRate(w) \/ SendfileDeclines(w) \/ WsMessage(w)
             \/ PeerGone(w) \/ ReceiveTimeout(w)
    BY <1>1, <1>3, <1>5 DEF WafPasses, WithinRate, SendfileDeclines, WsMessage, PeerGone,
       ReceiveTimeout, Goto, Uncounted
  <1>6. CASE WafBlocks(w) \/ RateLimited(w) \/ SendfileDone(w) \/ RouteAndRespond(w) \/ Count408(w)
    BY <1>2, <1>3, <1>6 DEF WafBlocks, RateLimited, SendfileDone, RouteAndRespond, Count408, Goto, Uncounted
  <1>7. CASE CloseFd(w)
    <2>1. wconn[w] \in Conns
      BY <1>7 DEF CloseFd, OwnInv, InHand, Shape, Handling, Holding, Serving
    <2>2. CASE wpc[w] = "close"
      BY <1>1, <1>3, <1>7, <2>1, <2>2 DEF CloseFd, Goto, Uncounted
    <2>3. CASE wpc[w] = "close408"
      BY <1>1, <1>3, <1>7, <2>1, <2>3 DEF CloseFd, Goto, Uncounted
    <2> QED
      BY <1>7, <2>2, <2>3 DEF CloseFd
  <1>8. CASE ReleaseSlot(w)
    BY <1>1, <1>3, <1>8 DEF ReleaseSlot, Goto, Uncounted
  <1>9. CASE H2Request(w)
    <2>1. wpc[w] = "h2" /\ wpc' = [wpc EXCEPT ![w] = "h2"] /\ UNCHANGED <<wconn, cstate>>
      BY <1>0, <1>9 DEF H2Request, Shape
    <2>2. "h2" \in Counted
      BY DEF Counted, Handling, Holding, Serving
    <2>3. CASE metrics' = metrics
      BY <1>1, <2>1, <2>2, <2>3
    <2>4. CASE metrics' = RecordWafBlock(metrics)
      <3>1. /\ metrics' \in Type
            /\ metrics'.active_connections_ = metrics.active_connections_
            /\ metrics'.active_workers_ = metrics.active_workers_
            /\ metrics'.total_connections_ = metrics.total_connections_
            /\ metrics'.blocked_ips_ = metrics.blocked_ips_
            /\ metrics'.total_requests_ = metrics.total_requests_
        BY <1>0, <2>4 DEF RecordWafBlock
      <3>2. MetricsTypeOK'
        BY <3>1 DEF MetricsTypeOK
      <3>3. Busy' = Busy /\ Clients' = Clients /\ Owing' \subseteq Owing
        BY <1>0, <2>1, <2>2, ServingMove
      <3> QED
        BY <3>1, <3>2, <3>3, GaugesByCounts
    <2> QED
      BY <1>9, <2>3, <2>4 DEF H2Request
  <1> QED
    BY <1>4, <1>5, <1>6, <1>7, <1>8, <1>9 DEF HandleStep, ClientStep

(* handle_connection begins: worker, connection and request are counted.    *)
LEMMA BeginKeepsGauges ==
    ASSUME OwnInv, GaugeInv, NEW w \in Workers, BeginHandling(w)
    PROVE  GaugeInv'
  <1> DEFINE Type == [total_requests_ : Nat, total_connections_ : Nat,
                      active_connections_ : Int, blocked_ips_ : Nat,
                      waf_blocks_ : Nat, active_workers_ : Int]
  <1>0. Shape /\ metrics \in Type
    BY DEF OwnInv, GaugeInv, MetricsTypeOK
  <1>1. PICK q \in {"tls", "read"} : wpc[w] = "handle" /\ wpc' = [wpc EXCEPT ![w] = q]
    BY DEF BeginHandling, Goto
  <1>2. UNCHANGED <<cstate, wconn>>
    BY DEF BeginHandling
  <1>3. wpc'[w] = q /\ \A v \in Workers \ {w} : wpc'[v] = wpc[v]
    BY <1>0, <1>1 DEF Shape
  <1>4. "handle" \notin Counted /\ q \in Counted /\ "handle" \notin Uncounted /\ q \in Uncounted
        /\ "handle" \in Serving /\ "handle" \in Handling /\ Counted \subseteq Handling
    BY <1>1 DEF Counted, Uncounted, Handling, Holding, Serving
  <1>5. w \notin Busy /\ Busy' = Busy \cup {w} /\ w \notin Owing /\ Owing' = Owing \cup {w}
    BY <1>1, <1>3, <1>4 DEF Busy, Owing
  <1>6. IsFiniteSet(Busy) /\ IsFiniteSet(Owing) /\ Cardinality(Busy) \in Nat /\ Cardinality(Owing) \in Nat
    BY WorkersCount DEF Busy, Owing
  <1>7. Cardinality(Busy') = Cardinality(Busy) + 1 /\ Cardinality(Owing') = Cardinality(Owing) + 1
    BY <1>5, <1>6, FS_AddElement
  <1>8. wconn[w] \in Conns
    BY <1>1, <1>4 DEF OwnInv, InHand, Shape
  <1>9. cstate[wconn[w]] = "open" /\ \A v \in Workers \ {w} : wconn[v] # wconn[w]
    BY <1>1, <1>4, <1>8, WorkerAssumption DEF OwnInv, NoDescriptorLost, NoDescriptorShared
  <1>10. wconn[w] \notin Clients
    BY <1>1, <1>4, <1>9 DEF Clients
  <1>11. \A x \in Conns : (\E v \in Workers : wconn'[v] = x /\ wpc'[v] \in Counted) <=>
                              x = wconn[w] \/ \E v \in Workers : wconn[v] = x /\ wpc[v] \in Counted
    BY <1>1, <1>2, <1>3, <1>4
  <1>12. Clients' = Clients \cup {wconn[w]}
    BY <1>2, <1>8, <1>11 DEF Clients
  <1>13. IsFiniteSet(Clients') /\ Cardinality(Clients') = Cardinality(Clients) + 1
         /\ Cardinality(Clients) \in Nat
    BY <1>10, <1>12, FS_AddElement, FS_CardinalityType DEF GaugeInv
  <1>14. /\ metrics' \in Type
         /\ metrics'.active_connections_ = metrics.active_connections_ + 1
         /\ metrics'.active_workers_ = metrics.active_workers_ + 1
         /\ metrics'.total_connections_ = metrics.total_connections_ + 1
         /\ metrics'.blocked_ips_ = metrics.blocked_ips_
         /\ metrics'.total_requests_ = metrics.total_requests_
    <2> DEFINE m == RecordConnection(metrics)
    <2>1. /\ m \in Type
          /\ m.active_connections_ = metrics.active_connections_ + 1
          /\ m.active_workers_ = metrics.active_workers_
          /\ m.total_connections_ = metrics.total_connections_ + 1
          /\ m.blocked_ips_ = metrics.blocked_ips_
          /\ m.total_requests_ = metrics.total_requests_
      <3> DEFINE k == [metrics EXCEPT !.total_connections_ = metrics.total_connections_ + 1]
      <3>1. /\ k \in Type /\ k.total_connections_ = metrics.total_connections_ + 1
            /\ k.active_connections_ = metrics.active_connections_
            /\ k.active_workers_ = metrics.active_workers_
            /\ k.blocked_ips_ = metrics.blocked_ips_
            /\ k.total_requests_ = metrics.total_requests_
        BY <1>0
      <3>2. m = [k EXCEPT !.active_connections_ = k.active_connections_ + 1]
        BY DEF RecordConnection
      <3> HIDE DEF k, m
      <3> QED
        BY <3>1, <3>2
    <2>2. metrics' = RecordWorkerBusy(m)
      BY DEF BeginHandling
    <2> HIDE DEF m
    <2> QED
      BY <1>0, <2>1, <2>2 DEF RecordWorkerBusy
  <1>15. /\ metrics.total_connections_ \in Nat /\ metrics.blocked_ips_ \in Nat
         /\ metrics.total_requests_ \in Nat
    BY <1>0
  <1>16. MetricsTypeOK'
    BY <1>14 DEF MetricsTypeOK
  <1>17. metrics'.total_connections_ + metrics'.blocked_ips_ = Cardinality(Clients')
    BY <1>13, <1>14, <1>15 DEF GaugeInv
  <1>18. metrics'.total_requests_ + Cardinality(Owing') <= metrics'.total_connections_
    BY <1>6, <1>7, <1>14, <1>15 DEF GaugeInv
  <1>19. metrics'.active_connections_ = Cardinality(Busy') /\ metrics'.active_workers_ = Cardinality(Busy')
    BY <1>7, <1>14 DEF GaugeInv
  <1> QED
    BY <1>13, <1>16, <1>17, <1>18, <1>19 DEF GaugeInv

(* It ends: the connection stays counted, because it is closed.             *)
LEMMA FinishKeepsGauges ==
    ASSUME OwnInv, GaugeInv, NEW w \in Workers, Finish(w)
    PROVE  GaugeInv'
  <1> DEFINE Type == [total_requests_ : Nat, total_connections_ : Nat,
                      active_connections_ : Int, blocked_ips_ : Nat,
                      waf_blocks_ : Nat, active_workers_ : Int]
  <1>0. Shape /\ metrics \in Type
    BY DEF OwnInv, GaugeInv, MetricsTypeOK
  <1>1. /\ wpc[w] = "finish" /\ wpc' = [wpc EXCEPT ![w] = "loop"]
        /\ wconn' = [wconn EXCEPT ![w] = NoConn] /\ cstate' = cstate
    BY DEF Finish, Goto
  <1>2. /\ wpc'[w] = "loop" /\ \A v \in Workers \ {w} : wpc'[v] = wpc[v] /\ wconn'[v] = wconn[v]
    BY <1>0, <1>1 DEF Shape
  <1>3. "finish" \in Counted /\ "loop" \notin Counted /\ {"finish", "loop"} \cap Uncounted = {}
    BY DEF Counted, Uncounted, Handling, Holding, Serving
  <1>4. w \in Busy /\ Busy' = Busy \ {w} /\ Owing' = Owing
    BY <1>1, <1>2, <1>3 DEF Busy, Owing
  <1>5. IsFiniteSet(Busy) /\ Cardinality(Busy) \in Nat
    BY WorkersCount DEF Busy
  <1>6. Cardinality(Busy') = Cardinality(Busy) - 1
    BY <1>4, <1>5, FS_RemoveElement
  <1>7. cstate[wconn[w]] = "closed"
    BY <1>1 DEF OwnInv, PastClose, Ending
  <1>8. \A x \in Conns : x \in Clients' <=> x \in Clients
    BY <1>1, <1>2, <1>3, <1>7 DEF Clients
  <1>9. Clients' = Clients
    BY <1>8 DEF Clients
  <1>10. /\ metrics' \in Type
         /\ metrics'.active_connections_ = metrics.active_connections_ - 1
         /\ metrics'.active_workers_ = metrics.active_workers_ - 1
         /\ metrics'.total_connections_ = metrics.total_connections_
         /\ metrics'.blocked_ips_ = metrics.blocked_ips_
         /\ metrics'.total_requests_ = metrics.total_requests_
    <2> DEFINE m == RecordDisconnection(metrics)
    <2>1. /\ m \in Type
          /\ m.active_connections_ = metrics.active_connections_ - 1
          /\ m.active_workers_ = metrics.active_workers_
          /\ m.total_connections_ = metrics.total_connections_
          /\ m.blocked_ips_ = metrics.blocked_ips_
          /\ m.total_requests_ = metrics.total_requests_
      BY <1>0 DEF RecordDisconnection
    <2>2. metrics' = RecordWorkerIdle(m)
      BY DEF Finish
    <2> HIDE DEF m
    <2> QED
      BY <1>0, <2>1, <2>2 DEF RecordWorkerIdle
  <1>11. MetricsTypeOK'
    BY <1>10 DEF MetricsTypeOK
  <1> QED
    BY <1>4, <1>6, <1>9, <1>10, <1>11 DEF GaugeInv

(* A refused client is counted once, when its descriptor is closed.         *)
LEMMA RefuseKeepsGauges ==
    ASSUME OwnInv, GaugeInv, RefuseClient
    PROVE  GaugeInv'
  <1> DEFINE Type == [total_requests_ : Nat, total_connections_ : Nat,
                      active_connections_ : Int, blocked_ips_ : Nat,
                      waf_blocks_ : Nat, active_workers_ : Int]
  <1>0. Shape /\ metrics \in Type
    BY DEF OwnInv, GaugeInv, MetricsTypeOK
  <1>1. /\ rpc = "refuse" /\ cstate' = [cstate EXCEPT ![rconn] = "closed"]
        /\ metrics' = RecordBlockedIp(metrics) /\ UNCHANGED <<wpc, wconn>>
    BY DEF RefuseClient
  <1>2. rconn \in Conns
    BY <1>1 DEF OwnInv, InHand, Shape, Judging
  <1>3. cstate[rconn] = "open" /\ \A v \in Workers : wconn[v] # rconn
    BY <1>2, WorkerAssumption DEF OwnInv, NoDescriptorLost, NoDescriptorShared
  <1>4. cstate'[rconn] = "closed" /\ \A x \in Conns \ {rconn} : cstate'[x] = cstate[x]
    BY <1>0, <1>1, <1>2 DEF Shape
  <1>5. rconn \notin Clients /\ Clients' = Clients \cup {rconn}
    BY <1>1, <1>2, <1>3, <1>4 DEF Clients
  <1>6. IsFiniteSet(Clients') /\ Cardinality(Clients') = Cardinality(Clients) + 1
        /\ Cardinality(Clients) \in Nat
    BY <1>5, FS_AddElement, FS_CardinalityType DEF GaugeInv
  <1>7. Busy' = Busy /\ Owing' = Owing
    BY <1>1 DEF Busy, Owing
  <1>8. /\ metrics' \in Type
        /\ metrics'.active_connections_ = metrics.active_connections_
        /\ metrics'.active_workers_ = metrics.active_workers_
        /\ metrics'.total_connections_ = metrics.total_connections_
        /\ metrics'.blocked_ips_ = metrics.blocked_ips_ + 1
        /\ metrics'.total_requests_ = metrics.total_requests_
    BY <1>0, <1>1 DEF RecordBlockedIp
  <1>9. MetricsTypeOK'
    BY <1>8 DEF MetricsTypeOK
  <1>10. metrics.total_connections_ \in Nat /\ metrics.blocked_ips_ \in Nat
    BY <1>0
  <1>11. metrics'.total_connections_ + metrics'.blocked_ips_ = Cardinality(Clients')
    BY <1>6, <1>8, <1>10 DEF GaugeInv
  <1> QED
    BY <1>6, <1>7, <1>8, <1>9, <1>11 DEF GaugeInv

(* The dispatch loop counts nobody.                                         *)
LEMMA DispatchKeepsGauges ==
    ASSUME OwnInv, GaugeInv, NEW w \in Workers, Dispatch(w) \/ SpuriousWakeup(w)
    PROVE  GaugeInv'
  <1> DEFINE Quiet == {"loop", "lock", "pred", "block", "waiting", "exited", "handle"}
  <1>1. wpc[w] \in Quiet /\ (\E q \in Quiet : wpc' = [wpc EXCEPT ![w] = q])
        /\ (wconn' = wconn \/ wconn' = [wconn EXCEPT ![w] = Head(pending_)])
        /\ UNCHANGED <<cstate, metrics>>
    BY DEF Dispatch, LoopTest, Lock, PredicateFalse, Block, Take, ReturnEmpty, SpuriousWakeup, Goto
  <1>2. Quiet \cap Counted = {}
    BY DEF Counted, Handling, Holding, Serving
  <1>3. wpc'[w] \in Quiet /\ \A v \in Workers \ {w} : wpc'[v] = wpc[v] /\ wconn'[v] = wconn[v]
    BY <1>1 DEF OwnInv, Shape
  <1> QED
    BY <1>1, <1>2, <1>3, OutsideMove

(* The gauges are exact after every step ...                                *)
LEMMA GaugeStep == OwnInv /\ GaugeInv /\ [Next]_vars => GaugeInv'
  <1> SUFFICES ASSUME OwnInv, GaugeInv, [Next]_vars PROVE GaugeInv'
    OBVIOUS
  <1>1. ASSUME UNCHANGED <<metrics, wpc, wconn, cstate>> PROVE GaugeInv'
    BY <1>1, OutsideMove
  <1>2. CASE Start
    <2>1. \A w \in Workers : wpc[w] = "unborn" /\ wpc'[w] = "loop"
      BY <1>2 DEF Start, OwnInv, InHand
    <2>2. {"unborn", "loop"} \cap Counted = {}
      BY DEF Counted, Handling, Holding, Serving
    <2>3. UNCHANGED <<metrics, cstate>>
      BY <1>2 DEF Start
    <2> QED
      BY <2>1, <2>2, <2>3, OutsideMove
  <1>3. CASE NotifyOne \/ StopNotify
    <2>1. \A w \in Workers : wpc'[w] = wpc[w] \/ (wpc[w] = "waiting" /\ wpc'[w] = "lock")
      <3>1. CASE StopNotify
        BY <3>1 DEF StopNotify
      <3>2. CASE \E v \in Waiting : wpc' = [wpc EXCEPT ![v] = "lock"]
        BY <3>2 DEF Waiting, OwnInv, Shape
      <3> QED
        BY <1>3, <3>1, <3>2 DEF NotifyOne, Goto
    <2>2. {"waiting", "lock"} \cap Counted = {}
      BY DEF Counted, Handling, Holding, Serving
    <2>3. UNCHANGED <<metrics, cstate, wconn>>
      BY <1>3 DEF NotifyOne, StopNotify
    <2>4. \A w \in Workers : /\ wpc'[w] \in Counted <=> wpc[w] \in Counted
                             /\ wpc[w] \in Counted => wpc'[w] = wpc[w] /\ wconn'[w] = wconn[w]
      BY <2>1, <2>2, <2>3
    <2> QED
      BY <2>3, <2>4, OutsideMove
  <1>4. CASE Accept \/ \E c \in Conns : Connect(c)
    <2>1. PICK c \in Conns, s \in {"open", "backlog"} :
             cstate[c] \in {"new", "backlog"} /\ cstate' = [cstate EXCEPT ![c] = s]
      BY <1>4 DEF Accept, Connect
    <2>2. \A x \in Conns : cstate'[x] = "closed" <=> cstate[x] = "closed"
      BY <2>1 DEF OwnInv, Shape
    <2>3. UNCHANGED <<metrics, wpc, wconn>>
      BY <1>4 DEF Accept, Connect
    <2> QED
      BY <2>2, <2>3, OutsideMove
  <1>5. CASE LoopTop \/ ReadConfig \/ ApplyReload \/ ReloadThrows \/ EpollReports
             \/ EpollReturnsEmpty \/ EpollFails
    BY <1>1, <1>5 DEF LoopTop, ReadConfig, ApplyReload, ReloadThrows, EpollReports,
       EpollReturnsEmpty, EpollFails, workerVars
  <1>6. CASE AcceptFails \/ CheckTotal \/ CheckPerIp \/ Enqueue \/ Join
    BY <1>1, <1>6 DEF AcceptFails, CheckTotal, CheckPerIp, Enqueue, Join, workerVars
  <1>7. CASE StopStore \/ EditConfigFile \/ Sighup \/ ClockTick \/ UNCHANGED vars
    BY <1>1, <1>7 DEF StopStore, EditConfigFile, Sighup, ClockTick, vars, workerVars
  <1> QED
    BY <1>2, <1>3, <1>4, <1>5, <1>6, <1>7, RefuseKeepsGauges, DispatchKeepsGauges,
       HandlingKeepsGauges, BeginKeepsGauges, FinishKeepsGauges
    DEF Next, Reactor, Environment, Terminated

(* ... and at the start.                                                    *)
LEMMA GaugeInit == Init => GaugeInv
  <1> SUFFICES ASSUME Init PROVE GaugeInv
    OBVIOUS
  <1>1. /\ cstate = [c \in Conns |-> "new"] /\ wpc = [w \in Workers |-> "unborn"] /\ MetricsInit
    BY DEF Init
  <1>2. "unborn" \notin Counted /\ "unborn" \notin Uncounted
    BY DEF Counted, Uncounted, Handling, Holding, Serving
  <1>3. Busy = {} /\ Owing = {} /\ Clients = {}
    BY <1>1, <1>2 DEF Busy, Owing, Clients
  <1>4. MetricsTypeOK
    BY <1>1 DEF MetricsInit, MetricsTypeOK
  <1> QED
    BY <1>1, <1>3, <1>4, FS_EmptySet DEF GaugeInv, MetricsInit

-----------------------------------------------------------------------------
(* The guard's slots.  Server and its guard are related by the substitution *)
(* of the instance Guard; G is the same instance, with the proofs about it. *)
(* The history of DDoSGuardRate plays no part in what is used of them.      *)
G == INSTANCE DDoSGuardProofs WITH
    MaxGranted <- 0, spent <- [ip \in Ips |-> 0], born <- [ip \in Ips |-> 0],
    open <- Held,
    admitting <- IF rpc = "admit" THEN rconn ELSE NoConn,
    MaxPerIpChoices <- {f.max_per_ip : f \in FileConfigs \cup {DefaultConfig}}

Admitting == IF rpc = "admit" THEN rconn ELSE NoConn

(* The server's constants meet what the guard assumes of its caller.        *)
LEMMA GuardUsable == G!GuardAssumption /\ G!UseAssumption
  <1>1. G!GuardAssumption
    BY GuardAssumption DEF Entry, G!Entry
  <1>2. {f.max_per_ip : f \in FileConfigs \cup {DefaultConfig}} \subseteq Int
    BY ServerAssumption DEF ConfigRecord
  <1> QED
    BY <1>1, <1>2, ServerAssumption, WorkerAssumption

(* The slots that are held, before and after a step that moves one worker.  *)
LEMMA CalmHolds == Shape /\ Calm => Held' = Held
  <1> SUFFICES ASSUME Shape, Calm PROVE Held' = Held
    OBVIOUS
  <1>1. \A w \in Workers : wpc[w] \in Holding <=> wpc'[w] \in Holding
    BY ClassesExact DEF Calm, Shape
  <1>2. rpc = "push" <=> rpc' = "push"
    BY DEF Calm, Judging
  <1>3. UNCHANGED <<wconn, pending_, rconn>>
    BY DEF Calm
  <1>4. \A c : InQueue(c)' <=> InQueue(c)
    BY <1>3 DEF InQueue
  <1> QED
    BY <1>1, <1>2, <1>3, <1>4 DEF Held

(* So does a worker that moves among the points that hold one.              *)
LEMMA WorkerHolds ==
    ASSUME Shape, NEW w \in Workers, NEW q, wpc' = [wpc EXCEPT ![w] = q], wpc[w] \in Holding <=> q \in Holding,
           UNCHANGED <<wconn, pending_, rconn, rpc>>
    PROVE  Held' = Held
  <1>1. \A v \in Workers : wpc[v] \in Holding <=> wpc'[v] \in Holding
    BY DEF Shape
  <1>2. \A c : InQueue(c)' <=> InQueue(c)
    BY DEF InQueue
  <1> QED
    BY <1>1, <1>2 DEF Held

(* Handing a connection over keeps its slot.                                *)
LEMMA HandoverHolds ==
    ASSUME OwnInv, Enqueue \/ \E w \in Workers : Take(w)
    PROVE  Held' = Held /\ Admitting' = Admitting
  <1>1. CASE Enqueue
    <2>1. /\ rpc = "push" /\ rpc' = "notify" /\ pending_' = Append(pending_, rconn)
          /\ UNCHANGED <<wpc, wconn>>
      BY <1>1 DEF Enqueue, workerVars
    <2>2. rconn \in Conns
      BY <2>1 DEF OwnInv, Shape, InHand
    <2>3. PICK c \in Conns : c = rconn
      BY <2>2
    <2>4. \A x : InQueue(x)' <=> InQueue(x) \/ x = c
      BY <2>1, <2>3, QueueAppend DEF OwnInv, Shape
    <2> QED
      BY <2>1, <2>3, <2>4 DEF Held, Admitting
  <1>2. CASE \E w \in Workers : Take(w)
    <2>1. PICK w \in Workers : Take(w)
      BY <1>2
    <2>2. /\ wpc[w] = "pred" /\ pending_ # <<>> /\ pending_' = Tail(pending_)
          /\ wconn' = [wconn EXCEPT ![w] = Head(pending_)]
          /\ wpc' = [wpc EXCEPT ![w] = "handle"] /\ UNCHANGED <<rconn, rpc>>
      BY <2>1 DEF Take, Goto
    <2>3. PICK c : c = Head(pending_)
      OBVIOUS
    <2>4. InQueue(c) /\ \A x : InQueue(x)' <=> InQueue(x) /\ x # c
      BY <2>2, <2>3, QueueTail DEF OwnInv, Shape, NoDescriptorShared
    <2>5. /\ wpc'[w] = "handle" /\ wconn'[w] = c
          /\ \A v \in Workers \ {w} : wpc'[v] = wpc[v] /\ wconn'[v] = wconn[v]
      BY <2>2, <2>3 DEF OwnInv, Shape
    <2>6. "handle" \in Holding /\ "pred" \notin Holding
      BY DEF Holding, Serving
    <2>7. \A x \in Conns : x \in Held' <=> x \in Held
      BY <2>2, <2>4, <2>5, <2>6 DEF Held
    <2>8. Held' = Held
      BY <2>7 DEF Held
    <2> QED
      BY <2>2, <2>8 DEF Admitting
  <1> QED
    BY <1>1, <1>2

(* The guard sees nothing of these steps.                                   *)
GuardIdle == UNCHANGED guardVars /\ Held' = Held /\ Admitting' = Admitting

(* They are stuttering steps of the guard's use.                            *)
LEMMA IdleIsStutter == GuardIdle => UNCHANGED G!useVars
  BY DEF GuardIdle, Admitting, guardVars, G!useVars

(* A worker inside handle_connection holds the slot of its connection.      *)
LEMMA WorkerHasSlot ==
    ASSUME OwnInv, NEW w \in Workers, wpc[w] \in Holding
    PROVE  wconn[w] \in Held /\ wconn[w] \in Conns
  <1>1. wconn[w] \in Conns
    BY DEF OwnInv, InHand, Shape, Handling
  <1> QED
    BY <1>1 DEF Held

(* handle_connection asks and releases for its own connection only.         *)
LEMMA HandlingUsesGuard ==
    ASSUME OwnInv, NEW w \in Workers, HandleStep(w) \/ ClientStep(w), UNCHANGED serverVars
    PROVE  GuardIdle \/ G!UseNext
  <1>0. Shape /\ UNCHANGED <<pending_, rconn, rpc>> /\ Admitting' = Admitting
    BY DEF OwnInv, serverVars, Admitting
  <1>1. ASSUME ~CloseFd(w), ~ReleaseSlot(w), ~Finish(w) PROVE Held' = Held
    BY <1>0, <1>1, HandlingMoves, CalmHolds
  <1>2. CASE BeginHandling(w) \/ HandshakeFails(w) \/ HandshakeDone(w) \/ ReadRequest(w) \/ ReadFails(w)
    <2>1. ~CloseFd(w) /\ ~ReleaseSlot(w) /\ ~Finish(w) /\ UNCHANGED guardVars
      BY <1>2 DEF BeginHandling, HandshakeFails, HandshakeDone, ReadRequest, ReadFails, CloseFd,
         ReleaseSlot, Finish
    <2> QED
      BY <1>0, <1>1, <2>1 DEF GuardIdle
  <1>3. CASE WafBlocks(w) \/ WafPasses(w) \/ SendfileDone(w) \/ SendfileDeclines(w)
             \/ RouteAndRespond(w) \/ Count408(w)
    <2>1. ~CloseFd(w) /\ ~ReleaseSlot(w) /\ ~Finish(w) /\ UNCHANGED guardVars
      BY <1>3 DEF WafBlocks, WafPasses, SendfileDone, SendfileDeclines, RouteAndRespond,
         Count408, CloseFd, ReleaseSlot, Finish
    <2> QED
      BY <1>0, <1>1, <2>1 DEF GuardIdle
  <1>4. CASE ReceiveTimeout(w) \/ WsMessage(w) \/ PeerGone(w)
    <2>1. ~CloseFd(w) /\ ~ReleaseSlot(w) /\ ~Finish(w) /\ UNCHANGED guardVars
      BY <1>4 DEF ReceiveTimeout, WsMessage, PeerGone, CloseFd, ReleaseSlot, Finish
    <2> QED
      BY <1>0, <1>1, <2>1 DEF GuardIdle
  <1>5. CASE RateLimited(w) \/ WithinRate(w) \/ H2Request(w)
    <2>1. wpc[w] \in {"limit", "h2"} /\ ~CloseFd(w) /\ ~ReleaseSlot(w) /\ ~Finish(w)
      BY <1>5 DEF RateLimited, WithinRate, H2Request, CloseFd, ReleaseSlot, Finish
    <2>2. wconn[w] \in Held /\ wconn[w] \in Conns
      BY <2>1, WorkerHasSlot DEF Holding, Serving
    <2>3. Held' = Held
      BY <1>1, <2>1
    <2>4. UNCHANGED guardVars \/ AllowRequest(IpOf[wconn[w]]) \/ DenyRequest(IpOf[wconn[w]])
      BY <1>5 DEF RateLimited, WithinRate, H2Request, Ip
    <2>5. CASE AllowRequest(IpOf[wconn[w]])
      <3>1. G!RequestAllowed(wconn[w])
        BY <1>0, <2>2, <2>3, <2>5 DEF G!RequestAllowed, G!AllowRequest, AllowRequest, G!HasEntry, HasEntry,
           G!Refilled, Refilled, G!Least, Least, Admitting
      <3> QED
        BY <2>2, <3>1 DEF G!UseNext
    <2>6. CASE DenyRequest(IpOf[wconn[w]])
      <3>1. G!RequestDenied(wconn[w])
        BY <1>0, <2>2, <2>3, <2>6 DEF G!RequestDenied, G!DenyRequest, DenyRequest, G!HasEntry, HasEntry,
           G!Refilled, Refilled, G!Least, Least, Admitting
      <3> QED
        BY <2>2, <3>1 DEF G!UseNext
    <2> QED
      BY <1>0, <2>3, <2>4, <2>5, <2>6 DEF GuardIdle
  <1>6. CASE CloseFd(w)
    <2>1. PICK q \in {"release", "release408"} :
              /\ wpc[w] \in {"close", "close408"} /\ wpc' = [wpc EXCEPT ![w] = q]
              /\ UNCHANGED guardVars /\ UNCHANGED wconn
      BY <1>6 DEF CloseFd, Goto
    <2>2. wpc[w] \in Holding /\ q \in Holding
      BY <2>1 DEF Holding, Serving
    <2> QED
      BY <1>0, <2>1, <2>2, WorkerHolds DEF GuardIdle
  <1>7. CASE ReleaseSlot(w)
    <2>1. PICK q \in Ending : wpc[w] \in Releasing /\ wpc' = [wpc EXCEPT ![w] = q]
      BY <1>7 DEF ReleaseSlot, Goto, Releasing, Ending
    <2>2. ReleaseConnection(IpOf[wconn[w]]) /\ UNCHANGED wconn
      BY <1>7 DEF ReleaseSlot, Ip
    <2>3. Releasing \subseteq Holding /\ q \notin Holding
      BY <2>1 DEF Holding, Serving, Releasing, Ending
    <2>4. wconn[w] \in Held /\ wconn[w] \in Conns
      BY <2>1, <2>3, WorkerHasSlot
    <2>5. /\ ~InQueue(wconn[w]) /\ rconn # wconn[w]
          /\ \A v \in Workers \ {w} : wconn[v] # wconn[w]
      BY <2>4, WorkerAssumption DEF OwnInv, NoDescriptorShared
    <2>6. wpc'[w] = q /\ \A v \in Workers \ {w} : wpc'[v] = wpc[v]
      BY <1>0, <2>1 DEF Shape
    <2>7. \A c : InQueue(c)' <=> InQueue(c)
      BY <1>0 DEF InQueue
    <2>8. \A x \in Conns : x \in Held' <=> x \in Held /\ x # wconn[w]
      BY <1>0, <2>1, <2>2, <2>3, <2>5, <2>6, <2>7 DEF Held
    <2>9. Held' = Held \ {wconn[w]}
      BY <2>8 DEF Held
    <2>10. G!Release(wconn[w])
      BY <1>0, <2>2, <2>4, <2>9 DEF G!Release, G!ReleaseConnection, ReleaseConnection,
         G!HasEntry, HasEntry, Admitting
    <2> QED
      BY <2>4, <2>10 DEF G!UseNext
  <1>8. CASE Finish(w)
    <2>1. /\ wpc[w] = "finish" /\ wpc' = [wpc EXCEPT ![w] = "loop"] /\ UNCHANGED guardVars
          /\ wconn' = [wconn EXCEPT ![w] = NoConn]
      BY <1>8 DEF Finish, Goto
    <2>2. wpc'[w] = "loop" /\ \A v \in Workers \ {w} : wpc'[v] = wpc[v] /\ wconn'[v] = wconn[v]
      BY <1>0, <2>1 DEF Shape
    <2>3. {"finish", "loop"} \cap Holding = {}
      BY DEF Holding, Serving
    <2>4. \A c : InQueue(c)' <=> InQueue(c)
      BY <1>0 DEF InQueue
    <2>5. \A x \in Conns : x \in Held' <=> x \in Held
      BY <1>0, <2>1, <2>2, <2>3, <2>4 DEF Held
    <2>6. Held' = Held
      BY <2>5 DEF Held
    <2> QED
      BY <1>0, <2>1, <2>6 DEF GuardIdle
  <1> QED
    BY <1>2, <1>3, <1>4, <1>5, <1>6, <1>7, <1>8 DEF HandleStep, ClientStep

(* allow_connection, in its two halves.                                     *)
LEMMA AdmissionUsesGuard ==
    ASSUME OwnInv, CheckTotal \/ CheckPerIp
    PROVE  GuardIdle \/ G!UseNext
  <1>0. /\ UNCHANGED <<wpc, wconn, pending_, rconn>> /\ rpc \in Judging
        /\ \A c : InQueue(c)' <=> InQueue(c)
    BY DEF CheckTotal, CheckPerIp, workerVars, Judging, InQueue
  <1>1. rconn \in Conns /\ rconn # NoConn
    BY <1>0 DEF OwnInv, InHand, Shape
  <1>2. rconn \notin Held
    BY <1>0, <1>1 DEF Held, Judging, OwnInv, NoDescriptorShared
  <1>3. CASE CheckTotal
    <2>1. rpc = "check" /\ UNCHANGED guardVars /\ rpc' = IF GlobalLimitReached THEN "refuse" ELSE "admit"
      BY <1>3 DEF CheckTotal, workerVars, guardVars
    <2>2. Held' = Held
      BY <1>0, <2>1 DEF Held
    <2>3. CASE GlobalLimitReached
      BY <2>1, <2>2, <2>3 DEF GuardIdle, Admitting
    <2>4. CASE ~GlobalLimitReached
      <3>1. G!PassGlobalCheck(rconn)
        BY <1>0, <1>2, <2>1, <2>2, <2>4 DEF G!PassGlobalCheck, G!GlobalLimitReached,
           GlobalLimitReached, G!guardVars, guardVars
      <3> QED
        BY <1>1, <3>1 DEF G!UseNext
    <2> QED
      BY <2>3, <2>4
  <1>4. CASE CheckPerIp /\ rpc' = "push"
    <2>1. rpc = "admit" /\ AdmitConnection(IpOf[rconn])
      BY <1>4 DEF CheckPerIp
    <2>2. \A x \in Conns : x \in Held' <=> x \in Held \/ x = rconn
      BY <1>0, <1>4, <2>1 DEF Held
    <2>3. Held' = Held \cup {rconn}
      BY <1>1, <2>2 DEF Held
    <2>4. G!Admit
      BY <1>1, <1>4, <2>1, <2>3 DEF G!Admit, G!AdmitConnection, AdmitConnection, G!Lookup, Lookup,
         G!HasEntry, HasEntry, G!FreshEntry, FreshEntry, G!WithBucket, WithBucket
    <2> QED
      BY <2>4 DEF G!UseNext
  <1>5. CASE CheckPerIp /\ rpc' # "push"
    <2>1. rpc = "admit" /\ RefuseConnection(IpOf[rconn]) /\ rpc' = "refuse"
      BY <1>5 DEF CheckPerIp
    <2>2. Held' = Held
      BY <1>0, <2>1 DEF Held
    <2>3. G!Refuse
      BY <1>1, <2>1, <2>2 DEF G!Refuse, G!RefuseConnection, RefuseConnection, G!Lookup, Lookup,
         G!HasEntry, HasEntry, G!FreshEntry, FreshEntry
    <2> QED
      BY <2>3 DEF G!UseNext
  <1> QED
    BY <1>3, <1>4, <1>5

(* A reload sets a limit that some file holds.                              *)
LEMMA ReloadUsesGuard ==
    ASSUME OwnInv, ConfigInv, ApplyReload
    PROVE  G!UseNext
  <1>1. new_config \in FileConfigs \cup {DefaultConfig}
    BY DEF ConfigInv, ReloadSound
  <1>2. SetMaxPerIp(new_config.max_per_ip)
    BY DEF ApplyReload
  <1>3. /\ UNCHANGED <<wpc, wconn, pending_, rconn>> /\ rpc = "apply" /\ rpc' = "wait"
        /\ \A c : InQueue(c)' <=> InQueue(c)
    BY DEF ApplyReload, InQueue
  <1>4. Held' = Held
    BY <1>3 DEF Held
  <1>5. PICK m \in {f.max_per_ip : f \in FileConfigs \cup {DefaultConfig}} : m = new_config.max_per_ip
    BY <1>1
  <1>6. G!Reload(m)
    BY <1>2, <1>3, <1>4, <1>5 DEF G!Reload, G!SetMaxPerIp, SetMaxPerIp
  <1> QED
    BY <1>6 DEF G!UseNext

(* Both clocks are one.                                                     *)
LEMMA ClockUsesGuard == ClockTick => G!UseNext
  <1> SUFFICES ASSUME ClockTick PROVE G!UseNext
    OBVIOUS
  <1>1. UNCHANGED <<wpc, wconn, pending_, rconn, rpc>> /\ now < MaxTime /\ Tick
    BY DEF ClockTick, serverVars
  <1>2. Held' = Held
    BY <1>1 DEF Held, InQueue
  <1>3. G!Elapse
    BY <1>1, <1>2 DEF G!Elapse, G!Tick, Tick
  <1> QED
    BY <1>3 DEF G!UseNext

(* Every step of the server is a step of the guard's use or leaves it alone. *)
LEMMA ServerUsesGuard == OwnInv /\ ConfigInv /\ [Next]_vars => [G!UseNext]_G!useVars
  <1> SUFFICES ASSUME OwnInv, ConfigInv, [Next]_vars PROVE GuardIdle \/ G!UseNext
    BY IdleIsStutter
  <1>0. Shape
    BY DEF OwnInv
  <1>1. ASSUME UNCHANGED guardVars, UNCHANGED <<wpc, wconn, pending_, rconn>>,
               {rpc, rpc'} \cap {"push", "admit"} = {} \/ rpc' = rpc
        PROVE  GuardIdle
    BY <1>1 DEF GuardIdle, Held, InQueue, Admitting
  <1>2. CASE \E w \in Workers : LoopTest(w) \/ Lock(w) \/ PredicateFalse(w) \/ Block(w) \/ ReturnEmpty(w) \/ SpuriousWakeup(w)
    <2>1. PICK w \in Workers, q \in {"lock", "exited", "pred", "block", "waiting"} :
             /\ wpc[w] \in {"loop", "lock", "pred", "block", "waiting"} /\ wpc' = [wpc EXCEPT ![w] = q]
             /\ UNCHANGED guardVars /\ UNCHANGED <<wconn, pending_, rconn, rpc>>
      BY <1>2 DEF LoopTest, Lock, PredicateFalse, Block, ReturnEmpty, SpuriousWakeup, Goto, serverVars
    <2>2. wpc[w] \notin Holding /\ q \notin Holding
      BY <2>1 DEF Holding, Serving
    <2> QED
      BY <1>0, <2>1, <2>2, WorkerHolds DEF GuardIdle, Admitting
  <1>3. CASE Enqueue \/ \E w \in Workers : Take(w)
    <2>1. UNCHANGED guardVars
      BY <1>3 DEF Enqueue, Take, workerVars, guardVars
    <2> QED
      BY <1>3, <2>1, HandoverHolds DEF GuardIdle
  <1>4. CASE Start
    <2>1. \A w \in Workers : wpc[w] = "unborn" /\ wpc'[w] = "loop"
      BY <1>4 DEF Start, OwnInv, InHand
    <2>2. "unborn" \notin Holding /\ "loop" \notin Holding
      BY DEF Holding, Serving
    <2>3. rpc = "starting" /\ rpc' = "loop" /\ UNCHANGED guardVars /\ UNCHANGED <<wconn, pending_, rconn>>
      BY <1>4 DEF Start
    <2> QED
      BY <2>1, <2>2, <2>3 DEF GuardIdle, Held, InQueue, Admitting
  <1>5. CASE Accept \/ RefuseClient
    <2>1. UNCHANGED guardVars /\ UNCHANGED <<wpc, wconn, pending_>> /\ {rpc, rpc'} \cap {"push", "admit"} = {}
      BY <1>5 DEF Accept, RefuseClient
    <2> QED
      BY <2>1 DEF GuardIdle, Held, InQueue, Admitting
  <1>6. CASE NotifyOne \/ StopNotify
    <2>1. \A w \in Workers : wpc'[w] = wpc[w] \/ (wpc[w] = "waiting" /\ wpc'[w] = "lock")
      <3>1. CASE StopNotify
        BY <3>1 DEF StopNotify
      <3>2. CASE \E v \in Waiting : wpc' = [wpc EXCEPT ![v] = "lock"]
        BY <1>0, <3>2 DEF Waiting, Shape
      <3> QED
        BY <1>6, <3>1, <3>2 DEF NotifyOne, Goto
    <2>2. "waiting" \notin Holding /\ "lock" \notin Holding
      BY DEF Holding, Serving
    <2>3. /\ UNCHANGED guardVars /\ UNCHANGED <<wconn, pending_, rconn>>
          /\ {rpc, rpc'} \cap {"push", "admit"} = {} \/ rpc' = rpc
      BY <1>6 DEF NotifyOne, StopNotify
    <2>4. \A w \in Workers : wpc'[w] \in Holding <=> wpc[w] \in Holding
      BY <2>1, <2>2
    <2> QED
      BY <2>3, <2>4 DEF GuardIdle, Held, InQueue, Admitting
  <1>7. CASE LoopTop \/ ReadConfig \/ ReloadThrows \/ EpollReports \/ EpollReturnsEmpty \/ EpollFails
             \/ AcceptFails \/ Join
    BY <1>1, <1>7 DEF LoopTop, ReadConfig, ReloadThrows, EpollReports, EpollReturnsEmpty, EpollFails,
       AcceptFails, Join, workerVars, guardVars
  <1>8. CASE StopStore \/ EditConfigFile \/ Sighup \/ (\E c \in Conns : Connect(c)) \/ UNCHANGED vars
    BY <1>1, <1>8 DEF StopStore, EditConfigFile, Sighup, Connect, vars, workerVars, serverVars, guardVars
  <1> QED
    BY <1>2, <1>3, <1>4, <1>5, <1>6, <1>7, <1>8, HandlingUsesGuard, AdmissionUsesGuard,
       ReloadUsesGuard, ClockUsesGuard
    DEF Next, Reactor, Dispatch, Environment, Terminated

(* The guard starts with the limit of the first configuration.              *)
LEMMA ServerInitGuard == Init => G!UseInit
  <1> SUFFICES ASSUME Init PROVE G!UseInit
    OBVIOUS
  <1>1. /\ conf_file \in FileConfigs \cup {Missing}
        /\ GuardInit(LoadFromFile(conf_file).max_per_ip)
        /\ wpc = [w \in Workers |-> "unborn"] /\ pending_ = <<>> /\ rpc = "starting"
    BY DEF Init
  <1>2. LoadFromFile(conf_file) \in FileConfigs \cup {DefaultConfig}
    BY <1>1, LoadedRecord
  <1>3. "unborn" \notin Holding
    BY DEF Holding, Serving
  <1>4. Held = {}
    BY <1>1, <1>3 DEF Held, InQueue
  <1>5. PICK m \in {f.max_per_ip : f \in FileConfigs \cup {DefaultConfig}} : m = LoadFromFile(conf_file).max_per_ip
    BY <1>2
  <1>6. G!GuardInit(m)
    BY <1>1, <1>5 DEF G!GuardInit, GuardInit
  <1> QED
    BY <1>1, <1>4, <1>5, <1>6 DEF G!UseInit

(* Guard and G are the same instance.                                       *)
LEMMA SameGuard ==
    /\ G!UseInit <=> Guard!UseInit
    /\ [G!UseNext]_G!useVars <=> [Guard!UseNext]_Guard!useVars
  <1>1. G!UseInit <=> Guard!UseInit
    BY DEF G!UseInit, Guard!UseInit, G!GuardInit, Guard!GuardInit
  <1>2. UNCHANGED G!useVars <=> UNCHANGED Guard!useVars
    BY DEF G!useVars, Guard!useVars
  <1>3. ASSUME NEW c PROVE (G!PassGlobalCheck(c) <=> Guard!PassGlobalCheck(c))
    BY DEF G!PassGlobalCheck, Guard!PassGlobalCheck, G!GlobalLimitReached,
       Guard!GlobalLimitReached, G!guardVars, Guard!guardVars
  <1>4. G!Admit <=> Guard!Admit
    BY DEF G!Admit, Guard!Admit, G!AdmitConnection, Guard!AdmitConnection, G!Lookup,
       Guard!Lookup, G!HasEntry, Guard!HasEntry,
       G!FreshEntry, Guard!FreshEntry, G!WithBucket, Guard!WithBucket
  <1>5. G!Refuse <=> Guard!Refuse
    BY DEF G!Refuse, Guard!Refuse, G!RefuseConnection, Guard!RefuseConnection, G!Lookup,
       Guard!Lookup, G!HasEntry, Guard!HasEntry,
       G!FreshEntry, Guard!FreshEntry
  <1>6. ASSUME NEW c PROVE (G!RequestAllowed(c) <=> Guard!RequestAllowed(c))
    BY DEF G!RequestAllowed, Guard!RequestAllowed, G!AllowRequest, Guard!AllowRequest,
       G!HasEntry, Guard!HasEntry,
       G!Refilled, Guard!Refilled, G!Least, Guard!Least
  <1>7. ASSUME NEW c PROVE (G!RequestDenied(c) <=> Guard!RequestDenied(c))
    BY DEF G!RequestDenied, Guard!RequestDenied, G!DenyRequest, Guard!DenyRequest, G!HasEntry, Guard!HasEntry,
       G!Refilled, Guard!Refilled, G!Least, Guard!Least
  <1>8. ASSUME NEW c PROVE (G!Release(c) <=> Guard!Release(c))
    BY DEF G!Release, Guard!Release, G!ReleaseConnection, Guard!ReleaseConnection, G!HasEntry, Guard!HasEntry
  <1>9. ASSUME NEW m PROVE (G!Reload(m) <=> Guard!Reload(m))
    BY DEF G!Reload, Guard!Reload, G!SetMaxPerIp, Guard!SetMaxPerIp
  <1>10. G!RunCleanup <=> Guard!RunCleanup
    BY DEF G!RunCleanup, Guard!RunCleanup, G!Cleanup, Guard!Cleanup, G!Stale, Guard!Stale,
       G!HasEntry, Guard!HasEntry
  <1>11. G!Elapse <=> Guard!Elapse
    BY DEF G!Elapse, Guard!Elapse, G!Tick, Guard!Tick
  <1>12. G!UseNext <=> Guard!UseNext
    BY <1>3, <1>4, <1>5, <1>6, <1>7, <1>8, <1>9, <1>10, <1>11 DEF G!UseNext, Guard!UseNext
  <1> QED
    BY <1>1, <1>2, <1>12

(* The guard's invariant, in the server's words.                            *)
LEMMA SlotsFollow == G!GuardInv => SlotsExact /\ GuardTypeOK
  <1> SUFFICES ASSUME G!GuardInv PROVE SlotsExact /\ GuardTypeOK
    OBVIOUS
  <1>1. \A S : G!Cardinality(S) = Cardinality(S) /\ Guard!Cardinality(S) = Cardinality(S)
    BY DEF G!Cardinality, Guard!Cardinality, Cardinality, G!IsFiniteSet, Guard!IsFiniteSet, IsFiniteSet
  <1>2. GuardTypeOK
    BY DEF G!GuardInv, G!UseTypeOK, G!GuardTypeOK, GuardTypeOK, G!Entry, Entry
  <1>3. Guard!ActiveIsExact
    BY <1>1 DEF G!GuardInv, G!ActiveIsExact, Guard!ActiveIsExact, G!Lookup, Guard!Lookup,
       G!HasEntry, Guard!HasEntry,
       G!FreshEntry, Guard!FreshEntry, G!OpenFrom, Guard!OpenFrom
  <1>4. Guard!TotalIsExact /\ Guard!HardCap
    BY <1>1 DEF G!GuardInv, G!TotalIsExact, Guard!TotalIsExact, G!HardCap, Guard!HardCap
  <1> QED
    BY <1>2, <1>3, <1>4 DEF SlotsExact

(* It holds at the start ...                                                *)
LEMMA SlotsInit == Init => G!GuardInv
  BY ServerInitGuard, GuardUsable, G!GuardInvInit

(* ... and after every step, because the server uses the guard properly.    *)
LEMMA SlotsStep == OwnInv /\ ConfigInv /\ G!GuardInv /\ [Next]_vars => G!GuardInv'
  BY ServerUsesGuard, GuardUsable, G!GuardInvStep

-----------------------------------------------------------------------------
(* The rest of the types.                                                   *)
SmallTypes ==
    /\ msgs \in [Workers -> Nat]
    /\ tls_enabled \in BOOLEAN /\ running_ \in BOOLEAN /\ reload_requested_ \in BOOLEAN
    /\ edge \in BOOLEAN /\ stopping \in BOOLEAN /\ dirty \in BOOLEAN
    /\ stops \in Nat /\ edits \in Nat

(* They hold after every step ...                                           *)
LEMMA SmallTypesStep == SmallTypes /\ [Next]_vars => SmallTypes'
  <1> SUFFICES ASSUME SmallTypes, [Next]_vars PROVE SmallTypes'
    OBVIOUS
  <1>1. ASSUME UNCHANGED <<msgs, tls_enabled>>, UNCHANGED <<stops, edits>>,
               running_' \in BOOLEAN, reload_requested_' \in BOOLEAN, edge' \in BOOLEAN, stopping' \in BOOLEAN, dirty' \in BOOLEAN
        PROVE  SmallTypes'
    BY <1>1 DEF SmallTypes
  <1>2. ASSUME NEW w \in Workers, HandleStep(w) \/ ClientStep(w), UNCHANGED serverVars PROVE SmallTypes'
    <2>1. ASSUME tls_enabled' = tls_enabled, msgs' \in [Workers -> Nat] PROVE SmallTypes'
      BY <1>2, <2>1 DEF SmallTypes, serverVars
    <2>2. CASE UNCHANGED <<msgs, tls_enabled>>
      BY <2>1, <2>2 DEF SmallTypes
    <2>3. CASE (\E n \in {0, msgs[w] + 1} : msgs' = [msgs EXCEPT ![w] = n]) /\ tls_enabled' = tls_enabled
      BY <2>1, <2>3 DEF SmallTypes
    <2>4. CASE BeginHandling(w) \/ HandshakeFails(w) \/ ReadRequest(w) \/ ReadFails(w)
               \/ WafBlocks(w) \/ WafPasses(w) \/ RateLimited(w)
      BY <2>2, <2>4 DEF BeginHandling, HandshakeFails, ReadRequest, ReadFails, WafBlocks,
         WafPasses, RateLimited
    <2>5. CASE SendfileDone(w) \/ SendfileDeclines(w) \/ RouteAndRespond(w)
               \/ ReceiveTimeout(w) \/ PeerGone(w)
               \/ CloseFd(w) \/ ReleaseSlot(w) \/ Count408(w) \/ Finish(w)
      BY <2>2, <2>5 DEF SendfileDone, SendfileDeclines, RouteAndRespond, ReceiveTimeout, PeerGone,
         CloseFd, ReleaseSlot, Count408, Finish
    <2>6. CASE HandshakeDone(w) \/ WithinRate(w) \/ WsMessage(w) \/ H2Request(w)
      BY <2>2, <2>3, <2>6 DEF HandshakeDone, WithinRate, WsMessage, H2Request
    <2> QED
      BY <1>2, <2>4, <2>5, <2>6 DEF HandleStep, ClientStep
  <1>3. CASE \E w \in Workers : Dispatch(w) \/ SpuriousWakeup(w)
    BY <1>3 DEF Dispatch, LoopTest, Lock, PredicateFalse, Block, Take, ReturnEmpty,
       SpuriousWakeup, serverVars, SmallTypes
  <1>4. CASE Start \/ LoopTop \/ ReadConfig \/ ApplyReload \/ ReloadThrows \/ EpollReports
             \/ EpollReturnsEmpty \/ EpollFails
    BY <1>4 DEF Start, LoopTop, ReadConfig, ApplyReload, ReloadThrows, EpollReports,
       EpollReturnsEmpty, EpollFails, workerVars, SmallTypes
  <1>5. CASE Accept \/ AcceptFails \/ CheckTotal \/ CheckPerIp \/ RefuseClient \/ Enqueue \/ NotifyOne \/ Join
    BY <1>5 DEF Accept, AcceptFails, CheckTotal, CheckPerIp, RefuseClient, Enqueue, NotifyOne,
       Join, workerVars, SmallTypes
  <1>6. CASE StopNotify \/ StopStore \/ EditConfigFile \/ Sighup
    <2>1. CASE StopNotify \/ Sighup
      BY <2>1 DEF StopNotify, Sighup, workerVars, SmallTypes
    <2>2. CASE StopStore
      <3>1. stops' \in Nat
        BY <2>2 DEF StopStore, SmallTypes
      <3>2. running_' = FALSE /\ stopping' = TRUE
            /\ UNCHANGED <<msgs, tls_enabled, reload_requested_, edge, dirty, edits>>
        BY <2>2 DEF StopStore, workerVars
      <3> QED
        BY <3>1, <3>2 DEF SmallTypes
    <2>3. CASE EditConfigFile
      <3>1. edits' \in Nat
        BY <2>3 DEF EditConfigFile, SmallTypes
      <3>2. dirty' = TRUE
            /\ UNCHANGED <<msgs, tls_enabled, running_, reload_requested_, edge, stopping, stops>>
        BY <2>3 DEF EditConfigFile, workerVars
      <3> QED
        BY <3>1, <3>2 DEF SmallTypes
    <2> QED
      BY <1>6, <2>1, <2>2, <2>3
  <1>7. CASE (\E c \in Conns : Connect(c)) \/ ClockTick \/ UNCHANGED vars
    BY <1>7 DEF Connect, ClockTick, vars, workerVars, serverVars, SmallTypes
  <1> QED
    BY <1>2, <1>3, <1>4, <1>5, <1>6, <1>7 DEF Next, Reactor, Environment, Terminated

(* ... and at the start.                                                    *)
LEMMA SmallTypesInit == Init => SmallTypes
  <1> SUFFICES ASSUME Init PROVE SmallTypes
    OBVIOUS
  <1>1. msgs \in [Workers -> Nat] /\ stops \in Nat /\ edits \in Nat
    BY DEF Init
  <1>2. tls_enabled \in BOOLEAN
    BY ServerAssumption DEF Init
  <1>3. running_ = FALSE /\ reload_requested_ = FALSE /\ edge = FALSE /\ stopping = FALSE /\ dirty = FALSE
    BY DEF Init
  <1> QED
    BY <1>1, <1>2, <1>3 DEF SmallTypes

(* The server's inductive invariant.                                        *)
ServerInv ==
    /\ OwnInv
    /\ NoLostWakeup
    /\ ConfigInv
    /\ GaugeInv
    /\ G!GuardInv
    /\ SmallTypes

(* It contains the type invariant.                                          *)
LEMMA ServerTyped == ServerInv => TypeOK
  <1> SUFFICES ASSUME ServerInv PROVE TypeOK
    OBVIOUS
  <1>1. GuardTypeOK /\ MetricsTypeOK
    BY SlotsFollow DEF ServerInv, GaugeInv
  <1>2. WorkerTypeOK
    BY DEF ServerInv, OwnInv, Shape, ConnStates, SmallTypes, ConfigInv, WorkerTypeOK
  <1>3. wpc \in [Workers -> Handling \cup {"unborn", "loop", "lock", "pred", "block", "waiting", "exited"}]
    <2>1. Points = Handling \cup {"unborn", "loop", "lock", "pred", "block", "waiting", "exited"}
      BY DEF Points, Locked, Free
    <2> QED
      BY <2>1 DEF ServerInv, OwnInv, Shape
  <1>4. /\ pending_ \in Seq(Conns) /\ queue_mutex_ \in Workers \cup {Nobody}
        /\ rconn \in Conns \cup {NoConn}
        /\ rpc \in {"starting", "loop", "load", "apply", "wait", "accept", "check", "admit", "refuse",
                    "push", "notify", "join", "done", "crashed"}
    BY DEF ServerInv, OwnInv, Shape, ReactorPoints
  <1>5. conf_file \in FileConfigs \cup {Missing, Malformed} /\ new_config \in ConfigRecord
    BY ServerAssumption DEF ServerInv, ConfigInv, ReloadSound
  <1>6. /\ running_ \in BOOLEAN /\ reload_requested_ \in BOOLEAN
        /\ edge \in BOOLEAN /\ stopping \in BOOLEAN /\ dirty \in BOOLEAN
        /\ stops \in Nat /\ edits \in Nat
    BY DEF ServerInv, SmallTypes
  <1> QED
    BY <1>1, <1>2, <1>3, <1>4, <1>5, <1>6 DEF TypeOK

-----------------------------------------------------------------------------
(* The theorems.                                                            *)

(* ServerInv holds of every state the server reaches.                       *)
THEOREM ServerInvariant == Spec => []ServerInv
  <1>1. Init => NoLostWakeup
    BY DEF Init, NoLostWakeup
  <1>2. Init => ServerInv
    BY <1>1, OwnInit, ConfigInit, GaugeInit, SlotsInit, SmallTypesInit DEF ServerInv
  <1>3. ServerInv /\ [Next]_vars => ServerInv'
    BY OwnStep, WakeupStep, ConfigStep, GaugeStep, SlotsStep, SmallTypesStep DEF ServerInv
  <1> QED
    BY <1>2, <1>3, PTL DEF Spec

(* Between accept4() and its one close() every descriptor has exactly one   *)
(* owner, the reactor, the queue or a worker, on every path of              *)
(* handle_connection.                                                       *)
THEOREM ServerDescriptorsOwned == Spec => []DescriptorsOwned
  <1>1. ServerInv => DescriptorsOwned
    BY ServerTyped DEF ServerInv, OwnInv, DescriptorsOwned
  <1> QED
    BY <1>1, ServerInvariant, PTL

(* While the server runs and a worker sleeps on queue_cv_, every queued     *)
(* connection has a worker on its way or its notify_one still to come.      *)
THEOREM ServerNoLostWakeup == Spec => []NoLostWakeup
  <1>1. ServerInv => NoLostWakeup
    BY DEF ServerInv
  <1> QED
    BY <1>1, ServerInvariant, PTL

(* The counters behind /metrics add up, whatever path each request takes.   *)
THEOREM ServerGaugesExact == Spec => []GaugesExact
  <1>1. ServerInv => GaugesExact
    BY GaugesFollow DEF ServerInv
  <1> QED
    BY <1>1, ServerInvariant, PTL

(* After the last SIGHUP was honoured the file's values are in effect,      *)
(* however edits and signals interleave with reload_config's two halves.    *)
THEOREM ServerConfigFresh == Spec => []ConfigFresh
  <1>1. ServerInv => ConfigFresh
    BY DEF ServerInv, ConfigInv
  <1> QED
    BY <1>1, ServerInvariant, PTL

(* The guard's counters are the connections in flight, per address and in   *)
(* total, and max_total_connections is never exceeded.                      *)
THEOREM ServerSlotsExact == Spec => []SlotsExact
  <1>1. ServerInv => SlotsExact
    BY SlotsFollow DEF ServerInv
  <1> QED
    BY <1>1, ServerInvariant, PTL

(* The server implements the use of the guard that DDoSGuardUse describes:  *)
(* each of its steps is one of UseNext's or leaves the guard alone.         *)
THEOREM ServerUsesGuardProperly == Spec => UsesGuardProperly
  <1>1. ServerInv /\ [Next]_vars => [Guard!UseNext]_Guard!useVars
    BY ServerUsesGuard, SameGuard DEF ServerInv
  <1>2. Init => Guard!UseInit
    BY ServerInitGuard, SameGuard
  <1> QED
    BY <1>1, <1>2, ServerInvariant, PTL DEF Spec, UsesGuardProperly, Guard!UseSpec
=============================================================================
