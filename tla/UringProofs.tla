----------------------------- MODULE UringProofs -----------------------------
(***************************************************************************)
(* Proofs about IoUringLoop: any depth of the queue, any number of buffers *)
(* and operations, and a kernel that completes in any order.               *)
(***************************************************************************)
EXTENDS IoUringLoop, FiniteSetTheorems, SequenceTheorems, TLAPS

AllKinds == {"oneshot", "timeout", "accept", "send_zc", "recv", "cancel", "provide"}
OpSet == [id : Nat, kind : AllKinds \cup {"notify"}, arg : Nat]
CompletionSet == [id : Nat, more : BOOLEAN, buffer : Buffers \cup {NoBuffer}, notif : BOOLEAN]

(***************************************************************************)
(* Where the operations o are: prepared in q, with the kernel in k, or     *)
(* answered in c, of which n completions are handled.                      *)
(***************************************************************************)
Unseen(c, n) == (n + 1)..Len(c)
More(o, x) == o[x.id].kind = "accept" /\ x.more
Main(k, id) == \E op \in k : op.id = id /\ op.kind # "notify"

Places(o, q, k, c, n) ==
    /\ o \in Seq(OpSet) /\ q \in Seq(OpSet) /\ k \subseteq OpSet /\ c \in Seq(CompletionSet)
    /\ n \in 0..Len(c)

Known(o, q, k, c) ==
    /\ \A i \in 1..Len(o) : /\ o[i].id = i /\ o[i].kind # "notify"
                            /\ o[i].kind = "cancel" => o[i].arg < i
    /\ \A i \in 1..Len(q) : q[i].id \in 1..Len(o) /\ q[i] = o[q[i].id]
    /\ \A op \in k : /\ op.id \in 1..Len(o) /\ op.arg = o[op.id].arg
                     /\ op.kind # "notify" => op.kind = o[op.id].kind
                     /\ op.kind = "notify" => o[op.id].kind = "send_zc"
    /\ \A i \in 1..Len(c) : /\ c[i].id \in 1..Len(o)
                            /\ c[i].notif => ~c[i].more /\ o[c[i].id].kind = "send_zc"

(* A prepared operation is nowhere else, and once only.                     *)
OnceInQueue(q, k, c, n) ==
    \A i \in 1..Len(q) :
        /\ \A j \in 1..Len(q) : q[i].id = q[j].id => i = j
        /\ \A op \in k : op.id # q[i].id
        /\ \A j \in Unseen(c, n) : c[j].id # q[i].id

OnceInKernel(k) == \A op1, op2 \in k : op1.id = op2.id => op1.kind = op2.kind

(* Nothing but the notification of a send follows an operation's last       *)
(* result, and something follows one that announces more.                   *)
LastIsLast(o, k, c, n) ==
    \A i \in Unseen(c, n) :
        /\ \A j \in Unseen(c, n) : i < j /\ c[i].id = c[j].id /\ ~c[j].notif => More(o, c[i])
        /\ Main(k, c[i].id) => More(o, c[i])

MoreFollows(o, k, c, n) ==
    \A i \in Unseen(c, n) :
        More(o, c[i]) => \/ Main(k, c[i].id)
                         \/ \E j \in Unseen(c, n) : i < j /\ c[j].id = c[i].id /\ ~c[j].notif

Links(o, q, k, c, n) ==
    /\ Places(o, q, k, c, n) /\ Known(o, q, k, c)
    /\ OnceInQueue(q, k, c, n) /\ OnceInKernel(k)
    /\ LastIsLast(o, k, c, n) /\ MoreFollows(o, k, c, n)

(* Held(id) of the module, for any places.                                  *)
HeldAt(q, k, c, n, id) ==
    \/ \E i \in 1..Len(q) : q[i].id = id
    \/ Main(k, id)
    \/ \E i \in Unseen(c, n) : c[i].id = id /\ ~c[i].notif

-----------------------------------------------------------------------------
(* io_uring_submit().                                                       *)
LEMMA FlushLinks ==
    ASSUME NEW o, NEW q, NEW k, NEW c, NEW n, Links(o, q, k, c, n)
    PROVE  /\ Links(o, <<>>, k \cup ToSet(q), c, n)
           /\ \A id : HeldAt(<<>>, k \cup ToSet(q), c, n, id) <=> HeldAt(q, k, c, n, id)
  <1>0. Places(o, q, k, c, n) /\ Known(o, q, k, c) /\ Len(<<>>) = 0 /\ <<>> \in Seq(OpSet)
    BY DEF Links
  <1>1. \A x : x \in ToSet(q) <=> \E i \in 1..Len(q) : x = q[i]
    BY <1>0 DEF ToSet, Places
  <1>2. PICK f : f = k \cup ToSet(q)
    OBVIOUS
  <1>3. \A x : x \in f <=> x \in k \/ \E i \in 1..Len(q) : x = q[i]
    BY <1>1, <1>2
  <1>4. \A i \in 1..Len(q) : /\ q[i] \in OpSet /\ q[i].id \in 1..Len(o) /\ q[i] = o[q[i].id]
                             /\ q[i].kind # "notify"
    BY <1>0, ElementOfSeq DEF Places, Known
  <1>5. Places(o, <<>>, f, c, n)
    BY <1>0, <1>3, <1>4 DEF Places
  <1>6. Known(o, <<>>, f, c)
    BY <1>0, <1>3, <1>4 DEF Known
  <1>7. OnceInQueue(<<>>, f, c, n)
    BY <1>0 DEF OnceInQueue
  <1>8. OnceInKernel(f)
    BY <1>3 DEF Links, OnceInKernel, OnceInQueue
  <1>9. \A id : Main(f, id) <=> Main(k, id) \/ \E i \in 1..Len(q) : q[i].id = id
    BY <1>3, <1>4 DEF Main
  <1>10. LastIsLast(o, f, c, n)
    BY <1>9 DEF Links, LastIsLast, OnceInQueue
  <1>11. MoreFollows(o, f, c, n)
    BY <1>9 DEF Links, MoreFollows
  <1>12. \A id : HeldAt(<<>>, f, c, n, id) <=> HeldAt(q, k, c, n, id)
    BY <1>0, <1>9 DEF HeldAt
  <1> QED
    BY <1>2, <1>5, <1>6, <1>7, <1>8, <1>10, <1>11, <1>12 DEF Links

(* A new operation in the queue.                                            *)
LEMMA PrepareLinks ==
    ASSUME NEW o, NEW q, NEW k, NEW c, NEW n, Links(o, q, k, c, n),
           NEW op \in OpSet, op.id = Len(o) + 1, op.kind # "notify",
           op.kind = "cancel" => op.arg < op.id
    PROVE  /\ Links(Append(o, op), Append(q, op), k, c, n)
           /\ \A id : HeldAt(Append(q, op), k, c, n, id) <=> (HeldAt(q, k, c, n, id) \/ id = op.id)
           /\ Len(Append(o, op)) = Len(o) + 1 /\ Append(o, op)[Len(o) + 1] = op
           /\ \A i \in 1..Len(o) : Append(o, op)[i] = o[i]
  <1>0. Places(o, q, k, c, n) /\ Known(o, q, k, c)
    BY DEF Links
  <1>1. PICK p : p = Append(o, op)
    OBVIOUS
  <1>2. PICK r : r = Append(q, op)
    OBVIOUS
  <1>3. /\ Len(o) \in Nat /\ p \in Seq(OpSet) /\ Len(p) = Len(o) + 1 /\ p[Len(o) + 1] = op
        /\ \A i \in 1..Len(o) : p[i] = o[i]
    BY <1>0, <1>1 DEF Places
  <1>4. /\ Len(q) \in Nat /\ r \in Seq(OpSet) /\ Len(r) = Len(q) + 1 /\ r[Len(q) + 1] = op
        /\ \A i \in 1..Len(q) : r[i] = q[i]
    BY <1>0, <1>2 DEF Places
  <1>5. Places(p, r, k, c, n)
    BY <1>0, <1>3, <1>4 DEF Places
  <1>6. \A i \in 1..Len(p) : i \in 1..Len(o) \/ i = Len(o) + 1
    BY <1>3
  <1>7. \A i \in 1..Len(r) : i \in 1..Len(q) \/ i = Len(q) + 1
    BY <1>4
  <1>8. 1..Len(o) \subseteq 1..Len(p) /\ op.id \in 1..Len(p) /\ op.id \notin 1..Len(o)
    BY <1>3
  <1>9. Known(p, r, k, c)
    <2>1. \A i \in 1..Len(p) : p[i].id = i /\ p[i].kind # "notify" /\ (p[i].kind = "cancel" => p[i].arg < i)
      BY <1>0, <1>3, <1>6 DEF Known
    <2>2. \A i \in 1..Len(r) : r[i].id \in 1..Len(p) /\ r[i] = p[r[i].id]
      <3> SUFFICES ASSUME NEW i \in 1..Len(r) PROVE r[i].id \in 1..Len(p) /\ r[i] = p[r[i].id]
        OBVIOUS
      <3>1. CASE i \in 1..Len(q)
        <4>1. r[i] = q[i] /\ q[i].id \in 1..Len(o) /\ q[i] = o[q[i].id]
          BY <1>0, <1>4, <3>1 DEF Known
        <4> QED
          BY <1>3, <1>8, <4>1
      <3>2. CASE i = Len(q) + 1
        BY <1>3, <1>4, <1>8, <3>2
      <3> QED
        BY <1>7, <3>1, <3>2
    <2>3. \A x \in k : /\ x.id \in 1..Len(p) /\ x.arg = p[x.id].arg
                       /\ x.kind # "notify" => x.kind = p[x.id].kind
                       /\ x.kind = "notify" => p[x.id].kind = "send_zc"
      BY <1>0, <1>3, <1>8 DEF Known
    <2>4. \A i \in 1..Len(c) : /\ c[i].id \in 1..Len(p)
                               /\ c[i].notif => ~c[i].more /\ p[c[i].id].kind = "send_zc"
      BY <1>0, <1>3, <1>8 DEF Known
    <2> QED
      BY <2>1, <2>2, <2>3, <2>4 DEF Known
  <1>10. \A i \in Unseen(c, n) : i \in 1..Len(c) /\ c[i].id \in 1..Len(o)
    BY <1>0 DEF Unseen, Known, Places
  <1>11. OnceInQueue(r, k, c, n)
    <2>1. ASSUME NEW i \in 1..Len(q)
          PROVE  /\ \A j \in 1..Len(r) : r[i].id = r[j].id => i = j
                 /\ \A x \in k : x.id # r[i].id
                 /\ \A j \in Unseen(c, n) : c[j].id # r[i].id
      <3>1. r[i] = q[i] /\ q[i].id \in 1..Len(o)
        BY <1>0, <1>4 DEF Known
      <3> QED
        BY <1>4, <1>7, <1>8, <3>1 DEF Links, OnceInQueue
    <2>2. ASSUME NEW i, i = Len(q) + 1
          PROVE  /\ \A j \in 1..Len(r) : r[i].id = r[j].id => i = j
                 /\ \A x \in k : x.id # r[i].id
                 /\ \A j \in Unseen(c, n) : c[j].id # r[i].id
      <3>1. r[i] = op
        BY <1>4, <2>2
      <3>2. \A j \in 1..Len(q) : r[j].id \in 1..Len(o)
        BY <1>0, <1>4 DEF Known
      <3> QED
        BY <1>0, <1>7, <1>8, <1>10, <2>2, <3>1, <3>2 DEF Known
    <2> QED
      BY <1>7, <2>1, <2>2 DEF OnceInQueue
  <1>12. \A i \in Unseen(c, n) : More(p, c[i]) <=> More(o, c[i])
    BY <1>3, <1>10 DEF More
  <1>13. LastIsLast(p, k, c, n)
    BY <1>12 DEF Links, LastIsLast
  <1>14. MoreFollows(p, k, c, n)
    BY <1>12 DEF Links, MoreFollows
  <1>15. \A id : HeldAt(r, k, c, n, id) <=> (HeldAt(q, k, c, n, id) \/ id = op.id)
    <2>1. \A id : (\E i \in 1..Len(r) : r[i].id = id) <=> ((\E i \in 1..Len(q) : q[i].id = id) \/ id = op.id)
      BY <1>4, <1>7
    <2> QED
      BY <2>1 DEF HeldAt
  <1> QED
    BY <1>1, <1>2, <1>3, <1>5, <1>9, <1>11, <1>13, <1>14, <1>15 DEF Links, OnceInKernel

(* The kernel posts the completion x of op, and has k2 afterwards.          *)
LEMMA PostLinks ==
    ASSUME NEW o, NEW q, NEW k, NEW c, NEW n, Links(o, q, k, c, n),
           NEW op \in k, NEW x \in CompletionSet, x.id = op.id, NEW k2,
           \A y \in k2 : y \in k \/ (y \in OpSet /\ y.id = op.id /\ y.kind = "notify"
                                       /\ y.arg = op.arg /\ op.kind = "send_zc"),
           OnceInKernel(k2),
           \A id : id # op.id => (Main(k2, id) <=> Main(k, id)),
           Main(k2, op.id) <=> More(o, x),
           Main(k, op.id) <=> ~x.notif,
           x.notif => ~x.more
    PROVE  /\ Links(o, q, k2, Append(c, x), n)
           /\ \A id : HeldAt(q, k2, Append(c, x), n, id) <=> HeldAt(q, k, c, n, id)
           /\ Len(Append(c, x)) = Len(c) + 1 /\ Append(c, x)[Len(c) + 1] = x
           /\ \A i \in 1..Len(c) : Append(c, x)[i] = c[i]
  <1>0. Places(o, q, k, c, n) /\ Known(o, q, k, c)
    BY DEF Links
  <1>1. PICK d : d = Append(c, x)
    OBVIOUS
  <1>2. /\ Len(c) \in Nat /\ d \in Seq(CompletionSet) /\ Len(d) = Len(c) + 1 /\ d[Len(c) + 1] = x
        /\ \A i \in 1..Len(c) : d[i] = c[i]
    BY <1>0, <1>1 DEF Places
  <1>3. PICK e : e = Len(c) + 1
    OBVIOUS
  <1>4. n \in Nat /\ n <= Len(c)
    BY <1>0, <1>2 DEF Places
  <1>5. /\ \A i : i \in Unseen(d, n) <=> (i \in Unseen(c, n) \/ i = e)
        /\ \A i \in Unseen(c, n) : d[i] = c[i] /\ i < e /\ i \in Nat /\ i \in 1..Len(c)
        /\ d[e] = x /\ e \in Nat
    BY <1>2, <1>3, <1>4 DEF Unseen
  <1>6. Places(o, q, k2, d, n)
    <2>1. k2 \subseteq OpSet
      BY <1>0 DEF Places
    <2>2. n \in 0..Len(d)
      BY <1>2, <1>4
    <2> QED
      BY <1>0, <1>2, <2>1, <2>2 DEF Places
  <1>7. op.id \in 1..Len(o)
    BY <1>0 DEF Known
  <1>8. Known(o, q, k2, d)
    <2>1. ASSUME NEW y \in k2
          PROVE  /\ y.id \in 1..Len(o) /\ y.arg = o[y.id].arg
                 /\ y.kind # "notify" => y.kind = o[y.id].kind
                 /\ y.kind = "notify" => o[y.id].kind = "send_zc"
      <3>1. CASE y \in k
        BY <1>0, <3>1 DEF Known
      <3>2. CASE y.id = op.id /\ y.kind = "notify" /\ y.arg = op.arg /\ op.kind = "send_zc"
        BY <1>0, <3>2 DEF Known
      <3> QED
        BY <3>1, <3>2
    <2>2. ASSUME NEW i \in 1..Len(d)
          PROVE  d[i].id \in 1..Len(o) /\ (d[i].notif => ~d[i].more /\ o[d[i].id].kind = "send_zc")
      <3>1. CASE i \in 1..Len(c)
        BY <1>0, <1>2, <3>1 DEF Known
      <3>2. CASE i = e
        <4>1. x.notif => op.kind = "notify"
          BY DEF Main
        <4>2. x.notif => o[x.id].kind = "send_zc"
          BY <1>0, <4>1 DEF Known
        <4> QED
          BY <1>5, <1>7, <3>2, <4>2
      <3> QED
        BY <1>2, <1>3, <3>1, <3>2
    <2> QED
      BY <1>0, <2>1, <2>2 DEF Known
  <1>9. OnceInQueue(q, k2, d, n)
    BY <1>5 DEF Links, OnceInQueue
  <1>10. LastIsLast(o, k2, d, n)
    <2> SUFFICES ASSUME NEW i \in Unseen(d, n)
                 PROVE  /\ \A j \in Unseen(d, n) : i < j /\ d[i].id = d[j].id /\ ~d[j].notif => More(o, d[i])
                        /\ Main(k2, d[i].id) => More(o, d[i])
      BY DEF LastIsLast
    <2>1. CASE i \in Unseen(c, n)
      <3>1. d[i] = c[i] /\ (Main(k, c[i].id) => More(o, c[i]))
        BY <1>5, <2>1 DEF Links, LastIsLast
      <3>2. ASSUME NEW j \in Unseen(c, n), i < j, d[i].id = d[j].id, ~d[j].notif PROVE More(o, d[i])
        BY <1>5, <2>1, <3>2 DEF Links, LastIsLast
      <3>3. ASSUME d[i].id = x.id, ~x.notif PROVE More(o, d[i])
        BY <3>1, <3>3
      <3>4. ASSUME Main(k2, d[i].id) PROVE More(o, d[i])
        <4>1. CASE d[i].id = op.id
          <5>1. More(o, x)
            BY <3>4, <4>1
          <5>2. ~x.notif
            BY <5>1 DEF More
          <5> QED
            BY <3>1, <4>1, <5>2
        <4>2. CASE d[i].id # op.id
          BY <3>1, <3>4, <4>2
        <4> QED
          BY <4>1, <4>2
      <3> QED
        BY <1>5, <3>2, <3>3, <3>4
    <2>2. CASE i = e
      <3>1. \A j \in Unseen(d, n) : ~(i < j)
        <4> SUFFICES ASSUME NEW j \in Unseen(d, n) PROVE ~(i < j)
          OBVIOUS
        <4>1. CASE j \in Unseen(c, n)
          BY <1>5, <2>2, <4>1
        <4>2. CASE j = e
          BY <1>5, <2>2, <4>2
        <4> QED
          BY <1>5, <4>1, <4>2
      <3> QED
        BY <1>5, <2>2, <3>1
    <2> QED
      BY <1>5, <2>1, <2>2
  <1>11. MoreFollows(o, k2, d, n)
    <2> SUFFICES ASSUME NEW i \in Unseen(d, n), More(o, d[i])
                 PROVE  \/ Main(k2, d[i].id)
                        \/ \E j \in Unseen(d, n) : i < j /\ d[j].id = d[i].id /\ ~d[j].notif
      BY DEF MoreFollows
    <2>1. CASE i \in Unseen(c, n)
      <3>1. \/ Main(k, c[i].id)
            \/ \E j \in Unseen(c, n) : i < j /\ c[j].id = c[i].id /\ ~c[j].notif
        BY <1>5, <2>1 DEF Links, MoreFollows
      <3>2. CASE Main(k, c[i].id) /\ c[i].id = op.id
        BY <1>5, <2>1, <3>2
      <3>3. CASE Main(k, c[i].id) /\ c[i].id # op.id
        BY <1>5, <2>1, <3>3
      <3> QED
        BY <1>5, <2>1, <3>1, <3>2, <3>3
    <2>2. CASE i = e
      BY <1>5, <2>2
    <2> QED
      BY <1>5, <2>1, <2>2
  <1>12. ASSUME NEW id PROVE HeldAt(q, k2, d, n, id) <=> HeldAt(q, k, c, n, id)
    <2>1. (\E i \in Unseen(d, n) : d[i].id = id /\ ~d[i].notif) <=>
             (\E i \in Unseen(c, n) : c[i].id = id /\ ~c[i].notif) \/ (x.id = id /\ ~x.notif)
      BY <1>5
    <2>2. CASE id # op.id
      BY <2>1, <2>2 DEF HeldAt
    <2>3. CASE id = op.id
      <3>1. Main(k2, id) => ~x.notif
        BY <2>3 DEF More
      <3> QED
        BY <2>1, <2>3, <3>1 DEF HeldAt
    <2> QED
      BY <2>2, <2>3
  <1> QED
    BY <1>1, <1>2, <1>6, <1>8, <1>9, <1>10, <1>11, <1>12 DEF Links

(* What a completion x leaves as it was, where the kernel then has k2.      *)
Posted(o, q, k, c, n, k2, x) ==
    /\ Links(o, q, k2, Append(c, x), n)
    /\ \A id : HeldAt(q, k2, Append(c, x), n, id) <=> HeldAt(q, k, c, n, id)
    /\ Len(Append(c, x)) = Len(c) + 1 /\ Append(c, x)[Len(c) + 1] = x
    /\ \A i \in 1..Len(c) : Append(c, x)[i] = c[i]

(* The operation ends with x.                                               *)
LEMMA EndLinks ==
    ASSUME NEW o, NEW q, NEW k, NEW c, NEW n, Links(o, q, k, c, n),
           NEW op \in k, NEW x \in CompletionSet, x.id = op.id, ~x.more,
           \/ x.notif /\ op.kind = "notify"
           \/ ~x.notif /\ op.kind # "notify",
           NEW k2, \A y : y \in k2 <=> (y \in k /\ y # op)
    PROVE  Posted(o, q, k, c, n, k2, x)
  <1>1. \A y \in k : y.id = op.id => y.kind = op.kind
    BY DEF Links, OnceInKernel
  <1>2. \A y \in k : y.id = op.id => y = op
    <2> SUFFICES ASSUME NEW y \in k, y.id = op.id PROVE y = op
      OBVIOUS
    <2>1. y.kind = op.kind /\ y.arg = op.arg /\ y \in OpSet /\ op \in OpSet
      BY <1>1 DEF Links, Known, Places
    <2> QED
      BY <2>1 DEF OpSet
  <1>3. \A id : id # op.id => (Main(k2, id) <=> Main(k, id))
    BY DEF Main
  <1>4. ~Main(k2, op.id) /\ ~More(o, x)
    BY <1>2 DEF Main, More
  <1>5. Main(k, op.id) <=> ~x.notif
    BY <1>2 DEF Main
  <1>6. OnceInKernel(k2) /\ \A y \in k2 : y \in k
    BY DEF Links, OnceInKernel
  <1>7. (Main(k2, op.id) <=> More(o, x)) /\ (x.notif => ~x.more)
    BY <1>4
  <1>8. /\ Links(o, q, k2, Append(c, x), n)
        /\ \A id : HeldAt(q, k2, Append(c, x), n, id) <=> HeldAt(q, k, c, n, id)
        /\ Len(Append(c, x)) = Len(c) + 1 /\ Append(c, x)[Len(c) + 1] = x
        /\ \A i \in 1..Len(c) : Append(c, x)[i] = c[i]
    BY <1>3, <1>5, <1>6, <1>7, PostLinks
  <1> QED
    BY <1>8 DEF Posted

(* A result of a multishot operation, or the first of a zero-copy send.     *)
LEMMA ShotLinks ==
    ASSUME NEW o, NEW q, NEW k, NEW c, NEW n, Links(o, q, k, c, n),
           NEW op \in k, NEW x \in CompletionSet, x.id = op.id, x.more, ~x.notif,
           NEW z \in OpSet, z.id = op.id, z.arg = op.arg, z.kind = "notify",
           NEW k2, \/ op.kind = "accept" /\ k2 = k
                   \/ op.kind = "send_zc" /\ \A y : y \in k2 <=> ((y \in k /\ y # op) \/ y = z)
    PROVE  Posted(o, q, k, c, n, k2, x)
  <1>1. \A y \in k : y.id = op.id => y.kind = op.kind
    BY DEF Links, OnceInKernel
  <1>2. \A y \in k : y.id = op.id => y = op
    <2> SUFFICES ASSUME NEW y \in k, y.id = op.id PROVE y = op
      OBVIOUS
    <2>1. y.kind = op.kind /\ y.arg = op.arg /\ y \in OpSet /\ op \in OpSet
      BY <1>1 DEF Links, Known, Places
    <2> QED
      BY <2>1 DEF OpSet
  <1>3. op.kind = o[op.id].kind /\ Main(k, op.id) /\ op \in OpSet
    BY DEF Links, Known, Main, Places
  <1>4. CASE op.kind = "accept" /\ k2 = k
    <2>1. More(o, x)
      BY <1>3, <1>4 DEF More
    <2> QED
      BY <1>3, <1>4, <2>1, PostLinks DEF Links, Posted
  <1>5. CASE op.kind = "send_zc" /\ \A y : y \in k2 <=> ((y \in k /\ y # op) \/ y = z)
    <2>3. \A y : y \in k2 <=> ((y \in k /\ y.id # op.id) \/ y = z)
      BY <1>2, <1>5
    <2>4. ~More(o, x) /\ ~Main(k2, op.id)
      BY <1>3, <1>5, <2>3 DEF More, Main
    <2>5. \A id : id # op.id => (Main(k2, id) <=> Main(k, id))
      BY <2>3 DEF Main
    <2>6. OnceInKernel(k2)
      BY <2>3 DEF Links, OnceInKernel
    <2>7. \A y \in k2 : y \in k \/ (y \in OpSet /\ y.id = op.id /\ y.kind = "notify"
                                      /\ y.arg = op.arg /\ op.kind = "send_zc")
      BY <1>5, <2>3
    <2> QED
      BY <1>3, <2>4, <2>5, <2>6, <2>7, PostLinks DEF Posted
  <1> QED
    BY <1>4, <1>5

(* One more completion is gone through.                                     *)
LEMMA PassLinks ==
    ASSUME NEW o, NEW q, NEW k, NEW c, NEW n, Links(o, q, k, c, n), n < Len(c)
    PROVE  /\ Links(o, q, k, c, n + 1)
           /\ \A id : HeldAt(q, k, c, n + 1, id) <=> (HeldAt(q, k, c, n, id) /\
                        (id # c[n + 1].id \/ c[n + 1].notif \/ More(o, c[n + 1])))
  <1>0. Places(o, q, k, c, n) /\ n \in Nat /\ Len(c) \in Nat
    BY DEF Links, Places
  <1>1. PICK m : m = n + 1
    OBVIOUS
  <1>2. \A i : i \in Unseen(c, n) <=> (i \in Unseen(c, m) \/ i = m)
    BY <1>0, <1>1 DEF Unseen
  <1>3. \A i \in Unseen(c, m) : m < i /\ i \in Nat
    BY <1>0, <1>1 DEF Unseen
  <1>4. m \in 0..Len(c) /\ m \in Nat
    BY <1>0, <1>1
  <1>5. Places(o, q, k, c, m) /\ Known(o, q, k, c) /\ OnceInKernel(k)
    BY <1>4 DEF Links, Places
  <1>6. OnceInQueue(q, k, c, m) /\ LastIsLast(o, k, c, m)
    BY <1>2 DEF Links, OnceInQueue, LastIsLast
  <1>7. MoreFollows(o, k, c, m)
    <2> SUFFICES ASSUME NEW i \in Unseen(c, m), More(o, c[i]), ~Main(k, c[i].id)
                 PROVE  \E j \in Unseen(c, m) : i < j /\ c[j].id = c[i].id /\ ~c[j].notif
      BY DEF MoreFollows
    <2>1. PICK j \in Unseen(c, n) : i < j /\ c[j].id = c[i].id /\ ~c[j].notif
      BY <1>2 DEF Links, MoreFollows
    <2>2. j # m
      BY <1>3, <1>4, <2>1
    <2> QED
      BY <1>2, <2>1, <2>2
  <1>8. ASSUME NEW id
        PROVE  HeldAt(q, k, c, m, id) <=> (HeldAt(q, k, c, n, id) /\
                        (id # c[m].id \/ c[m].notif \/ More(o, c[m])))
    <2>1. CASE id # c[m].id \/ c[m].notif
      BY <1>2, <2>1 DEF HeldAt
    <2>2. CASE id = c[m].id /\ ~c[m].notif
      <3>1. HeldAt(q, k, c, n, id)
        BY <1>2, <2>2 DEF HeldAt
      <3>2. CASE More(o, c[m])
        <4>1. \/ Main(k, c[m].id)
              \/ \E j \in Unseen(c, n) : m < j /\ c[j].id = c[m].id /\ ~c[j].notif
          BY <1>2, <3>2 DEF Links, MoreFollows
        <4>2. ASSUME NEW j \in Unseen(c, n), m < j PROVE j \in Unseen(c, m)
          BY <1>2, <1>4, <4>2
        <4>3. HeldAt(q, k, c, m, id)
          BY <2>2, <4>1, <4>2 DEF HeldAt
        <4> QED
          BY <3>1, <3>2, <4>3
      <3>3. CASE ~More(o, c[m])
        <4>1. ~Main(k, id)
          BY <1>2, <2>2, <3>3 DEF Links, LastIsLast
        <4>2. \A j \in Unseen(c, m) : ~(c[j].id = id /\ ~c[j].notif)
          BY <1>2, <1>3, <2>2, <3>3 DEF Links, LastIsLast
        <4>3. \A i \in 1..Len(q) : q[i].id # id
          BY <1>2, <2>2 DEF Links, OnceInQueue
        <4> QED
          BY <2>2, <3>3, <4>1, <4>2, <4>3 DEF HeldAt
      <3> QED
        BY <3>2, <3>3
    <2> QED
      BY <2>1, <2>2
  <1> QED
    BY <1>1, <1>5, <1>6, <1>7, <1>8 DEF Links

(* d is c without the n completions gone through.                           *)
Shifted(o, q, k, c, n, d) ==
    /\ Links(o, q, k, d, 0)
    /\ \A id : HeldAt(q, k, d, 0, id) <=> HeldAt(q, k, c, n, id)
    /\ \A i : i \in Unseen(d, 0) => i + n \in Unseen(c, n) /\ d[i] = c[i + n]
    /\ \A j \in Unseen(c, n) : j - n \in Unseen(d, 0)

(* io_uring_cq_advance().                                                   *)
LEMMA AdvanceLinks ==
    ASSUME NEW o, NEW q, NEW k, NEW c, NEW n, Links(o, q, k, c, n),
           NEW d, d = SubSeq(c, n + 1, Len(c))
    PROVE  Shifted(o, q, k, c, n, d)
  <1>0. Places(o, q, k, c, n) /\ n \in Nat /\ Len(c) \in Nat /\ n <= Len(c) /\ c \in Seq(CompletionSet)
    BY DEF Links, Places
  <1>1. \A i \in (n + 1)..Len(c) : c[i] \in CompletionSet
    BY <1>0, ElementOfSeq
  <1>2. /\ d \in Seq(CompletionSet)
        /\ Len(d) = IF n + 1 <= Len(c) THEN Len(c) - (n + 1) + 1 ELSE 0
        /\ \A i \in 1..(Len(c) - (n + 1) + 1) : d[i] = c[(n + 1) + i - 1]
    BY <1>0, <1>1, SubSeqProperties
  <1>3. Len(d) = Len(c) - n /\ \A i \in 1..Len(d) : d[i] = c[i + n]
    <2>1. Len(d) = Len(c) - n /\ Len(c) - (n + 1) + 1 = Len(c) - n
      BY <1>0, <1>2
    <2>2. \A i \in 1..(Len(c) - n) : (n + 1) + i - 1 = i + n
      BY <1>0
    <2> QED
      BY <1>2, <2>1, <2>2
  <1>4. \A i : i \in Unseen(d, 0) => i + n \in Unseen(c, n) /\ d[i] = c[i + n] /\ i \in Nat
    BY <1>0, <1>3 DEF Unseen
  <1>5. \A j \in Unseen(c, n) : j - n \in Unseen(d, 0) /\ d[j - n] = c[j] /\ j \in Nat
    <2> SUFFICES ASSUME NEW j \in Unseen(c, n) PROVE j - n \in Unseen(d, 0) /\ d[j - n] = c[j] /\ j \in Nat
      OBVIOUS
    <2>1. j \in Nat /\ j - n \in Unseen(d, 0) /\ (j - n) + n = j
      BY <1>0, <1>3 DEF Unseen
    <2> QED
      BY <1>4, <2>1
  <1>6. Places(o, q, k, d, 0)
    BY <1>0, <1>2 DEF Places
  <1>7. Known(o, q, k, d)
    <2>1. \A i \in 1..Len(d) : i + n \in 1..Len(c) /\ d[i] = c[i + n]
      BY <1>0, <1>3
    <2>2. ASSUME NEW i \in 1..Len(d)
          PROVE  d[i].id \in 1..Len(o) /\ (d[i].notif => ~d[i].more /\ o[d[i].id].kind = "send_zc")
      <3>1. PICK a \in 1..Len(c) : d[i] = c[a]
        BY <2>1
      <3> QED
        BY <3>1 DEF Links, Known
    <2> QED
      BY <2>2 DEF Links, Known
  <1>8. OnceInQueue(q, k, d, 0)
    <2>1. ASSUME NEW i \in 1..Len(q), NEW j \in Unseen(d, 0) PROVE d[j].id # q[i].id
      <3>1. PICK a \in Unseen(c, n) : d[j] = c[a]
        BY <1>4
      <3> QED
        BY <3>1 DEF Links, OnceInQueue
    <2>2. \A i \in 1..Len(q) : /\ \A j \in 1..Len(q) : q[i].id = q[j].id => i = j
                               /\ \A op \in k : op.id # q[i].id
      BY DEF Links, OnceInQueue
    <2> QED
      BY <2>1, <2>2 DEF OnceInQueue
  <1>9. LastIsLast(o, k, d, 0)
    <2> SUFFICES ASSUME NEW i \in Unseen(d, 0)
                 PROVE  /\ \A j \in Unseen(d, 0) : i < j /\ d[i].id = d[j].id /\ ~d[j].notif => More(o, d[i])
                        /\ Main(k, d[i].id) => More(o, d[i])
      BY DEF LastIsLast
    <2>1. PICK a \in Unseen(c, n) : a = i + n /\ d[i] = c[a]
      BY <1>4
    <2>2. ASSUME NEW j \in Unseen(d, 0), i < j, d[i].id = d[j].id, ~d[j].notif PROVE More(o, d[i])
      <3>1. PICK b \in Unseen(c, n) : b = j + n /\ d[j] = c[b]
        BY <1>4
      <3>2. a < b
        BY <1>0, <1>4, <2>1, <2>2, <3>1
      <3> QED
        BY <2>1, <2>2, <3>1, <3>2 DEF Links, LastIsLast
    <2>3. Main(k, d[i].id) => More(o, d[i])
      BY <2>1 DEF Links, LastIsLast
    <2> QED
      BY <2>2, <2>3
  <1>10. MoreFollows(o, k, d, 0)
    <2> SUFFICES ASSUME NEW i \in Unseen(d, 0), More(o, d[i]), ~Main(k, d[i].id)
                 PROVE  \E j \in Unseen(d, 0) : i < j /\ d[j].id = d[i].id /\ ~d[j].notif
      BY DEF MoreFollows
    <2>1. PICK a \in Unseen(c, n) : a = i + n /\ d[i] = c[a]
      BY <1>4
    <2>2. PICK b \in Unseen(c, n) : a < b /\ c[b].id = c[a].id /\ ~c[b].notif
      BY <2>1 DEF Links, MoreFollows
    <2>3. PICK j \in Unseen(d, 0) : j = b - n /\ d[j] = c[b]
      BY <1>5
    <2>4. i < j
      BY <1>0, <1>4, <1>5, <2>1, <2>2, <2>3
    <2> QED
      BY <2>1, <2>2, <2>3, <2>4
  <1>11. \A id : HeldAt(q, k, d, 0, id) <=> HeldAt(q, k, c, n, id)
    <2>1. \A id : (\E i \in Unseen(d, 0) : d[i].id = id /\ ~d[i].notif) <=>
                  (\E i \in Unseen(c, n) : c[i].id = id /\ ~c[i].notif)
      <3> TAKE id
      <3>1. ASSUME NEW i \in Unseen(d, 0), d[i].id = id, ~d[i].notif
            PROVE  \E j \in Unseen(c, n) : c[j].id = id /\ ~c[j].notif
        BY <1>4, <3>1
      <3>2. ASSUME NEW j \in Unseen(c, n), c[j].id = id, ~c[j].notif
            PROVE  \E i \in Unseen(d, 0) : d[i].id = id /\ ~d[i].notif
        BY <1>5, <3>2
      <3> QED
        BY <3>1, <3>2
    <2> QED
      BY <2>1 DEF HeldAt
  <1> QED
    BY <1>4, <1>5, <1>6, <1>7, <1>8, <1>9, <1>10, <1>11 DEF Links, Shifted

-----------------------------------------------------------------------------
(* The invariant of the loop, without the buffers.                          *)
LoopPoints == {"outside", "register", "submit", "wait", "process", "callback", "advance"}
PoolSet == [kernel : SUBSET Buffers, callers : SUBSET Buffers, lost : SUBSET Buffers,
            registered : BOOLEAN]
HeldNow(id) == HeldAt(sq, inflight, cq, seen, id)

Counts ==
    /\ Len(sq) <= Depth /\ lpc \in LoopPoints
    /\ next_id_ = Len(ops) + 1 /\ Len(ops) <= MaxOps
    /\ pending_ \subseteq 1..Len(ops) /\ pending_ops_ = Cardinality(pending_)
    /\ total_submissions_ = Cardinality({id \in 1..Len(ops) : ops[id].kind # "provide"})
    /\ calls \in [1..MaxOps -> Nat] /\ total_completions_ \in Nat
    /\ IsFiniteSet(CallsMade)
    /\ total_completions_ + (IF lpc = "callback" THEN 1 ELSE 0) = Cardinality(CallsMade)

TheFirst == Op(1, "provide", 0)

(* register_buffer_pool() was called and has returned, with or without a    *)
(* pool.                                                                    *)
Registered == Len(ops) >= 1 /\ ops[1].kind = "provide" /\ lpc # "register"

(* While register_buffer_pool() waits there is nothing but its operation,   *)
(* and afterwards that one is no more.                                      *)
Registration ==
    /\ pool \in PoolSet
    /\ Len(ops) = 0 => pool.callers = {} /\ pool.lost = {} /\ pool.registered = FALSE
    /\ pool.registered => Registered
    /\ Registered => ~HeldNow(1)
    /\ lpc = "register" =>
          /\ ops = <<TheFirst>> /\ sq = <<>> /\ seen = 0
          /\ pool.callers = {} /\ pool.lost = {} /\ pool.registered = FALSE
          /\ \/ inflight = {TheFirst} /\ cq = <<>>
             \/ inflight = {} /\ Len(cq) = 1

(* Only the registration gives the kernel the whole pool.                   *)
Provides ==
    \A i \in 1..Len(ops) : ops[i].kind = "provide" =>
        IF i = 1 THEN ops[i].arg = 0 ELSE ops[i].arg \in Buffers

Pending ==
    \A id \in 1..Len(ops) : id \in pending_ <=> (HeldNow(id) \/ (id = 1 /\ Registered))

(* An operation that is not multishot is called back once: not before its   *)
(* completion is the current one, and not after.                            *)
Callbacks ==
    /\ \A id \in 1..Len(ops) :
          /\ calls[id] = 0 => id \in pending_
          /\ ops[id].kind # "accept" =>
                /\ calls[id] <= 1
                /\ HeldNow(id) /\ ~(lpc = "callback" /\ cq[seen + 1].id = id) => calls[id] = 0
    /\ \A id \in 1..MaxOps : id > Len(ops) => calls[id] = 0
    /\ lpc = "callback" => /\ seen < Len(cq) /\ ~cq[seen + 1].notif
                           /\ cq[seen + 1].id \in pending_ /\ calls[cq[seen + 1].id] >= 1

LoopInv ==
    Links(ops, sq, inflight, cq, seen) /\ Counts /\ Registration /\ Provides /\ Pending /\ Callbacks

-----------------------------------------------------------------------------
(* What the constants are.                                                  *)
LEMMA Numbers ==
    /\ Depth \in Nat /\ Depth > 0 /\ MaxOps \in Nat /\ MaxOps > 0
    /\ Buffers \subseteq Nat /\ 0 \notin Buffers /\ NoBuffer \notin Buffers
  BY LoopAssumption

(* Cardinality of sets of ids.                                              *)
LEMMA IdSets ==
    ASSUME NEW m \in Nat, NEW S, S \subseteq 1..m
    PROVE  IsFiniteSet(S) /\ Cardinality(S) \in Nat
  <1>1. IsFiniteSet(1..m)
    BY FS_Interval
  <1> QED
    BY <1>1, FS_Subset, FS_CardinalityType

(* Steps that leave all that the invariant speaks of but a caller's buffers. *)
LEMMA LoopUnchanged ==
    ASSUME LoopInv,
           UNCHANGED <<sq, inflight, cq, seen, pending_, pending_ops_, next_id_, total_submissions_,
                       total_completions_, lpc, ops, calls>>,
           pool' \in PoolSet, pool'.registered = pool.registered,
           pool' = pool \/ (Len(ops) # 0 /\ lpc # "register")
    PROVE  LoopInv'
  <1>1. UNCHANGED <<sq, inflight, cq, seen, pending_, pending_ops_, next_id_, total_submissions_,
                    total_completions_, lpc, ops, calls>>
    OBVIOUS
  <1>2. Links(ops, sq, inflight, cq, seen)' /\ \A id : HeldNow(id)' <=> HeldNow(id)
    BY <1>1 DEF LoopInv, HeldNow
  <1>3. CallsMade' = CallsMade
    BY <1>1 DEF CallsMade
  <1>4. Counts'
    BY <1>1, <1>3 DEF LoopInv, Counts
  <1>5. Registration'
    BY <1>1, <1>2 DEF LoopInv, Registration, Registered
  <1>6. Pending' /\ Provides'
    BY <1>1, <1>2 DEF LoopInv, Pending, Provides, Registered
  <1>7. Callbacks'
    BY <1>1, <1>2 DEF LoopInv, Callbacks
  <1> QED
    BY <1>2, <1>4, <1>5, <1>6, <1>7 DEF LoopInv

(* A step of the loop that moves operations or completions, none is lost.   *)
LEMMA QuietLoop ==
    ASSUME LoopInv, Links(ops, sq, inflight, cq, seen)', \A id : HeldNow(id)' <=> HeldNow(id),
           Len(sq') <= Depth, UNCHANGED <<loopVars, pool, ops, calls>>,
           lpc \notin {"callback", "register"}, lpc' \in LoopPoints \ {"callback", "register"}
    PROVE  LoopInv'
  <1>1. UNCHANGED <<pending_, pending_ops_, next_id_, total_submissions_, total_completions_,
                    pool, ops, calls>>
    BY DEF loopVars
  <1>3. CallsMade' = CallsMade
    BY <1>1 DEF CallsMade
  <1>4. Counts'
    BY <1>1, <1>3 DEF LoopInv, Counts
  <1>5. Registration'
    BY <1>1 DEF LoopInv, Registration, Registered
  <1>6. Pending' /\ Provides'
    BY <1>1 DEF LoopInv, Pending, Provides, Registered
  <1>7. Callbacks'
    BY <1>1 DEF LoopInv, Callbacks
  <1> QED
    BY <1>4, <1>5, <1>6, <1>7 DEF LoopInv

(* The kernel posts completions.                                            *)
LEMMA KernelLoop ==
    ASSUME LoopInv, Links(ops, sq, inflight, cq, seen)', \A id : HeldNow(id)' <=> HeldNow(id),
           Len(cq') >= Len(cq), \A i \in 1..Len(cq) : cq'[i] = cq[i],
           KernelUnchanged, pool' \in PoolSet, pool'.registered = pool.registered,
           pool'.callers = pool.callers, pool'.lost = pool.lost,
           lpc = "register" => inflight' = {} /\ Len(cq') = 1
    PROVE  LoopInv'
  <1>1. UNCHANGED <<sq, seen, pending_, pending_ops_, next_id_, total_submissions_, total_completions_,
                    lpc, ops, calls>>
    BY DEF KernelUnchanged, loopVars
  <1>2. seen \in Nat /\ Len(cq) \in Nat /\ Len(cq') \in Nat
    BY DEF LoopInv, Links, Places
  <1>3. CallsMade' = CallsMade
    BY <1>1 DEF CallsMade
  <1>4. Counts'
    BY <1>1, <1>3 DEF LoopInv, Counts
  <1>5. Registration'
    BY <1>1 DEF LoopInv, Registration, Registered
  <1>6. Pending' /\ Provides'
    BY <1>1 DEF LoopInv, Pending, Provides, Registered
  <1>7. lpc = "callback" => seen < Len(cq) /\ seen < Len(cq') /\ cq'[seen + 1] = cq[seen + 1]
    BY <1>2 DEF LoopInv, Callbacks
  <1>8. Callbacks'
    <2>1. ASSUME NEW id \in 1..Len(ops)
          PROVE  /\ calls[id] = 0 => id \in pending_
                 /\ ops[id].kind # "accept" =>
                      /\ calls[id] <= 1
                      /\ HeldNow(id)' /\ ~(lpc = "callback" /\ cq'[seen + 1].id = id) => calls[id] = 0
      BY <1>7 DEF LoopInv, Callbacks
    <2>2. /\ \A id \in 1..MaxOps : id > Len(ops) => calls[id] = 0
          /\ lpc = "callback" => /\ seen < Len(cq') /\ ~cq'[seen + 1].notif
                                 /\ cq'[seen + 1].id \in pending_ /\ calls[cq'[seen + 1].id] >= 1
      BY <1>7 DEF LoopInv, Callbacks
    <2> QED
      BY <1>1, <2>1, <2>2 DEF Callbacks
  <1> QED
    BY <1>4, <1>5, <1>6, <1>8 DEF LoopInv

(* An operation is prepared, by a caller's thread in its turn.              *)
LEMMA PrepareLoop ==
    ASSUME LoopInv, NEW kind \in AllKinds, NEW arg \in Nat, Remember(kind, arg), CallersTurn,
           kind = "cancel" => arg < next_id_, kind = "provide" => next_id_ # 1 /\ arg \in Buffers,
           NEW Q, NEW K, Links(ops, Q, K, cq, seen),
           \A id : HeldAt(Q, K, cq, seen, id) <=> HeldNow(id),
           sq' = Append(Q, Op(next_id_, kind, arg)), inflight' = K, Len(Q) < Depth,
           UNCHANGED <<cq, seen, total_completions_, lpc, calls>>,
           pool' \in PoolSet, pool'.registered = pool.registered,
           total_submissions_' = IF kind = "provide" THEN total_submissions_ ELSE total_submissions_ + 1
    PROVE  LoopInv'
  <1>1. PICK op : op = Op(next_id_, kind, arg)
    OBVIOUS
  <1>2. PICK p : p = Len(ops) + 1
    OBVIOUS
  <1>3. /\ Len(ops) \in Nat /\ next_id_ = p /\ p \in Nat /\ Q \in Seq(OpSet) /\ seen \in Nat
        /\ p <= MaxOps /\ MaxOps \in Nat /\ Len(Q) \in Nat /\ ops \in Seq(OpSet)
    <2>1. ops \in Seq(OpSet) /\ seen \in 0..Len(cq) /\ cq \in Seq(CompletionSet) /\ Q \in Seq(OpSet)
      BY DEF Links, Places
    <2>2. next_id_ = Len(ops) + 1 /\ next_id_ <= MaxOps
      BY DEF LoopInv, Counts, Remember
    <2>3. Len(ops) \in Nat /\ Len(cq) \in Nat /\ Len(Q) \in Nat
      BY <2>1
    <2> QED
      BY <1>2, <2>1, <2>2, <2>3, Numbers
  <1>4. op \in OpSet /\ op.id = Len(ops) + 1 /\ op.kind = kind /\ op.arg = arg
    BY <1>1, <1>2, <1>3 DEF Op, OpSet
  <1>5. op.kind # "notify" /\ (op.kind = "cancel" => op.arg < op.id)
    BY <1>2, <1>3, <1>4 DEF AllKinds
  <1>6. /\ Links(Append(ops, op), Append(Q, op), K, cq, seen)
        /\ \A id : HeldAt(Append(Q, op), K, cq, seen, id) <=> (HeldNow(id) \/ id = op.id)
        /\ Len(Append(ops, op)) = Len(ops) + 1 /\ Append(ops, op)[Len(ops) + 1] = op
        /\ \A i \in 1..Len(ops) : Append(ops, op)[i] = ops[i]
    BY <1>4, <1>5, PrepareLinks
  <1>7. ops' = Append(ops, op) /\ sq' = Append(Q, op)
    BY <1>1 DEF Remember
  <1>8. /\ Links(ops, sq, inflight, cq, seen)'
        /\ \A id : HeldNow(id)' <=> (HeldNow(id) \/ id = p)
        /\ Len(ops') = p /\ ops'[p] = op /\ \A i \in 1..Len(ops) : ops'[i] = ops[i]
    BY <1>2, <1>4, <1>6, <1>7 DEF HeldNow
  <1>9. /\ pending_' = pending_ \cup {p} /\ pending_ops_' = pending_ops_ + 1 /\ next_id_' = p + 1
        /\ lpc \in {"outside", "callback"} /\ p \notin 1..Len(ops)
    BY <1>2, <1>3 DEF Remember, CallersTurn
  <1>10. \A i : i \in 1..p <=> (i \in 1..Len(ops) \/ i = p)
    BY <1>2, <1>3
  <1>11. Counts'
    <2>1. Len(sq') <= Depth
      BY <1>3, <1>4, <1>7, Numbers
    <2>2. pending_' \subseteq 1..p /\ pending_ops_' = Cardinality(pending_')
      <3>1. pending_ \subseteq 1..Len(ops) /\ pending_ops_ = Cardinality(pending_)
        BY DEF LoopInv, Counts
      <3>2. IsFiniteSet(pending_) /\ p \notin pending_
        BY <1>3, <1>9, <3>1, IdSets
      <3> QED
        BY <1>9, <1>10, <3>1, <3>2, FS_AddElement
    <2>3. total_submissions_' = Cardinality({id \in 1..p : ops'[id].kind # "provide"})
      <3> DEFINE S == {id \in 1..Len(ops) : ops[id].kind # "provide"}
      <3>1. IsFiniteSet(S) /\ p \notin S /\ total_submissions_ = Cardinality(S)
        BY <1>3, <1>9, IdSets DEF LoopInv, Counts
      <3>2. CASE kind = "provide"
        <4>1. {id \in 1..p : ops'[id].kind # "provide"} = S
          BY <1>4, <1>8, <1>10, <3>2
        <4> QED
          BY <3>1, <3>2, <4>1
      <3>3. CASE kind # "provide"
        <4>1. {id \in 1..p : ops'[id].kind # "provide"} = S \cup {p}
          BY <1>4, <1>8, <1>10, <3>3
        <4>2. Cardinality(S \cup {p}) = Cardinality(S) + 1
          <5> HIDE DEF S
          <5> QED
            BY <3>1, FS_AddElement
        <4> QED
          BY <3>1, <3>3, <4>1, <4>2
      <3> QED
        BY <3>2, <3>3
    <2>4. CallsMade' = CallsMade
      BY DEF CallsMade
    <2> QED
      BY <1>3, <1>8, <1>9, <2>1, <2>2, <2>3, <2>4 DEF LoopInv, Counts
  <1>17. /\ Registered' <=> Registered
         /\ Registered => p # 1
    <2>1. lpc' = lpc /\ lpc # "register" /\ Len(ops') = p
      BY <1>8, <1>9
    <2>2. CASE p = 1
      <3>1. ~(Len(ops) >= 1) /\ ops'[1].kind # "provide"
        BY <1>2, <1>3, <1>4, <1>8, <2>2
      <3> QED
        BY <3>1 DEF Registered
    <2>3. CASE p # 1
      <3>1. Len(ops) >= 1 /\ p >= 1 /\ ops'[1] = ops[1]
        <4>1. 1 \in 1..Len(ops)
          BY <1>2, <1>3, <2>3
        <4> QED
          BY <1>2, <1>3, <1>8, <4>1
      <3> QED
        BY <2>1, <2>3, <3>1 DEF Registered
    <2> QED
      BY <2>2, <2>3
  <1>12. Registration'
    <2>1. pool'.registered => Registered'
      BY <1>17 DEF LoopInv, Registration
    <2>2. Registered' => ~HeldNow(1)'
      BY <1>8, <1>17 DEF LoopInv, Registration
    <2> QED
      BY <1>2, <1>3, <1>8, <1>9, <2>1, <2>2 DEF Registration
  <1>13. Pending'
    <2>1. ASSUME NEW id \in 1..p
          PROVE  id \in pending_' <=> (HeldNow(id)' \/ (id = 1 /\ Registered'))
      <3>1. CASE id = p
        BY <1>8, <1>9, <3>1
      <3>2. CASE id \in 1..Len(ops)
        BY <1>8, <1>9, <1>17, <3>2 DEF LoopInv, Pending
      <3> QED
        BY <1>10, <3>1, <3>2
    <2> QED
      BY <1>8, <2>1 DEF Pending
  <1>14. calls[p] = 0
    BY <1>2, <1>3 DEF LoopInv, Callbacks
  <1>15. Callbacks'
    <2>1. ASSUME NEW id \in 1..p
          PROVE  /\ calls[id] = 0 => id \in pending_'
                 /\ ops'[id].kind # "accept" =>
                      /\ calls[id] <= 1
                      /\ HeldNow(id)' /\ ~(lpc = "callback" /\ cq[seen + 1].id = id) => calls[id] = 0
      <3>1. CASE id = p
        BY <1>9, <1>14, <3>1
      <3>2. CASE id \in 1..Len(ops)
        BY <1>8, <1>9, <3>2 DEF LoopInv, Callbacks
      <3> QED
        BY <1>10, <3>1, <3>2
    <2>2. \A id \in 1..MaxOps : id > p => calls[id] = 0
      BY <1>2, <1>3 DEF LoopInv, Callbacks
    <2>3. lpc = "callback" => /\ seen < Len(cq) /\ ~cq[seen + 1].notif
                             /\ cq[seen + 1].id \in pending_' /\ calls[cq[seen + 1].id] >= 1
      BY <1>9 DEF LoopInv, Callbacks
    <2> QED
      BY <1>8, <2>1, <2>2, <2>3 DEF Callbacks
  <1>16. Provides'
    <2>1. ASSUME NEW i \in 1..p, ops'[i].kind = "provide"
          PROVE  IF i = 1 THEN ops'[i].arg = 0 ELSE ops'[i].arg \in Buffers
      <3>1. CASE i = p
        BY <1>3, <1>4, <1>8, <2>1, <3>1
      <3>2. CASE i \in 1..Len(ops)
        BY <1>8, <2>1, <3>2 DEF LoopInv, Provides
      <3> QED
        BY <1>10, <3>1, <3>2
    <2> QED
      BY <1>8, <2>1 DEF Provides
  <1> QED
    BY <1>8, <1>11, <1>12, <1>13, <1>15, <1>16 DEF LoopInv

(* handle_completion() calls back, or passes a notification over.           *)
LEMMA CurrentIs ==
    ASSUME LoopInv, seen < Len(cq)
    PROVE  /\ Current \in CompletionSet /\ Current.id \in 1..Len(ops)
           /\ Current.notif => Current.id \notin pending_
           /\ ~Current.notif => HeldNow(Current.id) /\ Current.id \in pending_
  <1> DEFINE x == cq[seen + 1]
  <1>1. seen \in Nat /\ Len(cq) \in Nat /\ cq \in Seq(CompletionSet)
    BY DEF LoopInv, Links, Places
  <1>2. PICK e : e = seen + 1
    OBVIOUS
  <1>3. e \in 1..Len(cq) /\ e \in Unseen(cq, seen) /\ \A j \in Unseen(cq, seen) : j = e \/ e < j
    BY <1>1, <1>2 DEF Unseen
  <1>4. x = cq[e] /\ x \in CompletionSet /\ x.id \in 1..Len(ops)
    BY <1>1, <1>2, <1>3, ElementOfSeq DEF LoopInv, Links, Known
  <1>5. ~x.notif => HeldNow(x.id)
    BY <1>3, <1>4 DEF HeldNow, HeldAt
  <1>6. x.notif => ~HeldNow(x.id) /\ ops[x.id].kind = "send_zc"
    <2> SUFFICES ASSUME x.notif PROVE ~HeldNow(x.id) /\ ops[x.id].kind = "send_zc"
      OBVIOUS
    <2>1. ~x.more /\ ops[x.id].kind = "send_zc"
      BY <1>3, <1>4 DEF LoopInv, Links, Known
    <2>2. ~More(ops, x)
      BY <2>1 DEF More
    <2>3. ~Main(inflight, x.id) /\ \A j \in Unseen(cq, seen) : ~(cq[j].id = x.id /\ ~cq[j].notif)
      BY <1>3, <1>4, <2>2 DEF LoopInv, Links, LastIsLast
    <2>4. \A i \in 1..Len(sq) : sq[i].id # x.id
      BY <1>3, <1>4 DEF LoopInv, Links, OnceInQueue
    <2> QED
      BY <2>1, <2>3, <2>4 DEF HeldNow, HeldAt
  <1>7. x.notif => x.id \notin pending_
    BY <1>4, <1>6 DEF LoopInv, Pending, Registered
  <1>8. ~x.notif => x.id \in pending_
    BY <1>4, <1>5 DEF LoopInv, Pending
  <1> QED
    BY <1>4, <1>5, <1>7, <1>8 DEF Current

(* One more callback.                                                       *)
LEMMA CallsAdd ==
    ASSUME LoopInv, NEW id \in 1..MaxOps, calls' = [calls EXCEPT ![id] = @ + 1]
    PROVE  /\ IsFiniteSet(CallsMade') /\ Cardinality(CallsMade') = Cardinality(CallsMade) + 1
           /\ calls' \in [1..MaxOps -> Nat] /\ calls'[id] = calls[id] + 1
           /\ \A i \in 1..MaxOps : i # id => calls'[i] = calls[i]
  <1>0. calls \in [1..MaxOps -> Nat] /\ IsFiniteSet(CallsMade)
    BY DEF LoopInv, Counts
  <1>1. /\ calls' \in [1..MaxOps -> Nat] /\ calls'[id] = calls[id] + 1
        /\ \A i \in 1..MaxOps : i # id => calls'[i] = calls[i]
    BY <1>0
  <1>2. PICK m \in Nat : m = calls[id]
    BY <1>0
  <1>3. \A z : z \in CallsMade <=> \E i \in 1..MaxOps : \E j \in 1..calls[i] : z = <<i, j>>
    BY <1>0 DEF CallsMade
  <1>4. \A z : z \in CallsMade' <=> \E i \in 1..MaxOps : \E j \in 1..calls'[i] : z = <<i, j>>
    BY <1>1 DEF CallsMade
  <1>5. \A j : j \in 1..(m + 1) <=> (j \in 1..m \/ j = m + 1)
    BY <1>2
  <1>6. m + 1 \notin 1..m
    BY <1>2
  <1>7. <<id, m + 1>> \notin CallsMade
    BY <1>2, <1>3, <1>6
  <1>8. CallsMade' = CallsMade \cup {<<id, m + 1>>}
    <2>1. ASSUME NEW z \in CallsMade' PROVE z \in CallsMade \cup {<<id, m + 1>>}
      <3>0. PICK i \in 1..MaxOps : \E j \in 1..calls'[i] : z = <<i, j>>
        BY <1>4
      <3>1. PICK j \in 1..calls'[i] : z = <<i, j>>
        BY <3>0
      <3>2. CASE i = id
        <4>1. j \in 1..m \/ j = m + 1
          BY <1>1, <1>2, <1>5, <3>2
        <4> QED
          BY <1>2, <1>3, <3>1, <3>2, <4>1
      <3>3. CASE i # id
        BY <1>1, <1>3, <3>1, <3>3
      <3> QED
        BY <3>2, <3>3
    <2>2. ASSUME NEW z \in CallsMade PROVE z \in CallsMade'
      <3>0. PICK i \in 1..MaxOps : \E j \in 1..calls[i] : z = <<i, j>>
        BY <1>3
      <3>1. PICK j \in 1..calls[i] : z = <<i, j>>
        BY <3>0
      <3>2. j \in 1..calls'[i]
        BY <1>0, <1>1, <1>2, <1>5
      <3> QED
        BY <1>4, <3>1, <3>2
    <2>3. <<id, m + 1>> \in CallsMade'
      BY <1>1, <1>2, <1>4, <1>5
    <2> QED
      BY <2>1, <2>2, <2>3
  <1> QED
    BY <1>0, <1>1, <1>7, <1>8, FS_AddElement

-----------------------------------------------------------------------------
(* The callers' actions.                                                    *)
LEMMA AsyncLoop ==
    ASSUME LoopInv, NEW kind \in Kinds, NEW target \in 0..MaxOps, Async(kind, target)
    PROVE  LoopInv'
  <1>1. kind \in AllKinds /\ kind # "provide" /\ target \in Nat
    BY LoopAssumption, Numbers DEF AllKinds
  <1>2. /\ kind = "cancel" => target < next_id_
        /\ pool' \in PoolSet /\ pool'.registered = pool.registered
        /\ UNCHANGED <<cq, seen, total_completions_, lpc, calls>>
        /\ total_submissions_' = total_submissions_ + 1
        /\ Remember(kind, target) /\ CallersTurn /\ Enqueue(Op(next_id_, kind, target))
    BY DEF Async, LoopInv, Registration
  <1>3. Links(ops, sq, inflight, cq, seen)
    BY DEF LoopInv
  <1>4. CASE Len(sq) < Depth
    <2>1. sq' = Append(sq, Op(next_id_, kind, target)) /\ inflight' = inflight
      BY <1>2, <1>4 DEF Enqueue
    <2>2. \A id : HeldAt(sq, inflight, cq, seen, id) <=> HeldNow(id)
      BY DEF HeldNow
    <2> QED
      BY <1>1, <1>2, <1>3, <1>4, <2>1, <2>2, PrepareLoop
  <1>5. CASE ~(Len(sq) < Depth)
    <2>1. sq' = <<Op(next_id_, kind, target)>> /\ inflight' = inflight \cup ToSet(sq)
      BY <1>2, <1>5 DEF Enqueue
    <2>2. PICK Q : Q = <<>>
      OBVIOUS
    <2>3. Len(Q) < Depth /\ sq' = Append(Q, Op(next_id_, kind, target))
      BY <2>1, <2>2, Numbers
    <2>4. PICK K : K = inflight \cup ToSet(sq)
      OBVIOUS
    <2>5. /\ Links(ops, Q, K, cq, seen)
          /\ \A id : HeldAt(Q, K, cq, seen, id) <=> HeldNow(id)
      BY <1>3, <2>2, <2>4, FlushLinks DEF HeldNow
    <2>6. inflight' = K
      BY <2>1, <2>4
    <2> QED
      BY <1>1, <1>2, <2>3, <2>5, <2>6, PrepareLoop
  <1> QED
    BY <1>4, <1>5

(* return_provided_buffer().                                                *)
LEMMA ReturnBufferLoop ==
    ASSUME LoopInv, NEW b \in Buffers, ReturnBuffer(b)
    PROVE  LoopInv'
  <1>1. /\ CallersTurn /\ b \in pool.callers /\ pool \in PoolSet /\ lpc # "register"
        /\ UNCHANGED <<inflight, cq, seen, total_submissions_, total_completions_, running_, lpc, calls>>
    BY DEF ReturnBuffer, LoopInv, Registration, CallersTurn
  <1>2. Len(ops) # 0 /\ next_id_ # 1
    BY <1>1 DEF LoopInv, Registration, Counts, Links, Places
  <1>3. CASE Len(sq) < Depth /\ Remember("provide", b) /\ sq' = Append(sq, GiveBack(b))
             /\ pool' = [pool EXCEPT !.callers = @ \ {b}]
    <2>1. pool' \in PoolSet /\ pool'.registered = pool.registered
      BY <1>1, <1>3 DEF PoolSet
    <2>2. "provide" \in AllKinds /\ b \in Nat /\ sq' = Append(sq, Op(next_id_, "provide", b))
      BY <1>3, Numbers DEF AllKinds, GiveBack
    <2>3. Links(ops, sq, inflight, cq, seen) /\ \A id : HeldAt(sq, inflight, cq, seen, id) <=> HeldNow(id)
      BY DEF LoopInv, HeldNow
    <2>4. total_submissions_' = IF "provide" = "provide" THEN total_submissions_ ELSE total_submissions_ + 1
      BY <1>1
    <2>5. PICK kd : kd = "provide"
      OBVIOUS
    <2> QED
      BY <1>1, <1>2, <1>3, <2>1, <2>2, <2>3, <2>4, <2>5, PrepareLoop
  <1>4. CASE /\ pool' = [pool EXCEPT !.callers = @ \ {b}, !.lost = @ \cup {b}]
             /\ UNCHANGED <<sq, ops, next_id_, pending_, pending_ops_, ring>>
    <2>1. PICK S : S = pool.callers \ {b}
      OBVIOUS
    <2>2. PICK T : T = pool.lost \cup {b}
      OBVIOUS
    <2>3. pool' = [pool EXCEPT !.callers = S, !.lost = T]
      BY <1>4, <2>1, <2>2
    <2>4. S \in SUBSET Buffers /\ T \in SUBSET Buffers
      BY <1>1, <2>1, <2>2 DEF PoolSet
    <2>5. pool' \in PoolSet /\ pool'.registered = pool.registered
      BY <1>1, <2>3, <2>4 DEF PoolSet
    <2> QED
      BY <1>1, <1>2, <1>4, <2>5, LoopUnchanged
  <1> QED
    BY <1>3, <1>4 DEF ReturnBuffer

(* register_buffer_pool() submits, with nothing else there,                 *)
LEMMA RegisterBeginLoop ==
    ASSUME LoopInv, RegisterBegin
    PROVE  LoopInv'
  <1>1. /\ next_id_ = 1 /\ pool.registered = FALSE /\ Len(ops) = 0 /\ pool \in PoolSet
        /\ pool.callers = {} /\ pool.lost = {} /\ MaxOps \in Nat /\ 1 <= MaxOps
    BY Numbers DEF RegisterBegin, LoopInv, Counts, Links, Places, Registration, PoolSet
  <1>2. /\ ops \in Seq(OpSet) /\ sq \in Seq(OpSet) /\ inflight \subseteq OpSet /\ cq \in Seq(CompletionSet)
        /\ seen \in 0..Len(cq) /\ Len(cq) \in Nat /\ Len(sq) \in Nat
    BY DEF LoopInv, Links, Places
  <1>3. 1..Len(ops) = {}
    BY <1>1
  <1>4. Len(sq) = 0 /\ inflight = {} /\ Len(cq) = 0
    <2>1. 1 \notin 1..Len(sq) /\ 1 \notin 1..Len(cq) /\ inflight = {}
      BY <1>3 DEF LoopInv, Links, Known
    <2>2. \A m \in Nat : 1 \notin 1..m => m = 0
      OBVIOUS
    <2> QED
      BY <1>2, <2>1, <2>2
  <1>5. ops = <<>> /\ sq = <<>> /\ cq = <<>> /\ seen = 0
    BY <1>1, <1>2, <1>4, EmptySeq
  <1>6. ToSet(sq) = {}
    BY <1>5 DEF ToSet
  <1>7. TheFirst \in OpSet /\ TheFirst.id = 1 /\ TheFirst.kind = "provide" /\ TheFirst.arg = 0
    BY DEF TheFirst, Op, OpSet, AllKinds
  <1>8. /\ ops' = <<TheFirst>> /\ inflight' = {TheFirst} /\ sq' = <<>> /\ cq' = <<>> /\ seen' = 0
        /\ lpc' = "register" /\ pool' = pool /\ calls' = calls /\ next_id_' = 2
        /\ total_submissions_' = total_submissions_ /\ total_completions_' = total_completions_
        /\ lpc = "outside"
    BY <1>1, <1>5, <1>6 DEF RegisterBegin, Remember, TheFirst
  <1>9. Len(ops') = 1 /\ ops'[1] = TheFirst /\ ops' \in Seq(OpSet) /\ 1..Len(ops') = {1}
    BY <1>7, <1>8
  <1>10. Len(<<>>) = 0 /\ <<>> \in Seq(OpSet) /\ <<>> \in Seq(CompletionSet) /\ 1..0 = {}
         /\ Unseen(<<>>, 0) = {}
    BY DEF Unseen
  <1>11. Links(ops', sq', inflight', cq', seen')
    <2>1. Places(ops', sq', inflight', cq', seen')
      BY <1>7, <1>8, <1>9, <1>10 DEF Places
    <2>2. Known(ops', sq', inflight', cq')
      BY <1>7, <1>8, <1>9, <1>10 DEF Known
    <2>3. OnceInQueue(sq', inflight', cq', seen') /\ OnceInKernel(inflight')
      BY <1>8, <1>10 DEF OnceInQueue, OnceInKernel
    <2>4. LastIsLast(ops', inflight', cq', seen') /\ MoreFollows(ops', inflight', cq', seen')
      BY <1>8, <1>10 DEF LastIsLast, MoreFollows
    <2> QED
      BY <2>1, <2>2, <2>3, <2>4 DEF Links
  <1>12. pending_' = {1} /\ pending_ops_' = 1
    <2>1. pending_ = {} /\ pending_ops_ = Cardinality({})
      BY <1>3 DEF LoopInv, Counts
    <2> QED
      BY <1>1, <2>1, FS_EmptySet DEF RegisterBegin, Remember
  <1>13. Counts'
    <2>1. Cardinality(pending_') = 1
      BY <1>12, FS_Singleton
    <2>2. total_submissions_' = Cardinality({id \in 1..Len(ops') : ops'[id].kind # "provide"})
      <3>1. {id \in 1..Len(ops) : ops[id].kind # "provide"} = {}
        BY <1>3
      <3>2. {id \in 1..Len(ops') : ops'[id].kind # "provide"} = {}
        BY <1>7, <1>9
      <3> QED
        BY <1>8, <3>1, <3>2 DEF LoopInv, Counts
    <2>3. CallsMade' = CallsMade
      BY <1>8 DEF CallsMade
    <2>4. Len(sq') <= Depth
      BY <1>8, <1>10, Numbers
    <2> QED
      BY <1>1, <1>8, <1>9, <1>12, <2>1, <2>2, <2>3, <2>4 DEF LoopInv, Counts, LoopPoints
  <1>14. HeldNow(1)'
    BY <1>7, <1>8 DEF HeldNow, HeldAt, Main
  <1>15. Registration'
    BY <1>1, <1>8, <1>9 DEF Registration, Registered
  <1>16. Provides'
    BY <1>7, <1>9 DEF Provides
  <1>17. Pending'
    BY <1>8, <1>9, <1>12, <1>14 DEF Pending, Registered
  <1>18. Callbacks'
    <2>1. calls[1] = 0 /\ \A id \in 1..MaxOps : calls[id] = 0
      BY <1>1 DEF LoopInv, Callbacks
    <2> QED
      BY <1>8, <1>9, <1>12, <2>1 DEF Callbacks
  <1> QED
    BY <1>11, <1>13, <1>15, <1>16, <1>17, <1>18 DEF LoopInv

(* and takes the only completion.                                           *)
LEMMA RegisterEndLoop ==
    ASSUME LoopInv, RegisterEnd
    PROVE  LoopInv'
  <1>1. /\ ops = <<TheFirst>> /\ sq = <<>> /\ seen = 0 /\ pool.callers = {} /\ pool.lost = {}
        /\ inflight = {} /\ Len(cq) = 1 /\ cq \in Seq(CompletionSet) /\ pool \in PoolSet
    BY DEF RegisterEnd, LoopInv, Registration, Links, Places
  <1>2. cq' = <<>>
    <2>0. cq # <<>>
      BY DEF RegisterEnd
    <2>1. Tail(cq) \in Seq(CompletionSet) /\ Len(Tail(cq)) = 0
      BY <1>1, <2>0, HeadTailProperties
    <2> QED
      BY <2>1, EmptySeq DEF RegisterEnd
  <1>3. /\ sq' = <<>> /\ inflight' = {} /\ seen' = 0 /\ ops' = ops /\ calls' = calls /\ pending_' = pending_
        /\ pending_ops_' = pending_ops_ /\ next_id_' = next_id_ /\ total_submissions_' = total_submissions_
        /\ total_completions_' = total_completions_ /\ lpc' = "outside" /\ lpc = "register"
    BY <1>1 DEF RegisterEnd, loopVars
  <1>4. pool' \in PoolSet
    <2>1. PICK g : g = (Head(cq).id = 1 => pool.kernel = Buffers)
      OBVIOUS
    <2>2. g \in BOOLEAN /\ pool' = [pool EXCEPT !.registered = g]
      BY <2>1 DEF RegisterEnd
    <2> QED
      BY <1>1, <2>2 DEF PoolSet
  <1>5. TheFirst \in OpSet /\ TheFirst.id = 1 /\ TheFirst.kind = "provide" /\ TheFirst.arg = 0
    BY DEF TheFirst, Op, OpSet, AllKinds
  <1>6. Len(ops) = 1 /\ ops[1] = TheFirst /\ ops \in Seq(OpSet) /\ 1..Len(ops) = {1}
    BY <1>1, <1>5
  <1>7. Len(<<>>) = 0 /\ <<>> \in Seq(OpSet) /\ <<>> \in Seq(CompletionSet) /\ 1..0 = {}
         /\ Unseen(<<>>, 0) = {}
    BY DEF Unseen
  <1>8. Links(ops', sq', inflight', cq', seen')
    <2>1. Places(ops', sq', inflight', cq', seen')
      BY <1>2, <1>3, <1>6, <1>7 DEF Places
    <2>2. Known(ops', sq', inflight', cq')
      BY <1>2, <1>3, <1>5, <1>6, <1>7 DEF Known
    <2>3. OnceInQueue(sq', inflight', cq', seen') /\ OnceInKernel(inflight')
      BY <1>3, <1>7 DEF OnceInQueue, OnceInKernel
    <2>4. LastIsLast(ops', inflight', cq', seen') /\ MoreFollows(ops', inflight', cq', seen')
      BY <1>2, <1>3, <1>7 DEF LastIsLast, MoreFollows
    <2> QED
      BY <2>1, <2>2, <2>3, <2>4 DEF Links
  <1>9. \A id : ~HeldNow(id)'
    BY <1>2, <1>3, <1>7 DEF HeldNow, HeldAt, Main
  <1>10. 1 \in pending_ /\ calls[1] = 0
    <2>1. HeldNow(1)
      <3>1. 1 \in Unseen(cq, seen)
        BY <1>1 DEF Unseen
      <3>2. cq[1].id = 1 /\ ~cq[1].notif
        BY <1>1, <1>5, <1>6 DEF LoopInv, Links, Known
      <3> QED
        BY <3>1, <3>2 DEF HeldNow, HeldAt
    <2> QED
      BY <1>3, <1>5, <1>6, <2>1 DEF LoopInv, Pending, Callbacks
  <1>11. CallsMade' = CallsMade
    BY <1>3 DEF CallsMade
  <1>12. Counts'
    BY <1>3, <1>7, <1>11, Numbers DEF LoopInv, Counts, LoopPoints
  <1>16. Registered'
    BY <1>3, <1>5, <1>6 DEF Registered
  <1>13. Registration'
    BY <1>3, <1>4, <1>5, <1>6, <1>9, <1>16 DEF Registration
  <1>14. Provides' /\ Pending'
    BY <1>3, <1>6, <1>9, <1>10, <1>16 DEF LoopInv, Provides, Pending
  <1>15. Callbacks'
    BY <1>3, <1>6, <1>9, <1>10 DEF LoopInv, Callbacks
  <1> QED
    BY <1>8, <1>12, <1>13, <1>14, <1>15 DEF LoopInv

-----------------------------------------------------------------------------
(* The kernel's actions.                                                    *)
LEMMA MinIsIn ==
    ASSUME NEW S, S \subseteq Nat, S # {}
    PROVE  Min(S) \in S
  <1> DEFINE R == OpToRel(<, Nat)
  <1>1. IsWellFoundedOn(R, Nat)
    BY NatLessThanWellFounded
  <1>2. \A x, y \in Nat : x < y => <<x, y>> \in R
    BY DEF OpToRel
  <1> HIDE DEF R
  <1>3. PICK m \in S : \A y \in S : ~(<<y, m>> \in R)
    BY <1>1, WFMin
  <1>4. \A y \in S : m <= y
    <2>1. \A y \in S : ~(y < m)
      BY <1>2, <1>3
    <2> QED
      BY <2>1
  <1> QED
    BY <1>4 DEF Min

(* The fields of a completion.                                              *)
LEMMA CompletionIs ==
    ASSUME NEW op \in OpSet, NEW more \in BOOLEAN, NEW buffer \in Buffers \cup {NoBuffer}
    PROVE  /\ Completion(op, more, buffer) \in CompletionSet
           /\ Completion(op, more, buffer).id = op.id
           /\ Completion(op, more, buffer).more = more
           /\ Completion(op, more, buffer).buffer = buffer
           /\ Completion(op, more, buffer).notif = (op.kind = "notify")
  BY DEF Completion, CompletionSet, OpSet

(* The same of the last result of an operation.                             *)
LastResult(z, op, buffer) == z = Completion(op, FALSE, buffer)

LEMMA LastResultIs ==
    ASSUME NEW op \in OpSet, NEW buffer \in Buffers \cup {NoBuffer}, NEW z, LastResult(z, op, buffer)
    PROVE  /\ z \in CompletionSet /\ z.id = op.id /\ ~z.more /\ z.buffer = buffer
           /\ \/ z.notif /\ op.kind = "notify"
              \/ ~z.notif /\ op.kind # "notify"
  BY DEF LastResult, Completion, CompletionSet, OpSet

(* What the kernel has while the pool is registered, and what it gives.     *)
LEMMA ProvidedIs ==
    ASSUME LoopInv, NEW op \in inflight, op.kind = "provide"
    PROVE  /\ op.arg = 0 \/ op.arg \in Buffers
           /\ pool.registered => op.arg \in Buffers
  <1>1. op.id \in 1..Len(ops) /\ op.arg = ops[op.id].arg /\ ops[op.id].kind = "provide"
    BY DEF LoopInv, Links, Known
  <1>2. pool.registered => op.id # 1
    BY DEF LoopInv, Registration, HeldNow, HeldAt, Main
  <1> QED
    BY <1>1, <1>2 DEF LoopInv, Provides

(* The kernel answers an operation for the last time,                       *)
LEMMA AnswerEnds ==
    ASSUME LoopInv, NEW op \in inflight, KernelUnchanged, op.kind # "cancel",
           NEW buffer \in Buffers \cup {NoBuffer}, Post(op, FALSE, buffer), Ended(op),
           pool' \in PoolSet, pool'.registered = pool.registered,
           pool'.callers = pool.callers, pool'.lost = pool.lost
    PROVE  LoopInv'
  <1>1. PICK x : x = Completion(op, FALSE, buffer)
    OBVIOUS
  <1>2. op \in OpSet /\ Links(ops, sq, inflight, cq, seen) /\ Len(cq) \in Nat
    BY DEF LoopInv, Links, Places
  <1>3. /\ x \in CompletionSet /\ x.id = op.id /\ ~x.more
        /\ \/ x.notif /\ op.kind = "notify"
           \/ ~x.notif /\ op.kind # "notify"
    BY <1>1, <1>2, CompletionIs
  <1>0. PICK k2 : k2 = inflight \ {op}
    OBVIOUS
  <1>9. \A y : y \in k2 <=> (y \in inflight /\ y # op)
    BY <1>0
  <1>4. /\ Links(ops, sq, k2, Append(cq, x), seen)
        /\ \A id : HeldAt(sq, k2, Append(cq, x), seen, id) <=> HeldAt(sq, inflight, cq, seen, id)
        /\ Len(Append(cq, x)) = Len(cq) + 1
        /\ \A i \in 1..Len(cq) : Append(cq, x)[i] = cq[i]
    <2>1. Posted(ops, sq, inflight, cq, seen, k2, x)
      BY <1>2, <1>3, <1>9, EndLinks
    <2> QED
      BY <2>1 DEF Posted
  <1>5. cq' = Append(cq, x) /\ inflight' = k2 /\ sq' = sq /\ seen' = seen /\ ops' = ops
    BY <1>0, <1>1 DEF Post, Ended, KernelUnchanged
  <1>6. Links(ops, sq, inflight, cq, seen)' /\ \A id : HeldNow(id)' <=> HeldNow(id)
    BY <1>4, <1>5 DEF HeldNow
  <1>7. Len(cq') >= Len(cq) /\ \A i \in 1..Len(cq) : cq'[i] = cq[i]
    BY <1>2, <1>4, <1>5
  <1>8. lpc = "register" => inflight' = {} /\ Len(cq') = 1
    <2> SUFFICES ASSUME lpc = "register" PROVE inflight' = {} /\ Len(cq') = 1
      OBVIOUS
    <2>1. inflight = {TheFirst} /\ cq = <<>>
      BY DEF LoopInv, Registration
    <2> QED
      BY <1>0, <1>4, <1>5, <2>1
  <1> QED
    BY <1>6, <1>7, <1>8, KernelLoop

(* or with more to come.                                                    *)
LEMMA AnswerShoots ==
    ASSUME LoopInv, NEW op \in inflight, KernelUnchanged, op.kind \in {"accept", "send_zc"},
           Post(op, TRUE, NoBuffer), UNCHANGED pool,
           NEW z \in OpSet, z.id = op.id, z.arg = op.arg, z.kind = "notify",
           \/ op.kind = "accept" /\ inflight' = inflight
           \/ op.kind = "send_zc" /\ inflight' = (inflight \ {op}) \cup {z}
    PROVE  LoopInv'
  <1>1. PICK x : x = Completion(op, TRUE, NoBuffer)
    OBVIOUS
  <1>2. op \in OpSet /\ Links(ops, sq, inflight, cq, seen) /\ Len(cq) \in Nat
    BY DEF LoopInv, Links, Places
  <1>3. x \in CompletionSet /\ x.id = op.id /\ x.more /\ ~x.notif
    <2>1. op.kind # "notify" /\ TRUE \in BOOLEAN /\ NoBuffer \in Buffers \cup {NoBuffer}
      OBVIOUS
    <2> QED
      BY <1>1, <1>2, <2>1, CompletionIs
  <1>4. PICK k2 : k2 = inflight'
    OBVIOUS
  <1>11. \/ op.kind = "accept" /\ k2 = inflight
         \/ op.kind = "send_zc" /\ \A y : y \in k2 <=> ((y \in inflight /\ y # op) \/ y = z)
    BY <1>4
  <1>5. /\ Links(ops, sq, k2, Append(cq, x), seen)
        /\ \A id : HeldAt(sq, k2, Append(cq, x), seen, id) <=> HeldAt(sq, inflight, cq, seen, id)
        /\ Len(Append(cq, x)) = Len(cq) + 1
        /\ \A i \in 1..Len(cq) : Append(cq, x)[i] = cq[i]
    <2>1. Posted(ops, sq, inflight, cq, seen, k2, x)
      BY <1>2, <1>3, <1>11, ShotLinks
    <2> QED
      BY <2>1 DEF Posted
  <1>6. cq' = Append(cq, x) /\ sq' = sq /\ seen' = seen /\ ops' = ops
    BY <1>1 DEF Post, KernelUnchanged
  <1>7. Links(ops, sq, inflight, cq, seen)' /\ \A id : HeldNow(id)' <=> HeldNow(id)
    BY <1>4, <1>5, <1>6 DEF HeldNow
  <1>8. Len(cq') >= Len(cq) /\ \A i \in 1..Len(cq) : cq'[i] = cq[i]
    BY <1>2, <1>5, <1>6
  <1>9. lpc # "register"
    <2>1. TheFirst.kind = "provide"
      BY DEF TheFirst, Op
    <2> QED
      BY <2>1 DEF LoopInv, Registration
  <1>10. pool' \in PoolSet /\ pool' = pool
    BY DEF LoopInv, Registration
  <1> QED
    BY <1>7, <1>8, <1>9, <1>10, KernelLoop

(* Any answer but a cancel's.                                               *)
LEMMA AnswerLoop ==
    ASSUME LoopInv, NEW op \in inflight, Answer(op)
    PROVE  LoopInv'
  <1>1. KernelUnchanged /\ pool \in PoolSet /\ NoBuffer \in Buffers \cup {NoBuffer}
    BY DEF Answer, LoopInv, Registration
  <1>2. op.kind # "provide" => lpc # "register"
    <2>1. TheFirst.kind = "provide"
      BY DEF TheFirst, Op
    <2> QED
      BY <2>1 DEF LoopInv, Registration
  <1>3. CASE op.kind \in {"oneshot", "timeout", "nop", "accept", "notify", "recv"}
               /\ Post(op, FALSE, NoBuffer) /\ Ended(op) /\ UNCHANGED pool
    BY <1>1, <1>2, <1>3, AnswerEnds
  <1>0. PICK z : z = [op EXCEPT !.kind = "notify"]
    OBVIOUS
  <1>8. z \in OpSet /\ z.id = op.id /\ z.arg = op.arg /\ z.kind = "notify"
    <2>1. op \in OpSet
      BY DEF LoopInv, Links, Places
    <2> QED
      BY <1>0, <2>1 DEF OpSet
  <1>4. CASE op.kind = "accept" /\ Post(op, TRUE, NoBuffer) /\ UNCHANGED <<inflight, pool>>
    BY <1>1, <1>4, <1>8, AnswerShoots
  <1>5. CASE /\ op.kind = "send_zc" /\ Post(op, TRUE, NoBuffer) /\ UNCHANGED pool
             /\ inflight' = (inflight \ {op}) \cup {[op EXCEPT !.kind = "notify"]}
    <2>1. inflight' = (inflight \ {op}) \cup {z}
      BY <1>0, <1>5
    <2> QED
      BY <1>1, <1>5, <1>8, <2>1, AnswerShoots
  <1>6. CASE /\ op.kind = "recv" /\ pool.kernel # {} /\ Ended(op)
             /\ LET b == Min(pool.kernel) IN
                Post(op, FALSE, b) /\ pool' = [pool EXCEPT !.kernel = @ \ {b}]
    <2>1. PICK b : b = Min(pool.kernel)
      OBVIOUS
    <2>2. b \in pool.kernel /\ b \in Buffers
      BY <1>1, <1>6, <2>1, MinIsIn, Numbers DEF PoolSet
    <2>3. Post(op, FALSE, b) /\ pool' = [pool EXCEPT !.kernel = @ \ {b}]
      BY <1>6, <2>1
    <2>4. /\ pool' \in PoolSet /\ pool'.registered = pool.registered
          /\ pool'.callers = pool.callers /\ pool'.lost = pool.lost
      BY <1>1, <2>3 DEF PoolSet
    <2> QED
      BY <1>1, <1>2, <1>6, <2>2, <2>3, <2>4, AnswerEnds
  <1>7. CASE /\ op.kind = "provide" /\ Post(op, FALSE, NoBuffer) /\ Ended(op)
             /\ pool' = [pool EXCEPT !.kernel = IF op.arg = 0 THEN Buffers ELSE @ \cup {op.arg}]
    <2>1. PICK K : K = IF op.arg = 0 THEN Buffers ELSE pool.kernel \cup {op.arg}
      OBVIOUS
    <2>2. pool' = [pool EXCEPT !.kernel = K]
      BY <1>7, <2>1
    <2>3. op.arg = 0 \/ op.arg \in Buffers
      BY <1>7, ProvidedIs
    <2>4. K \in SUBSET Buffers
      BY <1>1, <2>1, <2>3 DEF PoolSet
    <2>5. /\ pool' \in PoolSet /\ pool'.registered = pool.registered
          /\ pool'.callers = pool.callers /\ pool'.lost = pool.lost /\ pool'.kernel = K
      BY <1>1, <2>2, <2>4 DEF PoolSet
    <2> QED
      BY <1>1, <1>7, <2>5, AnswerEnds
  <1>9. CASE op.kind = "provide" /\ Post(op, FALSE, NoBuffer) /\ Ended(op) /\ UNCHANGED pool
    BY <1>1, <1>9, AnswerEnds
  <1> QED
    BY <1>3, <1>4, <1>5, <1>6, <1>7, <1>9 DEF Answer

(* The sequence of the elements of a set with none or one.                  *)
LEMMA SequenceOfFew ==
    ASSUME NEW y
    PROVE  SetToSeq({}) = <<>> /\ SetToSeq({y}) = <<y>>
  <1>1. SetToSeq({}) = <<>>
    <2>1. Cardinality({}) = 0 /\ 1..0 = {}
      BY FS_EmptySet
    <2>2. <<>> \in [1..0 -> {}] /\ IsInjective(<<>>)
      BY <2>1 DEF IsInjective
    <2>3. SetToSeq({}) \in [1..0 -> {}]
      BY <2>1, <2>2 DEF SetToSeq
    <2> QED
      BY <2>1, <2>2, <2>3
  <1>2. SetToSeq({y}) = <<y>>
    <2>1. Cardinality({y}) = 1 /\ 1..1 = {1}
      BY FS_Singleton
    <2>2. <<y>> \in [1..1 -> {y}] /\ IsInjective(<<y>>)
      BY <2>1 DEF IsInjective
    <2>3. SetToSeq({y}) \in [1..1 -> {y}]
      BY <2>1, <2>2 DEF SetToSeq
    <2> QED
      BY <2>1, <2>2, <2>3
  <1> QED
    BY <1>1, <1>2

(* One element at the end.                                                  *)
LEMMA OneAppended ==
    ASSUME NEW S, NEW c \in Seq(S), NEW y \in S
    PROVE  c \o <<y>> = Append(c, y) /\ c \o <<>> = c /\ Append(c, y) \in Seq(S)
  <1>1. <<y>> \in Seq(S) /\ Len(<<y>>) = 1 /\ Append(c, y) \in Seq(S)
    OBVIOUS
  <1>2. c \o <<y>> = Append(c, y)
    OBVIOUS
  <1> QED
    BY <1>1, <1>2, ConcatEmptySeq

(* A cancel posts at most two completions, without a buffer.                *)
LEMMA CancelPosts ==
    ASSUME LoopInv, NEW op \in inflight, AnswerCancel(op)
    PROVE  /\ Links(ops, sq, inflight, cq, seen)' /\ \A id : HeldNow(id)' <=> HeldNow(id)
           /\ Len(cq') >= Len(cq) /\ \A i \in 1..Len(cq) : cq'[i] = cq[i]
           /\ \A i \in (Len(cq) + 1)..Len(cq') : cq'[i].buffer = NoBuffer
  <1>1. /\ KernelUnchanged /\ pool' = pool /\ pool \in PoolSet /\ op.kind = "cancel"
        /\ Links(ops, sq, inflight, cq, seen) /\ op \in OpSet /\ cq \in Seq(CompletionSet) /\ Len(cq) \in Nat
    BY DEF AnswerCancel, LoopInv, Registration, Links, Places
  <1>2. PICK targets : targets = {o \in inflight : o.id = op.arg /\ o.kind \notin {"notify", "provide"}}
    OBVIOUS
  <1>4. PICK z : z = Completion(op, FALSE, NoBuffer)
    OBVIOUS
  <1>5. /\ z \in CompletionSet /\ z.id = op.id /\ ~z.more /\ z.buffer = NoBuffer
        /\ \/ z.notif /\ op.kind = "notify"
           \/ ~z.notif /\ op.kind # "notify"
    <2>1. LastResult(z, op, NoBuffer) /\ NoBuffer \in Buffers \cup {NoBuffer} /\ op \in OpSet
      BY <1>1, <1>4 DEF LastResult
    <2> QED
      BY <2>1, LastResultIs
  <1>6. /\ inflight' = (inflight \ {op}) \ targets
        /\ cq' = cq \o SetToSeq({Completion(o, FALSE, NoBuffer) : o \in targets}) \o <<z>>
    BY <1>2, <1>4 DEF AnswerCancel
  <1>7. sq' = sq /\ seen' = seen /\ ops' = ops
    BY <1>1 DEF KernelUnchanged
  <1>8. op \notin targets
    <2>1. op.id \in 1..Len(ops) /\ ops[op.id].kind = "cancel" /\ op.arg = ops[op.id].arg
      BY <1>1 DEF Links, Known
    <2>2. op.arg < op.id
      BY <1>1, <2>1 DEF Links, Known
    <2> QED
      BY <1>2, <2>1, <2>2
  <1>9. CASE targets = {}
    <2>1. {Completion(o, FALSE, NoBuffer) : o \in targets} = {}
      BY <1>9
    <2>2. cq' = Append(cq, z)
      <3>1. cq \o <<>> = cq /\ cq \o <<z>> = Append(cq, z)
        BY <1>1, <1>5, OneAppended
      <3>2. cq' = cq \o <<>> \o <<z>>
        BY <1>6, <2>1, SequenceOfFew
      <3> QED
        BY <3>1, <3>2
    <2>3. PICK k2 : k2 = inflight \ {op}
      OBVIOUS
    <2>4. inflight' = k2
      BY <1>6, <1>9, <2>3
    <2>8. \A y : y \in k2 <=> (y \in inflight /\ y # op)
      BY <2>3
    <2>9. Links(ops, sq, inflight, cq, seen)
      BY <1>1
    <2>5. /\ Links(ops, sq, k2, Append(cq, z), seen)
          /\ \A id : HeldAt(sq, k2, Append(cq, z), seen, id) <=> HeldAt(sq, inflight, cq, seen, id)
          /\ Len(Append(cq, z)) = Len(cq) + 1 /\ Append(cq, z)[Len(cq) + 1] = z
          /\ \A i \in 1..Len(cq) : Append(cq, z)[i] = cq[i]
      <3>1. Posted(ops, sq, inflight, cq, seen, k2, z)
        BY <1>5, <2>8, <2>9, EndLinks
      <3> QED
        BY <3>1 DEF Posted
    <2>6. Links(ops, sq, inflight, cq, seen)' /\ \A id : HeldNow(id)' <=> HeldNow(id)
      BY <1>7, <2>2, <2>4, <2>5 DEF HeldNow
    <2>7. Len(cq') >= Len(cq) /\ \A i \in 1..Len(cq) : cq'[i] = cq[i]
      BY <1>1, <2>2, <2>5
    <2>10. \A i \in (Len(cq) + 1)..Len(cq') : i = Len(cq) + 1
      BY <1>1, <2>2, <2>5
    <2>11. \A i \in (Len(cq) + 1)..Len(cq') : cq'[i].buffer = NoBuffer
      BY <1>5, <2>2, <2>5, <2>10
    <2> QED
      BY <2>6, <2>7, <2>11
  <1>10. CASE targets # {}
    <2>1. PICK t \in targets : TRUE
      BY <1>10
    <2>2. t \in inflight /\ t \in OpSet /\ t.kind # "notify" /\ t # op
      BY <1>1, <1>2, <1>8, <2>1 DEF Links, Places
    <2>3. targets = {t}
      <3>1. ASSUME NEW u \in targets PROVE u = t
        <4>1. u.id = t.id /\ u \in inflight
          BY <1>2, <2>1
        <4>2. u.kind = t.kind /\ u.arg = t.arg /\ u \in OpSet
          BY <1>1, <2>2, <4>1 DEF Links, OnceInKernel, Known, Places
        <4> QED
          BY <2>2, <4>1, <4>2 DEF OpSet
      <3> QED
        BY <2>1, <3>1
    <2>4. PICK y : y = Completion(t, FALSE, NoBuffer)
      OBVIOUS
    <2>5. /\ y \in CompletionSet /\ y.id = t.id /\ ~y.more /\ y.buffer = NoBuffer
          /\ \/ y.notif /\ t.kind = "notify"
             \/ ~y.notif /\ t.kind # "notify"
      <3>1. LastResult(y, t, NoBuffer) /\ NoBuffer \in Buffers \cup {NoBuffer} /\ t \in OpSet
        BY <2>2, <2>4 DEF LastResult
      <3> QED
        BY <3>1, LastResultIs
    <2>6. {Completion(o, FALSE, NoBuffer) : o \in targets} = {y}
      BY <2>3, <2>4
    <2>7. PICK d : d = Append(cq, y)
      OBVIOUS
    <2>8. d \in Seq(CompletionSet) /\ cq' = Append(d, z)
      <3>1. SetToSeq({y}) = <<y>> /\ cq \o <<y>> = d
        BY <1>1, <2>5, <2>7, SequenceOfFew, OneAppended
      <3>2. d \in Seq(CompletionSet)
        BY <1>1, <2>5, <2>7
      <3>3. cq' = d \o <<z>>
        BY <1>6, <2>6, <3>1
      <3>4. d \o <<z>> = Append(d, z)
        BY <1>5, <3>2, OneAppended
      <3> QED
        BY <3>2, <3>3, <3>4
    <2>9. PICK k1 : k1 = inflight \ {t}
      OBVIOUS
    <2>10. \A w : w \in k1 <=> (w \in inflight /\ w # t)
      BY <2>9
    <2>11. /\ Links(ops, sq, k1, d, seen)
           /\ \A id : HeldAt(sq, k1, d, seen, id) <=> HeldAt(sq, inflight, cq, seen, id)
           /\ Len(d) = Len(cq) + 1 /\ d[Len(cq) + 1] = y
           /\ \A i \in 1..Len(cq) : d[i] = cq[i]
      <3>1. Links(ops, sq, inflight, cq, seen) /\ t \in inflight
        BY <1>1, <2>2
      <3>2. Posted(ops, sq, inflight, cq, seen, k1, y)
        BY <2>5, <2>10, <3>1, EndLinks
      <3> QED
        BY <2>7, <3>2 DEF Posted
    <2>12. op \in k1
      BY <2>2, <2>10
    <2>13. PICK k2 : k2 = k1 \ {op}
      OBVIOUS
    <2>14. inflight' = k2
      BY <1>6, <2>3, <2>9, <2>13
    <2>18. \A w : w \in k2 <=> (w \in k1 /\ w # op)
      BY <2>13
    <2>19. Links(ops, sq, k1, d, seen)
      BY <2>11
    <2>15. /\ Links(ops, sq, k2, Append(d, z), seen)
           /\ \A id : HeldAt(sq, k2, Append(d, z), seen, id) <=> HeldAt(sq, k1, d, seen, id)
           /\ Len(Append(d, z)) = Len(d) + 1 /\ Append(d, z)[Len(d) + 1] = z
           /\ \A i \in 1..Len(d) : Append(d, z)[i] = d[i]
      <3>1. Posted(ops, sq, k1, d, seen, k2, z)
        BY <1>5, <2>12, <2>18, <2>19, EndLinks
      <3> QED
        BY <3>1 DEF Posted
    <2>16. Links(ops, sq, inflight, cq, seen)' /\ \A id : HeldNow(id)' <=> HeldNow(id)
      BY <1>7, <2>8, <2>11, <2>14, <2>15 DEF HeldNow
    <2>17. Len(cq') >= Len(cq) /\ \A i \in 1..Len(cq) : cq'[i] = cq[i]
      BY <1>1, <2>8, <2>11, <2>15
    <2>20. \A i \in (Len(cq) + 1)..Len(cq') : (i = Len(cq) + 1 /\ i \in 1..Len(d)) \/ i = Len(d) + 1
      BY <1>1, <2>8, <2>11, <2>15
    <2>21. \A i \in (Len(cq) + 1)..Len(cq') : cq'[i] = y \/ cq'[i] = z
      BY <2>8, <2>11, <2>15, <2>20
    <2>22. \A i \in (Len(cq) + 1)..Len(cq') : cq'[i].buffer = NoBuffer
      BY <1>5, <2>5, <2>21
    <2> QED
      BY <2>16, <2>17, <2>22
  <1> QED
    BY <1>9, <1>10

(* So a cancel keeps the invariant.                                         *)
LEMMA AnswerCancelLoop ==
    ASSUME LoopInv, NEW op \in inflight, AnswerCancel(op)
    PROVE  LoopInv'
  <1>1. /\ Links(ops, sq, inflight, cq, seen)' /\ \A id : HeldNow(id)' <=> HeldNow(id)
        /\ Len(cq') >= Len(cq) /\ \A i \in 1..Len(cq) : cq'[i] = cq[i]
    BY CancelPosts
  <1>2. KernelUnchanged /\ pool' = pool /\ pool \in PoolSet /\ op.kind = "cancel"
    BY DEF AnswerCancel, LoopInv, Registration
  <1>3. lpc # "register"
    <2>1. TheFirst.kind = "provide"
      BY DEF TheFirst, Op
    <2> QED
      BY <1>2, <2>1 DEF LoopInv, Registration
  <1> QED
    BY <1>1, <1>2, <1>3, KernelLoop

-----------------------------------------------------------------------------
(* The loop's actions: those that change no more than where the thread is,  *)
LEMMA PointsLoop ==
    ASSUME LoopInv, Run \/ SubmitFails \/ Wait \/ WaitFails \/ ProcessEnds
    PROVE  LoopInv'
  <1>1. /\ lpc \notin {"callback", "register"} /\ lpc' \in LoopPoints \ {"callback", "register"}
        /\ UNCHANGED <<sq, inflight, cq, seen, loopVars, pool, ops, calls>>
    BY DEF Run, SubmitFails, Wait, WaitFails, ProcessEnds, Again, LoopPoints
  <1>2. Links(ops, sq, inflight, cq, seen)' /\ (\A id : HeldNow(id)' <=> HeldNow(id)) /\ Len(sq') <= Depth
    BY <1>1 DEF LoopInv, HeldNow, Counts
  <1> QED
    BY <1>1, <1>2, QuietLoop

(* those that move operations or completions,                               *)
LEMMA SubmitLoop ==
    ASSUME LoopInv, Submit
    PROVE  LoopInv'
  <1>1. /\ lpc \notin {"callback", "register"} /\ lpc' \in LoopPoints \ {"callback", "register"}
        /\ UNCHANGED <<cq, seen, loopVars, pool, ops, calls>>
        /\ sq' = <<>> /\ inflight' = inflight \cup ToSet(sq)
    BY DEF Submit, LoopPoints
  <1>2. Links(ops, sq, inflight, cq, seen)
    BY DEF LoopInv
  <1>3. PICK k2 : k2 = inflight \cup ToSet(sq)
    OBVIOUS
  <1>4. Links(ops, <<>>, k2, cq, seen) /\ \A id : HeldAt(<<>>, k2, cq, seen, id) <=> HeldAt(sq, inflight, cq, seen, id)
    BY <1>2, <1>3, FlushLinks
  <1>5. Links(ops, sq, inflight, cq, seen)' /\ \A id : HeldNow(id)' <=> HeldNow(id)
    BY <1>1, <1>3, <1>4 DEF HeldNow
  <1>6. Len(sq') <= Depth
    BY <1>1, Numbers
  <1> QED
    BY <1>1, <1>5, <1>6, QuietLoop

(* as io_uring_cq_advance() does,                                           *)
LEMMA AdvanceLoop ==
    ASSUME LoopInv, Advance
    PROVE  LoopInv'
  <1>1. /\ lpc \notin {"callback", "register"} /\ lpc' \in LoopPoints \ {"callback", "register"}
        /\ UNCHANGED <<sq, inflight, loopVars, pool, ops, calls>> /\ seen' = 0
        /\ cq' = SubSeq(cq, seen + 1, Len(cq))
    BY DEF Advance, Advanced, Again, LoopPoints
  <1>2. Links(ops, sq, inflight, cq, seen)
    BY DEF LoopInv
  <1>3. PICK d : d = SubSeq(cq, seen + 1, Len(cq))
    OBVIOUS
  <1>4. Links(ops, sq, inflight, d, 0)
        /\ \A id : HeldAt(sq, inflight, d, 0, id) <=> HeldAt(sq, inflight, cq, seen, id)
    <2>1. Shifted(ops, sq, inflight, cq, seen, d)
      BY <1>2, <1>3, AdvanceLinks
    <2> QED
      BY <2>1 DEF Shifted
  <1>5. Links(ops, sq, inflight, cq, seen)' /\ \A id : HeldNow(id)' <=> HeldNow(id)
    BY <1>1, <1>3, <1>4 DEF HeldNow
  <1>6. Len(sq') <= Depth
    BY <1>1 DEF LoopInv, Counts
  <1> QED
    BY <1>1, <1>5, <1>6, QuietLoop

(* and those about a callback.                                              *)
LEMMA HandleLoop ==
    ASSUME LoopInv, HandleCompletion
    PROVE  LoopInv'
  <1>0. /\ lpc = "process" /\ seen < Len(cq) /\ UNCHANGED <<sq, inflight, cq, loopVars, ops>>
        /\ Links(ops, sq, inflight, cq, seen) /\ seen \in Nat /\ Len(cq) \in Nat
    BY DEF HandleCompletion, LoopInv, Links, Places
  <1>1. /\ Current \in CompletionSet /\ Current.id \in 1..Len(ops)
        /\ Current.notif => Current.id \notin pending_
        /\ ~Current.notif => HeldNow(Current.id) /\ Current.id \in pending_
    BY <1>0, CurrentIs
  <1>2. CASE /\ Current.id \in pending_ /\ lpc' = "callback"
             /\ calls' = [calls EXCEPT ![Current.id] = @ + 1]
             /\ pool' = IF Current.buffer = NoBuffer THEN pool
                        ELSE [pool EXCEPT !.callers = @ \cup {Current.buffer}]
             /\ UNCHANGED seen
    <2>1. PICK x : x = Current
      OBVIOUS
    <2>2. PICK id0 : id0 = x.id
      OBVIOUS
    <2>3. /\ x = cq[seen + 1] /\ ~x.notif /\ HeldNow(id0) /\ id0 \in pending_ /\ id0 \in 1..Len(ops)
          /\ x.buffer \in Buffers \cup {NoBuffer}
      BY <1>1, <1>2, <2>1, <2>2 DEF Current, CompletionSet
    <2>4. id0 \in 1..MaxOps /\ pool \in PoolSet /\ calls \in [1..MaxOps -> Nat]
      <3>1. pool \in PoolSet /\ calls \in [1..MaxOps -> Nat] /\ Len(ops) <= MaxOps
        BY DEF LoopInv, Counts, Registration
      <3>2. Len(ops) \in Nat
        BY <1>0 DEF Links, Places
      <3> QED
        BY <2>3, <3>1, <3>2, Numbers
    <2>5. calls' = [calls EXCEPT ![id0] = @ + 1]
      BY <1>2, <2>1, <2>2
    <2>6. /\ IsFiniteSet(CallsMade') /\ Cardinality(CallsMade') = Cardinality(CallsMade) + 1
          /\ calls' \in [1..MaxOps -> Nat] /\ calls'[id0] = calls[id0] + 1
          /\ \A i \in 1..MaxOps : i # id0 => calls'[i] = calls[i]
      BY <2>4, <2>5, CallsAdd
    <2>7. pool' \in PoolSet /\ pool'.registered = pool.registered
      <3>1. CASE x.buffer = NoBuffer
        BY <1>2, <2>1, <2>4, <3>1
      <3>2. CASE x.buffer # NoBuffer
        <4>1. PICK S : S = pool.callers \cup {x.buffer}
          OBVIOUS
        <4>2. S \in SUBSET Buffers /\ pool' = [pool EXCEPT !.callers = S]
          BY <1>2, <2>1, <2>3, <2>4, <3>2, <4>1 DEF PoolSet
        <4> QED
          BY <2>4, <4>2 DEF PoolSet
      <3> QED
        BY <3>1, <3>2
    <2>8. /\ seen' = seen /\ sq' = sq /\ inflight' = inflight /\ cq' = cq /\ ops' = ops
          /\ pending_' = pending_ /\ pending_ops_' = pending_ops_ /\ next_id_' = next_id_
          /\ total_submissions_' = total_submissions_ /\ total_completions_' = total_completions_
      BY <1>0, <1>2 DEF loopVars
    <2>9. Links(ops, sq, inflight, cq, seen)' /\ \A id : HeldNow(id)' <=> HeldNow(id)
      BY <1>0, <2>8 DEF HeldNow
    <2>10. Counts'
      <3>1. /\ total_completions_ \in Nat /\ Cardinality(CallsMade) = total_completions_
            /\ Len(sq) <= Depth /\ next_id_ = Len(ops) + 1 /\ Len(ops) <= MaxOps
            /\ pending_ \subseteq 1..Len(ops) /\ pending_ops_ = Cardinality(pending_)
            /\ total_submissions_ = Cardinality({id \in 1..Len(ops) : ops[id].kind # "provide"})
        BY <1>0 DEF LoopInv, Counts
      <3>2. total_completions_' + 1 = Cardinality(CallsMade')
        BY <2>6, <2>8, <3>1
      <3> QED
        BY <1>2, <2>6, <2>8, <3>1, <3>2 DEF Counts, LoopPoints
    <2>11. Len(ops) # 0
      BY <2>3
    <2>16. Registered' <=> Registered
      BY <1>0, <1>2, <2>8 DEF Registered
    <2>12. Registration'
      BY <1>2, <2>7, <2>8, <2>9, <2>11, <2>16 DEF LoopInv, Registration
    <2>13. Provides' /\ Pending'
      BY <2>8, <2>9, <2>16 DEF LoopInv, Provides, Pending
    <2>14. ops[id0].kind # "accept" => calls[id0] = 0
      BY <1>0, <2>3 DEF LoopInv, Callbacks
    <2>15. Callbacks'
      <3>1. ASSUME NEW id \in 1..Len(ops)
            PROVE  /\ calls'[id] = 0 => id \in pending_
                   /\ ops[id].kind # "accept" =>
                        /\ calls'[id] <= 1
                        /\ HeldNow(id) /\ ~(cq[seen + 1].id = id) => calls'[id] = 0
        <4>1. CASE id = id0
          <5>1. calls[id0] \in Nat /\ calls'[id] = calls[id0] + 1 /\ cq[seen + 1].id = id
            <6>1. calls[id0] \in Nat
              BY <2>4
            <6>2. cq[seen + 1].id = id0
              BY <2>2, <2>3
            <6> QED
              BY <2>6, <4>1, <6>1, <6>2
          <5>2. calls'[id] # 0 /\ (calls[id0] = 0 => calls'[id] <= 1)
            BY <5>1
          <5> QED
            BY <2>14, <4>1, <5>1, <5>2
        <4>2. CASE id # id0
          <5>1. id \in 1..MaxOps /\ calls'[id] = calls[id]
            <6>1. Len(ops) <= MaxOps
              BY DEF LoopInv, Counts
            <6>2. Len(ops) \in Nat
              BY <1>0 DEF Links, Places
            <6>3. id \in 1..MaxOps
              BY <6>1, <6>2, Numbers
            <6> QED
              BY <2>6, <4>2, <6>3
          <5> QED
            BY <1>0, <5>1 DEF LoopInv, Callbacks
        <4> QED
          BY <4>1, <4>2
      <3>2. \A id \in 1..MaxOps : id > Len(ops) => calls'[id] = 0
        <4>1. \A id \in 1..MaxOps : id > Len(ops) => calls[id] = 0 /\ id # id0
          BY <1>0, <2>3 DEF LoopInv, Callbacks, Links, Places
        <4> QED
          BY <2>6, <4>1
      <3>3. calls'[id0] >= 1
        BY <2>4, <2>6
      <3>4. seen' < Len(cq') /\ ~cq'[seen' + 1].notif /\ cq'[seen' + 1].id = id0 /\ cq'[seen' + 1].id \in pending_'
        BY <1>0, <2>2, <2>3, <2>8
      <3> QED
        BY <1>2, <2>8, <2>9, <3>1, <3>2, <3>3, <3>4 DEF Callbacks
    <2> QED
      BY <2>9, <2>10, <2>12, <2>13, <2>15 DEF LoopInv
  <1>3. CASE Current.id \notin pending_ /\ seen' = seen + 1 /\ UNCHANGED <<lpc, calls, pool>>
    <2>1. Current = cq[seen + 1] /\ Current.notif
      BY <1>1, <1>3 DEF Current
    <2>2. PICK m : m = seen + 1
      OBVIOUS
    <2>3. /\ Links(ops, sq, inflight, cq, m)
          /\ \A id : HeldAt(sq, inflight, cq, m, id) <=> HeldAt(sq, inflight, cq, seen, id)
      BY <1>0, <2>1, <2>2, PassLinks
    <2>4. Links(ops, sq, inflight, cq, seen)' /\ \A id : HeldNow(id)' <=> HeldNow(id)
      BY <1>0, <1>3, <2>2, <2>3 DEF HeldNow
    <2>5. Len(sq') <= Depth
      BY <1>0 DEF LoopInv, Counts
    <2> QED
      BY <1>0, <1>3, <2>4, <2>5, QuietLoop DEF LoopPoints
  <1> QED
    BY <1>2, <1>3 DEF HandleCompletion

(* The callback returns.                                                    *)
LEMMA ReturnsLoop ==
    ASSUME LoopInv, CallbackReturns
    PROVE  LoopInv'
  <1>0. /\ lpc = "callback" /\ lpc' = "process" /\ seen' = seen + 1 /\ seen < Len(cq)
        /\ Links(ops, sq, inflight, cq, seen) /\ seen \in Nat /\ Len(cq) \in Nat /\ Len(ops) \in Nat
        /\ sq' = sq /\ inflight' = inflight /\ cq' = cq /\ next_id_' = next_id_ /\ pool' = pool
        /\ total_submissions_' = total_submissions_ /\ ops' = ops /\ calls' = calls
        /\ total_completions_' = total_completions_ + 1
    BY DEF CallbackReturns, LoopInv, Links, Places, Callbacks
  <1>1. PICK x : x = cq[seen + 1]
    OBVIOUS
  <1>2. PICK id0 : id0 = x.id
    OBVIOUS
  <1>3. Current \in CompletionSet /\ Current.id \in 1..Len(ops)
    BY <1>0, CurrentIs
  <1>4. x \in CompletionSet /\ id0 \in 1..Len(ops) /\ id0 \in pending_ /\ ~x.notif /\ calls[id0] >= 1
    BY <1>0, <1>1, <1>2, <1>3 DEF Current, LoopInv, Callbacks
  <1>5. Kept(Current) <=> More(ops, x)
    BY <1>1 DEF Current, Kept, Multishot, More
  <1>6. /\ pending_' = IF More(ops, x) THEN pending_ ELSE pending_ \ {id0}
        /\ pending_ops_' = IF More(ops, x) THEN pending_ops_ ELSE pending_ops_ - 1
    BY <1>1, <1>2, <1>5 DEF CallbackReturns, Current
  <1>7. PICK m : m = seen + 1
    OBVIOUS
  <1>8. /\ Links(ops, sq, inflight, cq, m)
        /\ \A id : HeldAt(sq, inflight, cq, m, id) <=>
                     (HeldAt(sq, inflight, cq, seen, id) /\ (id # id0 \/ x.notif \/ More(ops, x)))
    BY <1>0, <1>1, <1>2, <1>7, PassLinks
  <1>9. /\ Links(ops, sq, inflight, cq, seen)'
        /\ \A id : HeldNow(id)' <=> (HeldNow(id) /\ (id # id0 \/ More(ops, x)))
    BY <1>0, <1>4, <1>7, <1>8 DEF HeldNow
  <1>16. Registered' <=> Registered
    BY <1>0 DEF Registered
  <1>10. HeldNow(id0) /\ ~(id0 = 1 /\ Registered)
    <2>1. HeldNow(id0)
      BY <1>0, <1>1, <1>2, <1>4, CurrentIs DEF Current
    <2> QED
      BY <2>1 DEF LoopInv, Registration
  <1>11. Counts'
    <2>1. CallsMade' = CallsMade
      BY <1>0 DEF CallsMade
    <2>2. /\ total_completions_ \in Nat /\ Cardinality(CallsMade) = total_completions_ + 1
          /\ Len(sq) <= Depth /\ next_id_ = Len(ops) + 1 /\ Len(ops) <= MaxOps
          /\ pending_ \subseteq 1..Len(ops) /\ pending_ops_ = Cardinality(pending_)
          /\ total_submissions_ = Cardinality({id \in 1..Len(ops) : ops[id].kind # "provide"})
          /\ calls \in [1..MaxOps -> Nat] /\ IsFiniteSet(CallsMade)
      BY <1>0 DEF LoopInv, Counts
    <2>3. pending_' \subseteq 1..Len(ops) /\ pending_ops_' = Cardinality(pending_')
      <3>1. CASE More(ops, x)
        BY <1>6, <2>2, <3>1
      <3>2. CASE ~More(ops, x)
        <4>1. IsFiniteSet(pending_)
          BY <1>0, <2>2, IdSets
        <4> QED
          BY <1>4, <1>6, <2>2, <3>2, <4>1, FS_RemoveElement
      <3> QED
        BY <3>1, <3>2
    <2> QED
      BY <1>0, <2>1, <2>2, <2>3 DEF Counts, LoopPoints
  <1>12. Registration'
    <2>1. Registered => ~HeldNow(1)'
      BY <1>9 DEF LoopInv, Registration
    <2> QED
      BY <1>0, <1>16, <2>1 DEF LoopInv, Registration
  <1>13. Provides'
    BY <1>0 DEF LoopInv, Provides
  <1>14. Pending'
    <2>1. ASSUME NEW id \in 1..Len(ops)
          PROVE  id \in pending_' <=> (HeldNow(id)' \/ (id = 1 /\ Registered))
      <3>1. id \in pending_ <=> (HeldNow(id) \/ (id = 1 /\ Registered))
        BY DEF LoopInv, Pending
      <3>2. CASE More(ops, x)
        BY <1>6, <1>9, <3>1, <3>2
      <3>3. CASE ~More(ops, x)
        BY <1>6, <1>9, <1>10, <3>1, <3>3
      <3> QED
        BY <3>2, <3>3
    <2> QED
      BY <1>0, <1>16, <2>1 DEF Pending
  <1>15. Callbacks'
    <2>1. ASSUME NEW id \in 1..Len(ops)
          PROVE  /\ calls[id] = 0 => id \in pending_'
                 /\ ops[id].kind # "accept" => calls[id] <= 1 /\ (HeldNow(id)' => calls[id] = 0)
      <3>1. /\ calls[id] = 0 => id \in pending_
            /\ ops[id].kind # "accept" =>
                 /\ calls[id] <= 1
                 /\ HeldNow(id) /\ ~(cq[seen + 1].id = id) => calls[id] = 0
        BY <1>0 DEF LoopInv, Callbacks
      <3>2. CASE id = id0
        <4>1. calls[id] # 0
          BY <1>4, <3>2
        <4>2. ops[id].kind # "accept" => ~HeldNow(id)'
          BY <1>2, <1>9, <3>2 DEF More
        <4> QED
          BY <3>1, <4>1, <4>2
      <3>3. CASE id # id0
        BY <1>1, <1>2, <1>6, <1>9, <3>1, <3>3
      <3> QED
        BY <3>2, <3>3
    <2>2. \A id \in 1..MaxOps : id > Len(ops) => calls[id] = 0
      BY DEF LoopInv, Callbacks
    <2> QED
      BY <1>0, <2>1, <2>2 DEF Callbacks
  <1> QED
    BY <1>9, <1>11, <1>12, <1>13, <1>14, <1>15 DEF LoopInv

-----------------------------------------------------------------------------
(* The invariant at the start,                                              *)
LEMMA LoopStarts == Init => LoopInv
  <1> SUFFICES ASSUME Init PROVE LoopInv
    OBVIOUS
  <1>1. /\ sq = <<>> /\ inflight = {} /\ cq = <<>> /\ seen = 0 /\ ops = <<>> /\ pending_ = {}
        /\ pending_ops_ = 0 /\ next_id_ = 1 /\ total_submissions_ = 0 /\ total_completions_ = 0
        /\ lpc = "outside" /\ calls = [id \in 1..MaxOps |-> 0]
        /\ pool = [kernel |-> {}, callers |-> {}, lost |-> {}, registered |-> FALSE]
    BY DEF Init
  <1>2. Len(<<>>) = 0 /\ <<>> \in Seq(OpSet) /\ <<>> \in Seq(CompletionSet) /\ 1..0 = {} /\ Unseen(<<>>, 0) = {}
    BY DEF Unseen
  <1>3. Links(ops, sq, inflight, cq, seen)
    BY <1>1, <1>2 DEF Links, Places, Known, OnceInQueue, OnceInKernel, LastIsLast, MoreFollows
  <1>4. Counts
    <2>1. CallsMade = {}
      <3>1. DOMAIN calls = 1..MaxOps /\ \A id \in 1..MaxOps : 1..calls[id] = {}
        BY <1>1
      <3> QED
        BY <3>1 DEF CallsMade
    <2>2. IsFiniteSet({}) /\ Cardinality({}) = 0
      BY FS_EmptySet
    <2>3. {id \in 1..Len(ops) : ops[id].kind # "provide"} = {}
      BY <1>1, <1>2
    <2> QED
      BY <1>1, <1>2, <2>1, <2>2, <2>3, Numbers DEF Counts, LoopPoints
  <1>5. Registration
    BY <1>1, <1>2 DEF Registration, Registered, PoolSet
  <1>6. Provides /\ Pending
    BY <1>1, <1>2 DEF Provides, Pending
  <1>7. Callbacks
    BY <1>1, <1>2 DEF Callbacks
  <1> QED
    BY <1>3, <1>4, <1>5, <1>6, <1>7 DEF LoopInv

(* An entry left unprepared is not made good again.                         *)
LEMMA StaleStays == [Next]_vars /\ ~stale' => ~stale /\ ~RecvWithoutPool
  <1> SUFFICES ASSUME [Next]_vars, ~stale' PROVE ~stale /\ ~RecvWithoutPool
    OBVIOUS
  <1>0. ~RecvWithoutPool
    BY DEF RecvWithoutPool
  <1>1. ASSUME NEW kind \in Kinds, NEW target \in 0..MaxOps, Async(kind, target) PROVE stale' = stale
    BY <1>1 DEF Async
  <1>2. ASSUME AsyncNoRoom \/ RegisterBegin \/ CallbackReturns
        PROVE  stale' = stale
    BY <1>2 DEF AsyncNoRoom, RegisterBegin, CallbackReturns
  <1>3. ASSUME NEW b \in Buffers, ReturnBuffer(b) PROVE stale' = stale
    BY <1>3 DEF ReturnBuffer
  <1>4. ASSUME NEW op \in inflight, Answer(op) \/ AnswerCancel(op) PROVE stale' = stale
    BY <1>4 DEF Answer, AnswerCancel, KernelUnchanged, loopVars
  <1>5. ASSUME Run \/ Submit \/ SubmitFails \/ Wait \/ WaitFails \/ ProcessEnds
        PROVE  stale' = stale
    BY <1>5 DEF Run, Submit, SubmitFails, Wait, WaitFails, ProcessEnds, loopVars
  <1>6. ASSUME HandleCompletion \/ Advance \/ RegisterEnd \/ Stop \/ UNCHANGED vars
        PROVE  stale' = stale
    BY <1>6 DEF HandleCompletion, Advance, RegisterEnd, Stop, vars, loopVars
  <1> QED
    BY <1>0, <1>1, <1>2, <1>3, <1>4, <1>5, <1>6 DEF Next, LoopStep

(* and after every step that leaves no entry unprepared.                    *)
LEMMA LoopStepKeeps == LoopInv /\ [Next]_vars /\ ~stale' => LoopInv'
  <1> SUFFICES ASSUME LoopInv, [Next]_vars, ~stale' PROVE LoopInv'
    OBVIOUS
  <1>15. ~RecvWithoutPool
    BY StaleStays
  <1>0. pool \in PoolSet
    BY DEF LoopInv, Registration
  <1>1. ASSUME NEW kind \in Kinds, NEW target \in 0..MaxOps, Async(kind, target) PROVE LoopInv'
    BY <1>1, AsyncLoop
  <1>2. CASE RegisterBegin
    BY <1>2, RegisterBeginLoop
  <1>3. ASSUME NEW b \in Buffers, ReturnBuffer(b) PROVE LoopInv'
    BY <1>3, ReturnBufferLoop
  <1>4. ASSUME NEW op \in inflight, Answer(op) PROVE LoopInv'
    BY <1>4, AnswerLoop
  <1>5. ASSUME NEW op \in inflight, AnswerCancel(op) PROVE LoopInv'
    BY <1>5, AnswerCancelLoop
  <1>6. CASE Run \/ SubmitFails \/ Wait \/ WaitFails \/ ProcessEnds
    BY <1>6, PointsLoop
  <1>7. CASE Submit
    BY <1>7, SubmitLoop
  <1>8. CASE HandleCompletion
    BY <1>8, HandleLoop
  <1>9. CASE CallbackReturns
    BY <1>9, ReturnsLoop
  <1>10. CASE Advance
    BY <1>10, AdvanceLoop
  <1>11. CASE RegisterEnd
    BY <1>11, RegisterEndLoop
  <1>12. CASE Stop
    BY <1>0, <1>12, LoopUnchanged DEF Stop, loopVars
  <1>13. CASE UNCHANGED vars
    BY <1>0, <1>13, LoopUnchanged DEF vars, loopVars
  <1>14. CASE AsyncNoRoom
    BY <1>0, <1>14, LoopUnchanged DEF AsyncNoRoom
  <1> QED
    BY <1>1, <1>2, <1>3, <1>4, <1>5, <1>6, <1>7, <1>8, <1>9, <1>10, <1>11, <1>12, <1>13, <1>14, <1>15
       DEF Next, LoopStep

(* The inductive invariant: every operation of io_uring_loop.cpp is in one  *)
(* place, its results come in order, and pending_, the counters and the     *)
(* callbacks made agree with where it is.  It holds through refusals with   *)
(* -ENOMEM, failed submissions and a failed registration of the pool, until *)
(* async_recv_provided() without a pool leaves an entry unprepared.         *)
THEOREM UringInvariant == Spec => [](~stale => LoopInv)
  <1>1. Init => (~stale => LoopInv)
    BY LoopStarts
  <1>2. (~stale => LoopInv) /\ [Next]_vars => (~stale => LoopInv)'
    BY LoopStepKeeps, StaleStays
  <1> QED
    BY <1>1, <1>2, PTL DEF Spec

(* What the invariant says of the callbacks.                                *)
LEMMA LoopInvExact == (~stale => LoopInv) => CompletionsExact
  <1> SUFFICES ASSUME LoopInv PROVE TypeOK /\ NoneForgotten /\ CalledOnce
    BY DEF CompletionsExact
  <1>1. /\ Len(ops) \in Nat /\ DOMAIN ops = 1..Len(ops) /\ DOMAIN sq = 1..Len(sq) /\ seen \in 0..Len(cq)
    BY DEF LoopInv, Links, Places
  <1>2. TypeOK
    <2>1. next_id_ - 1 = Len(ops)
      BY <1>1 DEF LoopInv, Counts
    <2> QED
      BY <1>1, <2>1 DEF LoopInv, Counts, TypeOK, LoopPoints
  <1>3. \A id : Held(id) <=> HeldNow(id)
    BY <1>1 DEF Held, HeldNow, HeldAt, Main, Unseen
  <1>4. NoneForgotten
    <2>1. ASSUME NEW id \in 1..Len(ops)
          PROVE  (RegistersPool(id) /\ lpc # "register") <=> (id = 1 /\ Registered)
      <3>1. CASE id = 1
        BY <1>1, <3>1 DEF LoopInv, Provides, RegistersPool, Registered
      <3>2. CASE id # 1
        BY <3>2, Numbers DEF LoopInv, Provides, RegistersPool
      <3> QED
        BY <3>1, <3>2
    <2> QED
      BY <1>1, <1>3, <2>1 DEF LoopInv, Pending, NoneForgotten
  <1>5. CalledOnce
    BY <1>1 DEF LoopInv, Callbacks, CalledOnce, Multishot
  <1> QED
    BY <1>2, <1>4, <1>5

(* Each operation given to the loop is called back as often as it should be *)
(* and is forgotten neither before nor kept after that, whatever the depth  *)
(* of the queue, the number of operations and the order in which the kernel *)
(* answers and callbacks submit more (handle_completion(), src/io_uring_loop.cpp), *)
(* as long as no entry of the queue was taken and left unprepared.          *)
THEOREM UringCompletionsExact == Spec => []CompletionsExact
  <1>1. Spec => [](~stale => LoopInv)
    BY UringInvariant
  <1>2. (~stale => LoopInv) => CompletionsExact
    BY LoopInvExact
  <1> QED
    BY <1>1, <1>2, PTL

-----------------------------------------------------------------------------
(* The buffers of the pool: which part of the pool has b, and that there is *)
(* one place for it.                                                        *)
PoolHas(b) ==
    \/ b \in pool.kernel /\ b \notin pool.callers /\ b \notin pool.lost
    \/ b \notin pool.kernel /\ b \in pool.callers /\ b \notin pool.lost
    \/ b \notin pool.kernel /\ b \notin pool.callers /\ b \in pool.lost
PoolLacks(b) == b \notin pool.kernel /\ b \notin pool.callers /\ b \notin pool.lost

OnePlace(b) ==
    \/ PoolHas(b) /\ InCompletion(b) = {} /\ InOperation(b) = {}
    \/ PoolLacks(b) /\ (\E i : InCompletion(b) = {i}) /\ InOperation(b) = {}
    \/ PoolLacks(b) /\ InCompletion(b) = {} /\ \E op : InOperation(b) = {op}

BufferInv ==
    /\ \A i \in 1..Len(cq) : cq[i].notif => cq[i].buffer = NoBuffer
    /\ pool.registered => \A b \in Buffers : OnePlace(b)

(* A buffer that is left alone.                                             *)
LEMMA SamePlace ==
    ASSUME NEW b, OnePlace(b), InCompletion(b)' = InCompletion(b), InOperation(b)' = InOperation(b),
           b \in pool'.kernel <=> b \in pool.kernel, b \in pool'.callers <=> b \in pool.callers,
           b \in pool'.lost <=> b \in pool.lost
    PROVE  OnePlace(b)'
  <1>1. PoolHas(b)' <=> PoolHas(b)
    BY DEF PoolHas
  <1>2. PoolLacks(b)' <=> PoolLacks(b)
    BY DEF PoolLacks
  <1> QED
    BY <1>1, <1>2 DEF OnePlace

(* A buffer in a completion, now and after the step,                        *)
LEMMA InCompletionIs ==
    ASSUME NEW b, NEW i
    PROVE  /\ i \in InCompletion(b) <=>
                 (i \in Unseen(cq, seen) /\ cq[i].buffer = b /\ ~(lpc = "callback" /\ i = seen + 1))
           /\ i \in InCompletion(b)' <=>
                 (i \in Unseen(cq', seen') /\ cq'[i].buffer = b /\ ~(lpc' = "callback" /\ i = seen' + 1))
  BY DEF InCompletion, Unseen

(* and in an operation.                                                     *)
LEMMA InOperationIs ==
    ASSUME NEW b, NEW op
    PROVE  /\ op \in InOperation(b) <=>
                 ((op \in inflight \/ op \in ToSet(sq)) /\ op.kind = "provide" /\ op.arg = b)
           /\ op \in InOperation(b)' <=>
                 ((op \in inflight' \/ op \in ToSet(sq')) /\ op.kind = "provide" /\ op.arg = b)
  BY DEF InOperation

(* The operations of a queue.                                               *)
LEMMA SetOfAppended ==
    ASSUME NEW q \in Seq(OpSet), NEW op \in OpSet
    PROVE  /\ \A x : x \in ToSet(Append(q, op)) <=> (x \in ToSet(q) \/ x = op)
           /\ \A x : x \in ToSet(<<op>>) <=> x = op
           /\ \A x : x \notin ToSet(<<>>)
  <1>1. Len(q) \in Nat /\ Append(q, op) \in Seq(OpSet) /\ Len(Append(q, op)) = Len(q) + 1
        /\ Append(q, op)[Len(q) + 1] = op /\ \A i \in 1..Len(q) : Append(q, op)[i] = q[i]
    OBVIOUS
  <1>2. \A i : i \in 1..(Len(q) + 1) <=> (i \in 1..Len(q) \/ i = Len(q) + 1)
    BY <1>1
  <1>3. \A x : x \in ToSet(q) <=> \E i \in 1..Len(q) : x = q[i]
    BY DEF ToSet
  <1>4. PICK r : r = Append(q, op)
    OBVIOUS
  <1>5. r \in Seq(OpSet) /\ Len(r) = Len(q) + 1 /\ r[Len(q) + 1] = op /\ \A i \in 1..Len(q) : r[i] = q[i]
    BY <1>1, <1>4
  <1>6. \A x : x \in ToSet(r) <=> \E i \in 1..Len(r) : x = r[i]
    BY <1>5 DEF ToSet
  <1>7. \A x : x \in ToSet(r) <=> (x \in ToSet(q) \/ x = op)
    BY <1>2, <1>3, <1>5, <1>6
  <1>8. \A x : x \in ToSet(<<op>>) <=> x = op
    BY DEF ToSet
  <1>9. \A x : x \notin ToSet(<<>>)
    BY DEF ToSet
  <1> QED
    BY <1>4, <1>7, <1>8, <1>9

(* Steps that leave every buffer where it is.                               *)
LEMMA BuffersStay ==
    ASSUME BufferInv, pool'.registered => pool.registered,
           \A i \in 1..Len(cq') : cq'[i].notif => cq'[i].buffer = NoBuffer,
           \A b \in Buffers : InCompletion(b)' = InCompletion(b) /\ InOperation(b)' = InOperation(b),
           pool'.kernel = pool.kernel, pool'.callers = pool.callers, pool'.lost = pool.lost
    PROVE  BufferInv'
  <1>1. ASSUME NEW b \in Buffers, pool'.registered PROVE OnePlace(b)'
    <2>1. OnePlace(b)
      BY <1>1 DEF BufferInv
    <2> QED
      BY <2>1, SamePlace
  <1> QED
    BY <1>1 DEF BufferInv

(* The sequences and their lengths.                                         *)
LEMMA CompletionsNumbered ==
    ASSUME LoopInv
    PROVE  /\ seen \in Nat /\ Len(cq) \in Nat /\ seen <= Len(cq)
           /\ lpc = "callback" => seen < Len(cq)
           /\ cq \in Seq(CompletionSet) /\ sq \in Seq(OpSet) /\ inflight \subseteq OpSet /\ pool \in PoolSet
  BY DEF LoopInv, Links, Places, Callbacks, Registration

(* Completions without a buffer are posted.                                 *)
LEMMA PostedStay ==
    ASSUME LoopInv, NEW b \in Buffers, Len(cq') \in Nat, Len(cq') >= Len(cq), seen' = seen, lpc' = lpc,
           \A i \in 1..Len(cq) : cq'[i] = cq[i],
           \A i \in (Len(cq) + 1)..Len(cq') : cq'[i].buffer = NoBuffer
    PROVE  InCompletion(b)' = InCompletion(b)
  <1>1. /\ \A i \in Unseen(cq, seen) : i \in Unseen(cq', seen) /\ i \in 1..Len(cq)
        /\ \A i \in Unseen(cq', seen) : i \in Unseen(cq, seen) \/ i \in (Len(cq) + 1)..Len(cq')
    BY CompletionsNumbered DEF Unseen
  <1>2. b # NoBuffer
    BY Numbers
  <1>3. \A i : i \in InCompletion(b)' <=> i \in InCompletion(b)
    BY <1>1, <1>2, InCompletionIs
  <1> QED
    BY <1>3

(* One of op without a buffer is posted, where op gives no buffer either.   *)
LEMMA NoBufferStays ==
    ASSUME LoopInv, BufferInv, NEW op \in inflight, op.kind # "provide", NEW more \in BOOLEAN,
           Post(op, more, NoBuffer), KernelUnchanged, pool' = pool,
           \A x : x \in inflight' /\ x.kind = "provide" <=> x \in inflight /\ x.kind = "provide"
    PROVE  BufferInv'
  <1>1. PICK x : x = Completion(op, more, NoBuffer)
    OBVIOUS
  <1>2. op \in OpSet
    BY CompletionsNumbered
  <1>3. x \in CompletionSet /\ x.buffer = NoBuffer
    BY <1>1, <1>2, CompletionIs
  <1>4. cq' = Append(cq, x) /\ seen' = seen /\ lpc' = lpc /\ sq' = sq
    BY <1>1 DEF Post, KernelUnchanged
  <1>5. /\ Len(cq') = Len(cq) + 1 /\ cq'[Len(cq) + 1] = x /\ Len(cq) \in Nat
        /\ \A i \in 1..Len(cq) : cq'[i] = cq[i]
    BY <1>3, <1>4, CompletionsNumbered
  <1>6. /\ \A i \in 1..Len(cq') : i \in 1..Len(cq) \/ i = Len(cq) + 1
        /\ \A i \in (Len(cq) + 1)..Len(cq') : i = Len(cq) + 1
        /\ Len(cq') \in Nat /\ Len(cq') >= Len(cq)
    BY <1>5
  <1>7. \A i \in 1..Len(cq') : cq'[i].notif => cq'[i].buffer = NoBuffer
    BY <1>3, <1>5, <1>6 DEF BufferInv
  <1>8. \A i \in (Len(cq) + 1)..Len(cq') : cq'[i].buffer = NoBuffer
    BY <1>3, <1>5, <1>6
  <1>9. ASSUME NEW b \in Buffers PROVE InCompletion(b)' = InCompletion(b) /\ InOperation(b)' = InOperation(b)
    <2>1. InCompletion(b)' = InCompletion(b)
      BY <1>4, <1>5, <1>6, <1>8, PostedStay
    <2>2. \A z : z \in InOperation(b)' <=> z \in InOperation(b)
      BY <1>4, InOperationIs
    <2> QED
      BY <2>1, <2>2
  <1> QED
    BY <1>7, <1>9, BuffersStay

(* An answer moves at most the buffer it gives or takes.                    *)
LEMMA AnswerBuffers ==
    ASSUME LoopInv, BufferInv, NEW op \in inflight, Answer(op)
    PROVE  BufferInv'
  <1>1. KernelUnchanged /\ op \in OpSet /\ pool \in PoolSet /\ Len(cq) \in Nat /\ cq \in Seq(CompletionSet)
    BY CompletionsNumbered DEF Answer
  <1>2. CASE op.kind \in {"oneshot", "timeout", "nop", "accept", "notify", "recv"}
               /\ Post(op, FALSE, NoBuffer) /\ Ended(op) /\ UNCHANGED pool
    <2>1. \A x : x \in inflight' /\ x.kind = "provide" <=> x \in inflight /\ x.kind = "provide"
      BY <1>2 DEF Ended
    <2> QED
      BY <1>1, <1>2, <2>1, NoBufferStays
  <1>3. CASE op.kind = "accept" /\ Post(op, TRUE, NoBuffer) /\ UNCHANGED <<inflight, pool>>
    BY <1>1, <1>3, NoBufferStays
  <1>4. CASE /\ op.kind = "send_zc" /\ Post(op, TRUE, NoBuffer) /\ UNCHANGED pool
             /\ inflight' = (inflight \ {op}) \cup {[op EXCEPT !.kind = "notify"]}
    <2>1. PICK z : z = [op EXCEPT !.kind = "notify"]
      OBVIOUS
    <2>2. z.kind = "notify"
      BY <1>1, <2>1 DEF OpSet
    <2>3. \A x : x \in inflight' <=> ((x \in inflight /\ x # op) \/ x = z)
      BY <1>4, <2>1
    <2>4. op.kind # "provide" /\ \A x : x \in inflight' /\ x.kind = "provide" <=> x \in inflight /\ x.kind = "provide"
      BY <1>4, <2>2, <2>3
    <2> QED
      BY <1>1, <1>4, <2>4, NoBufferStays
  <1>5. CASE /\ op.kind = "recv" /\ pool.kernel # {} /\ Ended(op)
             /\ LET b == Min(pool.kernel) IN
                Post(op, FALSE, b) /\ pool' = [pool EXCEPT !.kernel = @ \ {b}]
    <2>1. PICK m : m = Min(pool.kernel)
      OBVIOUS
    <2>2. m \in pool.kernel /\ m \in Buffers
      BY <1>1, <1>5, <2>1, MinIsIn, Numbers DEF PoolSet
    <2>3. PICK x : x = Completion(op, FALSE, m)
      OBVIOUS
    <2>4. x \in CompletionSet /\ x.buffer = m /\ ~x.notif
      <3>1. LastResult(x, op, m) /\ m \in Buffers \cup {NoBuffer} /\ op \in OpSet
        BY <1>1, <2>2, <2>3 DEF LastResult
      <3> QED
        BY <1>5, <3>1, LastResultIs
    <2>5. cq' = Append(cq, x) /\ seen' = seen /\ lpc' = lpc /\ sq' = sq
      BY <1>1, <1>5, <2>1, <2>3 DEF Post, KernelUnchanged
    <2>6. /\ pool'.kernel = pool.kernel \ {m} /\ pool'.callers = pool.callers /\ pool'.lost = pool.lost
          /\ pool'.registered = pool.registered
      BY <1>1, <1>5, <2>1 DEF PoolSet
    <2>7. PICK e : e = Len(cq) + 1
      OBVIOUS
    <2>8. Len(cq') = e /\ cq'[e] = x /\ e \in Nat /\ \A i \in 1..Len(cq) : cq'[i] = cq[i]
      BY <1>1, <2>4, <2>5, <2>7
    <2>9. /\ \A i \in 1..Len(cq') : i \in 1..Len(cq) \/ i = e
          /\ \A i : i \in Unseen(cq', seen) <=> (i \in Unseen(cq, seen) \/ i = e)
          /\ \A i \in Unseen(cq, seen) : i \in 1..Len(cq) /\ i # e
          /\ ~(lpc = "callback" /\ e = seen + 1)
      BY <1>1, <2>7, <2>8, CompletionsNumbered DEF Unseen
    <2>10. \A i \in 1..Len(cq') : cq'[i].notif => cq'[i].buffer = NoBuffer
      BY <2>4, <2>8, <2>9 DEF BufferInv
    <2>11. ASSUME NEW b \in Buffers PROVE InOperation(b)' = InOperation(b)
      <3>1. \A z : z \in InOperation(b)' <=> z \in InOperation(b)
        BY <1>5, <2>5, InOperationIs DEF Ended
      <3> QED
        BY <3>1
    <2>12. ASSUME NEW b \in Buffers, b # m PROVE InCompletion(b)' = InCompletion(b)
      <3>1. \A i : i \in InCompletion(b)' <=> i \in InCompletion(b)
        BY <2>4, <2>5, <2>8, <2>9, <2>12, InCompletionIs
      <3> QED
        BY <3>1
    <2>13. InCompletion(m) = {} => InCompletion(m)' = {e}
      <3>1. \A i : i \in InCompletion(m)' <=> (i \in InCompletion(m) \/ i = e)
        BY <2>4, <2>5, <2>8, <2>9, InCompletionIs
      <3> QED
        BY <3>1
    <2>14. ASSUME NEW b \in Buffers, pool'.registered PROVE OnePlace(b)'
      <3>0. OnePlace(b)
        BY <2>6, <2>14 DEF BufferInv
      <3>1. CASE b # m
        BY <2>6, <2>11, <2>12, <3>0, <3>1, SamePlace
      <3>2. CASE b = m
        <4>1. PoolHas(b) /\ InCompletion(b) = {} /\ InOperation(b) = {}
          BY <2>2, <3>0, <3>2 DEF OnePlace, PoolLacks
        <4>2. PoolLacks(b)'
          BY <2>2, <2>6, <3>2, <4>1 DEF PoolHas, PoolLacks
        <4>3. InCompletion(b)' = {e} /\ InOperation(b)' = {}
          BY <2>11, <2>13, <3>2, <4>1
        <4> QED
          BY <4>2, <4>3 DEF OnePlace
      <3> QED
        BY <3>1, <3>2
    <2> QED
      BY <2>10, <2>14 DEF BufferInv
  <1>6. CASE /\ op.kind = "provide" /\ Post(op, FALSE, NoBuffer) /\ Ended(op)
             /\ \/ pool' = [pool EXCEPT !.kernel = IF op.arg = 0 THEN Buffers ELSE @ \cup {op.arg}]
                \/ op.arg = 0 /\ UNCHANGED pool
    <2>1. PICK x : x = Completion(op, FALSE, NoBuffer)
      OBVIOUS
    <2>2. x \in CompletionSet /\ x.buffer = NoBuffer
      <3>1. LastResult(x, op, NoBuffer) /\ NoBuffer \in Buffers \cup {NoBuffer} /\ op \in OpSet
        BY <1>1, <2>1 DEF LastResult
      <3> QED
        BY <3>1, LastResultIs
    <2>3. cq' = Append(cq, x) /\ seen' = seen /\ lpc' = lpc /\ sq' = sq /\ inflight' = inflight \ {op}
      BY <1>1, <1>6, <2>1 DEF Post, KernelUnchanged, Ended
    <2>4. Len(cq') = Len(cq) + 1 /\ cq'[Len(cq) + 1] = x /\ \A i \in 1..Len(cq) : cq'[i] = cq[i]
      BY <1>1, <2>2, <2>3
    <2>5. /\ \A i \in 1..Len(cq') : i \in 1..Len(cq) \/ i = Len(cq) + 1
          /\ \A i \in (Len(cq) + 1)..Len(cq') : i = Len(cq) + 1
          /\ Len(cq') \in Nat /\ Len(cq') >= Len(cq)
      BY <1>1, <2>4
    <2>6. \A i \in 1..Len(cq') : cq'[i].notif => cq'[i].buffer = NoBuffer
      BY <2>2, <2>4, <2>5 DEF BufferInv
    <2>7. \A i \in (Len(cq) + 1)..Len(cq') : cq'[i].buffer = NoBuffer
      BY <2>2, <2>4, <2>5
    <2>8. pool'.registered = pool.registered /\ pool'.callers = pool.callers /\ pool'.lost = pool.lost
      BY <1>1, <1>6 DEF PoolSet
    <2>9. ASSUME NEW b \in Buffers, pool'.registered PROVE OnePlace(b)'
      <3>0. OnePlace(b) /\ op.arg \in Buffers /\ op.arg # 0
        BY <1>6, <2>8, <2>9, ProvidedIs, Numbers DEF BufferInv
      <3>1. pool'.kernel = pool.kernel \cup {op.arg}
        BY <1>1, <1>6, <3>0 DEF PoolSet
      <3>2. InCompletion(b)' = InCompletion(b)
        BY <2>3, <2>4, <2>5, <2>7, PostedStay
      <3>3. op \notin ToSet(sq)
        <4>1. \A z : z \in ToSet(sq) <=> \E i \in 1..Len(sq) : z = sq[i]
          BY CompletionsNumbered DEF ToSet
        <4> QED
          BY <4>1 DEF LoopInv, Links, OnceInQueue
      <3>4. \A z : z \in InOperation(b)' <=> (z \in InOperation(b) /\ z # op)
        BY <2>3, <3>3, InOperationIs
      <3>5. CASE b # op.arg
        <4>1. op \notin InOperation(b)
          BY <3>5, InOperationIs
        <4>2. InOperation(b)' = InOperation(b)
          BY <3>4, <4>1
        <4> QED
          BY <2>8, <3>0, <3>1, <3>2, <3>5, <4>2, SamePlace
      <3>6. CASE b = op.arg
        <4>1. op \in InOperation(b)
          BY <1>6, <3>6, InOperationIs
        <4>2. PoolLacks(b) /\ InCompletion(b) = {} /\ \E z : InOperation(b) = {z}
          BY <3>0, <4>1 DEF OnePlace
        <4>3. InOperation(b)' = {}
          BY <3>4, <4>1, <4>2
        <4>4. PoolHas(b)'
          BY <2>8, <3>1, <3>6, <4>2 DEF PoolLacks, PoolHas
        <4> QED
          BY <3>2, <4>2, <4>3, <4>4 DEF OnePlace
      <3> QED
        BY <3>5, <3>6
    <2> QED
      BY <2>6, <2>9 DEF BufferInv
  <1> QED
    BY <1>2, <1>3, <1>4, <1>5, <1>6 DEF Answer

(* A cancel moves none.                                                     *)
LEMMA AnswerCancelBuffers ==
    ASSUME LoopInv, BufferInv, NEW op \in inflight, AnswerCancel(op), LoopInv'
    PROVE  BufferInv'
  <1>1. KernelUnchanged /\ pool' = pool /\ op.kind = "cancel"
    BY DEF AnswerCancel
  <1>2. /\ Len(cq') >= Len(cq) /\ \A i \in 1..Len(cq) : cq'[i] = cq[i]
        /\ \A i \in (Len(cq) + 1)..Len(cq') : cq'[i].buffer = NoBuffer
    BY CancelPosts
  <1>3. /\ seen' = seen /\ lpc' = lpc /\ sq' = sq
        /\ \A x : x \in inflight' /\ x.kind = "provide" <=> x \in inflight /\ x.kind = "provide"
    <2>1. PICK targets : targets = {o \in inflight : o.id = op.arg /\ o.kind \notin {"notify", "provide"}}
      OBVIOUS
    <2>2. inflight' = (inflight \ {op}) \ targets
      BY <2>1 DEF AnswerCancel
    <2> QED
      BY <1>1, <2>1, <2>2 DEF KernelUnchanged
  <1>4. Len(cq) \in Nat /\ Len(cq') \in Nat
    BY CompletionsNumbered DEF LoopInv, Links, Places
  <1>5. \A i \in 1..Len(cq') : i \in 1..Len(cq) \/ i \in (Len(cq) + 1)..Len(cq')
    BY <1>2, <1>4
  <1>6. \A i \in 1..Len(cq') : cq'[i].notif => cq'[i].buffer = NoBuffer
    BY <1>2, <1>5 DEF BufferInv
  <1>7. ASSUME NEW b \in Buffers PROVE InCompletion(b)' = InCompletion(b) /\ InOperation(b)' = InOperation(b)
    <2>1. InCompletion(b)' = InCompletion(b)
      BY <1>2, <1>3, <1>4, PostedStay
    <2>2. \A z : z \in InOperation(b)' <=> z \in InOperation(b)
      BY <1>3, InOperationIs
    <2> QED
      BY <2>1, <2>2
  <1> QED
    BY <1>1, <1>6, <1>7, BuffersStay

(* The callers' actions.                                                    *)
LEMMA AsyncBuffers ==
    ASSUME LoopInv, BufferInv, NEW kind \in Kinds, NEW target \in 0..MaxOps, Async(kind, target)
    PROVE  BufferInv'
  <1>1. PICK op : op = Op(next_id_, kind, target)
    OBVIOUS
  <1>2. op \in OpSet /\ op.kind # "provide"
    <2>1. kind \in AllKinds /\ kind # "provide" /\ target \in Nat /\ next_id_ \in Nat
      BY LoopAssumption, Numbers DEF AllKinds, LoopInv, Counts, Links, Places
    <2> QED
      BY <1>1, <2>1 DEF Op, OpSet
  <1>3. cq' = cq /\ seen' = seen /\ lpc' = lpc /\ pool' = pool
    BY DEF Async
  <1>4. \A x : (x \in inflight' \/ x \in ToSet(sq')) <=> (x \in inflight \/ x \in ToSet(sq) \/ x = op)
    <2>1. sq \in Seq(OpSet)
      BY CompletionsNumbered
    <2>2. /\ \A x : x \in ToSet(Append(sq, op)) <=> (x \in ToSet(sq) \/ x = op)
          /\ \A x : x \in ToSet(<<op>>) <=> x = op
      BY <1>2, <2>1, SetOfAppended
    <2>3. \/ sq' = Append(sq, op) /\ inflight' = inflight
          \/ sq' = <<op>> /\ inflight' = inflight \cup ToSet(sq)
      BY <1>1 DEF Async, Enqueue
    <2> QED
      BY <2>2, <2>3
  <1>5. ASSUME NEW b \in Buffers PROVE InCompletion(b)' = InCompletion(b) /\ InOperation(b)' = InOperation(b)
    <2>1. \A i : i \in InCompletion(b)' <=> i \in InCompletion(b)
      BY <1>3, InCompletionIs
    <2>2. \A z : z \in InOperation(b)' <=> z \in InOperation(b)
      BY <1>2, <1>4, InOperationIs
    <2> QED
      BY <2>1, <2>2
  <1>6. \A i \in 1..Len(cq') : cq'[i].notif => cq'[i].buffer = NoBuffer
    BY <1>3 DEF BufferInv
  <1> QED
    BY <1>3, <1>5, <1>6, BuffersStay

(* A caller's buffer goes to an operation, or is lost.                      *)
LEMMA ReturnBufferBuffers ==
    ASSUME LoopInv, BufferInv, NEW g \in Buffers, ReturnBuffer(g)
    PROVE  BufferInv'
  <1>1. /\ g \in pool.callers /\ pool \in PoolSet /\ cq' = cq /\ seen' = seen /\ lpc' = lpc /\ inflight' = inflight
        /\ sq \in Seq(OpSet)
    BY CompletionsNumbered DEF ReturnBuffer
  <1>2. \A i \in 1..Len(cq') : cq'[i].notif => cq'[i].buffer = NoBuffer
    BY <1>1 DEF BufferInv
  <1>3. ASSUME NEW b \in Buffers PROVE InCompletion(b)' = InCompletion(b)
    <2>1. \A i : i \in InCompletion(b)' <=> i \in InCompletion(b)
      BY <1>1, InCompletionIs
    <2> QED
      BY <2>1
  <1>4. CASE sq' = Append(sq, GiveBack(g)) /\ pool' = [pool EXCEPT !.callers = @ \ {g}]
    <2>1. PICK op : op = GiveBack(g)
      OBVIOUS
    <2>2. op \in OpSet /\ op.kind = "provide" /\ op.arg = g
      <3>1. g \in Nat /\ next_id_ \in Nat
        BY Numbers DEF LoopInv, Counts, Links, Places
      <3> QED
        BY <2>1, <3>1 DEF GiveBack, Op, OpSet, AllKinds
    <2>3. \A x : x \in ToSet(sq') <=> (x \in ToSet(sq) \/ x = op)
      BY <1>1, <1>4, <2>1, <2>2, SetOfAppended
    <2>4. /\ pool'.kernel = pool.kernel /\ pool'.callers = pool.callers \ {g} /\ pool'.lost = pool.lost
          /\ pool'.registered = pool.registered
      BY <1>1, <1>4 DEF PoolSet
    <2>5. ASSUME NEW b \in Buffers, pool'.registered PROVE OnePlace(b)'
      <3>0. OnePlace(b) /\ InCompletion(b)' = InCompletion(b)
        BY <1>3, <2>4, <2>5 DEF BufferInv
      <3>1. CASE b # g
        <4>1. \A z : z \in InOperation(b)' <=> z \in InOperation(b)
          BY <1>1, <2>2, <2>3, <3>1, InOperationIs
        <4>2. InOperation(b)' = InOperation(b)
          BY <4>1
        <4> QED
          BY <2>4, <3>0, <3>1, <4>2, SamePlace
      <3>2. CASE b = g
        <4>1. PoolHas(b) /\ InCompletion(b) = {} /\ InOperation(b) = {}
          BY <1>1, <3>0, <3>2 DEF OnePlace, PoolLacks
        <4>2. \A z : z \in InOperation(b)' <=> (z \in InOperation(b) \/ z = op)
          BY <1>1, <2>2, <2>3, <3>2, InOperationIs
        <4>3. InOperation(b)' = {op}
          BY <4>1, <4>2
        <4>4. PoolLacks(b)'
          BY <1>1, <2>4, <3>2, <4>1 DEF PoolHas, PoolLacks
        <4> QED
          BY <3>0, <4>1, <4>3, <4>4 DEF OnePlace
      <3> QED
        BY <3>1, <3>2
    <2> QED
      BY <1>2, <2>5 DEF BufferInv
  <1>5. CASE pool' = [pool EXCEPT !.callers = @ \ {g}, !.lost = @ \cup {g}] /\ sq' = sq
    <2>1. PICK S : S = pool.callers \ {g}
      OBVIOUS
    <2>2. PICK T : T = pool.lost \cup {g}
      OBVIOUS
    <2>3. pool' = [pool EXCEPT !.callers = S, !.lost = T]
      BY <1>5, <2>1, <2>2
    <2>4. pool'.kernel = pool.kernel /\ pool'.callers = S /\ pool'.lost = T /\ pool'.registered = pool.registered
      BY <1>1, <2>3 DEF PoolSet
    <2>5. ASSUME NEW b \in Buffers, pool'.registered PROVE OnePlace(b)'
      <3>0. OnePlace(b) /\ InCompletion(b)' = InCompletion(b)
        BY <1>3, <2>4, <2>5 DEF BufferInv
      <3>1. \A z : z \in InOperation(b)' <=> z \in InOperation(b)
        BY <1>1, <1>5, InOperationIs
      <3>2. InOperation(b)' = InOperation(b)
        BY <3>1
      <3>3. CASE b # g
        BY <2>1, <2>2, <2>4, <3>0, <3>2, <3>3, SamePlace
      <3>4. CASE b = g
        <4>1. PoolHas(b) /\ InCompletion(b) = {} /\ InOperation(b) = {}
          BY <1>1, <3>0, <3>4 DEF OnePlace, PoolLacks
        <4>2. PoolHas(b)'
          BY <1>1, <2>1, <2>2, <2>4, <3>4, <4>1 DEF PoolHas
        <4> QED
          BY <3>0, <3>2, <4>1, <4>2 DEF OnePlace
      <3> QED
        BY <3>3, <3>4
    <2> QED
      BY <1>2, <2>5 DEF BufferInv
  <1> QED
    BY <1>4, <1>5 DEF ReturnBuffer

(* The registration, after which the kernel has every buffer.               *)
LEMMA RegisterBuffers ==
    ASSUME LoopInv, BufferInv, RegisterBegin \/ RegisterEnd
    PROVE  BufferInv'
  <1>1. CASE RegisterBegin
    <2>1. cq' = cq /\ pool' = pool /\ pool.registered = FALSE
      BY <1>1 DEF RegisterBegin, LoopInv, Registration, Counts, Links, Places
    <2> QED
      BY <2>1 DEF BufferInv
  <1>2. CASE RegisterEnd
    <2>1. /\ sq = <<>> /\ inflight = {} /\ Len(cq) = 1 /\ pool.callers = {} /\ pool.lost = {}
          /\ pool \in PoolSet /\ cq \in Seq(CompletionSet) /\ cq # <<>> /\ seen = 0
      BY <1>2, CompletionsNumbered DEF RegisterEnd, LoopInv, Registration
    <2>2. Len(cq') = 0 /\ seen' = 0 /\ sq' = <<>> /\ inflight' = {}
      BY <1>2, <2>1, HeadTailProperties DEF RegisterEnd
    <2>3. /\ pool'.callers = {} /\ pool'.lost = {}
          /\ pool'.registered => pool'.kernel = Buffers
      <3>1. PICK g : g = (Head(cq).id = 1 => pool.kernel = Buffers)
        OBVIOUS
      <3>2. pool' = [pool EXCEPT !.registered = g]
        BY <1>2, <3>1 DEF RegisterEnd
      <3>3. ops = <<TheFirst>>
        BY <1>2 DEF RegisterEnd, LoopInv, Registration
      <3>4. Head(cq) = cq[1] /\ 1 \in 1..Len(cq)
        BY <2>1
      <3>5. 1..Len(ops) = {1}
        BY <3>3
      <3>6. cq[1].id \in 1..Len(ops)
        BY <3>4 DEF LoopInv, Links, Known
      <3>7. g => pool.kernel = Buffers
        BY <3>1, <3>4, <3>5, <3>6
      <3> QED
        BY <2>1, <3>2, <3>7 DEF PoolSet
    <2>4. 1..Len(cq') = {} /\ Unseen(cq', seen') = {}
      BY <2>2 DEF Unseen
    <2>5. ASSUME NEW b \in Buffers, pool'.registered PROVE OnePlace(b)'
      <3>1. \A i : i \notin InCompletion(b)'
        BY <2>4, InCompletionIs
      <3>2. \A z : z \notin InOperation(b)'
        <4>1. \A x : x \notin ToSet(<<>>)
          BY DEF ToSet
        <4> QED
          BY <2>2, <4>1, InOperationIs
      <3>3. InCompletion(b)' = {} /\ InOperation(b)' = {}
        BY <3>1, <3>2
      <3>4. PoolHas(b)'
        BY <2>3, <2>5 DEF PoolHas
      <3> QED
        BY <3>3, <3>4 DEF OnePlace
    <2> QED
      BY <2>4, <2>5 DEF BufferInv
  <1> QED
    BY <1>1, <1>2

(* The loop's actions.                                                      *)
LEMMA PointsBuffers ==
    ASSUME LoopInv, BufferInv,
           Run \/ Submit \/ SubmitFails \/ Wait \/ WaitFails \/ ProcessEnds \/ Stop \/ UNCHANGED vars
    PROVE  BufferInv'
  <1>1. /\ cq' = cq /\ seen' = seen /\ pool' = pool
        /\ lpc' = "callback" <=> lpc = "callback"
    BY DEF Run, Submit, SubmitFails, Wait, WaitFails, ProcessEnds, Stop, Again, vars
  <1>2. \A x : (x \in inflight' \/ x \in ToSet(sq')) <=> (x \in inflight \/ x \in ToSet(sq))
    <2>1. CASE Submit
      <3>1. \A x : x \notin ToSet(<<>>)
        BY DEF ToSet
      <3> QED
        BY <2>1, <3>1 DEF Submit
    <2>2. CASE Run \/ SubmitFails \/ Wait \/ WaitFails \/ ProcessEnds \/ Stop \/ UNCHANGED vars
      BY <2>2 DEF Run, SubmitFails, Wait, WaitFails, ProcessEnds, Stop, vars
    <2> QED
      BY <2>1, <2>2
  <1>3. ASSUME NEW b \in Buffers PROVE InCompletion(b)' = InCompletion(b) /\ InOperation(b)' = InOperation(b)
    <2>1. \A i : i \in InCompletion(b)' <=> i \in InCompletion(b)
      BY <1>1, InCompletionIs
    <2>2. \A z : z \in InOperation(b)' <=> z \in InOperation(b)
      BY <1>2, InOperationIs
    <2> QED
      BY <2>1, <2>2
  <1>4. \A i \in 1..Len(cq') : cq'[i].notif => cq'[i].buffer = NoBuffer
    BY <1>1 DEF BufferInv
  <1> QED
    BY <1>1, <1>3, <1>4, BuffersStay

(* A buffer goes from its completion to the callback.                       *)
LEMMA HandleBuffers ==
    ASSUME LoopInv, BufferInv, HandleCompletion
    PROVE  BufferInv'
  <1>1. /\ lpc = "process" /\ seen < Len(cq) /\ sq' = sq /\ inflight' = inflight /\ cq' = cq
        /\ pool \in PoolSet /\ seen \in Nat /\ Len(cq) \in Nat
    BY CompletionsNumbered DEF HandleCompletion
  <1>2. PICK x : x = Current
    OBVIOUS
  <1>3. x = cq[seen + 1] /\ x \in CompletionSet /\ (x.notif => x.id \notin pending_) /\ (~x.notif => x.id \in pending_)
    BY <1>1, <1>2, CurrentIs DEF Current
  <1>4. PICK e : e = seen + 1
    OBVIOUS
  <1>5. e \in 1..Len(cq) /\ e \in Unseen(cq, seen) /\ cq[e] = x
    BY <1>1, <1>3, <1>4 DEF Unseen
  <1>6. \A i \in 1..Len(cq') : cq'[i].notif => cq'[i].buffer = NoBuffer
    BY <1>1 DEF BufferInv
  <1>7. ASSUME NEW b \in Buffers PROVE InOperation(b)' = InOperation(b)
    <2>1. \A z : z \in InOperation(b)' <=> z \in InOperation(b)
      BY <1>1, InOperationIs
    <2> QED
      BY <2>1
  <1>8. CASE /\ lpc' = "callback" /\ seen' = seen
             /\ pool' = IF x.buffer = NoBuffer THEN pool
                        ELSE [pool EXCEPT !.callers = @ \cup {x.buffer}]
    <2>1. ASSUME NEW b \in Buffers
          PROVE  \A i : i \in InCompletion(b)' <=> (i \in InCompletion(b) /\ i # e)
      BY <1>1, <1>4, <1>8, InCompletionIs
    <2>2. ASSUME NEW b \in Buffers
          PROVE  e \in InCompletion(b) <=> x.buffer = b
      BY <1>1, <1>5, InCompletionIs
    <2>3. /\ pool'.kernel = pool.kernel /\ pool'.lost = pool.lost /\ pool'.registered = pool.registered
          /\ x.buffer = NoBuffer => pool'.callers = pool.callers
          /\ x.buffer # NoBuffer => pool'.callers = pool.callers \cup {x.buffer}
      BY <1>1, <1>8 DEF PoolSet
    <2>4. ASSUME NEW b \in Buffers, pool'.registered PROVE OnePlace(b)'
      <3>0. OnePlace(b) /\ b # NoBuffer
        BY <2>3, <2>4, Numbers DEF BufferInv
      <3>1. CASE x.buffer # b
        <4>1. InCompletion(b)' = InCompletion(b)
          BY <2>1, <2>2, <3>1
        <4>2. b \in pool'.callers <=> b \in pool.callers
          BY <2>3, <3>1
        <4> QED
          BY <1>7, <2>3, <3>0, <4>1, <4>2, SamePlace
      <3>2. CASE x.buffer = b
        <4>1. e \in InCompletion(b)
          BY <2>2, <3>2
        <4>2. PoolLacks(b) /\ (\E i : InCompletion(b) = {i}) /\ InOperation(b) = {}
          BY <3>0, <4>1 DEF OnePlace
        <4>3. InCompletion(b)' = {}
          BY <2>1, <4>1, <4>2
        <4>4. PoolHas(b)'
          BY <2>3, <3>0, <3>2, <4>2 DEF PoolLacks, PoolHas
        <4> QED
          BY <1>7, <4>2, <4>3, <4>4 DEF OnePlace
      <3> QED
        BY <3>1, <3>2
    <2> QED
      BY <1>6, <2>4 DEF BufferInv
  <1>9. CASE x.id \notin pending_ /\ seen' = seen + 1 /\ UNCHANGED <<lpc, calls, pool>>
    <2>1. x.buffer = NoBuffer
      BY <1>3, <1>5, <1>9 DEF BufferInv
    <2>2. \A i : i \in Unseen(cq, seen + 1) <=> (i \in Unseen(cq, seen) /\ i # e)
      BY <1>1, <1>4 DEF Unseen
    <2>3. ASSUME NEW b \in Buffers PROVE InCompletion(b)' = InCompletion(b)
      <3>1. b # NoBuffer
        BY Numbers
      <3>2. \A i : i \in InCompletion(b)' <=> i \in InCompletion(b)
        BY <1>1, <1>5, <1>9, <2>1, <2>2, <3>1, InCompletionIs
      <3> QED
        BY <3>2
    <2> QED
      BY <1>6, <1>7, <1>9, <2>3, BuffersStay
  <1> QED
    BY <1>2, <1>8, <1>9 DEF HandleCompletion

(* The completion is passed over, its buffer is the caller's already.       *)
LEMMA ReturnsBuffers ==
    ASSUME LoopInv, BufferInv, CallbackReturns
    PROVE  BufferInv'
  <1>1. /\ lpc = "callback" /\ lpc' = "process" /\ seen' = seen + 1 /\ cq' = cq /\ sq' = sq /\ inflight' = inflight
        /\ pool' = pool /\ seen \in Nat /\ Len(cq) \in Nat
    BY CompletionsNumbered DEF CallbackReturns
  <1>2. \A i : i \in Unseen(cq, seen + 1) <=> (i \in Unseen(cq, seen) /\ i # seen + 1)
    BY <1>1 DEF Unseen
  <1>3. ASSUME NEW b \in Buffers PROVE InCompletion(b)' = InCompletion(b) /\ InOperation(b)' = InOperation(b)
    <2>1. \A i : i \in InCompletion(b)' <=> i \in InCompletion(b)
      BY <1>1, <1>2, InCompletionIs
    <2>2. \A z : z \in InOperation(b)' <=> z \in InOperation(b)
      BY <1>1, InOperationIs
    <2> QED
      BY <2>1, <2>2
  <1>4. \A i \in 1..Len(cq') : cq'[i].notif => cq'[i].buffer = NoBuffer
    BY <1>1 DEF BufferInv
  <1> QED
    BY <1>1, <1>3, <1>4, BuffersStay

(* Completions get new positions.                                           *)
LEMMA AdvanceBuffers ==
    ASSUME LoopInv, BufferInv, Advance
    PROVE  BufferInv'
  <1>1. /\ lpc = "advance" /\ lpc' # "callback" /\ seen' = 0 /\ sq' = sq /\ inflight' = inflight /\ pool' = pool
        /\ cq' = SubSeq(cq, seen + 1, Len(cq)) /\ seen \in Nat /\ Len(cq) \in Nat
        /\ Links(ops, sq, inflight, cq, seen)
    BY CompletionsNumbered DEF Advance, Advanced, Again, LoopInv
  <1>2. PICK d : d = cq'
    OBVIOUS
  <1>3. Shifted(ops, sq, inflight, cq, seen, d)
    BY <1>1, <1>2, AdvanceLinks
  <1>4. /\ \A i \in Unseen(d, 0) : i + seen \in Unseen(cq, seen) /\ d[i] = cq[i + seen] /\ i \in Nat
        /\ \A j \in Unseen(cq, seen) : j - seen \in Unseen(d, 0) /\ j \in Nat /\ (j - seen) + seen = j
    <2>1. \A i \in Unseen(d, 0) : i \in Nat
      BY <1>3 DEF Unseen, Shifted, Links, Places
    <2>2. \A j \in Unseen(cq, seen) : j \in Nat /\ (j - seen) + seen = j
      BY <1>1 DEF Unseen
    <2> QED
      BY <1>3, <2>1, <2>2 DEF Shifted
  <1>5. \A i \in 1..Len(cq') : cq'[i].notif => cq'[i].buffer = NoBuffer
    <2>1. 1..Len(cq') = Unseen(d, 0)
      BY <1>2 DEF Unseen
    <2>2. \A j \in Unseen(cq, seen) : j \in 1..Len(cq)
      BY <1>1 DEF Unseen
    <2> QED
      BY <1>2, <1>4, <2>1, <2>2 DEF BufferInv
  <1>6. ASSUME NEW b \in Buffers PROVE InOperation(b)' = InOperation(b)
    <2>1. \A z : z \in InOperation(b)' <=> z \in InOperation(b)
      BY <1>1, InOperationIs
    <2> QED
      BY <2>1
  <1>7. ASSUME NEW b \in Buffers
        PROVE  /\ \A i \in InCompletion(b)' : i + seen \in InCompletion(b) /\ i \in Nat
               /\ \A j \in InCompletion(b) : j - seen \in InCompletion(b)' /\ j \in Nat
    <2>1. \A i : i \in InCompletion(b)' <=> (i \in Unseen(d, 0) /\ d[i].buffer = b)
      BY <1>1, <1>2, InCompletionIs
    <2>2. \A j : j \in InCompletion(b) <=> (j \in Unseen(cq, seen) /\ cq[j].buffer = b)
      BY <1>1, InCompletionIs
    <2> QED
      BY <1>4, <2>1, <2>2
  <1>8. ASSUME NEW b \in Buffers, pool'.registered PROVE OnePlace(b)'
    <2>1. OnePlace(b)
      BY <1>1, <1>8 DEF BufferInv
    <2>2. (PoolHas(b)' <=> PoolHas(b)) /\ (PoolLacks(b)' <=> PoolLacks(b))
      BY <1>1 DEF PoolHas, PoolLacks
    <2>3. InCompletion(b) = {} => InCompletion(b)' = {}
      BY <1>7
    <2>4. ASSUME NEW j, InCompletion(b) = {j} PROVE InCompletion(b)' = {j - seen}
      <3>1. j - seen \in InCompletion(b)' /\ j \in Nat
        BY <1>7, <2>4
      <3>2. ASSUME NEW i \in InCompletion(b)' PROVE i = j - seen
        <4>1. i + seen = j /\ i \in Nat
          BY <1>7, <2>4
        <4> QED
          BY <1>1, <3>1, <4>1
      <3> QED
        BY <3>1, <3>2
    <2> QED
      BY <1>6, <2>1, <2>2, <2>3, <2>4 DEF OnePlace
  <1> QED
    BY <1>5, <1>8 DEF BufferInv

(* Every step keeps the invariant of the buffers.                           *)
LEMMA BuffersStep == LoopInv /\ BufferInv /\ LoopInv' /\ [Next]_vars /\ ~stale' => BufferInv'
  <1> SUFFICES ASSUME LoopInv, BufferInv, LoopInv', [Next]_vars, ~stale' PROVE BufferInv'
    OBVIOUS
  <1>10. ~RecvWithoutPool
    BY StaleStays
  <1>1. ASSUME NEW kind \in Kinds, NEW target \in 0..MaxOps, Async(kind, target) PROVE BufferInv'
    BY <1>1, AsyncBuffers
  <1>2. CASE RegisterBegin \/ RegisterEnd
    BY <1>2, RegisterBuffers
  <1>3. ASSUME NEW b \in Buffers, ReturnBuffer(b) PROVE BufferInv'
    BY <1>3, ReturnBufferBuffers
  <1>4. ASSUME NEW op \in inflight, Answer(op) PROVE BufferInv'
    BY <1>4, AnswerBuffers
  <1>5. ASSUME NEW op \in inflight, AnswerCancel(op) PROVE BufferInv'
    BY <1>5, AnswerCancelBuffers
  <1>6. CASE Run \/ Submit \/ SubmitFails \/ Wait \/ WaitFails \/ ProcessEnds \/ Stop \/ UNCHANGED vars
    BY <1>6, PointsBuffers
  <1>7. CASE HandleCompletion
    BY <1>7, HandleBuffers
  <1>8. CASE CallbackReturns
    BY <1>8, ReturnsBuffers
  <1>9. CASE Advance
    BY <1>9, AdvanceBuffers
  <1>11. CASE AsyncNoRoom
    <2>1. cq' = cq /\ seen' = seen /\ pool' = pool /\ lpc' = lpc /\ sq' = sq /\ inflight' = inflight
      BY <1>11 DEF AsyncNoRoom
    <2>2. ASSUME NEW b \in Buffers PROVE InCompletion(b)' = InCompletion(b) /\ InOperation(b)' = InOperation(b)
      BY <2>1 DEF InCompletion, InOperation
    <2> QED
      BY <2>1, <2>2, BuffersStay DEF BufferInv
  <1> QED
    BY <1>1, <1>2, <1>3, <1>4, <1>5, <1>6, <1>7, <1>8, <1>9, <1>10, <1>11 DEF Next, LoopStep

(* One place, counted.                                                      *)
LEMMA OnePlaceCounted ==
    ASSUME ~stale => LoopInv /\ BufferInv
    PROVE  BuffersInOnePlace
  <1> SUFFICES ASSUME pool.registered, BufferInv, NEW b \in Buffers
               PROVE  Cardinality({p \in {"kernel", "callers", "lost"} : b \in pool[p]})
                        + Cardinality(InCompletion(b)) + Cardinality(InOperation(b)) = 1
    BY DEF BuffersInOnePlace
  <1>1. OnePlace(b)
    BY DEF BufferInv
  <1>2. PICK P : P = {p \in {"kernel", "callers", "lost"} : b \in pool[p]}
    OBVIOUS
  <1> SUFFICES Cardinality(P) + Cardinality(InCompletion(b)) + Cardinality(InOperation(b)) = 1
    BY <1>2
  <1>3. /\ "kernel" \in P <=> b \in pool.kernel
        /\ "callers" \in P <=> b \in pool.callers
        /\ "lost" \in P <=> b \in pool.lost
        /\ \A p \in P : p \in {"kernel", "callers", "lost"}
    BY <1>2
  <1>4. PoolLacks(b) => P = {}
    BY <1>3 DEF PoolLacks
  <1>5. PoolHas(b) => P = {"kernel"} \/ P = {"callers"} \/ P = {"lost"}
    BY <1>3 DEF PoolHas
  <1>6. Cardinality({}) = 0 /\ \A x : Cardinality({x}) = 1
    BY FS_EmptySet, FS_Singleton
  <1>7. CASE PoolHas(b) /\ InCompletion(b) = {} /\ InOperation(b) = {}
    <2>1. Cardinality(P) = 1 /\ Cardinality(InCompletion(b)) = 0 /\ Cardinality(InOperation(b)) = 0
      BY <1>5, <1>6, <1>7
    <2> QED
      BY <2>1
  <1>8. CASE PoolLacks(b) /\ (\E i : InCompletion(b) = {i}) /\ InOperation(b) = {}
    <2>1. Cardinality(P) = 0 /\ Cardinality(InCompletion(b)) = 1 /\ Cardinality(InOperation(b)) = 0
      BY <1>4, <1>6, <1>8
    <2> QED
      BY <2>1
  <1>9. CASE PoolLacks(b) /\ InCompletion(b) = {} /\ \E op : InOperation(b) = {op}
    <2>1. Cardinality(P) = 0 /\ Cardinality(InCompletion(b)) = 0 /\ Cardinality(InOperation(b)) = 1
      BY <1>4, <1>6, <1>9
    <2> QED
      BY <2>1
  <1> QED
    BY <1>1, <1>7, <1>8, <1>9 DEF OnePlace

(* Once the pool is registered each of its buffers is in exactly one place: *)
(* the kernel's, a completion's, an operation's, a caller's, or lost on a   *)
(* full queue, so that no receive writes where a caller still reads         *)
(* (register_buffer_pool(), return_provided_buffer() and                    *)
(* handle_completion(), src/io_uring_loop.cpp), as long as no entry of the  *)
(* queue was taken and left unprepared.                                     *)
THEOREM UringBuffersInOnePlace == Spec => []BuffersInOnePlace
  <1>1. Init => (~stale => LoopInv /\ BufferInv)
    <2>1. Init => BufferInv
      <3>1. Init => Len(cq) = 0 /\ 1..0 = {} /\ pool.registered = FALSE
        BY DEF Init
      <3> QED
        BY <3>1 DEF BufferInv
    <2> QED
      BY <2>1, LoopStarts
  <1>2. (~stale => LoopInv /\ BufferInv) /\ [Next]_vars => (~stale => LoopInv /\ BufferInv)'
    BY LoopStepKeeps, BuffersStep, StaleStays
  <1>3. (~stale => LoopInv /\ BufferInv) => BuffersInOnePlace
    BY OnePlaceCounted
  <1> QED
    BY <1>1, <1>2, <1>3, PTL DEF Spec
=============================================================================
