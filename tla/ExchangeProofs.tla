--------------------------- MODULE ExchangeProofs ---------------------------
(***************************************************************************)
(* Proofs about an Exchange, for any requests, frames, answers and files   *)
(* and wherever the reads and writes cut them: the static file, the        *)
(* WebSocket, the FastCGI client, the parser and the inspection.           *)
(***************************************************************************)
EXTENDS Exchange, FiniteSetTheorems, SequenceTheorems, WellFoundedInduction, TLAPS

Parts == [part : 1..HeadSize, length : Nat]
Pieces == Units \cup Parts
IsPart(x) == "part" \in DOMAIN x

(* The pieces of s, before which others were sent, are parts of a head that *)
(* announces l exactly as long as the head is not complete.                 *)
Framing(s, before, l) ==
    \A i \in 1..Len(s) :
        /\ IsPart(s[i]) <=> before + i <= HeadSize
        /\ before + i <= HeadSize => s[i].length = l

FilePoints == {"idle", "start", "head", "body", "serve", "send", "done"}

FileShape ==
    /\ file \in Seq(Units) /\ out \in Seq(Pieces) /\ answer_ \in Seq(Pieces)
    /\ announced \in Nat /\ offset \in Nat
    /\ open \in BOOLEAN /\ error \in BOOLEAN /\ lost \in BOOLEAN /\ shrunk \in BOOLEAN
    /\ broken \in Seq(Pieces)
    /\ hpc \in FilePoints

FramedAs(l) == Framing(out, 0, l) /\ Len(out) <= HeadSize + l
BodyOf(l) == IF method = "HEAD" /\ ~error THEN 0 ELSE l

(* What has been sent, at each point of the answer.                         *)
FilePhase ==
    /\ Len(broken) < HeadSize
    /\ \E l \in Nat : FramedAs(l)
    /\ hpc \in {"idle", "start"} => out = <<>>
    /\ hpc # "done" => ~lost
    /\ hpc = "head" => offset < HeadSize /\ Len(out) = offset /\ Framing(out, 0, announced)
    /\ hpc = "body" => /\ offset <= announced
                       /\ Len(out) = HeadSize + offset /\ Framing(out, 0, announced)
    /\ hpc \in {"head", "body"} => open /\ method = "GET"
    /\ hpc = "serve" => out = <<>>
    /\ hpc = "send" =>
          \E l \in Nat : /\ Framing(out, 0, l) /\ Framing(answer_, Len(out), l)
                         /\ Len(out) + Len(answer_) = HeadSize + BodyOf(l)
    /\ hpc = "done" /\ ~lost /\ ~shrunk =>
          \E l \in Nat : Framing(out, 0, l) /\ Len(out) = HeadSize + BodyOf(l)

(* The file is open while it is sent only, and not shorter than announced   *)
(* unless that was noted.                                                   *)
FileKept ==
    /\ open => hpc \in {"head", "body"}
    /\ open /\ ~shrunk => announced <= Len(file)

FileInv == FileShape /\ FilePhase /\ FileKept

-----------------------------------------------------------------------------
(* Sequences of pieces.                                                     *)
LEMMA HeadIsFramed ==
    ASSUME NEW l \in Nat
    PROVE  Head_(l) \in Seq(Pieces) /\ Len(Head_(l)) = HeadSize /\ Framing(Head_(l), 0, l)
  <1>0. HeadSize \in Nat
    BY FileAssumption
  <1>1. \A i \in 1..HeadSize : Head_(l)[i] = [part |-> i, length |-> l]
    BY DEF Head_
  <1>2. \A i \in 1..HeadSize : Head_(l)[i] \in Pieces
    <2> SUFFICES ASSUME NEW i \in 1..HeadSize PROVE Head_(l)[i] \in Parts
      BY DEF Pieces
    <2>1. [part |-> i, length |-> l] \in Parts
      BY DEF Parts
    <2> QED
      BY <1>1, <2>1
  <1>3. Head_(l) \in [1..HeadSize -> Pieces]
    BY <1>2 DEF Head_
  <1>4. Head_(l) \in Seq(Pieces) /\ Len(Head_(l)) = HeadSize
    BY <1>0, <1>3
  <1>5. ASSUME NEW i \in 1..HeadSize PROVE IsPart(Head_(l)[i]) /\ Head_(l)[i].length = l
    <2>1. PICK p : p = [part |-> i, length |-> l]
      OBVIOUS
    <2>2. DOMAIN p = {"part", "length"} /\ p.length = l
      BY <2>1
    <2> QED
      BY <1>1, <2>1, <2>2 DEF IsPart
  <1> QED
    BY <1>0, <1>4, <1>5 DEF Framing

(* Units of a file after the head are framed.                               *)
LEMMA ContentIsFramed ==
    ASSUME NEW s \in Seq(Units), NEW before \in Nat, before >= HeadSize, NEW l
    PROVE  s \in Seq(Pieces) /\ Framing(s, before, l)
  <1>1. s \in Seq(Pieces)
    BY SeqMonotonic DEF Pieces
  <1>2. \A i \in 1..Len(s) : s[i] \in Units
    BY ElementOfSeq
  <1>3. \A i \in 1..Len(s) : ~IsPart(s[i])
    BY <1>2, FileAssumption DEF IsPart
  <1>4. \A i \in 1..Len(s) : ~(before + i <= HeadSize)
    BY FileAssumption, Len(s) \in Nat
  <1> QED
    BY <1>1, <1>3, <1>4 DEF Framing

(* What is framed may be joined,                                            *)
LEMMA JoinIsFramed ==
    ASSUME NEW s \in Seq(Pieces), NEW t \in Seq(Pieces), NEW l,
           Framing(s, 0, l), Framing(t, Len(s), l)
    PROVE  s \o t \in Seq(Pieces) /\ Len(s \o t) = Len(s) + Len(t) /\ Framing(s \o t, 0, l)
  <1>1. /\ s \o t \in Seq(Pieces) /\ Len(s \o t) = Len(s) + Len(t)
        /\ \A i \in 1..(Len(s) + Len(t)) : (s \o t)[i] = IF i <= Len(s) THEN s[i] ELSE t[i - Len(s)]
    BY ConcatProperties
  <1>2. Len(s) \in Nat /\ Len(t) \in Nat /\ HeadSize \in Nat
    BY FileAssumption
  <1>3. ASSUME NEW i \in 1..(Len(s) + Len(t))
        PROVE  /\ IsPart((s \o t)[i]) <=> 0 + i <= HeadSize
               /\ 0 + i <= HeadSize => (s \o t)[i].length = l
    <2>1. CASE i <= Len(s)
      <3>1. i \in 1..Len(s) /\ (s \o t)[i] = s[i]
        BY <1>1, <1>2, <2>1
      <3> QED
        BY <3>1 DEF Framing
    <2>2. CASE ~(i <= Len(s))
      <3>1. PICK j \in 1..Len(t) : j = i - Len(s) /\ Len(s) + j = i
        BY <1>2, <2>2
      <3>2. (s \o t)[i] = t[j]
        BY <1>1, <2>2, <3>1
      <3>3. /\ IsPart(t[j]) <=> Len(s) + j <= HeadSize
            /\ Len(s) + j <= HeadSize => t[j].length = l
        BY DEF Framing
      <3>4. 0 + i = i
        BY <1>2
      <3> QED
        BY <3>1, <3>2, <3>3, <3>4
    <2> QED
      BY <2>1, <2>2
  <1> QED
    BY <1>1, <1>3 DEF Framing

(* and cut,                                                                 *)
LEMMA CutIsFramed ==
    ASSUME NEW s \in Seq(Pieces), NEW before \in Nat, NEW l, Framing(s, before, l),
           NEW m \in Nat, NEW n \in Nat, m + n <= Len(s)
    PROVE  LET c == SubSeq(s, m + 1, m + n) IN
           c \in Seq(Pieces) /\ Len(c) = n /\ Framing(c, before + m, l)
  <1> DEFINE c == SubSeq(s, m + 1, m + n)
  <1>0. Len(s) \in Nat /\ HeadSize \in Nat
    BY FileAssumption
  <1>1. \A i \in (m + 1)..(m + n) : i \in 1..Len(s)
    BY <1>0
  <1>2. \A i \in (m + 1)..(m + n) : s[i] \in Pieces
    BY <1>1, ElementOfSeq
  <1>3. /\ c \in Seq(Pieces)
        /\ Len(c) = IF m + 1 <= m + n THEN (m + n) - (m + 1) + 1 ELSE 0
        /\ \A i \in 1..((m + n) - (m + 1) + 1) : c[i] = s[(m + 1) + i - 1]
    BY <1>2, SubSeqProperties
  <1> HIDE DEF c
  <1>4. Len(c) = n /\ \A i \in 1..n : c[i] = s[m + i] /\ m + i \in 1..Len(s)
    <2>1. Len(c) = n /\ (m + n) - (m + 1) + 1 = n
      BY <1>0, <1>3
    <2>2. \A i \in 1..n : (m + 1) + i - 1 = m + i /\ m + i \in 1..Len(s)
      BY <1>0
    <2> QED
      BY <1>3, <2>1, <2>2
  <1>5. ASSUME NEW i \in 1..n
        PROVE  /\ IsPart(c[i]) <=> (before + m) + i <= HeadSize
               /\ (before + m) + i <= HeadSize => c[i].length = l
    <2>1. PICK j \in 1..Len(s) : j = m + i
      BY <1>4
    <2>2. /\ IsPart(s[j]) <=> before + j <= HeadSize
          /\ before + j <= HeadSize => s[j].length = l
      BY DEF Framing
    <2>3. before + j = (before + m) + i
      BY <1>0, <2>1
    <2> QED
      BY <1>4, <2>1, <2>2, <2>3
  <1>6. c \in Seq(Pieces) /\ Len(c) = n /\ Framing(c, before + m, l)
    BY <1>3, <1>4, <1>5 DEF Framing
  <1> QED
    BY <1>6 DEF c

(* and nothing is framed too.                                               *)
LEMMA NothingIsFramed ==
    ASSUME NEW l \in Nat, NEW before
    PROVE  <<>> \in Seq(Pieces) /\ Len(<<>>) = 0 /\ Framing(<<>>, before, l)
  BY DEF Framing

-----------------------------------------------------------------------------
(* The steps of the file's answer, one by one.                              *)
LEMMA FileStarts == FileInit => FileInv
  <1> SUFFICES ASSUME FileInit PROVE FileInv
    OBVIOUS
  <1>1. <<>> \in Seq(Units) /\ <<>> \in Seq(Pieces)
    OBVIOUS
  <1>2. FileShape
    BY <1>1 DEF FileInit, FileShape, FilePoints
  <1>3. FramedAs(0) /\ Len(broken) < HeadSize
    BY FileAssumption, NothingIsFramed DEF FileInit, FramedAs
  <1>4. FilePhase
    BY <1>3 DEF FileInit, FilePhase
  <1>5. FileKept
    BY DEF FileInit, FileKept
  <1> QED
    BY <1>2, <1>4, <1>5 DEF FileInv

(* A request begins, resolve_for_sendfile() declines, or the file changes.  *)
LEMMA BeginKeepsFile ==
    ASSUME FileInv, NEW m, NEW content \in Contents, Begin(m, content)
    PROVE  FileInv'
  <1>1. /\ hpc = "idle" /\ hpc' = "start" /\ file' = content
        /\ UNCHANGED <<open, announced, offset, answer_, error, out, broken, lost, writes, shrunk>>
    BY DEF Begin
  <1>2. content \in Seq(Units)
    BY FileAssumption
  <1>3. ~open
    BY <1>1 DEF FileInv, FileKept
  <1>4. FileShape'
    BY <1>1, <1>2 DEF FileInv, FileShape, FilePoints
  <1>5. FilePhase'
    BY <1>1 DEF FileInv, FilePhase, FramedAs
  <1>6. FileKept'
    BY <1>1, <1>3 DEF FileKept
  <1> QED
    BY <1>4, <1>5, <1>6 DEF FileInv

(* Somebody writes the file while it is served.                             *)
LEMMA WriteKeepsFile ==
    ASSUME FileInv, NEW content \in Contents, WriteFile(content)
    PROVE  FileInv'
  <1>1. /\ file' = content /\ shrunk' = (shrunk \/ (open /\ Len(content) < announced))
        /\ hpc # "done"
        /\ UNCHANGED <<method, hpc, open, announced, offset, answer_, error, out, broken, lost>>
    BY DEF WriteFile
  <1>2. content \in Seq(Units) /\ Len(content) \in Nat
    BY FileAssumption
  <1>3. FileShape'
    BY <1>1, <1>2 DEF FileInv, FileShape
  <1>4. FilePhase'
    BY <1>1 DEF FileInv, FilePhase, FramedAs, BodyOf
  <1>5. FileKept'
    BY <1>1, <1>2 DEF FileInv, FileShape, FileKept
  <1> QED
    BY <1>3, <1>4, <1>5 DEF FileInv

(* open() and fstat().                                                      *)
LEMMA OpenKeepsFile ==
    ASSUME FileInv, OpenFile
    PROVE  FileInv'
  <1>1. /\ hpc = "start" /\ method = "GET" /\ hpc' = "head" /\ open' = TRUE /\ announced' = Len(file) /\ offset' = 0
        /\ UNCHANGED <<method, file, answer_, error, out, broken, lost, shrunk>>
    BY DEF OpenFile
  <1>2. Len(file) \in Nat /\ HeadSize \in Nat /\ HeadSize > 0
    BY FileAssumption DEF FileInv, FileShape
  <1>3. out = <<>> /\ ~lost
    BY <1>1 DEF FileInv, FilePhase
  <1>4. FileShape'
    BY <1>1, <1>2 DEF FileInv, FileShape, FilePoints
  <1>5. Len(out) = 0 /\ Framing(out, 0, Len(file))
    BY <1>2, <1>3, NothingIsFramed
  <1>6. FilePhase'
    BY <1>1, <1>2, <1>3, <1>5 DEF FileInv, FilePhase, FramedAs
  <1>7. FileKept'
    BY <1>1, <1>2 DEF FileKept
  <1> QED
    BY <1>4, <1>6, <1>7 DEF FileInv

(* resolve_for_sendfile() declines, or the head cannot be sent.             *)
LEMMA ToServeKeepsFile ==
    ASSUME FileInv, Decline \/ HeadFails
    PROVE  FileInv'
  <1>1. CASE Decline
    <2>1. /\ hpc = "start" /\ hpc' = "serve"
          /\ UNCHANGED <<method, file, open, announced, offset, answer_, error, out, broken, lost, shrunk>>
      BY <1>1 DEF Decline
    <2>2. ~open
      BY <2>1 DEF FileInv, FileKept
    <2>3. FileShape'
      BY <2>1 DEF FileInv, FileShape, FilePoints
    <2>4. FilePhase'
      BY <2>1 DEF FileInv, FilePhase, FramedAs
    <2>5. FileKept'
      BY <2>1, <2>2 DEF FileKept
    <2> QED
      BY <2>3, <2>4, <2>5 DEF FileInv
  <1>2. CASE HeadFails
    <2>1. /\ hpc = "head" /\ hpc' = "serve" /\ open' = FALSE /\ broken' = out /\ out' = <<>> /\ shrunk' = FALSE
          /\ UNCHANGED <<method, file, announced, offset, answer_, error, lost>>
      BY <1>2 DEF HeadFails
    <2>2. FileShape'
      <3>1. /\ file' \in Seq(Units) /\ out' \in Seq(Pieces) /\ answer_' \in Seq(Pieces) /\ broken' \in Seq(Pieces)
            /\ announced' \in Nat /\ offset' \in Nat
        BY <2>1 DEF FileInv, FileShape
      <3>2. open' \in BOOLEAN /\ error' \in BOOLEAN /\ lost' \in BOOLEAN /\ shrunk' \in BOOLEAN
        BY <2>1, Zenon DEF FileInv, FileShape
      <3> QED
        BY <2>1, <3>1, <3>2 DEF FileShape, FilePoints
    <2>3. Len(broken') < HeadSize /\ ~lost'
      BY <2>1 DEF FileInv, FilePhase
    <2>4. FramedAs(0)'
      BY <2>1, FileAssumption, NothingIsFramed DEF FramedAs
    <2>5. FilePhase'
      BY <2>1, <2>3, <2>4 DEF FilePhase
    <2>6. FileKept'
      BY <2>1 DEF FileKept
    <2> QED
      BY <2>2, <2>5, <2>6 DEF FileInv
  <1> QED
    BY <1>1, <1>2

(* The head goes out, in one or more sends.                                 *)
LEMMA SendHeadKeepsFile ==
    ASSUME FileInv, NEW n, SendHead(n)
    PROVE  FileInv'
  <1> DEFINE c == SubSeq(Head_(announced), offset + 1, offset + n)
  <1>1. /\ hpc = "head" /\ n \in 1..(HeadSize - offset)
        /\ out' = out \o c
        /\ offset' = IF offset + n = HeadSize THEN 0 ELSE offset + n
        /\ hpc' = IF offset + n = HeadSize THEN "body" ELSE "head"
        /\ UNCHANGED <<method, file, open, announced, answer_, error, broken, lost, shrunk>>
    BY DEF SendHead
  <1>2. /\ HeadSize \in Nat /\ HeadSize > 0 /\ offset \in Nat /\ announced \in Nat
        /\ out \in Seq(Pieces) /\ hpc \in FilePoints
    BY FileAssumption DEF FileInv, FileShape
  <1>3. /\ offset < HeadSize /\ Len(out) = offset /\ Framing(out, 0, announced)
        /\ open /\ ~lost /\ method = "GET" /\ Len(broken) < HeadSize
    BY <1>1 DEF FileInv, FilePhase
  <1>4. n \in Nat /\ offset + n <= HeadSize /\ n > 0
    BY <1>1, <1>2
  <1>5. c \in Seq(Pieces) /\ Len(c) = n /\ Framing(c, Len(out), announced)
    <2>1. c \in Seq(Pieces) /\ Len(c) = n /\ Framing(c, 0 + offset, announced)
      <3>1. /\ Head_(announced) \in Seq(Pieces) /\ Len(Head_(announced)) = HeadSize
            /\ Framing(Head_(announced), 0, announced)
        BY <1>2, HeadIsFramed
      <3>2. offset \in Nat /\ n \in Nat /\ 0 \in Nat /\ offset + n <= Len(Head_(announced))
        BY <1>2, <1>4, <3>1
      <3> QED
        BY <3>1, <3>2, CutIsFramed
    <2>2. 0 + offset = Len(out)
      BY <1>2, <1>3
    <2> QED
      BY <2>1, <2>2
  <1> HIDE DEF c
  <1>7. out' \in Seq(Pieces) /\ Len(out') = offset + n /\ Framing(out', 0, announced)
    BY <1>1, <1>2, <1>3, <1>5, JoinIsFramed
  <1>8. offset' \in Nat /\ hpc' \in {"head", "body"}
    BY <1>1, <1>2, <1>4
  <1>9. FileShape'
    BY <1>1, <1>7, <1>8 DEF FileInv, FileShape, FilePoints
  <1>10. FramedAs(announced)'
    BY <1>1, <1>2, <1>4, <1>7 DEF FramedAs
  <1>12. FilePhase'
    BY <1>1, <1>2, <1>3, <1>4, <1>7, <1>8, <1>10 DEF FilePhase
  <1>13. FileKept'
    BY <1>1, <1>8 DEF FileInv, FileKept
  <1> QED
    BY <1>9, <1>12, <1>13 DEF FileInv

(* sendfile() sends what the file holds now, never more than announced.     *)
LEMMA AvailableIs ==
    ASSUME FileInv, hpc = "body"
    PROVE  /\ Available \in Nat
           /\ offset + Available <= announced
           /\ Available > 0 => offset + Available <= Len(file)
           /\ Available = 0 => offset = announced \/ Len(file) <= offset
  <1> DEFINE r == announced - offset
  <1> DEFINE f == Len(file) - offset
  <1> DEFINE m == Min({r, f})
  <1>1. /\ announced \in Nat /\ offset \in Nat /\ Len(file) \in Nat /\ offset <= announced
        /\ r \in Int /\ f \in Int
    BY DEF FileInv, FileShape, FilePhase
  <1>2. m \in {r, f} /\ m <= r /\ m <= f
    <2> HIDE DEF r, f
    <2>1. \E x \in {r, f} : \A y \in {r, f} : x <= y
      BY <1>1, r <= f \/ f <= r
    <2> QED
      BY <2>1 DEF Min
  <1> HIDE DEF m
  <1>3. m \in Int
    BY <1>1, <1>2
  <1>4. Available = Max({0, m})
    BY DEF Available, Remaining, m
  <1>5. Available \in {0, m} /\ Available >= 0 /\ Available >= m
    <2>1. \E x \in {0, m} : \A y \in {0, m} : x >= y
      BY <1>3, m <= 0 \/ 0 <= m
    <2> QED
      BY <1>4, <2>1 DEF Max
  <1> QED
    BY <1>1, <1>2, <1>3, <1>5

(* sendfile() takes a part of the body.                                     *)
LEMMA SendBodyKeepsFile ==
    ASSUME FileInv, NEW n, SendBody(n)
    PROVE  FileInv'
  <1> DEFINE c == SubSeq(file, offset + 1, offset + n)
  <1>1. /\ hpc = "body" /\ n \in 1..Available
        /\ out' = out \o c /\ offset' = offset + n
        /\ UNCHANGED <<method, file, hpc, open, announced, answer_, error, broken, lost, shrunk>>
    BY DEF SendBody
  <1>2. /\ HeadSize \in Nat /\ offset \in Nat /\ announced \in Nat /\ Len(file) \in Nat
        /\ out \in Seq(Pieces) /\ file \in Seq(Units)
    BY FileAssumption DEF FileInv, FileShape
  <1>3. /\ Len(out) = HeadSize + offset /\ Framing(out, 0, announced)
        /\ open /\ ~lost /\ method = "GET" /\ Len(broken) < HeadSize
    BY <1>1 DEF FileInv, FilePhase
  <1>4. n \in Nat /\ n > 0 /\ offset + n <= announced /\ offset + n <= Len(file)
    BY <1>1, <1>2, AvailableIs
  <1>5. file \in Seq(Pieces) /\ Framing(file, HeadSize, announced)
    BY <1>2, ContentIsFramed
  <1>6. c \in Seq(Pieces) /\ Len(c) = n /\ Framing(c, Len(out), announced)
    <2>1. c \in Seq(Pieces) /\ Len(c) = n /\ Framing(c, HeadSize + offset, announced)
      BY <1>2, <1>4, <1>5, CutIsFramed
    <2> QED
      BY <1>3, <2>1
  <1> HIDE DEF c
  <1>7. out' \in Seq(Pieces) /\ Len(out') = HeadSize + (offset + n) /\ Framing(out', 0, announced)
    <2>1. out' \in Seq(Pieces) /\ Len(out') = Len(out) + Len(c) /\ Framing(out', 0, announced)
      BY <1>1, <1>2, <1>3, <1>6, JoinIsFramed
    <2> QED
      BY <1>2, <1>3, <1>4, <1>6, <2>1
  <1>8. FileShape'
    BY <1>1, <1>2, <1>4, <1>7 DEF FileInv, FileShape
  <1>9. FramedAs(announced)'
    BY <1>1, <1>2, <1>4, <1>7 DEF FramedAs
  <1>10. FilePhase'
    BY <1>1, <1>2, <1>3, <1>4, <1>7, <1>9 DEF FilePhase
  <1>11. FileKept'
    BY <1>1 DEF FileInv, FileKept
  <1> QED
    BY <1>8, <1>10, <1>11 DEF FileInv

(* Only what was noted can make the end come early.                         *)
LEMMA SendfileEndsKeepsFile ==
    ASSUME FileInv, SendfileEnds
    PROVE  FileInv'
  <1>1. /\ hpc = "body" /\ hpc' = "done" /\ open' = FALSE
        /\ lost' \in {TRUE} \cup (IF Available = 0 THEN {lost} ELSE {})
        /\ UNCHANGED <<method, file, announced, offset, answer_, error, out, broken, shrunk>>
    BY DEF SendfileEnds
  <1>2. /\ HeadSize \in Nat /\ offset \in Nat /\ announced \in Nat /\ Len(file) \in Nat
        /\ lost \in BOOLEAN
    BY FileAssumption DEF FileInv, FileShape
  <1>3. /\ Len(out) = HeadSize + offset /\ Framing(out, 0, announced) /\ offset <= announced
        /\ open /\ ~lost /\ method = "GET" /\ Len(broken) < HeadSize
    BY <1>1 DEF FileInv, FilePhase
  <1>4. lost' \in BOOLEAN /\ (~lost' => Available = 0)
    BY <1>1, <1>2
  <1>5. ~lost' /\ ~shrunk => offset = announced
    <2> SUFFICES ASSUME ~lost', ~shrunk PROVE offset = announced
      OBVIOUS
    <2>1. announced <= Len(file)
      BY <1>3 DEF FileInv, FileKept
    <2>2. offset = announced \/ Len(file) <= offset
      BY <1>1, <1>4, AvailableIs
    <2> QED
      BY <1>2, <1>3, <2>1, <2>2
  <1>6. FileShape'
    BY <1>1, <1>4 DEF FileInv, FileShape, FilePoints
  <1>7. FilePhase'
    <2>1. \E l \in Nat : FramedAs(l)'
      BY <1>1 DEF FileInv, FilePhase, FramedAs
    <2>2. ~lost' /\ ~shrunk => Framing(out, 0, announced) /\ Len(out) = HeadSize + BodyOf(announced)'
      BY <1>1, <1>3, <1>5 DEF BodyOf
    <2> QED
      BY <1>1, <1>2, <1>3, <2>1, <2>2 DEF FilePhase, BodyOf
  <1>8. FileKept'
    BY <1>1 DEF FileKept
  <1> QED
    BY <1>6, <1>7, <1>8 DEF FileInv

(* serve(): the answer is made from the whole file, or says what is wrong.  *)
LEMMA ServeKeepsFile ==
    ASSUME FileInv, NEW found, Serve(found)
    PROVE  FileInv'
  <1>1. /\ hpc = "serve" /\ hpc' = "send" /\ error' \in BOOLEAN
        /\ UNCHANGED <<method, file, open, announced, offset, out, broken, lost, shrunk>>
    BY DEF Serve
  <1>2. HeadSize \in Nat /\ Len(file) \in Nat /\ file \in Seq(Units)
    BY FileAssumption DEF FileInv, FileShape
  <1>3. PICK l \in Nat : /\ answer_' \in Seq(Pieces) /\ Framing(answer_', 0, l)
                         /\ Len(answer_') = HeadSize + BodyOf(l)'
    <2>1. ASSUME NEW content \in Seq(Units), answer_' = Head_(Len(content)) \o content
          PROVE  /\ Len(content) \in Nat /\ answer_' \in Seq(Pieces)
                 /\ Framing(answer_', 0, Len(content)) /\ Len(answer_') = HeadSize + Len(content)
      <3>0. Len(content) \in Nat
        OBVIOUS
      <3>1. /\ Head_(Len(content)) \in Seq(Pieces) /\ Len(Head_(Len(content))) = HeadSize
            /\ Framing(Head_(Len(content)), 0, Len(content))
        BY <3>0, HeadIsFramed
      <3>2. content \in Seq(Pieces) /\ Framing(content, HeadSize, Len(content))
        BY <1>2, <3>0, ContentIsFramed
      <3> QED
        BY <2>1, <3>0, <3>1, <3>2, JoinIsFramed
    <2>2. CASE error' /\ answer_' = Head_(Len(ErrorPage)) \o ErrorPage
      <3>1. ErrorPage \in Seq(Units)
        BY FileAssumption
      <3> QED
        BY <2>1, <2>2, <3>1 DEF BodyOf
    <2>3. CASE ~error' /\ answer_' = Head_(Len(file)) /\ method = "HEAD"
      BY <1>1, <1>2, <2>3, HeadIsFramed DEF BodyOf
    <2>4. CASE ~error' /\ answer_' = Head_(Len(file)) \o file /\ method # "HEAD"
      BY <1>1, <1>2, <2>1, <2>4 DEF BodyOf
    <2> QED
      BY <2>2, <2>3, <2>4 DEF Serve
  <1>4. FileShape'
    BY <1>1, <1>3 DEF FileInv, FileShape, FilePoints
  <1>5. out = <<>> /\ Framing(out, 0, l) /\ Len(out) = 0
    BY <1>1, NothingIsFramed DEF FileInv, FilePhase
  <1>6. FilePhase'
    <2>1. \E k \in Nat : FramedAs(k)'
      BY <1>1 DEF FileInv, FilePhase, FramedAs
    <2>2. /\ Framing(out', 0, l) /\ Framing(answer_', Len(out'), l)
          /\ Len(out') + Len(answer_') = HeadSize + BodyOf(l)'
      <3>1. HeadSize + BodyOf(l)' \in Nat
        BY <1>2 DEF BodyOf
      <3> QED
        BY <1>1, <1>3, <1>5, <3>1
    <2>3. Len(broken') < HeadSize /\ ~lost'
      BY <1>1 DEF FileInv, FilePhase
    <2> QED
      BY <1>1, <2>1, <2>2, <2>3 DEF FilePhase
  <1>7. FileKept'
    BY <1>1 DEF FileInv, FileKept
  <1> QED
    BY <1>4, <1>6, <1>7 DEF FileInv

(* That answer goes out, in one or more sends.                              *)
LEMMA SendAnswerKeepsFile ==
    ASSUME FileInv, NEW n, SendAnswer(n)
    PROVE  FileInv'
  <1> DEFINE c == SubSeq(answer_, 1, n)
  <1> DEFINE rest == SubSeq(answer_, n + 1, Len(answer_))
  <1>1. /\ hpc = "send" /\ n \in 1..Len(answer_)
        /\ hpc' = IF n = Len(answer_) THEN "done" ELSE "send"
        /\ UNCHANGED <<method, file, open, announced, offset, error, broken, lost, shrunk>>
    BY DEF SendAnswer
  <1>2. /\ HeadSize \in Nat /\ Len(answer_) \in Nat /\ Len(out) \in Nat
        /\ answer_ \in Seq(Pieces) /\ out \in Seq(Pieces)
    BY FileAssumption DEF FileInv, FileShape
  <1>3. n \in Nat /\ Len(answer_) - n \in Nat /\ n + (Len(answer_) - n) = Len(answer_)
    BY <1>1, <1>2
  <1>4. out' = out \o c /\ answer_' = rest
    BY DEF SendAnswer
  <1>5. PICK l \in Nat : /\ Framing(out, 0, l) /\ Framing(answer_, Len(out), l)
                         /\ Len(out) + Len(answer_) = HeadSize + BodyOf(l)
    BY <1>1 DEF FileInv, FilePhase
  <1>6. c \in Seq(Pieces) /\ Len(c) = n /\ Framing(c, Len(out), l)
    <2>1. PICK z \in Nat : z = 0
      OBVIOUS
    <2>2. z + n <= Len(answer_) /\ z + n = n /\ z + 1 = 1 /\ Len(out) + z = Len(out)
      BY <1>2, <1>3, <2>1
    <2>3. LET d == SubSeq(answer_, z + 1, z + n) IN
          d \in Seq(Pieces) /\ Len(d) = n /\ Framing(d, Len(out) + z, l)
      BY <1>2, <1>3, <1>5, <2>2, CutIsFramed
    <2> QED
      BY <2>2, <2>3
  <1>7. rest \in Seq(Pieces) /\ Len(rest) = Len(answer_) - n /\ Framing(rest, Len(out) + n, l)
    <2>1. PICK k \in Nat : k = Len(answer_) - n /\ n + k = Len(answer_)
      BY <1>3
    <2>2. LET d == SubSeq(answer_, n + 1, n + k) IN
          d \in Seq(Pieces) /\ Len(d) = k /\ Framing(d, Len(out) + n, l)
      <3>1. n + k <= Len(answer_)
        BY <1>2, <2>1
      <3> QED
        BY <1>2, <1>3, <1>5, <3>1, CutIsFramed
    <2> QED
      BY <2>1, <2>2
  <1> HIDE DEF c, rest
  <1>8. out' \in Seq(Pieces) /\ Len(out') = Len(out) + n /\ Framing(out', 0, l)
    BY <1>2, <1>4, <1>5, <1>6, JoinIsFramed
  <1>9. /\ Framing(answer_', Len(out'), l) /\ answer_' \in Seq(Pieces)
        /\ Len(out') + Len(answer_') = HeadSize + BodyOf(l)
    BY <1>2, <1>3, <1>4, <1>5, <1>7, <1>8
  <1>10. BodyOf(l) \in Nat /\ BodyOf(l) <= l
    BY DEF BodyOf
  <1>11. FileShape'
    BY <1>1, <1>8, <1>9 DEF FileInv, FileShape, FilePoints
  <1>12. FramedAs(l)'
    <2>1. Len(answer_') \in Nat /\ Len(out') \in Nat
      BY <1>8, <1>9
    <2>2. Len(out') <= HeadSize + l
      BY <1>2, <1>9, <1>10, <2>1
    <2> QED
      BY <1>8, <2>2 DEF FramedAs
  <1>13. hpc' = "done" => Len(out') = HeadSize + BodyOf(l)
    BY <1>1, <1>2, <1>3, <1>5, <1>8
  <1>14. FilePhase'
    <2>1. Len(broken') < HeadSize /\ ~lost'
      BY <1>1 DEF FileInv, FilePhase
    <2>2. BodyOf(l)' = BodyOf(l)
      BY <1>1 DEF BodyOf
    <2> QED
      BY <1>1, <1>8, <1>9, <1>12, <1>13, <2>1, <2>2 DEF FilePhase
  <1>15. FileKept'
    BY <1>1 DEF FileInv, FileKept
  <1> QED
    BY <1>11, <1>14, <1>15 DEF FileInv

(* A send fails.                                                            *)
LEMMA SendFailsKeepsFile ==
    ASSUME FileInv, SendFails
    PROVE  FileInv'
  <1>1. /\ hpc = "send" /\ hpc' = "done" /\ lost' = TRUE
        /\ UNCHANGED <<method, file, open, announced, offset, answer_, error, out, broken, shrunk>>
    BY DEF SendFails
  <1>2. FileShape'
    BY <1>1 DEF FileInv, FileShape, FilePoints
  <1>3. FilePhase'
    BY <1>1 DEF FileInv, FilePhase, FramedAs
  <1>4. FileKept'
    BY <1>1 DEF FileInv, FileKept
  <1> QED
    BY <1>2, <1>3, <1>4 DEF FileInv

-----------------------------------------------------------------------------
(* The whole exchange: nothing else touches the file's answer.              *)
LEMMA FileUnchanged ==
    ASSUME FileInv, UNCHANGED fileVars
    PROVE  FileInv'
  BY DEF FileInv, FileShape, FilePhase, FileKept, FramedAs, BodyOf, fileVars

(* Any step of the file's answer.                                           *)
LEMMA StaticFileKeepsFile ==
    ASSUME FileInv, StaticFile
    PROVE  FileInv'
  BY BeginKeepsFile, WriteKeepsFile, OpenKeepsFile, ToServeKeepsFile, SendHeadKeepsFile,
     SendBodyKeepsFile, SendfileEndsKeepsFile, ServeKeepsFile, SendAnswerKeepsFile, SendFailsKeepsFile
  DEF StaticFile, FileStep

(* Every step of the exchange keeps the invariant.                          *)
LEMMA FileInvStep == FileInv /\ [Next]_vars => FileInv'
  <1> SUFFICES ASSUME FileInv, [Next]_vars PROVE FileInv'
    OBVIOUS
  <1>1. CASE StaticFile
    BY <1>1, StaticFileKeepsFile
  <1>2. CASE UNCHANGED fileVars
    BY <1>2, FileUnchanged
  <1>3. StaticFile \/ UNCHANGED fileVars
    BY DEF Next, Read, InspectRequest, ReadStops, Client, WebSocket, FastCGI, vars
  <1> QED
    BY <1>1, <1>2, <1>3

(* The inductive invariant of a static file's answer.                       *)
THEOREM FileInvariant == Spec => []FileInv
  <1>1. Init => FileInv
    BY FileStarts DEF Init
  <1> QED
    BY <1>1, FileInvStep, PTL DEF Spec

(* try_sendfile(), serve() and send_response() send one whole head and then *)
(* what it announces, an error page with its body whatever the method, and  *)
(* close the file, whichever call fails or is cut short and whatever is     *)
(* written to the file meanwhile; before it there may be the beginning of a *)
(* head that was given up, and never more.                                  *)
THEOREM FileIsSound == Spec => []FileSound
  <1>1. FileInv => FileSound
    <2> SUFFICES ASSUME FileInv PROVE FileSound
      OBVIOUS
    <2> DEFINE body == Len(out) - HeadSize
    <2>1. /\ HeadSize \in Nat /\ HeadSize > 0 /\ Len(out) \in Nat /\ DOMAIN out = 1..Len(out)
          /\ hpc \in FilePoints
      BY FileAssumption DEF FileInv, FileShape
    <2>2. PICK l \in Nat : FramedAs(l)
      BY DEF FileInv, FilePhase
    <2>3. \A i \in DOMAIN out : "part" \in DOMAIN out[i] <=> i <= HeadSize
      <3>1. \A i \in 1..Len(out) : IsPart(out[i]) <=> 0 + i <= HeadSize
        BY <2>2 DEF FramedAs, Framing
      <3>2. \A i \in 1..Len(out) : 0 + i = i
        BY <2>1
      <3> QED
        BY <2>1, <3>1, <3>2 DEF IsPart
    <2>4. \A k \in Nat : Framing(out, 0, k) /\ Len(out) >= 1 => out[1].length = k
      BY <2>1, 1 \in Nat, 0 + 1 <= HeadSize DEF Framing
    <2>5. body > 0 => body <= out[1].length
      <3> SUFFICES ASSUME body > 0 PROVE body <= out[1].length
        OBVIOUS
      <3>1. Len(out) >= 1 /\ Len(out) <= HeadSize + l
        BY <2>1, <2>2 DEF FramedAs
      <3>2. out[1].length = l
        BY <2>2, <2>4, <3>1 DEF FramedAs
      <3> QED
        BY <2>1, <3>1, <3>2
    <2>6. hpc = "done" /\ ~lost /\ ~shrunk =>
             body >= 0 /\ body = IF method = "HEAD" /\ ~error THEN 0 ELSE out[1].length
      <3> SUFFICES ASSUME hpc = "done", ~lost, ~shrunk
                   PROVE  body >= 0 /\ body = IF method = "HEAD" /\ ~error THEN 0 ELSE out[1].length
        OBVIOUS
      <3>1. PICK k \in Nat : Framing(out, 0, k) /\ Len(out) = HeadSize + BodyOf(k)
        BY DEF FileInv, FilePhase
      <3>2. Len(out) >= 1 /\ body = BodyOf(k) /\ body >= 0
        BY <2>1, <3>1 DEF BodyOf
      <3>3. out[1].length = k
        BY <2>4, <3>1, <3>2
      <3> QED
        BY <3>2, <3>3 DEF BodyOf
    <2>7. FileFramed
      <3>1. Len(broken) < HeadSize
        BY DEF FileInv, FilePhase
      <3> QED
        BY <2>3, <2>5, <2>6, <3>1 DEF FileFramed
    <2>8. FileClosed
      BY DEF FileInv, FileKept, FileClosed
    <2> QED
      BY <2>7, <2>8 DEF FileSound
  <1> QED
    BY <1>1, FileInvariant, PTL

-----------------------------------------------------------------------------
(* Induction and recursion over the first naturals.                         *)

(* A set of naturals that is not empty has a least element.                 *)
LEMMA LeastElement ==
    ASSUME NEW T, T \subseteq Nat, T # {}
    PROVE  \E x \in T : \A y \in T : x <= y
  <1>1. PICK R : R = OpToRel(<, Nat)
    OBVIOUS
  <1>2. IsWellFoundedOn(R, Nat)
    BY <1>1, NatLessThanWellFounded, Zenon
  <1>3. \A x, y \in Nat : <<x, y>> \in R <=> x < y
    BY <1>1 DEF OpToRel
  <1>4. PICK x \in T : \A y \in T : ~(<<y, x>> \in R)
    BY <1>2, WFMin
  <1>5. ASSUME NEW y \in T PROVE x <= y
    <2>1. x \in Nat /\ y \in Nat
      OBVIOUS
    <2>2. ~(y < x)
      BY <2>1, <1>3, <1>4
    <2> QED
      BY <2>1, <2>2
  <1> QED
    BY <1>5

(* Induction over the naturals, for the set of those that have a property.  *)
LEMMA NatInd ==
    ASSUME NEW S, 0 \in S, \A n \in Nat : n \in S => n + 1 \in S
    PROVE  Nat \subseteq S
  <1> SUFFICES ASSUME Nat \ S # {} PROVE FALSE
    OBVIOUS
  <1>1. PICK x \in Nat \ S : \A y \in Nat \ S : x <= y
    BY LeastElement
  <1>2. x # 0 /\ x - 1 \in Nat /\ x - 1 \in S
    BY <1>1
  <1> QED
    BY <1>2

(* A set of naturals up to a bound has a greatest element, which is Max.    *)
LEMMA MaxIn ==
    ASSUME NEW T, NEW b \in Nat, T \subseteq 0..b, T # {}
    PROVE  Max(T) \in T /\ \A x \in T : x <= Max(T)
  <1>1. PICK D : D = {b - x : x \in T}
    OBVIOUS
  <1>2. D \subseteq Nat /\ D # {}
    <2>1. \A x \in T : x \in 0..b /\ b - x \in Nat
      OBVIOUS
    <2> QED
      BY <1>1, <2>1
  <1>3. PICK d \in D : \A y \in D : d <= y
    BY <1>2, LeastElement
  <1>4. PICK x \in T : d = b - x
    BY <1>1, <1>3
  <1>5. \A y \in T : x >= y
    BY <1>1, <1>3, <1>4
  <1>6. Max(T) \in T /\ \A y \in T : Max(T) >= y
    BY <1>4, <1>5 DEF Max
  <1> QED
    BY <1>6

(* What holds of 0 and passes from each number to the next, up to n.        *)
LEMMA UpTo ==
    ASSUME NEW n \in Nat, NEW S, 0 \in S, \A k \in 1..n : k - 1 \in S => k \in S
    PROVE  0..n \subseteq S
  <1> DEFINE T == {k \in Nat : k <= n => k \in S}
  <1>1. 0 \in T
    OBVIOUS
  <1>2. ASSUME NEW k \in Nat, k \in T PROVE k + 1 \in T
    <2> SUFFICES ASSUME k + 1 <= n PROVE k + 1 \in S
      OBVIOUS
    <2>1. k + 1 \in 1..n /\ (k + 1) - 1 = k /\ k \in S
      BY <1>2
    <2> QED
      BY <2>1
  <1>3. Nat \subseteq T
    <2> HIDE DEF T
    <2> QED
      BY <1>1, <1>2, NatInd
  <1> QED
    BY <1>3

(* g takes the steps F[1], F[2], ... F[n] from a.                           *)
Iterates(n, A, a, F, g) ==
    /\ g \in [0..n -> A]
    /\ g[0] = a
    /\ \A k \in 1..n : g[k] = F[k][g[k - 1]]

(* Such a function exists.                                                  *)
LEMMA Iterated ==
    ASSUME NEW n \in Nat, NEW A, NEW a \in A, NEW F,
           \A k \in 1..n : \A x \in A : F[k][x] \in A
    PROVE  \E g : Iterates(n, A, a, F, g)
  <1> DEFINE Up(m, g) == g \in [0..m -> A] /\ g[0] = a /\ \A k \in 1..m : g[k] = F[k][g[k - 1]]
             S == {m \in Nat : \E g : Up(m, g)}
  <1>1. 0 \in S
    <2>1. PICK g : g = [i \in 0..0 |-> a]
      OBVIOUS
    <2>2. Up(0, g)
      BY <2>1
    <2> QED
      BY <2>2
  <1>2. ASSUME NEW m \in 1..n, m - 1 \in S PROVE m \in S
    <2>1. PICK g : Up(m - 1, g)
      BY <1>2
    <2>2. PICK h : h = [i \in 0..m |-> IF i = m THEN F[m][g[m - 1]] ELSE g[i]]
      OBVIOUS
    <2>3. g[m - 1] \in A /\ F[m][g[m - 1]] \in A
      <3>1. m - 1 \in 0..(m - 1)
        OBVIOUS
      <3> QED
        BY <3>1, <2>1
    <2>4. h \in [0..m -> A] /\ h[0] = a
      BY <2>1, <2>2, <2>3
    <2>5. ASSUME NEW i \in 1..m PROVE h[i] = F[i][h[i - 1]]
      <3>1. CASE i = m
        BY <3>1, <2>1, <2>2
      <3>2. CASE i # m
        <4>1. i \in 1..(m - 1) /\ i - 1 \in 0..m /\ i - 1 # m
          BY <3>2
        <4> QED
          BY <4>1, <2>1, <2>2
      <3> QED
        BY <3>1, <3>2
    <2>6. Up(m, h)
      BY <2>4, <2>5
    <2> QED
      BY <2>6
  <1>3. 0..n \subseteq S
    <2> HIDE DEF S
    <2> QED
      BY <1>1, <1>2, UpTo
  <1>4. n \in S
    <2> HIDE DEF S
    <2> QED
      BY <1>3
  <1>5. PICK g : Up(n, g)
    BY <1>4
  <1>6. Iterates(n, A, a, F, g)
    BY <1>5 DEF Iterates
  <1> QED
    BY <1>6

(* u and g start alike and take the same steps, up to n.                    *)
SameSteps(n, u, g) ==
    /\ u[0] = g[0]
    /\ \A k \in 1..n : u[k - 1] = g[k - 1] => u[k] = g[k]

(* Such functions are alike.                                                *)
LEMMA StepsAgree ==
    ASSUME NEW n \in Nat, NEW u, NEW g, SameSteps(n, u, g)
    PROVE  \A k \in 0..n : u[k] = g[k]
  <1> DEFINE S == {k \in 0..n : u[k] = g[k]}
  <1>1. 0 \in S
    BY DEF SameSteps
  <1>2. ASSUME NEW k \in 1..n, k - 1 \in S PROVE k \in S
    BY <1>2 DEF SameSteps
  <1>3. 0..n \subseteq S
    <2> HIDE DEF S
    <2> QED
      BY <1>1, <1>2, UpTo
  <1> QED
    BY <1>3

-----------------------------------------------------------------------------
(* Sequences put together.                                                  *)

(* g[n] is what the first n of the sequences make.                          *)
Flattens(A, s, g) ==
    /\ g \in [0..Len(s) -> Seq(A)]
    /\ g[0] = <<>>
    /\ \A n \in 1..Len(s) : g[n] = g[n - 1] \o s[n]

(* Every sequence of sequences has such a g.                                *)
LEMMA FlattensExist ==
    ASSUME NEW A, NEW s \in Seq(Seq(A))
    PROVE  \E g : Flattens(A, s, g)
  <1>0. Len(s) \in Nat /\ (\A k \in 1..Len(s) : s[k] \in Seq(A)) /\ <<>> \in Seq(A)
    OBVIOUS
  <1>1. PICK F : F = [k \in 1..Len(s) |-> [x \in Seq(A) |-> x \o s[k]]]
    OBVIOUS
  <1>2. ASSUME NEW k \in 1..Len(s), NEW x \in Seq(A) PROVE F[k][x] = x \o s[k] /\ F[k][x] \in Seq(A)
    <2>1. PICK n : n = s[k]
      OBVIOUS
    <2>2. PICK add : add = [y \in Seq(A) |-> y \o n]
      OBVIOUS
    <2>3. F[k] = add
      BY <1>1, <2>1, <2>2
    <2>4. n \in Seq(A)
      BY <1>0, <2>1
    <2>5. add[x] = x \o n
      BY <2>2
    <2>6. x \o n \in Seq(A)
      BY <2>4
    <2> QED
      BY <2>1, <2>3, <2>5, <2>6
  <1>3. \A k \in 1..Len(s) : \A x \in Seq(A) : F[k][x] \in Seq(A)
    BY <1>2
  <1>4. PICK g : Iterates(Len(s), Seq(A), <<>>, F, g)
    BY <1>0, <1>3, Iterated
  <1>5. ASSUME NEW k \in 1..Len(s) PROVE g[k] = g[k - 1] \o s[k]
    <2>1. k - 1 \in 0..Len(s)
      BY <1>0
    <2>2. g[k - 1] \in Seq(A)
      BY <2>1, <1>4 DEF Iterates
    <2>3. g[k] = F[k][g[k - 1]]
      BY <1>4 DEF Iterates
    <2> QED
      BY <2>2, <2>3, <1>2
  <1> QED
    BY <1>4, <1>5 DEF Flattens, Iterates

(* FlattenSeq is the last of them.                                          *)
LEMMA FlattenIs ==
    ASSUME NEW A, NEW s \in Seq(Seq(A)), NEW g, Flattens(A, s, g)
    PROVE  FlattenSeq(s) = g[Len(s)] /\ FlattenSeq(s) \in Seq(A)
  <1> DEFINE P(u) == u = [i \in 1..Len(s) |-> IF i = 1 THEN s[i] ELSE u[i - 1] \o s[i]]
  <1>0. Len(s) \in Nat
    OBVIOUS
  <1>1. CASE Len(s) = 0
    <2>1. FlattenSeq(s) = s
      BY <1>1 DEF FlattenSeq
    <2>2. s = <<>>
      BY <1>1
    <2> QED
      BY <2>1, <2>2, <1>1 DEF Flattens
  <1>2. CASE Len(s) # 0
    <2>1. PICK v : v = [i \in 1..Len(s) |-> g[i]]
      OBVIOUS
    <2>2. \A i \in 1..Len(s) : v[i] = IF i = 1 THEN s[i] ELSE v[i - 1] \o s[i]
      <3> TAKE i \in 1..Len(s)
      <3>0. s[i] \in Seq(A)
        OBVIOUS
      <3>1. v[i] = g[i] /\ g[i] = g[i - 1] \o s[i] /\ s[i] \in Seq(A)
        BY <3>0, <2>1 DEF Flattens
      <3>2. CASE i = 1
        <4>1. g[i - 1] = <<>>
          BY <3>2 DEF Flattens
        <4>2. <<>> \o s[i] = s[i]
          BY <3>1
        <4> QED
          BY <4>1, <4>2, <3>1, <3>2
      <3>3. CASE i # 1
        <4>1. i - 1 \in 1..Len(s)
          BY <3>3, <1>0
        <4>2. v[i - 1] = g[i - 1]
          BY <4>1, <2>1
        <4> QED
          BY <4>2, <3>1, <3>3
      <3> QED
        BY <3>2, <3>3
    <2>3. P(v)
      <3>1. v = [i \in 1..Len(s) |-> v[i]]
        BY <2>1
      <3> QED
        BY <3>1, <2>2
    <2>4. PICK u : u = CHOOSE w : P(w)
      OBVIOUS
    <2>5. P(u)
      BY <2>3, <2>4
    <2>6. FlattenSeq(s) = u[Len(s)]
      BY <1>2, <2>4 DEF FlattenSeq
    <2>7. \A i \in 1..Len(s) : u[i] = IF i = 1 THEN s[i] ELSE u[i - 1] \o s[i]
      BY <2>5
    <2> HIDE DEF P
    <2>8. PICK w : w = [i \in 0..Len(s) |-> IF i = 0 THEN <<>> ELSE u[i]]
      OBVIOUS
    <2>9. SameSteps(Len(s), w, g)
      <3>1. w[0] = g[0]
        BY <2>8, <1>0 DEF Flattens
      <3>2. ASSUME NEW k \in 1..Len(s), w[k - 1] = g[k - 1] PROVE w[k] = g[k]
        <4>0. k \in 0..Len(s) /\ k - 1 \in 0..Len(s) /\ k # 0 /\ s[k] \in Seq(A)
          BY <1>0
        <4>1. w[k] = u[k] /\ g[k] = g[k - 1] \o s[k]
          BY <4>0, <2>8 DEF Flattens
        <4>2. CASE k = 1
          <5>1. g[k - 1] = <<>> /\ <<>> \o s[k] = s[k]
            BY <4>0, <4>2 DEF Flattens
          <5> QED
            BY <5>1, <4>1, <4>2, <2>7
        <4>3. CASE k # 1
          <5>1. k - 1 # 0 /\ w[k - 1] = u[k - 1]
            BY <4>0, <4>3, <2>8
          <5>2. u[k] = u[k - 1] \o s[k]
            BY <4>3, <2>7
          <5> QED
            BY <5>1, <5>2, <4>1, <3>2
        <4> QED
          BY <4>2, <4>3
      <3> QED
        BY <3>1, <3>2 DEF SameSteps
    <2>10. \A k \in 0..Len(s) : w[k] = g[k]
      BY <2>9, <1>0, StepsAgree
    <2>11. Len(s) \in 0..Len(s) /\ w[Len(s)] = u[Len(s)]
      BY <1>0, <1>2, <2>8
    <2> QED
      BY <2>6, <2>10, <2>11 DEF Flattens
  <1> QED
    BY <1>1, <1>2

(* Nothing makes nothing.                                                   *)
LEMMA FlattenNone ==
    ASSUME NEW s, Len(s) = 0, s = <<>>
    PROVE  FlattenSeq(s) = <<>>
  BY DEF FlattenSeq

(* What sequences make is a sequence.                                       *)
LEMMA FlattenType ==
    ASSUME NEW A, NEW s \in Seq(Seq(A))
    PROVE  FlattenSeq(s) \in Seq(A)
  BY FlattensExist, FlattenIs

(* c is s and one more.                                                     *)
OneMore(c, s) == Len(c) = Len(s) + 1 /\ \A i \in 1..Len(s) : c[i] = s[i]

(* One more is put at the end.                                              *)
LEMMA FlattenMore ==
    ASSUME NEW A, NEW s \in Seq(Seq(A)), NEW c \in Seq(Seq(A)), OneMore(c, s)
    PROVE  FlattenSeq(c) = FlattenSeq(s) \o c[Len(c)]
  <1>0. Len(s) \in Nat /\ Len(c) = Len(s) + 1 /\ Len(c) - 1 = Len(s) /\ Len(c) \in 1..Len(c)
        /\ Len(s) \in 0..Len(s)
    BY DEF OneMore
  <1>1. PICK g : Flattens(A, s, g)
    BY FlattensExist
  <1>2. PICK h : Flattens(A, c, h)
    BY FlattensExist
  <1>3. SameSteps(Len(s), h, g)
    <2>1. h[0] = g[0]
      BY <1>1, <1>2 DEF Flattens
    <2>2. ASSUME NEW k \in 1..Len(s), h[k - 1] = g[k - 1] PROVE h[k] = g[k]
      <3>1. k \in 1..Len(c) /\ c[k] = s[k]
        BY <1>0 DEF OneMore
      <3>2. h[k] = h[k - 1] \o c[k] /\ g[k] = g[k - 1] \o s[k]
        BY <3>1, <1>1, <1>2 DEF Flattens
      <3> QED
        BY <3>1, <3>2, <2>2
    <2> QED
      BY <2>1, <2>2 DEF SameSteps
  <1>4. h[Len(s)] = g[Len(s)]
    BY <1>0, <1>3, StepsAgree
  <1>5. h[Len(c)] = h[Len(c) - 1] \o c[Len(c)]
    BY <1>0, <1>2 DEF Flattens
  <1>6. FlattenSeq(c) = h[Len(c)] /\ FlattenSeq(s) = g[Len(s)]
    BY <1>1, <1>2, FlattenIs
  <1> QED
    BY <1>0, <1>4, <1>5, <1>6

(* Two sequences in a row.                                                  *)
IsJoin(c, s, t) ==
    /\ Len(c) = Len(s) + Len(t)
    /\ \A i \in 1..Len(s) : c[i] = s[i]
    /\ \A i \in 1..Len(t) : c[Len(s) + i] = t[i]

(* A beginning of a sequence, and the same with one more.                   *)
LEMMA Beginning ==
    ASSUME NEW S, NEW s \in Seq(S), NEW n \in 0..Len(s)
    PROVE  /\ SubSeq(s, 1, n) \in Seq(S) /\ Len(SubSeq(s, 1, n)) = n
           /\ \A i \in 1..n : SubSeq(s, 1, n)[i] = s[i]
  OBVIOUS

(* What two sequences in a row make.                                        *)
LEMMA FlattenJoin ==
    ASSUME NEW A, NEW s \in Seq(Seq(A)), NEW t \in Seq(Seq(A)), NEW c \in Seq(Seq(A)), IsJoin(c, s, t)
    PROVE  FlattenSeq(c) = FlattenSeq(s) \o FlattenSeq(t)
  <1>0. Len(s) \in Nat /\ Len(t) \in Nat /\ Len(c) = Len(s) + Len(t)
    BY DEF IsJoin
  <1>1. PICK fs : fs = FlattenSeq(s)
    OBVIOUS
  <1>2. fs \in Seq(A)
    BY <1>1, FlattenType
  <1> DEFINE C(n) == SubSeq(c, 1, Len(s) + n)
             T(n) == SubSeq(t, 1, n)
             S == {n \in 0..Len(t) : FlattenSeq(C(n)) = fs \o FlattenSeq(T(n))}
  <1>3. ASSUME NEW n \in 0..Len(t)
        PROVE  /\ C(n) \in Seq(Seq(A)) /\ Len(C(n)) = Len(s) + n /\ \A i \in 1..(Len(s) + n) : C(n)[i] = c[i]
               /\ T(n) \in Seq(Seq(A)) /\ Len(T(n)) = n /\ \A i \in 1..n : T(n)[i] = t[i]
    <2>1. Len(s) + n \in 0..Len(c)
      BY <1>0
    <2>2. PICK m : m = Len(s) + n
      OBVIOUS
    <2>3. /\ SubSeq(c, 1, m) \in Seq(Seq(A)) /\ Len(SubSeq(c, 1, m)) = m
          /\ \A i \in 1..m : SubSeq(c, 1, m)[i] = c[i]
      BY <2>1, <2>2, Beginning
    <2>4. /\ SubSeq(t, 1, n) \in Seq(Seq(A)) /\ Len(SubSeq(t, 1, n)) = n
          /\ \A i \in 1..n : SubSeq(t, 1, n)[i] = t[i]
      BY Beginning
    <2> QED
      BY <2>2, <2>3, <2>4
  <1> HIDE DEF C, T
  <1>4. 0 \in S
    <2>1. T(0) = <<>> /\ Len(T(0)) = 0
      BY <1>0, <1>3
    <2>2. FlattenSeq(T(0)) = <<>>
      BY <2>1, FlattenNone
    <2>3. C(0) = s
      <3>1. 0 \in 0..Len(t) /\ Len(s) + 0 = Len(s)
        BY <1>0
      <3>2. C(0) \in Seq(Seq(A)) /\ Len(C(0)) = Len(s)
        BY <3>1, <1>3
      <3>3. \A i \in 1..Len(s) : C(0)[i] = s[i]
        BY <3>1, <1>3 DEF IsJoin
      <3> QED
        BY <3>2, <3>3, SeqEqual
    <2>4. fs \o <<>> = fs
      BY <1>2
    <2>5. FlattenSeq(C(0)) = fs \o FlattenSeq(T(0))
      BY <2>2, <2>3, <2>4, <1>1, Zenon
    <2>6. 0 \in 0..Len(t)
      BY <1>0
    <2> QED
      BY <2>5, <2>6
  <1>5. ASSUME NEW n \in 1..Len(t), n - 1 \in S PROVE n \in S
    <2>0. n - 1 \in 0..Len(t) /\ n \in 0..Len(t) /\ Len(s) + n = (Len(s) + (n - 1)) + 1
          /\ n = (n - 1) + 1 /\ Len(s) + n \in 1..(Len(s) + n) /\ n \in 1..n
      BY <1>0
    <2>1. OneMore(T(n), T(n - 1))
      <3>1. \A i \in 1..(n - 1) : i \in 1..n
        BY <2>0
      <3> QED
        BY <3>1, <2>0, <1>3 DEF OneMore
    <2>2. OneMore(C(n), C(n - 1))
      <3>1. \A i \in 1..(Len(s) + (n - 1)) : i \in 1..(Len(s) + n)
        BY <2>0, <1>0
      <3> QED
        BY <3>1, <2>0, <1>3 DEF OneMore
    <2>3. T(n)[Len(T(n))] = t[n] /\ C(n)[Len(C(n))] = t[n]
      <3>1. T(n)[Len(T(n))] = t[n]
        BY <2>0, <1>3
      <3>2. C(n)[Len(C(n))] = c[Len(s) + n]
        BY <2>0, <1>3
      <3>3. c[Len(s) + n] = t[n]
        BY DEF IsJoin
      <3> QED
        BY <3>1, <3>2, <3>3
    <2>t. T(n) \in Seq(Seq(A)) /\ T(n - 1) \in Seq(Seq(A)) /\ C(n) \in Seq(Seq(A)) /\ C(n - 1) \in Seq(Seq(A))
      BY <2>0, <1>3
    <2>4. FlattenSeq(T(n)) = FlattenSeq(T(n - 1)) \o t[n]
      BY <2>1, <2>3, <2>t, FlattenMore, Zenon
    <2>5. FlattenSeq(C(n)) = FlattenSeq(C(n - 1)) \o t[n]
      BY <2>2, <2>3, <2>t, FlattenMore, Zenon
    <2>6. PICK x : x = FlattenSeq(T(n - 1))
      OBVIOUS
    <2>6a. PICK y : y = t[n]
      OBVIOUS
    <2>7. x \in Seq(A) /\ y \in Seq(A)
      <3>1. x \in Seq(A)
        BY <2>t, <2>6, FlattenType, Zenon
      <3>2. y \in Seq(A)
        BY <2>6a
      <3> QED
        BY <3>1, <3>2
    <2>8. (fs \o x) \o y = fs \o (x \o y)
      BY <2>7, <1>2
    <2>9. FlattenSeq(C(n - 1)) = fs \o x
      BY <2>6, <1>5
    <2>10. FlattenSeq(C(n)) = fs \o FlattenSeq(T(n))
      BY <2>4, <2>5, <2>6, <2>6a, <2>8, <2>9, Zenon
    <2> QED
      BY <2>0, <2>10
  <1>6. 0..Len(t) \subseteq S
    <2> HIDE DEF S
    <2> QED
      BY <1>0, <1>4, <1>5, UpTo
  <1>8. Len(t) \in 0..Len(t)
    BY <1>0
  <1>7. Len(t) \in S
    BY <1>6, <1>8, Zenon
  <1>9. C(Len(t)) = c
    <2>1. C(Len(t)) \in Seq(Seq(A)) /\ Len(C(Len(t))) = Len(c) /\ \A i \in 1..Len(c) : C(Len(t))[i] = c[i]
      BY <1>0, <1>3, <1>8
    <2> QED
      BY <2>1, SeqEqual
  <1>10. T(Len(t)) = t
    <2>1. T(Len(t)) \in Seq(Seq(A)) /\ Len(T(Len(t))) = Len(t) /\ \A i \in 1..Len(t) : T(Len(t))[i] = t[i]
      BY <1>3, <1>8
    <2> QED
      BY <2>1, SeqEqual
  <1> QED
    BY <1>1, <1>7, <1>9, <1>10

-----------------------------------------------------------------------------
(* The WebSocket: the messages among the frames received.                   *)
Letters == STRING \cup {"PROTOCOL_ERROR", "TOO_BIG", "NO_STATUS"}
WsFrames == [opcode : Opcodes, fin : BOOLEAN, header : STRING, payload : Seq(Letters)]
IsData(i) == frames[i].opcode \notin Control

(* What each frame adds to the message that began at b, to the echoes and   *)
(* to the pongs.                                                            *)
Adds(b, i) == IF i >= b /\ IsData(i) THEN frames[i].payload ELSE <<>>
Echo(i) == Frame(frames[FirstOf(i)].opcode, MessageUpTo(i))
Echoes(i) == IF IsData(i) /\ frames[i].fin THEN <<Echo(i)>> ELSE <<>>
Pong(i) == Frame("PONG", frames[i].payload)
PongsOf(i) == IF frames[i].opcode = "PING" THEN <<Pong(i)>> ELSE <<>>

(* A message frame by frame.                                                *)
LEMMA DataFromStep ==
    ASSUME frames \in Seq(WsFrames), NEW b, NEW i \in 1..Len(frames)
    PROVE  /\ DataFrom(b, i) = DataFrom(b, i - 1) \o Adds(b, i)
           /\ DataFrom(b, i) \in Seq(Letters) /\ DataFrom(b, i - 1) \in Seq(Letters)
  <1>0. Len(frames) \in Nat
    OBVIOUS
  <1>1. ASSUME NEW j \in 1..Len(frames) PROVE Adds(b, j) \in Seq(Letters)
    <2>1. frames[j] \in WsFrames
      OBVIOUS
    <2>2. frames[j].payload \in Seq(Letters) /\ <<>> \in Seq(Letters)
      BY <2>1 DEF WsFrames
    <2> QED
      BY <2>2 DEF Adds
  <1>2. PICK c : c = [j \in 1..i |-> Adds(b, j)]
    OBVIOUS
  <1>3. PICK s : s = [j \in 1..(i - 1) |-> Adds(b, j)]
    OBVIOUS
  <1>4. c \in Seq(Seq(Letters)) /\ s \in Seq(Seq(Letters)) /\ Len(c) = i /\ Len(s) = i - 1
    <2>1. i \in Nat /\ i - 1 \in Nat /\ (\A j \in 1..i : j \in 1..Len(frames)) /\ \A j \in 1..(i - 1) : j \in 1..Len(frames)
      BY <1>0
    <2>2. (\A j \in 1..i : Adds(b, j) \in Seq(Letters)) /\ \A j \in 1..(i - 1) : Adds(b, j) \in Seq(Letters)
      BY <2>1, <1>1
    <2> QED
      BY <2>1, <2>2, <1>2, <1>3
  <1>5. OneMore(c, s) /\ c[Len(c)] = Adds(b, i)
    BY <1>0, <1>2, <1>3, <1>4 DEF OneMore
  <1>6. FlattenSeq(c) = FlattenSeq(s) \o Adds(b, i)
    BY <1>4, <1>5, FlattenMore
  <1>7. FlattenSeq(c) \in Seq(Letters) /\ FlattenSeq(s) \in Seq(Letters)
    BY <1>4, FlattenType
  <1>8. FlattenSeq(c) = DataFrom(b, i) /\ FlattenSeq(s) = DataFrom(b, i - 1)
    BY <1>2, <1>3 DEF DataFrom, Adds, IsData
  <1> QED
    BY <1>6, <1>7, <1>8

(* Nothing before it begins.                                                *)
LEMMA DataFromNone ==
    ASSUME frames \in Seq(WsFrames), NEW i \in 1..Len(frames)
    PROVE  DataFrom(i, i - 1) = <<>>
  <1> DEFINE S == {n \in 0..(i - 1) : DataFrom(i, n) = <<>>}
  <1>0. Len(frames) \in Nat /\ i - 1 \in Nat
    OBVIOUS
  <1>1. 0 \in S
    <2>1. PICK c : c = [j \in 1..0 |-> Adds(i, j)]
      OBVIOUS
    <2>2. c = <<>> /\ Len(c) = 0
      BY <2>1
    <2>3. FlattenSeq(c) = <<>>
      BY <2>2, FlattenNone
    <2>4. DataFrom(i, 0) = <<>>
      BY <2>1, <2>3 DEF DataFrom, Adds, IsData
    <2> QED
      BY <2>4, <1>0
  <1>2. ASSUME NEW n \in 1..(i - 1), n - 1 \in S PROVE n \in S
    <2>1. n \in 1..Len(frames) /\ ~(n >= i) /\ n \in 0..(i - 1)
      BY <1>0
    <2>2. DataFrom(i, n) = DataFrom(i, n - 1) \o Adds(i, n)
      BY <2>1, DataFromStep
    <2>3. Adds(i, n) = <<>> /\ DataFrom(i, n - 1) = <<>>
      BY <2>1, <1>2 DEF Adds
    <2>4. DataFrom(i, n) = <<>>
      BY <2>2, <2>3
    <2> QED
      BY <2>1, <2>4
  <1>3. 0..(i - 1) \subseteq S
    <2> HIDE DEF S
    <2> QED
      BY <1>0, <1>1, <1>2, UpTo
  <1>4. i - 1 \in 0..(i - 1)
    BY <1>0
  <1> QED
    BY <1>3, <1>4

(* The messages frame by frame.                                             *)
LEMMA MessagesStep ==
    ASSUME frames \in Seq(WsFrames), NEW i \in 1..Len(frames)
    PROVE  Messages(i) = Messages(i - 1) \o Echoes(i)
  <1>0. Len(frames) \in Nat
    OBVIOUS
  <1>a. PICK A : A = {Echo(j) : j \in 1..i}
    OBVIOUS
  <1>1. ASSUME NEW j \in 1..i PROVE Echoes(j) \in Seq(A)
    <2>1. PICK e : e = Echo(j)
      OBVIOUS
    <2>2. e \in A
      BY <1>a, <2>1
    <2>3. <<e>> \in Seq(A) /\ <<>> \in Seq(A)
      BY <2>2
    <2> QED
      BY <2>1, <2>3 DEF Echoes
  <1>2. PICK c : c = [j \in 1..i |-> Echoes(j)]
    OBVIOUS
  <1>3. PICK s : s = [j \in 1..(i - 1) |-> Echoes(j)]
    OBVIOUS
  <1>4. c \in Seq(Seq(A)) /\ s \in Seq(Seq(A)) /\ Len(c) = i /\ Len(s) = i - 1
    <2>1. i \in Nat /\ i - 1 \in Nat /\ \A j \in 1..(i - 1) : j \in 1..i
      BY <1>0
    <2>2. \A j \in 1..(i - 1) : Echoes(j) \in Seq(A)
      BY <2>1, <1>1
    <2> QED
      BY <2>1, <2>2, <1>1, <1>2, <1>3
  <1>5. OneMore(c, s) /\ c[Len(c)] = Echoes(i)
    BY <1>0, <1>2, <1>3, <1>4 DEF OneMore
  <1>6. FlattenSeq(c) = FlattenSeq(s) \o Echoes(i)
    BY <1>4, <1>5, FlattenMore
  <1>8. FlattenSeq(c) = Messages(i) /\ FlattenSeq(s) = Messages(i - 1)
    BY <1>2, <1>3 DEF Messages, Echoes, Echo, IsData
  <1> QED
    BY <1>6, <1>8

(* The pongs frame by frame.                                                *)
LEMMA PongsStep ==
    ASSUME frames \in Seq(WsFrames), NEW i \in 1..Len(frames)
    PROVE  Pongs(i) = Pongs(i - 1) \o PongsOf(i)
  <1>0. Len(frames) \in Nat
    OBVIOUS
  <1>a. PICK A : A = {Pong(j) : j \in 1..i}
    OBVIOUS
  <1>1. ASSUME NEW j \in 1..i PROVE PongsOf(j) \in Seq(A)
    <2>1. PICK e : e = Pong(j)
      OBVIOUS
    <2>2. e \in A
      BY <1>a, <2>1
    <2>3. <<e>> \in Seq(A) /\ <<>> \in Seq(A)
      BY <2>2
    <2> QED
      BY <2>1, <2>3 DEF PongsOf
  <1>2. PICK c : c = [j \in 1..i |-> PongsOf(j)]
    OBVIOUS
  <1>3. PICK s : s = [j \in 1..(i - 1) |-> PongsOf(j)]
    OBVIOUS
  <1>4. c \in Seq(Seq(A)) /\ s \in Seq(Seq(A)) /\ Len(c) = i /\ Len(s) = i - 1
    <2>1. i \in Nat /\ i - 1 \in Nat /\ \A j \in 1..(i - 1) : j \in 1..i
      BY <1>0
    <2>2. \A j \in 1..(i - 1) : PongsOf(j) \in Seq(A)
      BY <2>1, <1>1
    <2> QED
      BY <2>1, <2>2, <1>1, <1>2, <1>3
  <1>5. OneMore(c, s) /\ c[Len(c)] = PongsOf(i)
    BY <1>0, <1>2, <1>3, <1>4 DEF OneMore
  <1>6. FlattenSeq(c) = FlattenSeq(s) \o PongsOf(i)
    BY <1>4, <1>5, FlattenMore
  <1>8. FlattenSeq(c) = Pongs(i) /\ FlattenSeq(s) = Pongs(i - 1)
    BY <1>2, <1>3 DEF Pongs, PongsOf, Pong
  <1> QED
    BY <1>6, <1>8

(* At the start there are neither.                                          *)
LEMMA NothingReceived == Messages(0) = <<>> /\ Pongs(0) = <<>>
  <1>1. PICK c : c = [j \in 1..0 |-> Echoes(j)]
    OBVIOUS
  <1>2. PICK d : d = [j \in 1..0 |-> PongsOf(j)]
    OBVIOUS
  <1>3. c = <<>> /\ Len(c) = 0 /\ d = <<>> /\ Len(d) = 0
    BY <1>1, <1>2
  <1>4. FlattenSeq(c) = <<>> /\ FlattenSeq(d) = <<>>
    BY <1>3, FlattenNone
  <1>5. FlattenSeq(c) = Messages(0)
    BY <1>1 DEF Messages, Echoes, Echo, IsData
  <1>6. FlattenSeq(d) = Pongs(0)
    BY <1>2 DEF Pongs, PongsOf, Pong
  <1> QED
    BY <1>4, <1>5, <1>6

(* Where a message begins, for a control frame and a data frame.            *)
LEMMA ControlFrame ==
    ASSUME frames \in Seq(WsFrames), NEW i \in 1..Len(frames), ~IsData(i)
    PROVE  /\ InMessage(i + 1) <=> InMessage(i)
           /\ FirstOf(i) = FirstOf(i - 1)
           /\ MessageUpTo(i) = MessageUpTo(i - 1)
  <1>0. Len(frames) \in Nat /\ (i + 1) - 1 = i
    OBVIOUS
  <1>1. DataBefore(i + 1) = DataBefore(i)
    BY <1>0 DEF DataBefore, IsData
  <1>2. InMessage(i + 1) <=> InMessage(i)
    BY <1>1 DEF InMessage
  <1>3. {j \in 1..i : frames[j].opcode \notin Control /\ ~InMessage(j)}
            = {j \in 1..(i - 1) : frames[j].opcode \notin Control /\ ~InMessage(j)}
    <2>1. 1..i = 1..(i - 1) \cup {i}
      BY <1>0
    <2> QED
      BY <2>1 DEF IsData
  <1>4. FirstOf(i) = FirstOf(i - 1)
    BY <1>3 DEF FirstOf
  <1>5. PICK b : b = FirstOf(i)
    OBVIOUS
  <1>6. DataFrom(b, i) = DataFrom(b, i - 1) \o Adds(b, i) /\ DataFrom(b, i - 1) \in Seq(Letters)
    BY DataFromStep
  <1>7. Adds(b, i) = <<>>
    BY DEF Adds
  <1>8. DataFrom(b, i) = DataFrom(b, i - 1)
    BY <1>6, <1>7
  <1> QED
    BY <1>2, <1>4, <1>5, <1>8 DEF MessageUpTo

(* After a data frame a message goes on if it was not final.                *)
LEMMA DataFrame ==
    ASSUME frames \in Seq(WsFrames), NEW i \in 1..Len(frames), IsData(i)
    PROVE  InMessage(i + 1) <=> ~frames[i].fin
  <1>0. Len(frames) \in Nat /\ (i + 1) - 1 = i
    OBVIOUS
  <1>1. i \in DataBefore(i + 1) /\ DataBefore(i + 1) \subseteq 0..i
    BY <1>0 DEF DataBefore, IsData
  <1>2. Max(DataBefore(i + 1)) \in DataBefore(i + 1) /\ \A x \in DataBefore(i + 1) : x <= Max(DataBefore(i + 1))
    BY <1>0, <1>1, MaxIn
  <1>3. Max(DataBefore(i + 1)) = i
    BY <1>0, <1>1, <1>2
  <1> QED
    BY <1>1, <1>3 DEF InMessage

(* A data frame that begins a message.                                      *)
LEMMA FirstFrame ==
    ASSUME frames \in Seq(WsFrames), NEW i \in 1..Len(frames), IsData(i), ~InMessage(i)
    PROVE  FirstOf(i) = i /\ MessageUpTo(i) = frames[i].payload
  <1>0. Len(frames) \in Nat /\ frames[i] \in WsFrames
    OBVIOUS
  <1>1. PICK T : T = {j \in 1..i : frames[j].opcode \notin Control /\ ~InMessage(j)}
    OBVIOUS
  <1>2. i \in T /\ T \subseteq 0..i
    BY <1>0, <1>1 DEF IsData
  <1>2a. T # {} /\ i \in Nat
    BY <1>0, <1>2
  <1>2b. PICK m : m = Max(T)
    OBVIOUS
  <1>3. m \in T /\ \A x \in T : x <= m
    BY <1>2, <1>2a, <1>2b, MaxIn
  <1>4. Max(T) = i
    <2>1. m \in 0..i /\ i <= m
      BY <1>2, <1>3
    <2> QED
      BY <2>1, <1>2a, <1>2b
  <1>5. FirstOf(i) = i
    BY <1>1, <1>4 DEF FirstOf
  <1>6. DataFrom(i, i) = DataFrom(i, i - 1) \o Adds(i, i) /\ DataFrom(i, i - 1) = <<>>
    BY DataFromStep, DataFromNone
  <1>7. Adds(i, i) = frames[i].payload /\ frames[i].payload \in Seq(Letters)
    BY <1>0 DEF Adds, WsFrames
  <1>7a. PICK p : p = frames[i].payload
    OBVIOUS
  <1>7b. <<>> \o p = p
    BY <1>7, <1>7a
  <1>8. DataFrom(i, i) = frames[i].payload
    BY <1>6, <1>7, <1>7a, <1>7b
  <1> QED
    BY <1>5, <1>8 DEF MessageUpTo

(* A message begins where the last data frame that is not inside one is.    *)
LEMMA FirstOfIn ==
    ASSUME frames \in Seq(WsFrames), NEW i \in 1..Len(frames), IsData(i)
    PROVE  FirstOf(i) \in 1..i /\ IsData(FirstOf(i)) /\ ~InMessage(FirstOf(i))
  <1>0. Len(frames) \in Nat
    OBVIOUS
  <1>1. PICK D : D = {j \in 1..i : IsData(j)}
    OBVIOUS
  <1>2. PICK x \in D : \A y \in D : x <= y
    <2>1. D \subseteq Nat /\ i \in D
      BY <1>0, <1>1
    <2> QED
      BY <2>1, LeastElement
  <1>3. x \in 1..i /\ IsData(x) /\ x \in Nat
    BY <1>0, <1>1, <1>2
  <1>4. DataBefore(x) = {}
    <2> SUFFICES ASSUME NEW j \in DataBefore(x) PROVE FALSE
      OBVIOUS
    <2>1. j \in 1..(x - 1) /\ IsData(j)
      BY DEF DataBefore, IsData
    <2>2. j \in D /\ ~(x <= j)
      BY <2>1, <1>1, <1>3
    <2> QED
      BY <2>2, <1>2
  <1>5. ~InMessage(x)
    BY <1>4 DEF InMessage
  <1>6. PICK T : T = {j \in 1..i : frames[j].opcode \notin Control /\ ~InMessage(j)}
    OBVIOUS
  <1>7. x \in T /\ T \subseteq 0..i
    BY <1>0, <1>3, <1>5, <1>6 DEF IsData
  <1>7a. T # {} /\ i \in Nat
    BY <1>0, <1>7
  <1>8. Max(T) \in T
    BY <1>7, <1>7a, MaxIn
  <1> QED
    BY <1>6, <1>8 DEF FirstOf, IsData

(* A data frame inside a message.                                           *)
LEMMA NextFrame ==
    ASSUME frames \in Seq(WsFrames), NEW i \in 1..Len(frames), IsData(i), InMessage(i)
    PROVE  /\ FirstOf(i) = FirstOf(i - 1)
           /\ MessageUpTo(i) = MessageUpTo(i - 1) \o frames[i].payload
  <1>0. Len(frames) \in Nat
    OBVIOUS
  <1>1. {j \in 1..i : frames[j].opcode \notin Control /\ ~InMessage(j)}
            = {j \in 1..(i - 1) : frames[j].opcode \notin Control /\ ~InMessage(j)}
    <2>1. 1..i = 1..(i - 1) \cup {i}
      BY <1>0
    <2> QED
      BY <2>1
  <1>2. FirstOf(i) = FirstOf(i - 1)
    BY <1>1 DEF FirstOf
  <1>3. PICK b : b = FirstOf(i)
    OBVIOUS
  <1>4. b \in 1..i
    BY <1>3, FirstOfIn
  <1>5. DataFrom(b, i) = DataFrom(b, i - 1) \o Adds(b, i)
    BY DataFromStep
  <1>6. Adds(b, i) = frames[i].payload
    BY <1>0, <1>4 DEF Adds
  <1> QED
    BY <1>2, <1>3, <1>5, <1>6 DEF MessageUpTo

-----------------------------------------------------------------------------
(* The frames of some kinds among those written.                            *)
Replies == [opcode : Opcodes, payload : Seq(Letters)]
OneChosen(f, opcodes) == IF f.opcode \in opcodes THEN <<f>> ELSE <<>>

(* Where an element of two sequences in a row is.                           *)
LEMMA InJoin ==
    ASSUME NEW S, NEW a \in Seq(S), NEW b \in Seq(S), NEW c, c = a \o b, NEW i \in 1..Len(c)
    PROVE  \/ i \in 1..Len(a) /\ c[i] = a[i]
           \/ i - Len(a) \in 1..Len(b) /\ c[i] = b[i - Len(a)]
  OBVIOUS

(* The choices, frame by frame.                                             *)
EachChosen(w, ops) == [i \in DOMAIN w |-> OneChosen(w[i], ops)]

(* They make the whole choice.                                              *)
LEMMA ChosenType ==
    ASSUME NEW w \in Seq(Replies), NEW ops
    PROVE  /\ EachChosen(w, ops) \in Seq(Seq(Replies)) /\ Len(EachChosen(w, ops)) = Len(w)
           /\ \A i \in 1..Len(w) : EachChosen(w, ops)[i] = OneChosen(w[i], ops)
           /\ Chosen(w, ops) = FlattenSeq(EachChosen(w, ops))
           /\ Chosen(w, ops) \in Seq(Replies)
  <1>1. DOMAIN w = 1..Len(w) /\ Len(w) \in Nat
    OBVIOUS
  <1>2. ASSUME NEW i \in 1..Len(w) PROVE OneChosen(w[i], ops) \in Seq(Replies)
    <2>1. PICK f : f = w[i]
      OBVIOUS
    <2>2. f \in Replies
      BY <2>1
    <2>3. <<f>> \in Seq(Replies) /\ <<>> \in Seq(Replies)
      BY <2>2
    <2> QED
      BY <2>1, <2>3 DEF OneChosen
  <1>3. EachChosen(w, ops) \in Seq(Seq(Replies)) /\ Len(EachChosen(w, ops)) = Len(w)
    BY <1>1, <1>2 DEF EachChosen
  <1>4. \A i \in 1..Len(w) : EachChosen(w, ops)[i] = OneChosen(w[i], ops)
    BY <1>1 DEF EachChosen
  <1>5. Chosen(w, ops) = FlattenSeq(EachChosen(w, ops))
    BY DEF Chosen, OneChosen, EachChosen
  <1>6. FlattenSeq(EachChosen(w, ops)) \in Seq(Replies)
    BY <1>3, FlattenType, Zenon
  <1> QED
    BY <1>3, <1>4, <1>5, <1>6

(* The choice from two sequences in a row.                                  *)
Joins(c, a, b) == c = a \o b

(* It is the two choices in a row.                                          *)
LEMMA ChosenJoin ==
    ASSUME NEW a \in Seq(Replies), NEW b \in Seq(Replies), NEW c, Joins(c, a, b), NEW ops
    PROVE  Joins(Chosen(c, ops), Chosen(a, ops), Chosen(b, ops))
  <1> DEFINE C(w) == EachChosen(w, ops)
  <1>3. c \in Seq(Replies) /\ IsJoin(c, a, b)
    BY DEF Joins, IsJoin
  <1>1. ASSUME NEW w \in Seq(Replies)
        PROVE  C(w) \in Seq(Seq(Replies)) /\ Len(C(w)) = Len(w) /\ Chosen(w, ops) = FlattenSeq(C(w))
               /\ \A i \in 1..Len(w) : C(w)[i] = OneChosen(w[i], ops)
    BY ChosenType
  <1> HIDE DEF C
  <1>4. IsJoin(C(c), C(a), C(b))
    <2>1. Len(a) \in Nat /\ Len(b) \in Nat /\ Len(c) = Len(a) + Len(b)
      BY <1>3 DEF IsJoin
    <2>2. Len(C(c)) = Len(C(a)) + Len(C(b))
      BY <2>1, <1>1, <1>3
    <2>3. ASSUME NEW i \in 1..Len(a) PROVE C(c)[i] = C(a)[i]
      <3>1. i \in 1..Len(c) /\ c[i] = a[i]
        BY <2>1, <1>3 DEF IsJoin
      <3> QED
        BY <3>1, <1>1, <1>3
    <2>4. ASSUME NEW i \in 1..Len(b) PROVE C(c)[Len(a) + i] = C(b)[i]
      <3>1. Len(a) + i \in 1..Len(c) /\ c[Len(a) + i] = b[i]
        BY <2>1, <1>3 DEF IsJoin
      <3> QED
        BY <3>1, <1>1, <1>3
    <2> QED
      BY <2>2, <2>3, <2>4, <1>1 DEF IsJoin
  <1>5. C(a) \in Seq(Seq(Replies)) /\ C(b) \in Seq(Seq(Replies)) /\ C(c) \in Seq(Seq(Replies))
    BY <1>1, <1>3
  <1>6. FlattenSeq(C(c)) = FlattenSeq(C(a)) \o FlattenSeq(C(b))
    BY <1>4, <1>5, FlattenJoin, Zenon
  <1> QED
    BY <1>1, <1>3, <1>6 DEF Joins

(* The choice from nothing.                                                 *)
LEMMA ChosenNothing ==
    ASSUME NEW ops PROVE Chosen(<<>>, ops) = <<>>
  <1>1. PICK none : none = <<>>
    OBVIOUS
  <1>2. PICK d : d = [i \in DOMAIN none |-> OneChosen(none[i], ops)]
    OBVIOUS
  <1>3. d = <<>> /\ Len(d) = 0
    BY <1>1, <1>2
  <1>4. FlattenSeq(d) = <<>>
    BY <1>3, FlattenNone
  <1>5. Chosen(none, ops) = FlattenSeq(d)
    BY <1>2 DEF Chosen, OneChosen
  <1> QED
    BY <1>1, <1>4, <1>5

(* The choice from one frame.                                               *)
LEMMA ChosenOne ==
    ASSUME NEW f \in Replies, NEW ops
    PROVE  Chosen(<<f>>, ops) = OneChosen(f, ops)
  <1>1. PICK c : c = [i \in DOMAIN <<f>> |-> OneChosen(<<f>>[i], ops)]
    OBVIOUS
  <1>2. PICK x : x = OneChosen(f, ops)
    OBVIOUS
  <1>3. x \in Seq(Replies)
    <2>1. <<f>> \in Seq(Replies) /\ <<>> \in Seq(Replies)
      OBVIOUS
    <2> QED
      BY <2>1, <1>2 DEF OneChosen
  <1>4. c \in Seq(Seq(Replies)) /\ Len(c) = 1 /\ c[1] = x
    <2>1. DOMAIN <<f>> = 1..1 /\ <<f>>[1] = f
      OBVIOUS
    <2> QED
      BY <2>1, <1>1, <1>2, <1>3
  <1>5. PICK none : none = <<>>
    OBVIOUS
  <1>6. none \in Seq(Seq(Replies)) /\ Len(none) = 0
    BY <1>5
  <1>7. OneMore(c, none)
    BY <1>4, <1>6 DEF OneMore
  <1>8. FlattenSeq(none) = <<>>
    BY <1>5, <1>6, FlattenNone
  <1>9. FlattenSeq(c) = <<>> \o x
    BY <1>4, <1>6, <1>7, <1>8, FlattenMore
  <1>10. <<>> \o x = x
    BY <1>3
  <1>11. Chosen(<<f>>, ops) = FlattenSeq(c)
    BY <1>1 DEF Chosen, OneChosen
  <1> QED
    BY <1>2, <1>9, <1>10, <1>11

(* One more frame to choose.                                                *)
LEMMA ChosenAppend ==
    ASSUME NEW a \in Seq(Replies), NEW f \in Replies, NEW ops
    PROVE  Chosen(Append(a, f), ops) = Chosen(a, ops) \o OneChosen(f, ops)
  <1>1. PICK b : b = <<f>>
    OBVIOUS
  <1>2. b \in Seq(Replies) /\ Joins(Append(a, f), a, b)
    BY <1>1 DEF Joins
  <1>3. Joins(Chosen(Append(a, f), ops), Chosen(a, ops), Chosen(b, ops))
    BY <1>2, ChosenJoin
  <1>4. Chosen(b, ops) = OneChosen(f, ops)
    BY <1>1, ChosenOne
  <1> QED
    BY <1>3, <1>4 DEF Joins

-----------------------------------------------------------------------------
(* One turn of process_input().                                             *)
Texts == {"TEXT", "BINARY"}
Connections ==
    [done : Nat, message_buffer_ : Seq(Letters), fragment_opcode_ : Texts, in_fragment_ : BOOLEAN,
     closed_ : BOOLEAN, close_sent_ : BOOLEAN]
Locals == [c : Connections, echoes : Seq(Replies), output : Seq(Replies)]

(* The message under assembly, after i frames.                              *)
Fragment(c, i) ==
    /\ c.in_fragment_ <=> InMessage(i + 1)
    /\ c.in_fragment_ => c.message_buffer_ = MessageUpTo(i) /\ c.fragment_opcode_ = frames[FirstOf(i)].opcode

(* Of the first r frames the first k have been kept.                     *)
KeptIs(c, k, r) ==
    /\ k \in 0..r
    /\ \A i \in 1..k : ~Ends(i)
    /\ c.done <= 2 * r
    /\ ~c.closed_ => c.done = 2 * k /\ ~c.close_sent_ /\ Fragment(c, k)
    /\ c.closed_ /\ k < r => Ends(k + 1)

(* The frames written, behind echoes e and pongs p of earlier turns, answer *)
(* the first k; a close is the last.                                        *)
Written(s, k, r, e, p) ==
    /\ e \o Chosen(s.echoes, Texts) = Messages(k)
    /\ p \o Chosen(s.output, {"PONG"}) = Pongs(k)
    /\ Chosen(s.output, Texts) = <<>> /\ Chosen(s.echoes, {"PONG"}) = <<>>
    /\ \A i \in 1..Len(s.echoes) : s.echoes[i].opcode \in Texts
    /\ \A i \in 1..Len(s.output) : s.output[i].opcode = "CLOSE" => i = Len(s.output) /\ s.c.closed_
    /\ s.c.closed_ /\ k < r /\ ~HeaderRefused(frames[k + 1]) =>
          Chosen(s.output, {"CLOSE"}) # <<>>

TurnInv(s, k, r, e, p) == s \in Locals /\ KeptIs(s.c, k, r) /\ Written(s, k, r, e, p)

(* A frame ended the connection; the next one was handled.                  *)
Ended(s, t) ==
    /\ t \in Locals /\ t.c.closed_ /\ t.c.done = s.c.done + 2 /\ t.echoes = s.echoes
    /\ \E code \in Letters : t.output = Append(s.output, CloseFrame(code))
Went(s, t, i) ==
    /\ t \in Locals /\ ~t.c.closed_ /\ ~t.c.close_sent_ /\ t.c.done = s.c.done + 2
    /\ t.echoes = s.echoes \o Echoes(i) /\ t.output = s.output \o PongsOf(i)
    /\ Echoes(i) \in Seq(Replies) /\ PongsOf(i) \in Seq(Replies)
    /\ Fragment(t.c, i)

(* Frame i has been sent.                                                   *)
FrameAt(i) == frames \in Seq(WsFrames) /\ i \in 1..Len(frames)

(* What is written when the connection ends.                                *)
LEMMA TurnEnds ==
    ASSUME NEW s, NEW t, NEW k \in Nat, NEW r \in Nat, NEW e \in Seq(Replies), NEW p \in Seq(Replies),
           TurnInv(s, k, r, e, p), ~s.c.closed_, Ended(s, t), k < r, Ends(k + 1)
    PROVE  TurnInv(t, k, r, e, p)
  <1>1. PICK code \in Letters : t.output = Append(s.output, CloseFrame(code))
    BY DEF Ended
  <1>2. PICK f : f = CloseFrame(code)
    OBVIOUS
  <1>3. f \in Replies /\ f.opcode = "CLOSE"
    <2>1. PICK payload : payload = <<code>>
      OBVIOUS
    <2>2. payload \in Seq(Letters)
      BY <2>1
    <2>3. f = [opcode |-> "CLOSE", payload |-> payload]
      BY <2>1, <1>2 DEF CloseFrame, Frame
    <2> QED
      BY <2>2, <2>3 DEF Replies, Opcodes
  <1>4. s.output \in Seq(Replies) /\ s.echoes \in Seq(Replies) /\ t.output = Append(s.output, f)
        /\ t.echoes = s.echoes /\ t \in Locals /\ t.c.closed_
    BY <1>1, <1>2 DEF TurnInv, Locals, Ended
  <1>5. ASSUME NEW ops PROVE Chosen(t.output, ops) = Chosen(s.output, ops) \o OneChosen(f, ops)
    BY <1>3, <1>4, ChosenAppend
  <1>6. ASSUME NEW ops PROVE Chosen(s.output, ops) \in Seq(Replies)
    BY <1>4, ChosenType
  <1>7. OneChosen(f, Texts) = <<>> /\ OneChosen(f, {"PONG"}) = <<>> /\ OneChosen(f, {"CLOSE"}) = <<f>>
    BY <1>3 DEF OneChosen, Texts
  <1>8. Chosen(t.output, Texts) = Chosen(s.output, Texts) /\ Chosen(t.output, {"PONG"}) = Chosen(s.output, {"PONG"})
    <2>1. ASSUME NEW ops, OneChosen(f, ops) = <<>> PROVE Chosen(t.output, ops) = Chosen(s.output, ops)
      <3>1. PICK x : x = Chosen(s.output, ops)
        OBVIOUS
      <3>2. x \in Seq(Replies)
        BY <3>1, <1>6
      <3>3. x \o <<>> = x
        BY <3>2
      <3>4. Chosen(t.output, ops) = x \o <<>>
        BY <2>1, <3>1, <1>5
      <3> QED
        BY <3>1, <3>3, <3>4
    <2> QED
      BY <2>1, <1>7
  <1>9. Chosen(t.output, {"CLOSE"}) # <<>>
    <2>1. PICK x : x = Chosen(s.output, {"CLOSE"})
      OBVIOUS
    <2>2. x \in Seq(Replies) /\ Chosen(t.output, {"CLOSE"}) = x \o <<f>>
      BY <2>1, <1>5, <1>6, <1>7
    <2>3. x \o <<f>> # <<>>
      BY <2>2, <1>3
    <2> QED
      BY <2>2, <2>3
  <1>10. ASSUME NEW i \in 1..Len(t.output), t.output[i].opcode = "CLOSE" PROVE i = Len(t.output)
    <2>1. Len(s.output) \in Nat /\ Len(t.output) = Len(s.output) + 1
      BY <1>3, <1>4
    <2>2. CASE i # Len(t.output)
      <3>1. i \in 1..Len(s.output) /\ t.output[i] = s.output[i]
        BY <2>1, <2>2, <1>3, <1>4
      <3> QED
        BY <3>1, <1>10 DEF TurnInv, Written
    <2> QED
      BY <2>2
  <1>11. KeptIs(t.c, k, r)
    <2>1. t.c.done <= 2 * r
      <3>1. t.c.done = 2 * k + 2
        BY DEF TurnInv, KeptIs, Ended
      <3> QED
        BY <3>1
    <2> QED
      BY <2>1, <1>4 DEF TurnInv, KeptIs
  <1>12. Written(t, k, r, e, p)
    BY <1>4, <1>8, <1>9, <1>10 DEF TurnInv, Written
  <1> QED
    BY <1>4, <1>11, <1>12 DEF TurnInv

(* What is written when it goes on.                                         *)
LEMMA TurnGoes ==
    ASSUME NEW s, NEW t, NEW k \in Nat, NEW r \in Nat, NEW e \in Seq(Replies), NEW p \in Seq(Replies),
           TurnInv(s, k, r, e, p), ~s.c.closed_, Went(s, t, k + 1), k < r, ~Ends(k + 1),
           FrameAt(k + 1)
    PROVE  TurnInv(t, k + 1, r, e, p)
  <1>0. (k + 1) - 1 = k /\ k + 1 \in 0..r
    BY DEF TurnInv, KeptIs
  <1>1. PICK em : em = Echoes(k + 1)
    OBVIOUS
  <1>2. PICK op : op = PongsOf(k + 1)
    OBVIOUS
  <1>3. /\ s.output \in Seq(Replies) /\ s.echoes \in Seq(Replies) /\ em \in Seq(Replies) /\ op \in Seq(Replies)
        /\ t.output = s.output \o op /\ t.echoes = s.echoes \o em /\ t \in Locals /\ ~t.c.closed_
        /\ ~t.c.close_sent_ /\ t.c.done = s.c.done + 2 /\ Fragment(t.c, k + 1)
    BY <1>1, <1>2 DEF TurnInv, Locals, Went
  <1>4. ASSUME NEW ops
        PROVE  /\ Chosen(t.output, ops) = Chosen(s.output, ops) \o Chosen(op, ops)
               /\ Chosen(t.echoes, ops) = Chosen(s.echoes, ops) \o Chosen(em, ops)
               /\ Chosen(s.output, ops) \in Seq(Replies) /\ Chosen(s.echoes, ops) \in Seq(Replies)
    <2>1. PICK a : a = s.output
      OBVIOUS
    <2>2. PICK b : b = s.echoes
      OBVIOUS
    <2>3. a \in Seq(Replies) /\ b \in Seq(Replies) /\ op \in Seq(Replies) /\ em \in Seq(Replies)
      BY <2>1, <2>2, <1>3
    <2>4. Joins(t.output, a, op) /\ Joins(t.echoes, b, em)
      BY <2>1, <2>2, <1>3 DEF Joins
    <2>5. /\ Joins(Chosen(t.output, ops), Chosen(a, ops), Chosen(op, ops))
          /\ Joins(Chosen(t.echoes, ops), Chosen(b, ops), Chosen(em, ops))
      BY <2>3, <2>4, ChosenJoin, Zenon
    <2>6. Chosen(a, ops) \in Seq(Replies) /\ Chosen(b, ops) \in Seq(Replies)
      BY <2>3, ChosenType, Zenon
    <2> QED
      BY <2>1, <2>2, <2>5, <2>6 DEF Joins
  <1>5. \A i \in 1..Len(em) : em[i].opcode \in Texts
    <2>1. CASE em = <<>>
      BY <2>1
    <2>2. CASE em # <<>>
      <3>1. em = <<Echo(k + 1)>> /\ IsData(k + 1)
        BY <2>2, <1>1 DEF Echoes
      <3>2. PICK b : b = FirstOf(k + 1)
        OBVIOUS
      <3>3. b \in 1..(k + 1) /\ IsData(b) /\ ~InMessage(b)
        BY <3>1, <3>2, FirstOfIn DEF FrameAt
      <3>4. frames[b] \in WsFrames /\ ~Ends(b)
        <4>1. frames \in Seq(WsFrames) /\ b \in 1..Len(frames)
          BY <3>3, <1>0 DEF FrameAt
        <4>2. b \in 1..k \/ b = k + 1
          BY <3>3
        <4>3. ~Ends(b)
          BY <4>2 DEF TurnInv, KeptIs
        <4> QED
          BY <4>1, <4>3
      <3>5. frames[b].opcode \in Texts
        BY <3>3, <3>4 DEF Ends, WsFrames, Opcodes, Texts, IsData, Control
      <3>6. Echo(k + 1).opcode = frames[b].opcode
        BY <3>2 DEF Echo, Frame
      <3>7. PICK f : f = Echo(k + 1)
        OBVIOUS
      <3>8. Len(em) = 1 /\ em[1] = f
        BY <3>1, <3>7
      <3> QED
        BY <3>5, <3>6, <3>7, <3>8
    <2> QED
      BY <2>1, <2>2
  <1>6. Chosen(em, Texts) = em /\ Chosen(em, {"PONG"}) = <<>>
    <2>1. CASE em = <<>>
      BY <2>1, ChosenNothing
    <2>2. CASE em # <<>>
      <3>1. PICK f : f = Echo(k + 1)
        OBVIOUS
      <3>2. em = <<f>>
        BY <2>2, <3>1, <1>1 DEF Echoes
      <3>3. f \in Replies /\ f.opcode \in Texts
        <4>1. Len(em) = 1 /\ em[1] = f /\ 1 \in 1..Len(em)
          BY <3>2
        <4>2. em \in Seq(Replies)
          BY <1>3
        <4>3. em[1] \in Replies
          BY <4>1, <4>2, ElementOfSeq, Zenon
        <4> QED
          BY <4>1, <4>3, <1>5
      <3>4. OneChosen(f, Texts) = <<f>> /\ OneChosen(f, {"PONG"}) = <<>>
        BY <3>3 DEF OneChosen, Texts
      <3> QED
        BY <3>2, <3>3, <3>4, ChosenOne
    <2> QED
      BY <2>1, <2>2
  <1>7. /\ Chosen(op, {"PONG"}) = op /\ Chosen(op, Texts) = <<>>
        /\ \A i \in 1..Len(op) : op[i].opcode # "CLOSE"
    <2>1. CASE op = <<>>
      BY <2>1, ChosenNothing
    <2>2. CASE op # <<>>
      <3>1. PICK f : f = Pong(k + 1)
        OBVIOUS
      <3>2. op = <<f>> /\ f.opcode = "PONG"
        BY <2>2, <3>1, <1>2 DEF PongsOf, Pong, Frame
      <3>3. f \in Replies /\ Len(op) = 1 /\ op[1] = f
        <4>1. Len(op) = 1 /\ op[1] = f /\ 1 \in 1..Len(op)
          BY <3>2
        <4>2. op \in Seq(Replies)
          BY <1>3
        <4>3. op[1] \in Replies
          BY <4>1, <4>2, ElementOfSeq, Zenon
        <4> QED
          BY <4>1, <4>3
      <3>4. OneChosen(f, {"PONG"}) = <<f>> /\ OneChosen(f, Texts) = <<>>
        BY <3>2 DEF OneChosen, Texts
      <3> QED
        BY <3>2, <3>3, <3>4, ChosenOne
    <2> QED
      BY <2>1, <2>2
  <1>8. e \o Chosen(t.echoes, Texts) = Messages(k + 1)
    <2>1. PICK x : x = Chosen(s.echoes, Texts)
      OBVIOUS
    <2>2. x \in Seq(Replies) /\ Chosen(t.echoes, Texts) = x \o em /\ e \o x = Messages(k)
      BY <2>1, <1>4, <1>6 DEF TurnInv, Written
    <2>3. Messages(k + 1) = Messages(k) \o em
      BY <1>0, <1>1, MessagesStep DEF FrameAt
    <2>4. e \o (x \o em) = (e \o x) \o em
      <3>1. e \in Seq(Replies) /\ x \in Seq(Replies) /\ em \in Seq(Replies)
        BY <2>2, <1>3
      <3>2. (e \o x) \o em = e \o (x \o em)
        BY ONLY <3>1, ConcatAssociative
      <3> QED
        BY ONLY <3>2
    <2> QED
      BY <2>2, <2>3, <2>4
  <1>9. p \o Chosen(t.output, {"PONG"}) = Pongs(k + 1)
    <2>1. PICK x : x = Chosen(s.output, {"PONG"})
      OBVIOUS
    <2>2. x \in Seq(Replies) /\ Chosen(t.output, {"PONG"}) = x \o op /\ p \o x = Pongs(k)
      BY <2>1, <1>4, <1>7 DEF TurnInv, Written
    <2>3. Pongs(k + 1) = Pongs(k) \o op
      BY <1>0, <1>2, PongsStep DEF FrameAt
    <2>4. p \o (x \o op) = (p \o x) \o op
      <3>1. p \in Seq(Replies) /\ x \in Seq(Replies) /\ op \in Seq(Replies)
        BY <2>2, <1>3
      <3>2. (p \o x) \o op = p \o (x \o op)
        BY ONLY <3>1, ConcatAssociative
      <3> QED
        BY ONLY <3>2
    <2> QED
      BY <2>2, <2>3, <2>4
  <1>10. Chosen(t.output, Texts) = <<>> /\ Chosen(t.echoes, {"PONG"}) = <<>>
    <2>1. Chosen(s.output, Texts) = <<>> /\ Chosen(s.echoes, {"PONG"}) = <<>>
      BY DEF TurnInv, Written
    <2> QED
      BY <2>1, <1>4, <1>6, <1>7
  <1>11. ASSUME NEW i \in 1..Len(t.echoes) PROVE t.echoes[i].opcode \in Texts
    <2>1. PICK a : a = s.echoes
      OBVIOUS
    <2>2. a \in Seq(Replies) /\ \A j \in 1..Len(a) : a[j].opcode \in Texts
      BY <2>1, <1>3 DEF TurnInv, Written
    <2>3. \/ i \in 1..Len(a) /\ t.echoes[i] = a[i]
          \/ i - Len(a) \in 1..Len(em) /\ t.echoes[i] = em[i - Len(a)]
      <3>1. PICK c : c = t.echoes
        OBVIOUS
      <3>2. c = a \o em /\ em \in Seq(Replies) /\ i \in 1..Len(c)
        BY <3>1, <2>1, <1>3
      <3> QED
        BY <3>1, <3>2, <2>2, InJoin
    <2> QED
      BY <2>2, <2>3, <1>5
  <1>12. ASSUME NEW i \in 1..Len(t.output) PROVE t.output[i].opcode # "CLOSE"
    <2>1. PICK a : a = s.output
      OBVIOUS
    <2>2. a \in Seq(Replies) /\ \A j \in 1..Len(a) : a[j].opcode # "CLOSE"
      BY <2>1, <1>3 DEF TurnInv, Written
    <2>3. \/ i \in 1..Len(a) /\ t.output[i] = a[i]
          \/ i - Len(a) \in 1..Len(op) /\ t.output[i] = op[i - Len(a)]
      <3>1. PICK c : c = t.output
        OBVIOUS
      <3>2. c = a \o op /\ op \in Seq(Replies) /\ i \in 1..Len(c)
        BY <3>1, <2>1, <1>3
      <3> QED
        BY <3>1, <3>2, <2>2, InJoin
    <2> QED
      BY <2>2, <2>3, <1>7
  <1>13. KeptIs(t.c, k + 1, r)
    <2>1. \A i \in 1..(k + 1) : ~Ends(i)
      <3> TAKE i \in 1..(k + 1)
      <3>1. i \in 1..k \/ i = k + 1
        BY <1>0
      <3> QED
        BY <3>1 DEF TurnInv, KeptIs
    <2>2. t.c.done = 2 * (k + 1)
      <3>1. s.c.done = 2 * k
        BY DEF TurnInv, KeptIs
      <3> QED
        BY <3>1, <1>0, <1>3
    <2>3. t.c.done <= 2 * r
      BY <2>2, <1>0
    <2> QED
      BY <2>1, <2>2, <2>3, <1>0, <1>3 DEF KeptIs
  <1>14. Written(t, k + 1, r, e, p)
    BY <1>3, <1>8, <1>9, <1>10, <1>11, <1>12 DEF Written
  <1> QED
    BY <1>3, <1>13, <1>14 DEF TurnInv

(* Closing with a code.                                                     *)
LEMMA CloseEnds ==
    ASSUME NEW s \in Locals, NEW s1 \in Locals, s1.echoes = s.echoes, s1.output = s.output,
           s1.c.done = s.c.done + 2, NEW code \in Letters
    PROVE  Ended(s, Close(s1, code))
  <1>1. PICK f : f = CloseFrame(code)
    OBVIOUS
  <1>2. f \in Replies
    <2>1. PICK payload : payload = <<code>>
      OBVIOUS
    <2>2. payload \in Seq(Letters)
      BY <2>1
    <2>3. f = [opcode |-> "CLOSE", payload |-> payload]
      BY <2>1, <1>1 DEF CloseFrame, Frame
    <2> QED
      BY <2>2, <2>3 DEF Replies, Opcodes
  <1>3. PICK written : written = Append(s1.output, f)
    OBVIOUS
  <1>4. written \in Seq(Replies)
    BY <1>2, <1>3 DEF Locals
  <1>5. PICK t : t = Close(s1, code)
    OBVIOUS
  <1>6. t = [s1 EXCEPT !.c.closed_ = TRUE, !.output = written]
    BY <1>1, <1>3, <1>5 DEF Close
  <1>7. t \in Locals /\ t.c.closed_ /\ t.c.done = s1.c.done /\ t.echoes = s1.echoes /\ t.output = written
    BY <1>4, <1>6 DEF Locals, Connections
  <1> QED
    BY <1>1, <1>3, <1>5, <1>7 DEF Ended

(* The frame is removed from buffer_.                                       *)
LEMMA FrameRemoved ==
    ASSUME NEW s \in Locals, NEW s1, s1 = [s EXCEPT !.c.done = @ + 2]
    PROVE  /\ s1 \in Locals /\ s1.echoes = s.echoes /\ s1.output = s.output
           /\ s1.c.done = s.c.done + 2 /\ s1.c.closed_ = s.c.closed_ /\ s1.c.close_sent_ = s.c.close_sent_
           /\ s1.c.in_fragment_ = s.c.in_fragment_ /\ s1.c.message_buffer_ = s.c.message_buffer_
           /\ s1.c.fragment_opcode_ = s.c.fragment_opcode_
  <1>1. PICK c : c = s.c
    OBVIOUS
  <1>2. c \in Connections
    BY <1>1 DEF Locals
  <1>3. PICK n : n = c.done + 2
    OBVIOUS
  <1>4. n \in Nat
    <2>1. c.done \in Nat
      BY <1>2 DEF Connections
    <2> QED
      BY <2>1, <1>3
  <1>5. PICK d : d = [c EXCEPT !.done = n]
    OBVIOUS
  <1>6. /\ d \in Connections /\ d.done = n /\ d.closed_ = c.closed_ /\ d.close_sent_ = c.close_sent_
        /\ d.in_fragment_ = c.in_fragment_ /\ d.message_buffer_ = c.message_buffer_
        /\ d.fragment_opcode_ = c.fragment_opcode_
    BY <1>2, <1>4, <1>5 DEF Connections
  <1>7. s1 = [s EXCEPT !.c = d]
    BY <1>1, <1>3, <1>5 DEF Locals
  <1>8. s1 \in Locals /\ s1.c = d /\ s1.echoes = s.echoes /\ s1.output = s.output
    BY <1>6, <1>7 DEF Locals
  <1> QED
    BY <1>1, <1>3, <1>6, <1>8

(* What is known when frame i is handled: s1 is the state without it.       *)
Handling(s, s1, i) ==
    /\ s \in Locals /\ s1 \in Locals /\ s1.echoes = s.echoes /\ s1.output = s.output
    /\ s1.c.done = s.c.done + 2 /\ ~s1.c.closed_ /\ ~s1.c.close_sent_
    /\ Fragment(s1.c, i - 1)
    /\ FrameAt(i) /\ ~HeaderRefused(frames[i])
HandledAs(s, t, i) == IF Ends(i) THEN Ended(s, t) ELSE Went(s, t, i)

(* The frame that is handled.                                               *)
LEMMA FrameIs ==
    ASSUME NEW s, NEW s1, NEW i, Handling(s, s1, i)
    PROVE  /\ i \in Nat /\ (i - 1) + 1 = i /\ frames[i] \in WsFrames
           /\ frames[i].opcode \in Opcodes /\ frames[i].fin \in BOOLEAN /\ frames[i].payload \in Seq(Letters)
           /\ s1.c.in_fragment_ <=> InMessage(i)
  <1>1. frames \in Seq(WsFrames) /\ i \in 1..Len(frames)
    BY DEF Handling, FrameAt
  <1>2. i \in Nat /\ (i - 1) + 1 = i /\ frames[i] \in WsFrames
    BY <1>1
  <1>3. s1.c.in_fragment_ <=> InMessage(i)
    BY <1>2 DEF Handling, Fragment
  <1> QED
    BY <1>2, <1>3 DEF WsFrames

(* A control frame leaves the message under assembly.                       *)
LEMMA ControlHandled ==
    ASSUME NEW s, NEW s1, NEW i, Handling(s, s1, i), ~IsData(i), ~Ends(i),
           NEW t, t \in Locals, t.c = s1.c, t.echoes = s1.echoes, t.output = s1.output \o PongsOf(i),
           PongsOf(i) \in Seq(Replies)
    PROVE  Went(s, t, i)
  <1>1. (InMessage(i + 1) <=> InMessage(i)) /\ FirstOf(i) = FirstOf(i - 1) /\ MessageUpTo(i) = MessageUpTo(i - 1)
    BY ControlFrame DEF Handling, FrameAt
  <1>2. i \in Nat /\ (i - 1) + 1 = i
    BY FrameIs
  <1>3. Fragment(t.c, i)
    BY <1>1, <1>2 DEF Handling, Fragment
  <1>4. Echoes(i) = <<>>
    BY DEF Echoes
  <1>5. s.echoes \in Seq(Replies)
    BY DEF Handling, Locals
  <1>6. s.echoes \o <<>> = s.echoes /\ <<>> \in Seq(Replies)
    BY <1>5
  <1> QED
    BY <1>3, <1>4, <1>6 DEF Handling, Went

(* PING.                                                                    *)
LEMMA PingHandled ==
    ASSUME NEW s, NEW s1, NEW i, Handling(s, s1, i), frames[i].opcode = "PING"
    PROVE  HandledAs(s, HandlePing(s1, frames[i]), i)
  <1>1. PICK f : f = frames[i]
    OBVIOUS
  <1>2. f.payload \in Seq(Letters) /\ f.opcode = "PING"
    BY <1>1, FrameIs
  <1>3. CASE Len(f.payload) > MaxControl
    <2>1. Ends(i)
      BY <1>1, <1>2, <1>3 DEF Ends
    <2>2. HandlePing(s1, f) = Close(s1, "PROTOCOL_ERROR")
      BY <1>3 DEF HandlePing
    <2>3. Ended(s, Close(s1, "PROTOCOL_ERROR"))
      BY CloseEnds DEF Handling, Letters
    <2> QED
      BY <2>1, <2>2, <2>3, <1>1 DEF HandledAs
  <1>4. CASE ~(Len(f.payload) > MaxControl)
    <2>1. ~Ends(i)
      BY <1>1, <1>2, <1>4 DEF Ends, Handling
    <2>2. PICK pong : pong = Frame("PONG", f.payload)
      OBVIOUS
    <2>3. pong \in Replies
      BY <2>2, <1>2 DEF Frame, Replies, Opcodes
    <2>4. PICK written : written = Append(s1.output, pong)
      OBVIOUS
    <2>5. PongsOf(i) = <<pong>>
      BY <1>1, <1>2, <2>2 DEF PongsOf, Pong
    <2>6. s1.output \in Seq(Replies) /\ s1 \in Locals
      BY DEF Handling, Locals
    <2>7. written \in Seq(Replies) /\ written = s1.output \o PongsOf(i) /\ PongsOf(i) \in Seq(Replies)
      BY <2>3, <2>4, <2>5, <2>6
    <2>8. PICK t : t = HandlePing(s1, f)
      OBVIOUS
    <2>9. t = [s1 EXCEPT !.output = written]
      BY <1>4, <2>2, <2>4, <2>8 DEF HandlePing
    <2>10. t \in Locals /\ t.c = s1.c /\ t.echoes = s1.echoes /\ t.output = written
      BY <2>6, <2>7, <2>9 DEF Locals
    <2>11. ~IsData(i)
      BY <1>1, <1>2 DEF IsData, Control
    <2>12. Went(s, t, i)
      BY <2>1, <2>7, <2>10, <2>11, ControlHandled
    <2> QED
      BY <2>1, <2>8, <2>12, <1>1 DEF HandledAs
  <1> QED
    BY <1>3, <1>4

(* PONG.                                                                    *)
LEMMA PongHandled ==
    ASSUME NEW s, NEW s1, NEW i, Handling(s, s1, i), frames[i].opcode = "PONG"
    PROVE  HandledAs(s, s1, i)
  <1>1. ~Ends(i)
    BY DEF Ends, Handling
  <1>2. PongsOf(i) = <<>> /\ ~IsData(i)
    BY DEF PongsOf, IsData, Control
  <1>3. s1.output \in Seq(Replies) /\ s1 \in Locals
    BY DEF Handling, Locals
  <1>4. s1.output \o <<>> = s1.output /\ <<>> \in Seq(Replies)
    BY <1>3
  <1>5. Went(s, s1, i)
    BY <1>1, <1>2, <1>3, <1>4, ControlHandled
  <1> QED
    BY <1>1, <1>5 DEF HandledAs

(* CLOSE.                                                                   *)
LEMMA CloseHandled ==
    ASSUME NEW s, NEW s1, NEW i, Handling(s, s1, i), frames[i].opcode = "CLOSE"
    PROVE  HandledAs(s, HandleClose(s1, frames[i]), i)
  <1>1. PICK f : f = frames[i]
    OBVIOUS
  <1>2. f.payload \in Seq(Letters) /\ ~s1.c.close_sent_
    BY <1>1, FrameIs DEF Handling
  <1>3. Ends(i)
    BY DEF Ends
  <1>4. PICK code : code = IF f.payload = <<>> THEN "NO_STATUS" ELSE Head(f.payload)
    OBVIOUS
  <1>5. code \in Letters
    <2>1. CASE f.payload = <<>>
      BY <2>1, <1>4 DEF Letters
    <2>2. CASE f.payload # <<>>
      BY <2>2, <1>2, <1>4
    <2> QED
      BY <2>1, <2>2
  <1>6. PICK u : u = Close(s1, code)
    OBVIOUS
  <1>7. Ended(s, u)
    BY <1>5, <1>6, CloseEnds DEF Handling
  <1>8. PICK t : t = HandleClose(s1, f)
    OBVIOUS
  <1>9. t = [u EXCEPT !.c.close_sent_ = TRUE]
    BY <1>2, <1>4, <1>6, <1>8 DEF HandleClose
  <1>10. t \in Locals /\ t.c.closed_ /\ t.c.done = u.c.done /\ t.echoes = u.echoes /\ t.output = u.output
    BY <1>7, <1>9 DEF Ended, Locals, Connections
  <1>11. Ended(s, t)
    BY <1>7, <1>10 DEF Ended
  <1> QED
    BY <1>1, <1>3, <1>8, <1>11 DEF HandledAs

(* An opcode that is not known.                                             *)
LEMMA UnknownHandled ==
    ASSUME NEW s, NEW s1, NEW i, Handling(s, s1, i), frames[i].opcode = "UNKNOWN"
    PROVE  HandledAs(s, Close(s1, "PROTOCOL_ERROR"), i)
  <1>1. Ends(i)
    BY DEF Ends
  <1>2. Ended(s, Close(s1, "PROTOCOL_ERROR"))
    BY CloseEnds DEF Handling, Letters
  <1> QED
    BY <1>1, <1>2 DEF HandledAs

(* A data frame that is handled: what it adds to the message.               *)
LEMMA DataHandled ==
    ASSUME NEW s, NEW s1, NEW i, Handling(s, s1, i), IsData(i), ~Ends(i),
           NEW t, t \in Locals, ~t.c.closed_, ~t.c.close_sent_, t.c.done = s1.c.done,
           t.c.in_fragment_ = ~frames[i].fin, t.output = s1.output,
           ~frames[i].fin => /\ t.echoes = s1.echoes /\ t.c.message_buffer_ = MessageUpTo(i)
                             /\ t.c.fragment_opcode_ = frames[FirstOf(i)].opcode,
           frames[i].fin => t.echoes = Append(s1.echoes, Echo(i)) /\ Echo(i) \in Replies
    PROVE  Went(s, t, i)
  <1>1. InMessage(i + 1) <=> ~frames[i].fin
    BY DataFrame DEF Handling, FrameAt
  <1>2. Fragment(t.c, i)
    BY <1>1 DEF Fragment
  <1>3. s.echoes \in Seq(Replies) /\ s.output \in Seq(Replies) /\ s1.echoes = s.echoes /\ s1.output = s.output
    BY DEF Handling, Locals
  <1>4. PongsOf(i) = <<>>
    BY DEF PongsOf, IsData, Control
  <1>5. s.output \o <<>> = s.output /\ s.echoes \o <<>> = s.echoes /\ <<>> \in Seq(Replies)
    BY <1>3
  <1>6. t.echoes = s.echoes \o Echoes(i) /\ Echoes(i) \in Seq(Replies)
    <2>1. CASE frames[i].fin
      <3>1. PICK e : e = Echo(i)
        OBVIOUS
      <3>2. Echoes(i) = <<e>> /\ e \in Replies /\ t.echoes = Append(s.echoes, e)
        BY <2>1, <3>1, <1>3 DEF Echoes
      <3>3. Append(s.echoes, e) = s.echoes \o <<e>> /\ <<e>> \in Seq(Replies)
        BY <3>2, <1>3
      <3> QED
        BY <3>2, <3>3
    <2>2. CASE ~frames[i].fin
      BY <2>2, <1>3, <1>5 DEF Echoes
    <2> QED
      BY <2>1, <2>2
  <1> QED
    BY <1>2, <1>3, <1>4, <1>5, <1>6 DEF Went, Handling

(* TEXT and BINARY.                                                         *)
LEMMA TextHandled ==
    ASSUME NEW s, NEW s1, NEW i, Handling(s, s1, i), frames[i].opcode \in Texts
    PROVE  HandledAs(s, HandleData(s1, frames[i]), i)
  <1>1. PICK f : f = frames[i]
    OBVIOUS
  <1>2. /\ f.payload \in Seq(Letters) /\ f.opcode \in Texts /\ f.fin \in BOOLEAN
        /\ s1.c.in_fragment_ <=> InMessage(i)
    BY <1>1, FrameIs
  <1>3. s \in Locals /\ s1 \in Locals /\ s1.echoes = s.echoes /\ s1.output = s.output
        /\ s1.c.done = s.c.done + 2 /\ ~s1.c.closed_ /\ ~s1.c.close_sent_ /\ ~HeaderRefused(f)
    BY <1>1 DEF Handling
  <1>4. IsData(i)
    BY <1>1, <1>2 DEF IsData, Control, Texts
  <1>5. CASE s1.c.in_fragment_
    <2>1. Ends(i)
      BY <1>1, <1>2, <1>5 DEF Ends, Texts
    <2>2. HandleData(s1, f) = Close(s1, "PROTOCOL_ERROR")
      BY <1>5 DEF HandleData
    <2>3. Ended(s, Close(s1, "PROTOCOL_ERROR"))
      BY <1>3, CloseEnds DEF Letters
    <2> QED
      BY <2>1, <2>2, <2>3, <1>1 DEF HandledAs
  <1>6. ASSUME ~s1.c.in_fragment_
        PROVE  FirstOf(i) = i /\ MessageUpTo(i) = f.payload
    BY <1>1, <1>2, <1>4, <1>6, FirstFrame DEF Handling, FrameAt
  <1>7. CASE ~s1.c.in_fragment_ /\ f.fin
    <2>1. ~Ends(i)
      BY <1>1, <1>2, <1>3, <1>7 DEF Ends, Texts
    <2>2. PICK e : e = Frame(f.opcode, f.payload)
      OBVIOUS
    <2>3. e \in Replies
      BY <2>2, <1>2 DEF Frame, Replies, Opcodes, Texts
    <2>4. e = Echo(i)
      BY <2>2, <1>1, <1>6, <1>7 DEF Echo
    <2>5. PICK em : em = Append(s1.echoes, e)
      OBVIOUS
    <2>6. em \in Seq(Replies)
      BY <2>3, <2>5, <1>3 DEF Locals
    <2>7. PICK t : t = HandleData(s1, f)
      OBVIOUS
    <2>8. t = [s1 EXCEPT !.echoes = em]
      BY <2>2, <2>5, <2>7, <1>7 DEF HandleData, OnMessage
    <2>9. t \in Locals /\ t.c = s1.c /\ t.echoes = em /\ t.output = s1.output
      BY <2>6, <2>8, <1>3 DEF Locals
    <2>10. t.c.in_fragment_ = ~f.fin
      BY <2>9, <1>7, <1>2, <1>3 DEF Locals, Connections
    <2>11. Went(s, t, i)
      BY <2>1, <2>3, <2>4, <2>5, <2>9, <2>10, <1>1, <1>3, <1>4, <1>7, DataHandled
    <2> QED
      BY <2>1, <2>7, <2>11, <1>1 DEF HandledAs
  <1>8. CASE ~s1.c.in_fragment_ /\ ~f.fin
    <2>1. PICK t : t = [s1 EXCEPT !.c.in_fragment_ = TRUE, !.c.fragment_opcode_ = f.opcode,
                                  !.c.message_buffer_ = f.payload]
      OBVIOUS
    <2>2. /\ t \in Locals /\ t.echoes = s1.echoes /\ t.output = s1.output /\ t.c.in_fragment_ = TRUE
          /\ t.c.message_buffer_ = f.payload /\ t.c.fragment_opcode_ = f.opcode
          /\ t.c.closed_ = s1.c.closed_ /\ t.c.close_sent_ = s1.c.close_sent_ /\ t.c.done = s1.c.done
      BY <2>1, <1>2, <1>3 DEF Locals, Connections
    <2>3. HandleData(s1, f) = IF Len(f.payload) > MaxMessageSize THEN Close(t, "TOO_BIG") ELSE t
      BY <2>1, <1>8 DEF HandleData
    <2>4. CASE Len(f.payload) > MaxMessageSize
      <3>1. Ends(i)
        BY <2>4, <1>1, <1>2, <1>8 DEF Ends, Texts
      <3>2. Ended(s, Close(t, "TOO_BIG"))
        BY <2>2, <1>3, CloseEnds DEF Letters
      <3> QED
        BY <3>1, <3>2, <2>3, <2>4, <1>1 DEF HandledAs
    <2>5. CASE ~(Len(f.payload) > MaxMessageSize)
      <3>1. ~Ends(i)
        BY <2>5, <1>1, <1>2, <1>3, <1>8 DEF Ends, Texts
      <3>2. t.c.message_buffer_ = MessageUpTo(i) /\ t.c.fragment_opcode_ = frames[FirstOf(i)].opcode
        BY <2>2, <1>1, <1>6, <1>8
      <3>3. t.c.in_fragment_ = ~f.fin /\ ~t.c.closed_ /\ ~t.c.close_sent_
        BY <2>2, <1>2, <1>3, <1>8
      <3>4. Went(s, t, i)
        BY <3>1, <3>2, <3>3, <2>2, <1>1, <1>4, <1>8, DataHandled
      <3> QED
        BY <3>1, <3>4, <2>3, <2>5, <1>1 DEF HandledAs
    <2> QED
      BY <2>4, <2>5
  <1> QED
    BY <1>2, <1>5, <1>7, <1>8

(* CONTINUATION.                                                            *)
LEMMA ContinuationHandled ==
    ASSUME NEW s, NEW s1, NEW i, Handling(s, s1, i), frames[i].opcode = "CONTINUATION"
    PROVE  HandledAs(s, HandleContinuation(s1, frames[i]), i)
  <1>1. PICK f : f = frames[i]
    OBVIOUS
  <1>2. /\ f.payload \in Seq(Letters) /\ f.opcode = "CONTINUATION" /\ f.fin \in BOOLEAN
        /\ (i - 1) + 1 = i
        /\ s1.c.in_fragment_ <=> InMessage(i)
    BY <1>1, FrameIs
  <1>3. s \in Locals /\ s1 \in Locals /\ s1.echoes = s.echoes /\ s1.output = s.output
        /\ s1.c.done = s.c.done + 2 /\ ~s1.c.closed_ /\ ~s1.c.close_sent_ /\ ~HeaderRefused(f) /\ Fragment(s1.c, i - 1)
    BY <1>1 DEF Handling
  <1>3a. s1.c.in_fragment_ \in BOOLEAN /\ s1.c.message_buffer_ \in Seq(Letters) /\ s1.c.fragment_opcode_ \in Texts
    BY <1>3 DEF Locals, Connections
  <1>4. IsData(i)
    BY <1>1, <1>2 DEF IsData, Control
  <1>5. CASE ~s1.c.in_fragment_
    <2>1. Ends(i)
      BY <1>1, <1>2, <1>5 DEF Ends
    <2>2. HandleContinuation(s1, f) = Close(s1, "PROTOCOL_ERROR")
      BY <1>5 DEF HandleContinuation
    <2>3. Ended(s, Close(s1, "PROTOCOL_ERROR"))
      BY <1>3, CloseEnds DEF Letters
    <2> QED
      BY <2>1, <2>2, <2>3, <1>1 DEF HandledAs
  <1>6. CASE s1.c.in_fragment_
    <2>1. PICK m : m = s1.c.message_buffer_ \o f.payload
      OBVIOUS
    <2>2. m \in Seq(Letters)
      BY <2>1, <1>2, <1>3a
    <2>3. InMessage(i) /\ s1.c.message_buffer_ = MessageUpTo(i - 1) /\ s1.c.fragment_opcode_ = frames[FirstOf(i - 1)].opcode
      BY <1>2, <1>3, <1>6 DEF Fragment
    <2>4. FirstOf(i) = FirstOf(i - 1) /\ MessageUpTo(i) = MessageUpTo(i - 1) \o f.payload
      BY <2>3, <1>1, <1>4, NextFrame DEF Handling, FrameAt
    <2>5. m = MessageUpTo(i) /\ s1.c.fragment_opcode_ = frames[FirstOf(i)].opcode
      BY <2>1, <2>3, <2>4
    <2>6. PICK t : t = [s1 EXCEPT !.c.message_buffer_ = m]
      OBVIOUS
    <2>7. /\ t \in Locals /\ t.echoes = s1.echoes /\ t.output = s1.output /\ t.c.in_fragment_ = s1.c.in_fragment_
          /\ t.c.message_buffer_ = m /\ t.c.fragment_opcode_ = s1.c.fragment_opcode_
          /\ t.c.closed_ = s1.c.closed_ /\ t.c.close_sent_ = s1.c.close_sent_ /\ t.c.done = s1.c.done
      BY <2>2, <2>6, <1>3 DEF Locals, Connections
    <2>8. CASE Len(m) > MaxMessageSize
      <3>1. Ends(i)
        BY <2>5, <2>8, <1>1, <1>2 DEF Ends
      <3>2. Ended(s, Close(t, "TOO_BIG"))
        BY <2>7, <1>3, CloseEnds DEF Letters
      <3>3. HandleContinuation(s1, f) = Close(t, "TOO_BIG")
        BY <2>1, <2>6, <2>8, <1>6 DEF HandleContinuation
      <3> QED
        BY <3>1, <3>2, <3>3, <1>1 DEF HandledAs
    <2>9. ASSUME ~(Len(m) > MaxMessageSize) PROVE ~Ends(i)
      BY <2>3, <2>5, <2>9, <1>1, <1>2, <1>3 DEF Ends
    <2>10. CASE ~(Len(m) > MaxMessageSize) /\ f.fin
      <3>1. PICK e : e = Frame(s1.c.fragment_opcode_, m)
        OBVIOUS
      <3>2. e \in Replies
        BY <3>1, <2>2, <1>3a DEF Frame, Replies, Opcodes, Texts
      <3>3. e = Echo(i)
        BY <3>1, <2>5 DEF Echo
      <3>4. PICK em : em = Append(s1.echoes, e)
        OBVIOUS
      <3>5. em \in Seq(Replies)
        BY <3>2, <3>4, <1>3 DEF Locals
      <3>6. PICK u : u = [t EXCEPT !.c.in_fragment_ = FALSE, !.c.message_buffer_ = <<>>]
        OBVIOUS
      <3>7. /\ u \in Locals /\ u.echoes = s1.echoes /\ u.output = s1.output /\ u.c.in_fragment_ = FALSE
            /\ u.c.closed_ = s1.c.closed_ /\ u.c.close_sent_ = s1.c.close_sent_ /\ u.c.done = s1.c.done
        <4>1. PICK none : none = <<>>
          OBVIOUS
        <4>2. none \in Seq(Letters)
          BY <4>1
        <4>3. u = [t EXCEPT !.c.in_fragment_ = FALSE, !.c.message_buffer_ = none]
          BY <4>1, <3>6
        <4> QED
          BY <4>2, <4>3, <2>7 DEF Locals, Connections
      <3>8. PICK v : v = HandleContinuation(s1, f)
        OBVIOUS
      <3>9. v = [u EXCEPT !.echoes = em]
        <4>1. v = OnMessage(u, s1.c.fragment_opcode_, m)
          BY <3>6, <3>8, <2>1, <2>6, <2>10, <1>6 DEF HandleContinuation
        <4> QED
          BY <4>1, <3>1, <3>4, <3>7 DEF OnMessage
      <3>10. v \in Locals /\ v.c = u.c /\ v.echoes = em /\ v.output = u.output
        BY <3>5, <3>7, <3>9 DEF Locals
      <3>11. v.c.in_fragment_ = ~f.fin /\ ~v.c.closed_ /\ ~v.c.close_sent_ /\ v.c.done = s1.c.done /\ v.output = s1.output
        BY <3>7, <3>10, <2>10, <1>2, <1>3
      <3>12. Went(s, v, i)
        BY <3>2, <3>3, <3>4, <3>10, <3>11, <2>9, <2>10, <1>1, <1>4, DataHandled
      <3> QED
        BY <3>8, <3>12, <2>9, <2>10, <1>1 DEF HandledAs
    <2>11. CASE ~(Len(m) > MaxMessageSize) /\ ~f.fin
      <3>1. HandleContinuation(s1, f) = t
        BY <2>1, <2>6, <2>11, <1>6 DEF HandleContinuation
      <3>2. t.c.in_fragment_ = ~f.fin /\ ~t.c.closed_ /\ ~t.c.close_sent_
        BY <2>7, <2>11, <1>2, <1>3, <1>3a, <1>6
      <3>3. Went(s, t, i)
        BY <3>2, <2>5, <2>7, <2>9, <2>11, <1>1, <1>4, DataHandled
      <3> QED
        BY <3>1, <3>3, <2>9, <2>11, <1>1 DEF HandledAs
    <2> QED
      BY <2>8, <2>10, <2>11, <1>2
  <1> QED
    BY <1>3a, <1>5, <1>6

(* handle_frame().                                                          *)
LEMMA FrameHandled ==
    ASSUME NEW s, NEW s1, NEW i, Handling(s, s1, i)
    PROVE  HandledAs(s, HandleFrame(s1, frames[i]), i)
  <1>1. PICK f : f = frames[i]
    OBVIOUS
  <1>2. f.opcode \in Opcodes
    BY <1>1, FrameIs
  <1>3. CASE f.opcode \in Texts
    BY <1>1, <1>3, TextHandled DEF HandleFrame, Texts
  <1>4. CASE f.opcode = "CONTINUATION"
    BY <1>1, <1>4, ContinuationHandled DEF HandleFrame
  <1>5. CASE f.opcode = "CLOSE"
    BY <1>1, <1>5, CloseHandled DEF HandleFrame
  <1>6. CASE f.opcode = "PING"
    BY <1>1, <1>6, PingHandled DEF HandleFrame
  <1>7. CASE f.opcode = "PONG"
    BY <1>1, <1>7, PongHandled DEF HandleFrame
  <1>8. CASE f.opcode = "UNKNOWN"
    BY <1>1, <1>8, UnknownHandled DEF HandleFrame
  <1> QED
    BY <1>2, <1>3, <1>4, <1>5, <1>6, <1>7, <1>8 DEF Opcodes, Texts

-----------------------------------------------------------------------------
(* The loop of process_input().                                             *)

(* upto units have been read, r frames in full.                             *)
UpToFrame(upto, r) ==
    /\ frames \in Seq(WsFrames)
    /\ upto \in Nat /\ r \in Nat /\ upto <= 2 * Len(frames)
    /\ upto = 2 * r \/ upto = 2 * r + 1
Stopped(s, upto) == s.c.closed_ \/ s.c.done + 2 > upto

(* Halves.                                                                  *)
LEMMA HalfOf == \A k \in Nat : (2 * k) \div 2 = k
  OBVIOUS

(* A number is twice its half, or one more.                                 *)
LEMMA HalvesOf == \A n \in Nat : n \div 2 \in Nat /\ (n = 2 * (n \div 2) \/ n = 2 * (n \div 2) + 1)
  OBVIOUS

(* The next frame, while the loop goes on.                                  *)
LEMMA NextOf ==
    ASSUME NEW s, NEW upto, NEW k, NEW r, NEW e, NEW p, UpToFrame(upto, r), TurnInv(s, k, r, e, p),
           ~s.c.closed_
    PROVE  /\ k \in Nat /\ r \in Nat /\ s.c.done = 2 * k /\ s.c.done \div 2 + 1 = k + 1 /\ k <= r
           /\ ~(s.c.done >= upto) => FrameAt(k + 1)
           /\ ~(s.c.done + 2 > upto) <=> k < r
  <1>1. k \in Nat /\ r \in Nat /\ k <= r /\ s.c.done = 2 * k
    BY DEF TurnInv, KeptIs, UpToFrame
  <1>2. s.c.done \div 2 + 1 = k + 1
    BY <1>1, HalfOf
  <1>3. PICK n : n = Len(frames)
    OBVIOUS
  <1>4. n \in Nat /\ upto <= 2 * n /\ upto \in Nat /\ (upto = 2 * r \/ upto = 2 * r + 1)
    BY <1>3 DEF UpToFrame
  <1>5. ~(s.c.done >= upto) => k + 1 \in 1..n
    BY <1>1, <1>4
  <1>6. ~(s.c.done + 2 > upto) <=> k < r
    BY <1>1, <1>4
  <1>7. ~(s.c.done >= upto) => FrameAt(k + 1)
    BY <1>3, <1>5 DEF FrameAt, UpToFrame
  <1> QED
    BY <1>1, <1>2, <1>6, <1>7

(* The header of a frame is refused.                                        *)
LEMMA RefusedTurn ==
    ASSUME NEW s, NEW t, NEW k, NEW r, NEW e, NEW p, TurnInv(s, k, r, e, p), ~s.c.closed_,
           HeaderRefused(frames[k + 1]), t = [s EXCEPT !.c.closed_ = TRUE]
    PROVE  TurnInv(t, k, r, e, p) /\ t.c.closed_
  <1>1. s \in Locals
    BY DEF TurnInv
  <1>2. t \in Locals /\ t.c.closed_ /\ t.c.done = s.c.done /\ t.echoes = s.echoes /\ t.output = s.output
    BY <1>1 DEF Locals, Connections
  <1>3. Ends(k + 1)
    BY DEF Ends
  <1>4. KeptIs(t.c, k, r)
    BY <1>2, <1>3 DEF TurnInv, KeptIs
  <1>5. Written(t, k, r, e, p)
    BY <1>2 DEF TurnInv, Written
  <1> QED
    BY <1>2, <1>4, <1>5 DEF TurnInv

(* A turn keeps what the frames kept say of the replies, and takes a frame  *)
(* unless the loop is to stop.                                              *)
LEMMA TurnKeeps ==
    ASSUME NEW s, NEW upto, NEW k, NEW r, NEW e \in Seq(Replies), NEW p \in Seq(Replies),
           UpToFrame(upto, r), TurnInv(s, k, r, e, p)
    PROVE  /\ \E k2 \in Nat : TurnInv(Turn(s, upto), k2, r, e, p)
           /\ Stopped(s, upto) => Stopped(Turn(s, upto), upto)
           /\ Stopped(Turn(s, upto), upto) \/ Turn(s, upto).c.done = s.c.done + 2
  <1>0. k \in Nat /\ r \in Nat /\ s \in Locals
    BY DEF TurnInv, KeptIs, UpToFrame
  <1>1. PICK t : t = Turn(s, upto)
    OBVIOUS
  <1>2. CASE s.c.closed_
    <2>1. t = s
      BY <1>1, <1>2 DEF Turn
    <2> QED
      BY <2>1, <1>0, <1>1, <1>2 DEF Stopped
  <1>3. CASE ~s.c.closed_ /\ s.c.done >= upto
    <2>1. t = s
      BY <1>1, <1>3 DEF Turn
    <2>2. s.c.done + 2 > upto
      <3>1. s.c.done \in Nat /\ upto \in Nat
        BY <1>0 DEF Locals, Connections, UpToFrame
      <3> QED
        BY <3>1, <1>3
    <2> QED
      BY <2>1, <2>2, <1>0, <1>1 DEF Stopped
  <1>4. CASE ~s.c.closed_ /\ ~(s.c.done >= upto)
    <2>1. /\ FrameAt(k + 1) /\ s.c.done \div 2 + 1 = k + 1 /\ s.c.done = 2 * k
          /\ ~(s.c.done + 2 > upto) <=> k < r
      BY <1>4, NextOf
    <2>2. PICK f : f = frames[k + 1]
      OBVIOUS
    <2>3. t = IF HeaderRefused(f) THEN [s EXCEPT !.c.closed_ = TRUE]
              ELSE IF s.c.done + 2 > upto THEN s
              ELSE HandleFrame([s EXCEPT !.c.done = @ + 2], f)
      BY <2>1, <2>2, <1>1, <1>4 DEF Turn
    <2>4. CASE HeaderRefused(f)
      <3>1. t = [s EXCEPT !.c.closed_ = TRUE]
        BY <2>3, <2>4
      <3>2. TurnInv(t, k, r, e, p) /\ t.c.closed_
        BY <3>1, <2>2, <2>4, <1>4, RefusedTurn
      <3> QED
        BY <3>2, <1>0, <1>1 DEF Stopped
    <2>5. CASE ~HeaderRefused(f) /\ s.c.done + 2 > upto
      <3>1. t = s
        BY <2>3, <2>5
      <3> QED
        BY <3>1, <2>5, <1>0, <1>1 DEF Stopped
    <2>6. CASE ~HeaderRefused(f) /\ ~(s.c.done + 2 > upto)
      <3>1. PICK s1 : s1 = [s EXCEPT !.c.done = @ + 2]
        OBVIOUS
      <3>2. t = HandleFrame(s1, f)
        BY <3>1, <2>3, <2>6
      <3>3. k < r /\ ~Stopped(s, upto)
        BY <2>1, <2>6, <1>4 DEF Stopped
      <3>4. (k + 1) - 1 = k
        BY <1>0
      <3>5. ~s.c.close_sent_ /\ Fragment(s.c, k)
        BY <1>4 DEF TurnInv, KeptIs
      <3>6. Handling(s, s1, k + 1)
        <4>1. /\ s1 \in Locals /\ s1.echoes = s.echoes /\ s1.output = s.output
              /\ s1.c.done = s.c.done + 2 /\ s1.c.closed_ = s.c.closed_ /\ s1.c.close_sent_ = s.c.close_sent_
              /\ s1.c.in_fragment_ = s.c.in_fragment_ /\ s1.c.message_buffer_ = s.c.message_buffer_
              /\ s1.c.fragment_opcode_ = s.c.fragment_opcode_
          BY <3>1, <1>0, FrameRemoved
        <4>2. Fragment(s1.c, k)
          BY <4>1, <3>5 DEF Fragment
        <4>3. Fragment(s1.c, (k + 1) - 1)
          BY <4>2, <3>4
        <4> QED
          BY <4>1, <4>3, <3>5, <2>1, <2>2, <2>6, <1>0, <1>4 DEF Handling
      <3>7. HandledAs(s, t, k + 1)
        BY <3>2, <3>6, <2>2, FrameHandled
      <3>8. CASE Ends(k + 1)
        <4>1. Ended(s, t)
          BY <3>7, <3>8 DEF HandledAs
        <4>2. TurnInv(t, k, r, e, p)
          BY <4>1, <3>3, <3>8, <1>0, <1>4, TurnEnds
        <4>3. t.c.closed_
          BY <4>1 DEF Ended
        <4> QED
          BY <4>2, <4>3, <1>0, <1>1 DEF Stopped
      <3>9. CASE ~Ends(k + 1)
        <4>1. Went(s, t, k + 1)
          BY <3>7, <3>9 DEF HandledAs
        <4>2. TurnInv(t, k + 1, r, e, p)
          BY <4>1, <3>3, <3>9, <2>1, <1>0, <1>4, TurnGoes
        <4>3. t.c.done = s.c.done + 2 /\ k + 1 \in Nat
          BY <4>1, <1>0 DEF Went
        <4> QED
          BY <4>2, <4>3, <3>3, <1>1
      <3> QED
        BY <3>8, <3>9
    <2> QED
      BY <2>4, <2>5, <2>6
  <1> QED
    BY <1>2, <1>3, <1>4

(* The states the loop can be in.                                           *)
LoopStates(r, e, p) == {s \in Locals : \E k \in Nat : TurnInv(s, k, r, e, p)}
Local(c) == [c |-> c, echoes |-> <<>>, output |-> <<>>]

(* The loop comes to its end, and what it has written answers the frames it *)
(* has kept.                                                                *)
LEMMA LoopEnds ==
    ASSUME NEW c, NEW upto, NEW r, NEW e \in Seq(Replies), NEW p \in Seq(Replies),
           UpToFrame(upto, r), Local(c) \in LoopStates(r, e, p)
    PROVE  Turns(c, upto) \in LoopStates(r, e, p) /\ Stopped(Turns(c, upto), upto)
  <1>a. PICK n : n = Len(frames) + 1
    OBVIOUS
  <1>b. PICK A : A = LoopStates(r, e, p)
    OBVIOUS
  <1> DEFINE start == Local(c)
             P(u) == u = [i \in 0..n |-> IF i = 0 THEN start ELSE Turn(u[i - 1], upto)]
  <1>0. n \in Nat
    BY <1>a DEF UpToFrame
  <1>1. start \in A
    BY <1>b
  <1>2. PICK F : F = [k \in 1..n |-> [s \in A |-> Turn(s, upto)]]
    OBVIOUS
  <1>3. ASSUME NEW s \in A PROVE Turn(s, upto) \in A
    <2>1. PICK k \in Nat : TurnInv(s, k, r, e, p)
      BY <1>b DEF LoopStates
    <2>2. \E k2 \in Nat : TurnInv(Turn(s, upto), k2, r, e, p)
      BY <2>1, TurnKeeps
    <2> QED
      BY <2>2, <1>b DEF LoopStates, TurnInv
  <1>4. ASSUME NEW k \in 1..n, NEW s \in A PROVE F[k][s] = Turn(s, upto) /\ F[k][s] \in A
    <2>1. PICK G : G = [x \in A |-> Turn(x, upto)]
      OBVIOUS
    <2>2. F[k] = G
      BY <1>2, <2>1
    <2>3. G[s] = Turn(s, upto)
      BY <2>1
    <2> QED
      BY <2>2, <2>3, <1>3
  <1>4a. \A k \in 1..n : \A x \in A : F[k][x] \in A
    BY <1>4
  <1> HIDE DEF start
  <1>5. PICK g : Iterates(n, A, start, F, g)
    BY <1>0, <1>1, <1>4a, Iterated
  <1>6. ASSUME NEW k \in 1..n PROVE g[k - 1] \in A /\ g[k] \in A /\ g[k] = Turn(g[k - 1], upto)
    <2>1. k - 1 \in 0..n /\ k \in 0..n
      BY <1>0
    <2>2. g[k - 1] \in A /\ g[k] \in A
      BY <2>1, <1>5 DEF Iterates
    <2> QED
      BY <2>2, <1>4, <1>5 DEF Iterates
  <1>7. P(g)
    <2>1. \A k \in 0..n : g[k] = IF k = 0 THEN start ELSE Turn(g[k - 1], upto)
      <3> TAKE k \in 0..n
      <3>1. k = 0 \/ k \in 1..n
        BY <1>0
      <3> QED
        BY <3>1, <1>5, <1>6 DEF Iterates
    <2> QED
      BY <2>1, <1>5 DEF Iterates
  <1>8. PICK u : u = CHOOSE v : P(v)
    OBVIOUS
  <1>9. P(u)
    BY <1>7, <1>8
  <1>10. Turns(c, upto) = u[n]
    BY <1>8, <1>a DEF Turns, start, Local
  <1>11. \A k \in 0..n : u[k] = IF k = 0 THEN start ELSE Turn(u[k - 1], upto)
    BY <1>9
  <1> HIDE DEF P
  <1>12. SameSteps(n, u, g)
    <2>1. u[0] = g[0]
      BY <1>0, <1>5, <1>11 DEF Iterates
    <2>2. ASSUME NEW k \in 1..n, u[k - 1] = g[k - 1] PROVE u[k] = g[k]
      <3>1. k \in 0..n /\ k # 0
        BY <1>0
      <3> QED
        BY <3>1, <2>2, <1>6, <1>11
    <2> QED
      BY <2>1, <2>2 DEF SameSteps
  <1>13. n \in 0..n /\ n \in 1..n
    BY <1>0, <1>a DEF UpToFrame
  <1>14. Turns(c, upto) = g[n]
    BY <1>0, <1>10, <1>12, <1>13, StepsAgree
  <1>15. g[n] \in A
    BY <1>6, <1>13
  <1> DEFINE S == {k \in 0..n : Stopped(g[k], upto) \/ g[k].c.done >= 2 * k}
  <1>16. 0 \in S
    <2>1. g[0].c.done \in Nat
      BY <1>1, <1>5, <1>b DEF Iterates, LoopStates, Locals, Connections
    <2> QED
      BY <2>1, <1>0
  <1>17. ASSUME NEW k \in 1..n, k - 1 \in S PROVE k \in S
    <2>1. g[k - 1] \in A /\ g[k] = Turn(g[k - 1], upto) /\ k \in 0..n
      BY <1>0, <1>6
    <2>2. PICK j \in Nat : TurnInv(g[k - 1], j, r, e, p)
      BY <2>1, <1>b DEF LoopStates
    <2>3. /\ Stopped(g[k - 1], upto) => Stopped(g[k], upto)
          /\ Stopped(g[k], upto) \/ g[k].c.done = g[k - 1].c.done + 2
      BY <2>1, <2>2, TurnKeeps
    <2>4. CASE Stopped(g[k], upto)
      BY <2>1, <2>4
    <2>5. CASE ~Stopped(g[k], upto)
      <3>1. g[k].c.done = g[k - 1].c.done + 2 /\ g[k - 1].c.done >= 2 * (k - 1)
        BY <2>3, <2>5, <1>17
      <3>2. g[k - 1].c.done \in Nat
        BY <2>1, <1>b DEF LoopStates, Locals, Connections
      <3>3. g[k].c.done >= 2 * k
        BY <3>1, <3>2, <1>0
      <3> QED
        BY <3>3, <2>1
    <2> QED
      BY <2>4, <2>5
  <1>18. 0..n \subseteq S
    <2> HIDE DEF S
    <2> QED
      BY <1>0, <1>16, <1>17, UpTo
  <1>19. Stopped(g[n], upto)
    <2>1. Stopped(g[n], upto) \/ g[n].c.done >= 2 * n
      BY <1>13, <1>18
    <2>2. g[n].c.done \in Nat
      BY <1>15, <1>b DEF LoopStates, Locals, Connections
    <2>3. PICK m : m = Len(frames)
      OBVIOUS
    <2>4. m \in Nat /\ n = m + 1 /\ upto \in Nat /\ upto <= 2 * m
      BY <2>3, <1>a DEF UpToFrame
    <2>5. g[n].c.done >= 2 * n => g[n].c.done + 2 > upto
      BY <2>2, <2>4
    <2> QED
      BY <2>1, <2>5 DEF Stopped
  <1> QED
    BY <1>14, <1>15, <1>19, <1>b

-----------------------------------------------------------------------------
(* More frames leave what is known of those that were there.                *)
MoreFrames ==
    /\ frames \in Seq(WsFrames) /\ frames' \in Seq(WsFrames) /\ Len(frames) <= Len(frames')
    /\ \A i \in 1..Len(frames) : frames'[i] = frames[i]

(* Where messages begin.                                                    *)
LEMMA InMessageKept ==
    ASSUME MoreFrames, NEW i \in 1..(Len(frames) + 1)
    PROVE  InMessage(i)' <=> InMessage(i)
  <1>0. Len(frames) \in Nat
    BY DEF MoreFrames
  <1>1. \A j \in 1..(i - 1) : frames'[j] = frames[j]
    BY <1>0 DEF MoreFrames
  <1>2. DataBefore(i)' = DataBefore(i)
    BY <1>1 DEF DataBefore, Control
  <1>3. PICK D : D = DataBefore(i)
    OBVIOUS
  <1>4. CASE D = {}
    BY <1>2, <1>3, <1>4 DEF InMessage
  <1>5. CASE D # {}
    <2>1. D \subseteq 0..(i - 1) /\ i - 1 \in Nat
      BY <1>0, <1>3 DEF DataBefore
    <2>2. Max(D) \in D
      BY <2>1, <1>5, MaxIn
    <2>3. frames'[Max(D)] = frames[Max(D)]
      BY <2>2, <1>1, <1>3 DEF DataBefore
    <2> QED
      BY <2>3, <1>2, <1>3 DEF InMessage
  <1> QED
    BY <1>4, <1>5

(* The frame that began a message stays the same.                           *)
LEMMA FirstOfKept ==
    ASSUME MoreFrames, NEW i \in 0..Len(frames)
    PROVE  FirstOf(i)' = FirstOf(i)
  <1>0. Len(frames) \in Nat
    BY DEF MoreFrames
  <1>1. \A j \in 1..i : j \in 1..Len(frames) /\ j \in 1..(Len(frames) + 1)
    BY <1>0
  <1>2. \A j \in 1..i : frames'[j] = frames[j] /\ (InMessage(j)' <=> InMessage(j))
    BY <1>1, InMessageKept DEF MoreFrames
  <1>3. {j \in 1..i : frames'[j].opcode \notin Control /\ ~InMessage(j)'}
            = {j \in 1..i : frames[j].opcode \notin Control /\ ~InMessage(j)}
    BY <1>2
  <1>4. FirstOf(i)' = Max({j \in 1..i : frames'[j].opcode \notin Control /\ ~InMessage(j)'})
    BY DEF FirstOf, Control
  <1> QED
    BY <1>3, <1>4 DEF FirstOf

(* Their contents.                                                          *)
LEMMA MessageKept ==
    ASSUME MoreFrames, NEW i \in 0..Len(frames)
    PROVE  MessageUpTo(i)' = MessageUpTo(i)
  <1>0. Len(frames) \in Nat
    BY DEF MoreFrames
  <1>1. PICK b : b = FirstOf(i)
    OBVIOUS
  <1>2. FirstOf(i)' = b
    BY <1>1, FirstOfKept
  <1>3. \A j \in 1..i : frames'[j] = frames[j]
    BY <1>0 DEF MoreFrames
  <1>4. [j \in 1..i |-> IF j >= b /\ frames'[j].opcode \notin Control THEN frames'[j].payload ELSE <<>>]
        = [j \in 1..i |-> IF j >= b /\ frames[j].opcode \notin Control THEN frames[j].payload ELSE <<>>]
    BY <1>3
  <1>5. MessageUpTo(i)' = FlattenSeq([j \in 1..i |-> IF j >= b /\ frames'[j].opcode \notin Control
                                                     THEN frames'[j].payload ELSE <<>>])
    BY <1>2 DEF MessageUpTo, DataFrom, Control
  <1>6. MessageUpTo(i) = FlattenSeq([j \in 1..i |-> IF j >= b /\ frames[j].opcode \notin Control
                                                    THEN frames[j].payload ELSE <<>>])
    BY <1>1 DEF MessageUpTo, DataFrom
  <1> QED
    BY <1>4, <1>5, <1>6

(* Which frames end the connection.                                         *)
LEMMA EndsKept ==
    ASSUME MoreFrames, NEW i \in 1..Len(frames)
    PROVE  (Ends(i)' <=> Ends(i)) /\ (HeaderRefused(frames[i])' <=> HeaderRefused(frames[i]))
  <1>0. Len(frames) \in Nat /\ i \in 0..Len(frames) /\ i \in 1..(Len(frames) + 1)
    BY DEF MoreFrames
  <1>1. frames'[i] = frames[i]
    BY DEF MoreFrames
  <1>2. (InMessage(i)' <=> InMessage(i)) /\ MessageUpTo(i)' = MessageUpTo(i)
    BY <1>0, InMessageKept, MessageKept
  <1> QED
    BY <1>1, <1>2 DEF Ends, HeaderRefused

(* The answers to them.                                                     *)
LEMMA AnswersKept ==
    ASSUME MoreFrames, NEW n \in 0..Len(frames)
    PROVE  Messages(n)' = Messages(n) /\ Pongs(n)' = Pongs(n)
  <1>0. Len(frames) \in Nat /\ \A i \in 1..n : i \in 1..Len(frames) /\ i \in 0..Len(frames)
    BY DEF MoreFrames
  <1>1. \A i \in 1..n : frames'[i] = frames[i]
    BY <1>0 DEF MoreFrames
  <1>2. ASSUME NEW i \in 1..n PROVE PongsOf(i)' = PongsOf(i)
    BY <1>1 DEF PongsOf, Pong, Frame
  <1>3. ASSUME NEW i \in 1..n PROVE Echoes(i)' = Echoes(i)
    <2>1. frames'[i] = frames[i]
      BY <1>1
    <2>2. CASE ~IsData(i)
      BY <2>1, <2>2 DEF Echoes, IsData, Control
    <2>3. CASE IsData(i)
      <3>1. PICK b : b = FirstOf(i)
        OBVIOUS
      <3>2. b \in 1..i
        BY <3>1, <2>3, <1>0, FirstOfIn DEF MoreFrames
      <3>3. FirstOf(i)' = b /\ MessageUpTo(i)' = MessageUpTo(i)
        BY <3>1, <1>0, FirstOfKept, MessageKept
      <3>4. frames'[b] = frames[b]
        <4>1. b \in 1..n
          BY <3>2, <1>0
        <4> QED
          BY <4>1, <1>1
      <3>5. Echo(i)' = Frame(frames'[b].opcode, MessageUpTo(i))
        BY <3>3 DEF Echo, Frame
      <3>6. Echo(i)' = Echo(i)
        BY <3>1, <3>4, <3>5 DEF Echo
      <3> QED
        BY <3>6, <2>1 DEF Echoes, IsData, Control
    <2> QED
      BY <2>2, <2>3
  <1>4. [i \in 1..n |-> Echoes(i)'] = [i \in 1..n |-> Echoes(i)]
    BY <1>3
  <1>5. [i \in 1..n |-> PongsOf(i)'] = [i \in 1..n |-> PongsOf(i)]
    BY <1>2
  <1>6. Messages(n) = FlattenSeq([i \in 1..n |-> Echoes(i)]) /\ Pongs(n) = FlattenSeq([i \in 1..n |-> PongsOf(i)])
    BY DEF Messages, Pongs, Echoes, Echo, IsData, PongsOf, Pong
  <1>7. Messages(n)' = FlattenSeq([i \in 1..n |-> Echoes(i)'])
    BY DEF Messages, Echoes, Echo, IsData, Control, Frame
  <1>8. Pongs(n)' = FlattenSeq([i \in 1..n |-> PongsOf(i)'])
    BY DEF Pongs, PongsOf, Pong, Frame
  <1> QED
    BY <1>4, <1>5, <1>6, <1>7, <1>8

(* A message that goes on has a first frame.                                *)
LEMMA FirstOfBefore ==
    ASSUME frames \in Seq(WsFrames), NEW k \in 0..Len(frames), InMessage(k + 1)
    PROVE  FirstOf(k) \in 1..k
  <1>0. Len(frames) \in Nat /\ k \in Nat /\ (k + 1) - 1 = k
    OBVIOUS
  <1>1. PICK x : x \in DataBefore(k + 1)
    BY DEF InMessage
  <1>2. x \in 1..k /\ x \in 1..Len(frames) /\ IsData(x)
    BY <1>0, <1>1 DEF DataBefore, IsData
  <1>3. PICK b : b = FirstOf(x)
    OBVIOUS
  <1>4. b \in 1..x /\ IsData(b) /\ ~InMessage(b)
    BY <1>2, <1>3, FirstOfIn
  <1>5. PICK T : T = {j \in 1..k : frames[j].opcode \notin Control /\ ~InMessage(j)}
    OBVIOUS
  <1>6. b \in T
    <2>1. b \in 1..k
      BY <1>0, <1>2, <1>4
    <2> QED
      BY <2>1, <1>4, <1>5 DEF IsData
  <1>7. T \subseteq 0..k /\ T # {} /\ T \subseteq 1..k
    BY <1>0, <1>5, <1>6
  <1>8. Max(T) \in T
    BY <1>0, <1>7, MaxIn
  <1> QED
    BY <1>5, <1>7, <1>8 DEF FirstOf

(* The message under assembly.                                              *)
LEMMA FragmentKept ==
    ASSUME MoreFrames, NEW c, NEW k \in 0..Len(frames), Fragment(c, k)
    PROVE  /\ c.in_fragment_ <=> InMessage(k + 1)'
           /\ c.in_fragment_ => /\ c.message_buffer_ = MessageUpTo(k)'
                                /\ c.fragment_opcode_ = frames'[FirstOf(k)'].opcode
  <1>0. Len(frames) \in Nat /\ k + 1 \in 1..(Len(frames) + 1)
    BY DEF MoreFrames
  <1>1. InMessage(k + 1)' <=> InMessage(k + 1)
    BY <1>0, InMessageKept
  <1>2. MessageUpTo(k)' = MessageUpTo(k) /\ FirstOf(k)' = FirstOf(k)
    BY MessageKept, FirstOfKept
  <1>3. ASSUME InMessage(k + 1) PROVE frames'[FirstOf(k)] = frames[FirstOf(k)]
    <2>1. FirstOf(k) \in 1..k
      BY <1>3, FirstOfBefore DEF MoreFrames
    <2>2. FirstOf(k) \in 1..Len(frames)
      BY <2>1, <1>0
    <2> QED
      BY <2>2 DEF MoreFrames
  <1>4. c.in_fragment_ <=> InMessage(k + 1)
    BY DEF Fragment
  <1>5. ASSUME c.in_fragment_
        PROVE  c.message_buffer_ = MessageUpTo(k)' /\ c.fragment_opcode_ = frames'[FirstOf(k)'].opcode
    BY <1>2, <1>3, <1>4, <1>5 DEF Fragment
  <1> QED
    BY <1>1, <1>4, <1>5

-----------------------------------------------------------------------------
(* The inductive invariant of the WebSocket: for some k, the first k frames *)
(* have been kept and the replies answer them.                              *)
WsShape ==
    /\ frames \in Seq(WsFrames) /\ read \in Nat /\ read <= 2 * Len(frames)
    /\ ws \in Connections /\ replies \in Seq(Replies)
AnswersOf(k) ==
    /\ KeptIs(ws, k, Received)
    /\ ~ws.closed_ => k = Received
    /\ Sent(Texts) = Messages(k) /\ Sent({"PONG"}) = Pongs(k)
    /\ \A i \in 1..Len(replies) : replies[i].opcode = "CLOSE" => i = Len(replies) /\ ws.closed_
    /\ ws.closed_ /\ k < Received /\ ~HeaderRefused(frames[k + 1]) => Sent({"CLOSE"}) # <<>>
WsInv == WsShape /\ \E k \in Nat : AnswersOf(k)

(* How much has been read.                                                  *)
LEMMA ReceivedIs ==
    ASSUME WsShape
    PROVE  Received \in Nat /\ UpToFrame(read, Received) /\ Received <= Len(frames)
  <1>1. PICK r : r = read \div 2
    OBVIOUS
  <1>2. r \in Nat /\ (read = 2 * r \/ read = 2 * r + 1)
    BY <1>1, HalvesOf DEF WsShape
  <1>3. UpToFrame(read, r)
    BY <1>2 DEF WsShape, UpToFrame
  <1>4. Len(frames) \in Nat /\ read <= 2 * Len(frames)
    BY DEF WsShape
  <1>5. r <= Len(frames)
    BY <1>2, <1>4
  <1> QED
    BY <1>1, <1>2, <1>3, <1>5 DEF Received

(* It says what was to be shown.                                            *)
LEMMA WsInvAnswers == WsInv => AnsweredInOrder
  <1> SUFFICES ASSUME WsInv PROVE AnsweredInOrder
    OBVIOUS
  <1>1. PICK k \in Nat : AnswersOf(k)
    BY DEF WsInv
  <1>2. PICK r : r = Received
    OBVIOUS
  <1>3. r \in Nat
    BY <1>2, ReceivedIs DEF WsInv
  <1>4. k \in 0..r /\ (\A i \in 1..k : ~Ends(i)) /\ (k < r => Ends(k + 1))
    <2>1. KeptIs(ws, k, r) /\ (~ws.closed_ => k = r) /\ ws \in Connections
      BY <1>1, <1>2 DEF AnswersOf, WsInv, WsShape
    <2>2. ws.closed_ \in BOOLEAN /\ k \in 0..r
      BY <2>1 DEF Connections, KeptIs
    <2>3. k < r => ws.closed_
      BY <2>1, <2>2, <1>3
    <2> QED
      BY <2>1, <2>2, <2>3 DEF KeptIs
  <1>5. Kept = k
    <2>1. PICK T : T = {i - 1 : i \in {j \in 1..r : Ends(j)}} \cup {r}
      OBVIOUS
    <2>2. k \in T
      <3>1. CASE k = r
        BY <3>1, <2>1
      <3>2. CASE k # r
        <4>1. k + 1 \in 1..r /\ (k + 1) - 1 = k /\ k < r
          BY <3>2, <1>3, <1>4
        <4>2. Ends(k + 1)
          BY <4>1, <1>4
        <4> QED
          BY <4>1, <4>2, <2>1
      <3> QED
        BY <3>1, <3>2
    <2>3. ASSUME NEW x \in T PROVE x \in Nat /\ k <= x
      <3>1. CASE x = r
        BY <3>1, <1>3, <1>4
      <3>2. CASE x # r
        <4>1. PICK j \in 1..r : Ends(j) /\ x = j - 1
          BY <3>2, <2>1
        <4>2. ~(j \in 1..k)
          BY <4>1, <1>4
        <4> QED
          BY <4>1, <4>2, <1>3
      <3> QED
        BY <3>1, <3>2
    <2>4. Min(T) \in T /\ \A y \in T : Min(T) <= y
      BY <2>2, <2>3 DEF Min
    <2>5. Min(T) = k
      <3>1. PICK m : m = Min(T)
        OBVIOUS
      <3>2. m \in Nat /\ k <= m /\ m <= k
        BY <3>1, <2>2, <2>3, <2>4
      <3> QED
        BY <3>1, <3>2
    <2> QED
      BY <2>1, <2>5, <1>2 DEF Kept
  <1>6. MessagesIntact /\ PingsAnswered
    BY <1>1, <1>5 DEF AnswersOf, MessagesIntact, PingsAnswered, Texts
  <1>7. DOMAIN replies = 1..Len(replies)
    BY DEF WsInv, WsShape
  <1>8. CloseIsLast
    BY <1>1, <1>5, <1>7 DEF AnswersOf, CloseIsLast
  <1> QED
    BY <1>6, <1>8 DEF AnsweredInOrder

(* At the start.                                                            *)
LEMMA WsStarts == WsInit => WsInv
  <1> SUFFICES ASSUME WsInit PROVE WsInv
    OBVIOUS
  <1>1. frames = <<>> /\ read = 0 /\ ws = NewConnection /\ replies = <<>>
    BY DEF WsInit
  <1>2. WsShape
    <2>1. PICK none : none = <<>>
      OBVIOUS
    <2>2. none \in Seq(Letters) /\ none \in Seq(WsFrames) /\ none \in Seq(Replies) /\ Len(none) = 0
      BY <2>1
    <2>3. ws = [done |-> 0, message_buffer_ |-> none, fragment_opcode_ |-> "TEXT", in_fragment_ |-> FALSE,
                closed_ |-> FALSE, close_sent_ |-> FALSE]
      BY <2>1, <1>1 DEF NewConnection
    <2>4. ws \in Connections
      BY <2>2, <2>3 DEF Connections, Texts
    <2> QED
      BY <2>1, <2>2, <2>4, <1>1 DEF WsShape
  <1>3. PICK r : r = Received
    OBVIOUS
  <1>4. r = 0
    <2>1. r \in Nat /\ UpToFrame(0, r)
      BY <1>1, <1>2, <1>3, ReceivedIs
    <2>2. 0 = 2 * r \/ 0 = 2 * r + 1
      BY <2>1 DEF UpToFrame
    <2> QED
      BY <2>1, <2>2
  <1>5. ~InMessage(0 + 1)
    BY DEF InMessage, DataBefore
  <1>6. ws.done = 0 /\ ~ws.in_fragment_ /\ ~ws.closed_ /\ ~ws.close_sent_
    BY <1>1 DEF NewConnection
  <1>7. Fragment(ws, 0)
    BY <1>5, <1>6 DEF Fragment
  <1>8. KeptIs(ws, 0, r)
    <2>1. 0 \in 0..0 /\ 0 = 2 * 0 /\ \A i \in 1..0 : FALSE
      OBVIOUS
    <2> QED
      BY <2>1, <1>4, <1>6, <1>7 DEF KeptIs
  <1>9. ASSUME NEW ops PROVE Sent(ops) = <<>>
    BY <1>1, ChosenNothing DEF Sent
  <1>10. Len(replies) = 0
    BY <1>1
  <1>11. AnswersOf(0)
    BY <1>3, <1>4, <1>6, <1>8, <1>9, <1>10, NothingReceived DEF AnswersOf
  <1> QED
    BY <1>2, <1>11 DEF WsInv

(* The client sends a frame.                                                *)
LEMMA ClientKeeps ==
    ASSUME WsInv, ~ws.closed_, NEW f \in Frames, ClientSends(f)
    PROVE  WsInv'
  <1>1. f \in WsFrames
    <2>1. f \in [opcode : Opcodes, fin : BOOLEAN, header : STRING, payload : Seq(STRING)]
      BY WsAssumption
    <2>2. ASSUME NEW s \in Seq(STRING) PROVE s \in Seq(Letters)
      BY DEF Letters
    <2>3. f.payload \in Seq(Letters)
      BY <2>1, <2>2
    <2> QED
      BY <2>1, <2>3 DEF WsFrames
  <1>2. frames' = Append(frames, f) /\ read' = read /\ ws' = ws /\ replies' = replies /\ WsShape
    BY DEF ClientSends, WsInv
  <1>3. MoreFrames /\ Len(frames') = Len(frames) + 1
    BY <1>1, <1>2 DEF MoreFrames, WsShape
  <1>4. WsShape'
    <2>1. Len(frames) \in Nat /\ read \in Nat /\ read <= 2 * Len(frames) /\ Len(frames') = Len(frames) + 1
      BY <1>2, <1>3 DEF WsShape
    <2>2. read' <= 2 * Len(frames')
      BY <2>1, <1>2
    <2> QED
      BY <2>2, <1>2, <1>3 DEF WsShape, MoreFrames
  <1>5. PICK k \in Nat : AnswersOf(k)
    BY DEF WsInv
  <1>6. PICK r : r = Received
    OBVIOUS
  <1>7. Received' = r /\ k = r /\ r \in Nat /\ r <= Len(frames) /\ KeptIs(ws, k, r)
    BY <1>2, <1>5, <1>6, ReceivedIs DEF AnswersOf, Received
  <1>8. k \in 0..Len(frames) /\ \A i \in 1..k : i \in 1..Len(frames)
    <2>1. Len(frames) \in Nat
      BY <1>2 DEF WsShape
    <2> QED
      BY <2>1, <1>7
  <1>9. \A i \in 1..k : ~Ends(i)'
    BY <1>3, <1>7, <1>8, EndsKept DEF KeptIs
  <1>10. Fragment(ws, k) /\ ws.done = 2 * k /\ ~ws.close_sent_
    BY <1>7 DEF KeptIs
  <1>11. Fragment(ws, k)'
    <2>1. PICK c : c = ws
      OBVIOUS
    <2>2. Fragment(c, k)
      BY <2>1, <1>10
    <2>3. /\ c.in_fragment_ <=> InMessage(k + 1)'
          /\ c.in_fragment_ => /\ c.message_buffer_ = MessageUpTo(k)'
                               /\ c.fragment_opcode_ = frames'[FirstOf(k)'].opcode
      BY <2>2, <1>3, <1>8, FragmentKept
    <2> QED
      BY <2>1, <2>3, <1>2 DEF Fragment
  <1>12. KeptIs(ws, k, Received)'
    BY <1>2, <1>7, <1>9, <1>10, <1>11 DEF KeptIs
  <1>13. Messages(k)' = Messages(k) /\ Pongs(k)' = Pongs(k)
    BY <1>3, <1>8, AnswersKept
  <1>14. \A ops : Sent(ops)' = Sent(ops)
    BY <1>2 DEF Sent, Chosen
  <1>15. AnswersOf(k)'
    BY <1>2, <1>5, <1>7, <1>12, <1>13, <1>14 DEF AnswersOf, Texts
  <1> QED
    BY <1>4, <1>15 DEF WsInv

(* process_input() is given what was read.                                  *)
LEMMA LoopStarts ==
    ASSUME WsInv, ~ws.closed_, NEW upto, NEW r, UpToFrame(upto, r), read <= upto
    PROVE  Local(ws) \in LoopStates(r, Sent(Texts), Sent({"PONG"}))
  <1>1. PICK k \in Nat : AnswersOf(k)
    BY DEF WsInv
  <1>2. PICK q : q = Received
    OBVIOUS
  <1>3. q \in Nat /\ k = q /\ KeptIs(ws, k, q) /\ UpToFrame(read, q) /\ WsShape
    BY <1>1, <1>2, ReceivedIs DEF AnswersOf, WsInv
  <1>4. k \in 0..r
    BY <1>3 DEF UpToFrame
  <1>5. KeptIs(ws, k, r)
    <2>1. ws.done = 2 * k /\ k <= r /\ k \in Nat /\ r \in Nat
      BY <1>3, <1>4 DEF KeptIs, UpToFrame
    <2>2. ws.done <= 2 * r
      BY <2>1
    <2> QED
      BY <2>2, <1>3, <1>4 DEF KeptIs
  <1>6. PICK s : s = Local(ws)
    OBVIOUS
  <1>7. s.c = ws /\ s.echoes = <<>> /\ s.output = <<>>
    BY <1>6 DEF Local
  <1>8. s \in Locals
    <2>1. PICK none : none = <<>>
      OBVIOUS
    <2>2. none \in Seq(Replies) /\ ws \in Connections
      BY <2>1, <1>3 DEF WsShape
    <2>3. s = [c |-> ws, echoes |-> none, output |-> none]
      BY <2>1, <1>6 DEF Local
    <2> QED
      BY <2>2, <2>3 DEF Locals
  <1>9. ASSUME NEW ops PROVE Chosen(s.echoes, ops) = <<>> /\ Chosen(s.output, ops) = <<>>
    BY <1>7, ChosenNothing
  <1>10. ASSUME NEW ops PROVE Sent(ops) \o <<>> = Sent(ops)
    <2>1. PICK x : x = Sent(ops)
      OBVIOUS
    <2>2. x \in Seq(Replies)
      BY <2>1, <1>3, ChosenType DEF Sent, WsShape
    <2>3. x \o <<>> = x
      BY <2>2
    <2> QED
      BY <2>1, <2>3
  <1>11. Sent(Texts) = Messages(k) /\ Sent({"PONG"}) = Pongs(k)
    BY <1>1 DEF AnswersOf
  <1>12. Len(s.echoes) = 0 /\ Len(s.output) = 0
    BY <1>7
  <1>13. Written(s, k, r, Sent(Texts), Sent({"PONG"}))
    <2>1. Sent(Texts) \o Chosen(s.echoes, Texts) = Messages(k)
      BY <1>9, <1>10, <1>11
    <2>2. Sent({"PONG"}) \o Chosen(s.output, {"PONG"}) = Pongs(k)
      BY <1>9, <1>10, <1>11
    <2> QED
      BY <2>1, <2>2, <1>7, <1>9, <1>12 DEF Written
  <1> QED
    BY <1>5, <1>6, <1>7, <1>8, <1>13 DEF LoopStates, TurnInv

(* The choice from three sequences in a row.                                *)
Row(d, a, b, c) == d = a \o b \o c
NoClose(w) == \A i \in 1..Len(w) : w[i].opcode # "CLOSE"

(* It is the three choices in a row.                                        *)
LEMMA ChosenThree ==
    ASSUME NEW a \in Seq(Replies), NEW b \in Seq(Replies), NEW c \in Seq(Replies), NEW d, Row(d, a, b, c), NEW ops
    PROVE  Row(Chosen(d, ops), Chosen(a, ops), Chosen(b, ops), Chosen(c, ops)) /\ d \in Seq(Replies)
  <1>1. PICK ab : ab = a \o b
    OBVIOUS
  <1>2. ab \in Seq(Replies) /\ Joins(ab, a, b)
    BY <1>1 DEF Joins
  <1>3. PICK abc : abc = ab \o c
    OBVIOUS
  <1>4. Joins(abc, ab, c)
    BY <1>3 DEF Joins
  <1>5. Joins(Chosen(ab, ops), Chosen(a, ops), Chosen(b, ops)) /\ Joins(Chosen(abc, ops), Chosen(ab, ops), Chosen(c, ops))
    BY <1>2, <1>4, ChosenJoin, Zenon
  <1>6. abc \in Seq(Replies)
    BY <1>2, <1>3
  <1> QED
    BY <1>1, <1>3, <1>5, <1>6 DEF Joins, Row

(* Where an element of three sequences in a row is.                         *)
ComesFrom(i, v, w, a, b) ==
    \/ \E j \in 1..Len(w) : v[i] = w[j]
    \/ \E j \in 1..Len(a) : v[i] = a[j]
    \/ \E j \in 1..Len(b) : v[i] = b[j] /\ (j = Len(b) => i = Len(v))

(* A frame of three sequences in a row is one of theirs.                    *)
LEMMA InRow ==
    ASSUME NEW w \in Seq(Replies), NEW a \in Seq(Replies), NEW b \in Seq(Replies), NEW v, Row(v, w, a, b),
           NEW i \in 1..Len(v)
    PROVE  ComesFrom(i, v, w, a, b)
  <1>1. PICK u : u = w \o a
    OBVIOUS
  <1>2. u \in Seq(Replies) /\ v = u \o b
    BY <1>1 DEF Row
  <1>3. \/ i \in 1..Len(u) /\ v[i] = u[i]
        \/ i - Len(u) \in 1..Len(b) /\ v[i] = b[i - Len(u)]
    BY <1>2, InJoin
  <1>4. CASE i \in 1..Len(u) /\ v[i] = u[i]
    <2>1. \/ i \in 1..Len(w) /\ u[i] = w[i]
          \/ i - Len(w) \in 1..Len(a) /\ u[i] = a[i - Len(w)]
      BY <1>1, <1>4, InJoin
    <2> QED
      BY <2>1, <1>4 DEF ComesFrom
  <1>5. CASE i - Len(u) \in 1..Len(b) /\ v[i] = b[i - Len(u)]
    <2>1. Len(u) \in Nat /\ Len(b) \in Nat /\ Len(v) = Len(u) + Len(b) /\ i \in Int
      BY <1>2
    <2>2. i - Len(u) = Len(b) => i = Len(v)
      BY <2>1
    <2> QED
      BY <2>2, <1>5 DEF ComesFrom
  <1> QED
    BY <1>3, <1>4, <1>5

(* What has been written is what was to be.                                 *)
Replied(v, s, k, r) ==
    /\ v \in Seq(Replies)
    /\ Chosen(v, Texts) = Messages(k) /\ Chosen(v, {"PONG"}) = Pongs(k)
    /\ \A i \in 1..Len(v) : v[i].opcode = "CLOSE" => i = Len(v) /\ s.c.closed_
    /\ s.c.closed_ /\ k < r /\ ~HeaderRefused(frames[k + 1]) => Chosen(v, {"CLOSE"}) # <<>>

(* What the loop has written, behind what earlier turns had.                *)
LEMMA LoopAnswers ==
    ASSUME NEW w \in Seq(Replies), NEW e, NEW p, e = Chosen(w, Texts), p = Chosen(w, {"PONG"}),
           NoClose(w),
           NEW s, NEW k \in Nat, NEW r, TurnInv(s, k, r, e, p),
           NEW v, Row(v, w, s.echoes, s.output)
    PROVE  Replied(v, s, k, r)
  <1>1. PICK a : a = s.echoes
    OBVIOUS
  <1>2. PICK b : b = s.output
    OBVIOUS
  <1>3. a \in Seq(Replies) /\ b \in Seq(Replies) /\ Row(v, w, a, b)
    BY <1>1, <1>2 DEF TurnInv, Locals
  <1>4. ASSUME NEW ops
        PROVE  /\ Chosen(v, ops) = (Chosen(w, ops) \o Chosen(a, ops)) \o Chosen(b, ops)
               /\ Chosen(w, ops) \in Seq(Replies) /\ Chosen(a, ops) \in Seq(Replies) /\ Chosen(b, ops) \in Seq(Replies)
    <2>1. Chosen(w, ops) \in Seq(Replies) /\ Chosen(a, ops) \in Seq(Replies) /\ Chosen(b, ops) \in Seq(Replies)
      BY <1>3, ChosenType
    <2>2. Row(Chosen(v, ops), Chosen(w, ops), Chosen(a, ops), Chosen(b, ops))
      BY <1>3, ChosenThree, Zenon
    <2> QED
      BY <2>1, <2>2 DEF Row
  <1>5. v \in Seq(Replies)
    BY <1>3, ChosenThree, Zenon
  <1>6. /\ e \o Chosen(a, Texts) = Messages(k) /\ p \o Chosen(b, {"PONG"}) = Pongs(k)
        /\ Chosen(b, Texts) = <<>> /\ Chosen(a, {"PONG"}) = <<>>
        /\ \A i \in 1..Len(a) : a[i].opcode \in Texts
        /\ \A i \in 1..Len(b) : b[i].opcode = "CLOSE" => i = Len(b) /\ s.c.closed_
        /\ s.c.closed_ /\ k < r /\ ~HeaderRefused(frames[k + 1]) => Chosen(b, {"CLOSE"}) # <<>>
    BY <1>1, <1>2 DEF TurnInv, Written
  <1>7. Chosen(v, Texts) = Messages(k)
    <2>1. PICK x : x = Chosen(w, Texts)
      OBVIOUS
    <2>2. PICK y : y = Chosen(a, Texts)
      OBVIOUS
    <2>3. x \in Seq(Replies) /\ y \in Seq(Replies)
      BY <2>1, <2>2, <1>4
    <2>4. (x \o y) \o <<>> = x \o y
      BY <2>3
    <2>5. Chosen(v, Texts) = (x \o y) \o <<>>
      BY <2>1, <2>2, <1>4, <1>6
    <2>6. x \o y = Messages(k)
      BY <2>1, <2>2, <1>6
    <2> QED
      BY <2>4, <2>5, <2>6
  <1>8. Chosen(v, {"PONG"}) = Pongs(k)
    <2>1. PICK x : x = Chosen(w, {"PONG"})
      OBVIOUS
    <2>2. PICK y : y = Chosen(b, {"PONG"})
      OBVIOUS
    <2>3. x \in Seq(Replies) /\ y \in Seq(Replies)
      BY <2>1, <2>2, <1>4
    <2>4. (x \o <<>>) \o y = x \o y
      BY <2>3
    <2>5. Chosen(v, {"PONG"}) = (x \o <<>>) \o y
      BY <2>1, <2>2, <1>4, <1>6
    <2>6. x \o y = Pongs(k)
      BY <2>1, <2>2, <1>6
    <2> QED
      BY <2>4, <2>5, <2>6
  <1>9. ASSUME NEW i \in 1..Len(v), v[i].opcode = "CLOSE" PROVE i = Len(v) /\ s.c.closed_
    <2>1. ComesFrom(i, v, w, a, b)
      BY <1>3, InRow
    <2>2. ~\E j \in 1..Len(w) : v[i] = w[j]
      BY <1>9 DEF NoClose
    <2>3. ~\E j \in 1..Len(a) : v[i] = a[j]
      BY <1>6, <1>9 DEF Texts
    <2> QED
      BY <2>1, <2>2, <2>3, <1>6, <1>9 DEF ComesFrom
  <1>10. ASSUME Chosen(b, {"CLOSE"}) # <<>> PROVE Chosen(v, {"CLOSE"}) # <<>>
    <2>1. PICK x : x = Chosen(w, {"CLOSE"}) \o Chosen(a, {"CLOSE"})
      OBVIOUS
    <2>2. PICK y : y = Chosen(b, {"CLOSE"})
      OBVIOUS
    <2>3. x \in Seq(Replies) /\ y \in Seq(Replies) /\ y # <<>>
      BY <2>1, <2>2, <1>4, <1>10
    <2>4. x \o y # <<>>
      BY <2>3
    <2> QED
      BY <2>1, <2>2, <2>4, <1>4
  <1> QED
    BY <1>5, <1>6, <1>7, <1>8, <1>9, <1>10 DEF Replied

(* A read and process_input().                                              *)
LEMMA InputKeeps ==
    ASSUME WsInv, NEW n \in Nat, ProcessInput(n)
    PROVE  WsInv'
  <1>1. PICK upto : upto = read + n
    OBVIOUS
  <1>2. PICK s : s = Turns(ws, upto)
    OBVIOUS
  <1>3. /\ ~ws.closed_ /\ read' = upto /\ upto <= 2 * Len(frames) /\ frames' = frames
        /\ ws' = s.c /\ replies' = replies \o s.echoes \o s.output /\ WsShape
    BY <1>1, <1>2 DEF ProcessInput, WsInv
  <1>4. upto \in Nat /\ read <= upto /\ read \in Nat
    BY <1>1, <1>3 DEF WsShape
  <1>5. PICK r : r = upto \div 2
    OBVIOUS
  <1>6. r \in Nat /\ UpToFrame(upto, r)
    <2>1. r \in Nat /\ (upto = 2 * r \/ upto = 2 * r + 1)
      BY <1>4, <1>5, HalvesOf
    <2> QED
      BY <2>1, <1>3, <1>4 DEF WsShape, UpToFrame
  <1>7. PICK e : e = Sent(Texts)
    OBVIOUS
  <1>8. PICK p : p = Sent({"PONG"})
    OBVIOUS
  <1>9. e \in Seq(Replies) /\ p \in Seq(Replies)
    BY <1>3, <1>7, <1>8, ChosenType DEF WsShape, Sent
  <1>10. s \in LoopStates(r, e, p) /\ Stopped(s, upto)
    <2>1. PICK c : c = ws
      OBVIOUS
    <2>2. Local(c) \in LoopStates(r, e, p)
      BY <2>1, <1>3, <1>4, <1>6, <1>7, <1>8, LoopStarts
    <2>3. Turns(c, upto) \in LoopStates(r, e, p) /\ Stopped(Turns(c, upto), upto)
      BY <2>2, <1>6, <1>9, LoopEnds
    <2> QED
      BY <2>1, <2>3, <1>2
  <1>11. PICK k \in Nat : TurnInv(s, k, r, e, p)
    BY <1>10 DEF LoopStates
  <1>12. PICK w : w = replies
    OBVIOUS
  <1>13. w \in Seq(Replies) /\ NoClose(w)
    BY <1>3, <1>12 DEF NoClose, WsInv, WsShape, AnswersOf
  <1>14. PICK v : v = replies'
    OBVIOUS
  <1>15. Replied(v, s, k, r)
    <2>1. e = Chosen(w, Texts) /\ p = Chosen(w, {"PONG"}) /\ Row(v, w, s.echoes, s.output)
      BY <1>3, <1>7, <1>8, <1>12, <1>14 DEF Sent, Row
    <2> QED
      BY <2>1, <1>11, <1>13, LoopAnswers, Zenon
  <1>16. WsShape'
    <2>1. s.c \in Connections
      BY <1>11 DEF TurnInv, Locals
    <2> QED
      BY <2>1, <1>3, <1>4, <1>14, <1>15 DEF WsShape, Replied
  <1>17. Received' = r
    BY <1>3, <1>5 DEF Received
  <1>18. k \in 0..r /\ r <= Len(frames) /\ Len(frames) \in Nat /\ KeptIs(s.c, k, r)
    <2>1. KeptIs(s.c, k, r) /\ k \in 0..r
      BY <1>11 DEF TurnInv, KeptIs
    <2>2. PICK m : m = Len(frames)
      OBVIOUS
    <2>3. m \in Nat /\ upto <= 2 * m /\ (upto = 2 * r \/ upto = 2 * r + 1)
      BY <2>2, <1>3, <1>6 DEF UpToFrame, WsShape
    <2>4. r <= m
      BY <2>3, <1>6
    <2> QED
      BY <2>1, <2>2, <2>3, <2>4
  <1>19. ~s.c.closed_ => k = r
    <2> SUFFICES ASSUME ~s.c.closed_ PROVE k = r
      OBVIOUS
    <2>1. s.c.done + 2 > upto
      BY <1>10 DEF Stopped
    <2>2. k <= r /\ (~(s.c.done + 2 > upto) <=> k < r)
      BY <1>6, <1>11, NextOf
    <2> QED
      BY <2>1, <2>2, <1>6
  <1>20. MoreFrames
    BY <1>3 DEF MoreFrames, WsShape
  <1>21. k \in 0..Len(frames) /\ (\A i \in 1..k : i \in 1..Len(frames)) /\ (k < r => k + 1 \in 1..Len(frames))
    <2>1. PICK m : m = Len(frames)
      OBVIOUS
    <2>2. k \in 0..r /\ r <= m /\ m \in Nat /\ r \in Nat
      BY <2>1, <1>6, <1>18
    <2>3. k \in 0..m /\ (\A i \in 1..k : i \in 1..m) /\ (k < r => k + 1 \in 1..m)
      BY <2>2
    <2> QED
      BY <2>1, <2>3
  <1>22. Messages(k)' = Messages(k) /\ Pongs(k)' = Pongs(k)
    BY <1>20, <1>21, AnswersKept
  <1>23. \A i \in 1..k : ~Ends(i)'
    BY <1>18, <1>20, <1>21, EndsKept DEF KeptIs
  <1>24. s.c.closed_ /\ k < r => Ends(k + 1)'
    BY <1>18, <1>20, <1>21, EndsKept DEF KeptIs
  <1>25. k < r => (HeaderRefused(frames[k + 1])' <=> HeaderRefused(frames[k + 1]))
    BY <1>20, <1>21, EndsKept
  <1>26. ~s.c.closed_ => Fragment(ws, k)'
    <2> SUFFICES ASSUME ~s.c.closed_ PROVE Fragment(ws, k)'
      OBVIOUS
    <2>1. PICK c : c = s.c
      OBVIOUS
    <2>2. Fragment(c, k)
      BY <2>1, <1>18 DEF KeptIs
    <2>3. /\ c.in_fragment_ <=> InMessage(k + 1)'
          /\ c.in_fragment_ => /\ c.message_buffer_ = MessageUpTo(k)'
                               /\ c.fragment_opcode_ = frames'[FirstOf(k)'].opcode
      BY <2>2, <1>20, <1>21, FragmentKept
    <2> QED
      BY <2>1, <2>3, <1>3 DEF Fragment
  <1>27. KeptIs(ws, k, Received)'
    BY <1>3, <1>17, <1>18, <1>23, <1>24, <1>26 DEF KeptIs
  <1>28. ASSUME NEW ops PROVE Sent(ops)' = Chosen(v, ops)
    BY <1>14 DEF Sent, Chosen
  <1>29. AnswersOf(k)'
    <2>1. Sent(Texts)' = Messages(k)' /\ Sent({"PONG"})' = Pongs(k)'
      BY <1>15, <1>22, <1>28 DEF Replied
    <2>2. \A i \in 1..Len(replies') : replies'[i].opcode = "CLOSE" => i = Len(replies') /\ ws'.closed_
      BY <1>3, <1>14, <1>15 DEF Replied
    <2>3. ws'.closed_ /\ k < r /\ ~HeaderRefused(frames[k + 1])' => Sent({"CLOSE"})' # <<>>
      BY <1>3, <1>15, <1>25, <1>28 DEF Replied
    <2> QED
      BY <2>1, <2>2, <2>3, <1>3, <1>17, <1>19, <1>27 DEF AnswersOf, Texts
  <1> QED
    BY <1>16, <1>29 DEF WsInv

(* A step of the exchange.                                                  *)
LEMMA WsInvStep == WsInv /\ [Next]_vars => WsInv'
  <1> SUFFICES ASSUME WsInv, [Next]_vars PROVE WsInv'
    OBVIOUS
  <1>1. ASSUME NEW f \in Frames, Client(f) PROVE WsInv'
    BY <1>1, ClientKeeps DEF Client
  <1>2. ASSUME NEW n \in 1..(2 * Len(frames) - read), WebSocket(n) PROVE WsInv'
    <2>1. n \in Nat
      BY DEF WsInv, WsShape
    <2> QED
      BY <2>1, <1>2, InputKeeps DEF WebSocket
  <1>3. ASSUME UNCHANGED wsVars PROVE WsInv'
    <2>1. frames' = frames /\ read' = read /\ ws' = ws /\ replies' = replies
      BY <1>3 DEF wsVars
    <2>2. \A i : DataBefore(i)' = DataBefore(i)
      BY <2>1 DEF DataBefore, Control
    <2>3. \A i : InMessage(i)' <=> InMessage(i)
      BY <2>1, <2>2 DEF InMessage
    <2>4. \A i : FirstOf(i)' = FirstOf(i)
      <3> TAKE i
      <3>1. FirstOf(i)' = Max({j \in 1..i : frames'[j].opcode \notin Control /\ ~InMessage(j)'})
        BY DEF FirstOf, Control
      <3> QED
        BY <3>1, <2>1, <2>3 DEF FirstOf
    <2>5. \A i : MessageUpTo(i)' = MessageUpTo(i)
      BY <2>1, <2>4 DEF MessageUpTo, DataFrom, Control
    <2>6. \A i : (Ends(i)' <=> Ends(i)) /\ (HeaderRefused(frames[i])' <=> HeaderRefused(frames[i]))
      BY <2>1, <2>3, <2>5 DEF Ends, HeaderRefused
    <2>7. \A k : (Fragment(ws, k)' <=> Fragment(ws, k)) /\ Received' = Received
      BY <2>1, <2>3, <2>4, <2>5 DEF Fragment, Received
    <2>8. \A k : KeptIs(ws, k, Received)' <=> KeptIs(ws, k, Received)
      BY <2>1, <2>6, <2>7 DEF KeptIs
    <2>9. \A k : Messages(k)' = Messages(k) /\ Pongs(k)' = Pongs(k)
      BY <2>1, <2>4, <2>5 DEF Messages, Pongs, Frame, Control
    <2>10. \A ops : Sent(ops)' = Sent(ops)
      BY <2>1 DEF Sent, Chosen
    <2>11. \A k : AnswersOf(k)' <=> AnswersOf(k)
      BY <2>1, <2>6, <2>7, <2>8, <2>9, <2>10 DEF AnswersOf, Texts
    <2> QED
      BY <2>1, <2>11 DEF WsInv, WsShape
  <1>4. ASSUME UNCHANGED vars PROVE UNCHANGED wsVars
    BY <1>4 DEF vars
  <1> QED
    BY <1>1, <1>2, <1>3, <1>4 DEF Next, Read, InspectRequest, ReadStops, FastCGI, StaticFile

(* The invariant of the WebSocket holds in every exchange.                  *)
THEOREM WsInvariant == Spec => []WsInv
  <1>1. Init => WsInv
    BY WsStarts DEF Init
  <1> QED
    BY <1>1, WsInvStep, PTL DEF Spec

(* Whatever frames a client sends and wherever the reads cut them, its      *)
(* messages are echoed whole and in order, every PING is answered, and      *)
(* nothing follows the close process_input() returns.                       *)
THEOREM WsAnsweredInOrder == Spec => []AnsweredInOrder
  BY WsInvariant, WsInvAnswers, PTL

-----------------------------------------------------------------------------
(* Sums.                                                                    *)

(* u[k] is the sum of the first k values of v.                              *)
Sums(n, v, u) == u = [k \in 0..n |-> IF k = 0 THEN 0 ELSE u[k - 1] + v[k]]

(* The sums of naturals exist.                                              *)
LEMMA SumsExist ==
    ASSUME NEW n \in Nat, NEW v \in [1..n -> Nat]
    PROVE  \E u : Sums(n, v, u)
  <1>1. PICK F : F = [k \in 1..n |-> [x \in Nat |-> x + v[k]]]
    OBVIOUS
  <1>2. ASSUME NEW k \in 1..n, NEW x \in Nat PROVE F[k][x] = x + v[k] /\ F[k][x] \in Nat
    <2>1. PICK G : G = [y \in Nat |-> y + v[k]]
      OBVIOUS
    <2>2. F[k] = G
      BY <1>1, <2>1
    <2>3. G[x] = x + v[k] /\ v[k] \in Nat
      BY <2>1
    <2>4. x + v[k] \in Nat
      BY <2>3
    <2> QED
      BY <2>2, <2>3, <2>4
  <1>3. PICK g : Iterates(n, Nat, 0, F, g)
    BY <1>2, Iterated
  <1>4. ASSUME NEW k \in 1..n PROVE g[k] = g[k - 1] + v[k]
    <2>1. g[k - 1] \in Nat
      BY <1>3 DEF Iterates
    <2> QED
      BY <2>1, <1>2, <1>3 DEF Iterates
  <1>5. \A k \in 0..n : g[k] = IF k = 0 THEN 0 ELSE g[k - 1] + v[k]
    <2> TAKE k \in 0..n
    <2>1. k = 0 \/ k \in 1..n
      OBVIOUS
    <2> QED
      BY <2>1, <1>3, <1>4 DEF Iterates
  <1>6. Sums(n, v, g)
    BY <1>3, <1>5 DEF Sums, Iterates
  <1> QED
    BY <1>6

(* They go up value by value.                                               *)
LEMMA SumsStep ==
    ASSUME NEW n \in Nat, NEW v \in [1..n -> Nat], NEW u, Sums(n, v, u)
    PROVE  /\ u[0] = 0
           /\ \A k \in 1..n : u[k] = u[k - 1] + v[k]
           /\ \A k \in 0..n : u[k] \in Nat
  <1>1. \A k \in 0..n : u[k] = IF k = 0 THEN 0 ELSE u[k - 1] + v[k]
    BY DEF Sums
  <1>2. u[0] = 0
    BY <1>1
  <1>3. \A k \in 1..n : u[k] = u[k - 1] + v[k]
    BY <1>1
  <1> DEFINE S == {k \in 0..n : u[k] \in Nat}
  <1>4. 0 \in S
    BY <1>2
  <1>5. ASSUME NEW k \in 1..n, k - 1 \in S PROVE k \in S
    <2>1. u[k - 1] \in Nat /\ v[k] \in Nat
      BY <1>5
    <2>2. u[k] = u[k - 1] + v[k]
      BY <1>3
    <2>3. u[k] \in Nat
      BY <2>1, <2>2
    <2> QED
      BY <2>3
  <1>6. 0..n \subseteq S
    <2> HIDE DEF S
    <2> QED
      BY <1>4, <1>5, UpTo
  <1> QED
    BY <1>2, <1>3, <1>6

-----------------------------------------------------------------------------
(* The records of an application on the wire.                               *)
Wires == [type : STRING, content : Seq(STRING), padding : Nat]

(* A record.                                                                *)
LEMMA WireIs ==
    ASSUME answer \in Seq(Wires), NEW i \in 1..Len(answer)
    PROVE  /\ answer[i] \in Wires /\ answer[i].content \in Seq(STRING)
           /\ answer[i].padding \in Nat /\ Len(answer[i].content) \in Nat
           /\ HeaderSize \in Nat /\ HeaderSize > 0 /\ SizeOf(answer[i]) \in Nat
           /\ SizeOf(answer[i]) = HeaderSize + Len(answer[i].content) + answer[i].padding
  <1>1. answer[i] \in Wires
    OBVIOUS
  <1>2. answer[i].content \in Seq(STRING) /\ answer[i].padding \in Nat
    BY <1>1 DEF Wires
  <1>3. Len(answer[i].content) \in Nat
    BY <1>2
  <1>4. HeaderSize \in Nat /\ HeaderSize > 0
    BY FcgiAssumption
  <1>5. SizeOf(answer[i]) = HeaderSize + Len(answer[i].content) + answer[i].padding
    BY DEF SizeOf
  <1>6. SizeOf(answer[i]) \in Nat
    BY <1>2, <1>3, <1>4, <1>5
  <1> QED
    BY <1>1, <1>2, <1>3, <1>4, <1>5, <1>6

(* Where they end.                                                          *)
LEMMA EndOfStep ==
    ASSUME answer \in Seq(Wires)
    PROVE  /\ EndOf(0) = 0
           /\ \A i \in 1..Len(answer) : EndOf(i) = EndOf(i - 1) + SizeOf(answer[i])
           /\ \A i \in 0..Len(answer) : EndOf(i) \in Nat
  <1>0. Len(answer) \in Nat
    OBVIOUS
  <1>a. PICK n : n = Len(answer)
    OBVIOUS
  <1>1. PICK v : v = [i \in 1..n |-> SizeOf(answer[i])]
    OBVIOUS
  <1>2. v \in [1..n -> Nat] /\ n \in Nat
    BY <1>0, <1>a, <1>1, WireIs
  <1> DEFINE P(u) == u = [k \in 0..n |-> IF k = 0 THEN 0 ELSE u[k - 1] + SizeOf(answer[k])]
  <1>3. ASSUME NEW u PROVE P(u) <=> Sums(n, v, u)
    <2>1. \A k \in 0..n : k # 0 => v[k] = SizeOf(answer[k])
      BY <1>1, <1>2
    <2>2. [k \in 0..n |-> IF k = 0 THEN 0 ELSE u[k - 1] + SizeOf(answer[k])]
            = [k \in 0..n |-> IF k = 0 THEN 0 ELSE u[k - 1] + v[k]]
      BY <2>1
    <2> QED
      BY <2>2 DEF Sums
  <1>4. PICK g : P(g)
    BY <1>2, <1>3, SumsExist
  <1>5. PICK u : u = CHOOSE w : P(w)
    OBVIOUS
  <1>6. P(u)
    BY <1>4, <1>5
  <1>7. \A i : EndOf(i) = u[i]
    BY <1>a, <1>5 DEF EndOf
  <1> HIDE DEF P
  <1>8. /\ u[0] = 0 /\ \A k \in 1..n : u[k] = u[k - 1] + v[k]
        /\ \A k \in 0..n : u[k] \in Nat
    BY <1>2, <1>3, <1>6, SumsStep
  <1> QED
    BY <1>1, <1>7, <1>8, <1>a

(* In order.                                                                *)
LEMMA EndOfOrder ==
    ASSUME answer \in Seq(Wires), NEW i \in 0..Len(answer), NEW k \in 0..Len(answer), i <= k
    PROVE  EndOf(i) <= EndOf(k)
  <1> DEFINE S == {d \in 0..Len(answer) : i <= d => EndOf(i) <= EndOf(d)}
  <1>0. Len(answer) \in Nat /\ EndOf(i) \in Nat
    BY EndOfStep
  <1>1. 0 \in S
    <2>1. i <= 0 => i = 0
      BY <1>0
    <2> QED
      BY <2>1, <1>0
  <1>2. ASSUME NEW d \in 1..Len(answer), d - 1 \in S PROVE d \in S
    <2>1. EndOf(d) = EndOf(d - 1) + SizeOf(answer[d]) /\ SizeOf(answer[d]) \in Nat /\ EndOf(d - 1) \in Nat
      <3>1. d - 1 \in 0..Len(answer)
        BY <1>0
      <3> QED
        BY <3>1, EndOfStep, WireIs
    <2>2. EndOf(d - 1) <= EndOf(d)
      BY <2>1
    <2>3. CASE i = d
      BY <2>3, <1>0
    <2>4. CASE i # d /\ i <= d
      <3>1. i <= d - 1
        BY <2>4, <1>0
      <3>2. EndOf(i) <= EndOf(d - 1)
        BY <3>1, <1>2
      <3>3. EndOf(i) <= EndOf(d)
        BY <3>2, <2>1, <1>0
      <3> QED
        BY <3>3, <1>0
    <2>5. CASE ~(i <= d)
      BY <2>5, <1>0
    <2> QED
      BY <2>3, <2>4, <2>5
  <1>3. 0..Len(answer) \subseteq S
    <2> HIDE DEF S
    <2> QED
      BY <1>0, <1>1, <1>2, UpTo
  <1> QED
    BY <1>3

(* What Record is while record j is read.                                   *)
LEMMA RecordIs ==
    ASSUME answer \in Seq(Wires), NEW j \in 1..Len(answer), at \in Nat, EndOf(j - 1) <= at, at < EndOf(j)
    PROVE  Record = answer[j]
  <1>0. Len(answer) \in Nat /\ DOMAIN answer = 1..Len(answer) /\ j - 1 \in 0..Len(answer)
    OBVIOUS
  <1>1. PICK T : T = {i \in DOMAIN answer : at < EndOf(i)}
    OBVIOUS
  <1>2. j \in T
    BY <1>0, <1>1
  <1>3. ASSUME NEW i \in T PROVE i \in Nat /\ j <= i
    <2>1. i \in 1..Len(answer) /\ at < EndOf(i)
      BY <1>0, <1>1
    <2>2. CASE i < j
      <3>1. i \in 0..Len(answer) /\ i <= j - 1
        BY <2>1, <2>2, <1>0
      <3>2. EndOf(i) <= EndOf(j - 1) /\ EndOf(i) \in Nat /\ EndOf(j - 1) \in Nat
        BY <3>1, <1>0, EndOfOrder, EndOfStep
      <3> QED
        BY <3>2, <2>1
    <2> QED
      BY <2>1, <2>2, <1>0
  <1>4. Min(T) \in T /\ \A y \in T : Min(T) <= y
    BY <1>2, <1>3 DEF Min
  <1>5. Min(T) = j
    <2>1. PICK m : m = Min(T)
      OBVIOUS
    <2>2. m \in Nat /\ j <= m /\ m <= j
      BY <2>1, <1>2, <1>3, <1>4
    <2> QED
      BY <2>1, <2>2
  <1> QED
    BY <1>1, <1>5 DEF Record

(* What has been taken once record k is, its padding excepted.              *)
LEMMA TakenIs ==
    ASSUME answer \in Seq(Wires), NEW k \in 1..Len(answer), at \in Nat,
           EndOf(k) - answer[k].padding <= at, at <= EndOf(k)
    PROVE  Taken = k
  <1>0. Len(answer) \in Nat /\ DOMAIN answer = 1..Len(answer)
    OBVIOUS
  <1>1. PICK T : T = {0} \cup {i \in DOMAIN answer : EndOf(i) - answer[i].padding <= at}
    OBVIOUS
  <1>2. k \in T /\ T \subseteq 0..Len(answer)
    BY <1>0, <1>1
  <1>3. ASSUME NEW i \in T PROVE i <= k
    <2>1. i \in 0..Len(answer)
      BY <1>2
    <2>2. CASE i > k
      <3>1. i \in 1..Len(answer) /\ EndOf(i) - answer[i].padding <= at /\ i - 1 \in 0..Len(answer)
            /\ k \in 0..Len(answer) /\ k <= i - 1
        BY <2>1, <2>2, <1>0, <1>1
      <3>2. EndOf(i) = EndOf(i - 1) + SizeOf(answer[i]) /\ EndOf(i - 1) \in Nat /\ EndOf(k) \in Nat
        BY <3>1, EndOfStep
      <3>3. EndOf(k) <= EndOf(i - 1)
        BY <3>1, EndOfOrder
      <3>4. /\ answer[i].padding \in Nat /\ Len(answer[i].content) \in Nat /\ HeaderSize \in Nat /\ HeaderSize > 0
            /\ SizeOf(answer[i]) = HeaderSize + Len(answer[i].content) + answer[i].padding
        BY <3>1, WireIs
      <3>5. EndOf(i) - answer[i].padding > EndOf(k)
        <4>1. PICK e : e = EndOf(i - 1)
          OBVIOUS
        <4>2. PICK f : f = EndOf(i)
          OBVIOUS
        <4>3. PICK g : g = EndOf(k)
          OBVIOUS
        <4>4. PICK c : c = Len(answer[i].content)
          OBVIOUS
        <4>5. PICK d : d = answer[i].padding
          OBVIOUS
        <4>6. /\ f = e + (HeaderSize + c + d) /\ e \in Nat /\ g \in Nat /\ g <= e
              /\ c \in Nat /\ d \in Nat /\ HeaderSize \in Nat /\ HeaderSize > 0
          BY <4>1, <4>2, <4>3, <4>4, <4>5, <3>2, <3>3, <3>4
        <4>7. f - d > g
          BY ONLY <4>6
        <4> QED
          BY <4>2, <4>3, <4>5, <4>7
      <3> QED
        BY <3>1, <3>2, <3>4, <3>5
    <2> QED
      BY <2>1, <2>2, <1>0
  <1>4. Max(T) \in T /\ \A x \in T : x <= Max(T)
    BY <1>0, <1>2, MaxIn
  <1>5. Max(T) = k
    <2>1. PICK m : m = Max(T)
      OBVIOUS
    <2>2. m \in T /\ \A x \in T : x <= m
      BY <2>1, <1>4
    <2>3. m <= k /\ k <= m
      BY <2>2, <1>2, <1>3
    <2>4. m \in 0..Len(answer)
      BY <2>2, <1>2
    <2>5. m \in Nat
      BY <2>4, <1>0
    <2> QED
      BY <2>1, <2>3, <2>5
  <1> QED
    BY <1>1, <1>5 DEF Taken

(* What a record adds to a stream.                                          *)
Part(r, type) == IF r.type = type THEN r.content ELSE <<>>

(* The stream record by record.                                             *)
LEMMA ContentStep ==
    ASSUME NEW records, NEW m \in Nat, NEW A, NEW type,
           \A i \in 1..m : records[i].content \in Seq(A), NEW n \in 1..m
    PROVE  /\ ContentOf(records, n, type) = ContentOf(records, n - 1, type) \o Part(records[n], type)
           /\ ContentOf(records, n, type) \in Seq(A) /\ ContentOf(records, n - 1, type) \in Seq(A)
  <1>1. ASSUME NEW j \in 1..m PROVE Part(records[j], type) \in Seq(A)
    <2>1. records[j].content \in Seq(A) /\ <<>> \in Seq(A)
      OBVIOUS
    <2> QED
      BY <2>1 DEF Part
  <1>2. PICK c : c = [j \in 1..n |-> Part(records[j], type)]
    OBVIOUS
  <1>3. PICK s : s = [j \in 1..(n - 1) |-> Part(records[j], type)]
    OBVIOUS
  <1>4. c \in Seq(Seq(A)) /\ s \in Seq(Seq(A)) /\ Len(c) = n /\ Len(s) = n - 1
    <2>1. n \in Nat /\ n - 1 \in Nat /\ (\A j \in 1..n : j \in 1..m) /\ \A j \in 1..(n - 1) : j \in 1..m
      OBVIOUS
    <2>2. (\A j \in 1..n : Part(records[j], type) \in Seq(A)) /\ \A j \in 1..(n - 1) : Part(records[j], type) \in Seq(A)
      BY <2>1, <1>1
    <2> QED
      BY <2>1, <2>2, <1>2, <1>3
  <1>5. OneMore(c, s) /\ c[Len(c)] = Part(records[n], type)
    BY <1>2, <1>3, <1>4 DEF OneMore
  <1>6. FlattenSeq(c) = FlattenSeq(s) \o Part(records[n], type)
    BY <1>4, <1>5, FlattenMore
  <1>7. FlattenSeq(c) \in Seq(A) /\ FlattenSeq(s) \in Seq(A)
    BY <1>4, FlattenType
  <1>8. FlattenSeq(c) = ContentOf(records, n, type) /\ FlattenSeq(s) = ContentOf(records, n - 1, type)
    BY <1>2, <1>3 DEF ContentOf, Part
  <1> QED
    BY <1>6, <1>7, <1>8

(* Nothing at first.                                                        *)
LEMMA ContentOfNone ==
    ASSUME NEW records, NEW type PROVE ContentOf(records, 0, type) = <<>>
  <1>1. PICK c : c = [j \in 1..0 |-> Part(records[j], type)]
    OBVIOUS
  <1>2. c = <<>> /\ Len(c) = 0
    BY <1>1
  <1>3. FlattenSeq(c) = <<>>
    BY <1>2, FlattenNone
  <1> QED
    BY <1>1, <1>3 DEF ContentOf, Part

-----------------------------------------------------------------------------
(* read_response(): at t, g units into a part, with o put together.         *)
FcgiPoints == {"idle", "write", "header", "content", "padding", "answered", "failed"}

(* The first n records have been taken.                                     *)
TakenFrom(n, o) ==
    /\ o = ContentOf(answer, n, "STDOUT")
    /\ \A i \in 1..n : answer[i].type # "END_REQUEST"
Fits(j, o) == Len(o) + Len(answer[j].content) <= MaxFcgiResponse

AtHeader(n, t, go, o) ==
    /\ TakenFrom(n, o)
    /\ t <= EndOf(n) /\ (go \/ t = EndOf(n))
    /\ n > 0 => EndOf(n) - answer[n].padding <= t
AtContent(j, t, g, o) ==
    /\ TakenFrom(j - 1, o) /\ Fits(j, o)
    /\ t = EndOf(j - 1) + HeaderSize + g /\ g < Len(answer[j].content)
AtPadding(j, t, g, o) ==
    /\ TakenFrom(j - 1, o) /\ Fits(j, o)
    /\ t = EndOf(j - 1) + HeaderSize + Len(answer[j].content) + g /\ g < answer[j].padding
AnsweredBy(n, t, go, o) ==
    /\ o = ContentOf(answer, n, "STDOUT")
    /\ \A i \in 1..(n - 1) : answer[i].type # "END_REQUEST"
    /\ EndOf(n) - answer[n].padding <= t /\ t <= EndOf(n)
    /\ go \/ answer[n].type = "END_REQUEST"

ReadAt(p, t, g, go, o) ==
    /\ p \in FcgiPoints /\ t \in Nat /\ g \in Nat /\ go \in BOOLEAN /\ o \in Seq(STRING)
    /\ t <= EndOf(Len(answer)) /\ Len(o) <= MaxFcgiResponse
    /\ p \in {"idle", "write"} => t = 0 /\ g = 0 /\ ~go /\ o = <<>>
    /\ p = "header" => \E n \in 0..Len(answer) : AtHeader(n, t, go, o)
    /\ p = "content" => \E j \in 1..Len(answer) : AtContent(j, t, g, o)
    /\ p = "padding" => \E j \in 1..Len(answer) : AtPadding(j, t, g, o)
    /\ p = "answered" => \E n \in 1..Len(answer) : AnsweredBy(n, t, go, o)
ReadInv == answer \in Seq(Wires) /\ ReadAt(fpc, at, got, gone, stdout_data)

(* It says what was to be shown.                                            *)
LEMMA ReadInvAnswer == ReadInv => AnswerIntact
  <1> SUFFICES ASSUME ReadInv, fpc = "answered"
               PROVE  /\ stdout_data = ContentOf(answer, Taken, "STDOUT")
                      /\ \A i \in 1..(Taken - 1) : answer[i].type # "END_REQUEST"
                      /\ Taken > 0 /\ (gone \/ answer[Taken].type = "END_REQUEST")
    BY DEF AnswerIntact
  <1>1. answer \in Seq(Wires) /\ at \in Nat
    BY DEF ReadInv, ReadAt
  <1>2. PICK n \in 1..Len(answer) : AnsweredBy(n, at, gone, stdout_data)
    BY DEF ReadInv, ReadAt
  <1>3. Taken = n
    BY <1>1, <1>2, TakenIs DEF AnsweredBy
  <1>4. n > 0
    BY <1>1, <1>2
  <1> QED
    BY <1>2, <1>3, <1>4 DEF AnsweredBy

(* The next record.                                                         *)
LEMMA ContentNext ==
    ASSUME answer \in Seq(Wires), NEW j \in 1..Len(answer), NEW o, NEW o2, TakenFrom(j - 1, o),
           o2 = IF answer[j].type = "STDOUT" THEN o \o answer[j].content ELSE o
    PROVE  o2 = ContentOf(answer, j, "STDOUT") /\ o2 \in Seq(STRING) /\ o \in Seq(STRING)
  <1>1. Len(answer) \in Nat /\ \A i \in 1..Len(answer) : answer[i].content \in Seq(STRING)
    BY WireIs
  <1>2. /\ ContentOf(answer, j, "STDOUT") = ContentOf(answer, j - 1, "STDOUT") \o Part(answer[j], "STDOUT")
        /\ ContentOf(answer, j, "STDOUT") \in Seq(STRING) /\ ContentOf(answer, j - 1, "STDOUT") \in Seq(STRING)
    BY <1>1, ContentStep
  <1>3. o = ContentOf(answer, j - 1, "STDOUT") /\ o \in Seq(STRING)
    BY <1>2 DEF TakenFrom
  <1>4. CASE answer[j].type = "STDOUT"
    BY <1>2, <1>3, <1>4 DEF Part
  <1>5. CASE answer[j].type # "STDOUT"
    <2>1. o \o <<>> = o
      BY <1>3
    <2> QED
      BY <2>1, <1>2, <1>3, <1>5 DEF Part
  <1> QED
    BY <1>4, <1>5

(* A record is taken.                                                       *)
LEMMA TakeReads ==
    ASSUME answer \in Seq(Wires), NEW j \in 1..Len(answer), NEW o, TakenFrom(j - 1, o), Fits(j, o),
           NEW p2, NEW t2 \in Nat, NEW go2 \in BOOLEAN, NEW o2,
           o2 = IF answer[j].type = "STDOUT" THEN o \o answer[j].content ELSE o,
           p2 = IF answer[j].type = "END_REQUEST" THEN "answered" ELSE "header",
           EndOf(j) - answer[j].padding <= t2, t2 <= EndOf(j), go2 \/ t2 = EndOf(j)
    PROVE  ReadAt(p2, t2, 0, go2, o2)
  <1>0. Len(answer) \in Nat /\ j \in 0..Len(answer) /\ Len(answer) \in 0..Len(answer)
    OBVIOUS
  <1>1. o2 = ContentOf(answer, j, "STDOUT") /\ o2 \in Seq(STRING) /\ o \in Seq(STRING)
    BY ContentNext
  <1>2. Len(o2) <= MaxFcgiResponse
    <2>1. Len(o) \in Nat /\ Len(answer[j].content) \in Nat /\ answer[j].content \in Seq(STRING) /\ MaxFcgiResponse \in Nat
      BY <1>1, WireIs, FcgiAssumption
    <2>2. CASE answer[j].type = "STDOUT"
      <3>1. PICK c : c = answer[j].content
        OBVIOUS
      <3>2. c \in Seq(STRING) /\ o2 = o \o c
        BY <3>1, <2>1, <2>2
      <3>3. Len(o \o c) = Len(o) + Len(c)
        BY <3>2, <1>1, ConcatProperties
      <3>4. Len(o) + Len(c) <= MaxFcgiResponse
        BY <3>1 DEF Fits
      <3> QED
        BY <3>2, <3>3, <3>4
    <2>3. CASE answer[j].type # "STDOUT"
      BY <2>1, <2>3 DEF Fits
    <2> QED
      BY <2>2, <2>3
  <1>3. t2 <= EndOf(Len(answer))
    <2>1. EndOf(j) <= EndOf(Len(answer)) /\ EndOf(j) \in Nat /\ EndOf(Len(answer)) \in Nat
      <3>1. j <= Len(answer)
        BY <1>0
      <3> QED
        BY <3>1, <1>0, EndOfOrder, EndOfStep
    <2> QED
      BY <2>1
  <1>4. \A i \in 1..(j - 1) : answer[i].type # "END_REQUEST"
    BY DEF TakenFrom
  <1>5. CASE answer[j].type = "END_REQUEST"
    <2>1. AnsweredBy(j, t2, go2, o2)
      BY <1>1, <1>4, <1>5 DEF AnsweredBy
    <2>2. p2 = "answered"
      BY <1>5
    <2> QED
      BY <2>1, <2>2, <1>0, <1>1, <1>2, <1>3 DEF ReadAt, FcgiPoints
  <1>6. CASE answer[j].type # "END_REQUEST"
    <2>1. \A i \in 1..j : answer[i].type # "END_REQUEST"
      <3> TAKE i \in 1..j
      <3>1. i = j \/ i \in 1..(j - 1)
        BY <1>0
      <3> QED
        BY <3>1, <1>4, <1>6
    <2>2. AtHeader(j, t2, go2, o2)
      BY <2>1, <1>1 DEF AtHeader, TakenFrom
    <2>3. p2 = "header"
      BY <1>6
    <2> QED
      BY <2>2, <2>3, <1>0, <1>1, <1>2, <1>3 DEF ReadAt, FcgiPoints
  <1> QED
    BY <1>5, <1>6

(* The content is there: the padding, or the record is taken.               *)
LEMMA AfterContentReads ==
    ASSUME answer \in Seq(Wires), NEW j \in 1..Len(answer), TakenFrom(j - 1, stdout_data), Fits(j, stdout_data),
           at' = EndOf(j - 1) + HeaderSize + Len(answer[j].content), at' <= EndOf(Len(answer)),
           AfterContent(answer[j]), gone' \in BOOLEAN, Len(stdout_data) <= MaxFcgiResponse
    PROVE  ReadAt(fpc', at', got', gone', stdout_data')
  <1>0. Len(answer) \in Nat /\ j - 1 \in 0..Len(answer) /\ j \in 0..Len(answer)
    OBVIOUS
  <1>1. PICK r : r = answer[j]
    OBVIOUS
  <1>2. /\ r.padding \in Nat /\ Len(r.content) \in Nat /\ HeaderSize \in Nat /\ SizeOf(r) = HeaderSize + Len(r.content) + r.padding
        /\ EndOf(j - 1) \in Nat /\ EndOf(j) = EndOf(j - 1) + SizeOf(r) /\ EndOf(j) \in Nat
    BY <1>0, <1>1, WireIs, EndOfStep
  <1>3. at' \in Nat /\ EndOf(j) - r.padding <= at' /\ at' <= EndOf(j)
    <2>1. PICK e : e = EndOf(j - 1)
      OBVIOUS
    <2>2. PICK c : c = Len(r.content)
      OBVIOUS
    <2>3. PICK d : d = r.padding
      OBVIOUS
    <2>4. at' = e + HeaderSize + c /\ EndOf(j) = e + (HeaderSize + c + d)
      BY <2>1, <2>2, <2>3, <1>1, <1>2
    <2>5. e \in Nat /\ c \in Nat /\ d \in Nat /\ HeaderSize \in Nat
      BY <2>1, <2>2, <2>3, <1>2
    <2> QED
      BY <2>3, <2>4, <2>5
  <1>4. stdout_data \in Seq(STRING)
    BY ContentNext
  <1>5. CASE r.padding > 0
    <2>1. fpc' = "padding" /\ got' = 0 /\ stdout_data' = stdout_data
      BY <1>1, <1>5 DEF AfterContent
    <2>2. AtPadding(j, at', 0, stdout_data)
      BY <1>1, <1>2, <1>5 DEF AtPadding
    <2> QED
      BY <2>1, <2>2, <1>3, <1>4 DEF ReadAt, FcgiPoints
  <1>6. CASE ~(r.padding > 0)
    <2>1. TakeRecord(r)
      BY <1>1, <1>6 DEF AfterContent
    <2>2. at' = EndOf(j)
      BY <1>1, <1>2, <1>6
    <2>3. PICK o2 : o2 = stdout_data'
      OBVIOUS
    <2>4. PICK p2 : p2 = fpc'
      OBVIOUS
    <2>5. PICK t2 : t2 = at'
      OBVIOUS
    <2>6. PICK go2 : go2 = gone'
      OBVIOUS
    <2>7. PICK o : o = stdout_data
      OBVIOUS
    <2>8. ReadAt(p2, t2, 0, go2, o2)
      BY <2>1, <2>2, <2>3, <2>4, <2>5, <2>6, <2>7, <1>1, <1>3, TakeReads DEF TakeRecord
    <2>9. got' = 0
      BY <2>1 DEF TakeRecord
    <2> QED
      BY <2>3, <2>4, <2>5, <2>6, <2>8, <2>9
  <1> QED
    BY <1>5, <1>6

(* What is left to arrive.                                                  *)
LEMMA ArrivingIs ==
    ASSUME ReadInv, NEW n \in Nat, n > 0, n <= Arriving
    PROVE  ~gone /\ at + n <= EndOf(Len(answer)) /\ at + n \in Nat
  <1>1. at \in Nat /\ gone \in BOOLEAN /\ Len(answer) \in Nat /\ answer \in Seq(Wires)
    BY DEF ReadInv, ReadAt
  <1>2. EndOf(Len(answer)) \in Nat
    BY <1>1, EndOfStep
  <1>3. ~gone
    BY DEF Arriving
  <1>4. Arriving = EndOf(Len(answer)) - at
    BY <1>3 DEF Arriving
  <1> QED
    BY <1>1, <1>2, <1>3, <1>4

(* The end of a failed answer.                                              *)
LEMMA FailedReads ==
    ASSUME NEW t \in Nat, NEW g \in Nat, NEW go \in BOOLEAN, NEW o \in Seq(STRING), t <= EndOf(Len(answer)),
           Len(o) <= MaxFcgiResponse
    PROVE  ReadAt("failed", t, g, go, o)
  BY DEF ReadAt, FcgiPoints

(* A read() of the header.                                                  *)
LEMMA HeaderReads ==
    ASSUME ReadInv, NEW n, ReadHeader(n)
    PROVE  ReadAt(fpc', at', got', gone', stdout_data')
  <1>1. /\ answer \in Seq(Wires) /\ at \in Nat /\ got \in Nat /\ gone \in BOOLEAN /\ stdout_data \in Seq(STRING)
        /\ Len(stdout_data) <= MaxFcgiResponse /\ Len(answer) \in Nat
    BY DEF ReadInv, ReadAt
  <1>2. fpc = "header" /\ n \in 1..HeaderSize /\ n <= Arriving /\ at' = at + n /\ gone' = gone
    BY DEF ReadHeader
  <1>3. HeaderSize \in Nat /\ HeaderSize > 0 /\ n \in Nat /\ n > 0
    BY <1>2, FcgiAssumption
  <1>4. ~gone /\ at' <= EndOf(Len(answer)) /\ at' \in Nat
    BY <1>2, <1>3, ArrivingIs
  <1>5. PICK m \in 0..Len(answer) : AtHeader(m, at, gone, stdout_data)
    BY <1>2 DEF ReadInv, ReadAt
  <1>6. at = EndOf(m) /\ TakenFrom(m, stdout_data)
    BY <1>4, <1>5 DEF AtHeader
  <1>7. PICK j : j = m + 1
    OBVIOUS
  <1>8. j \in 1..Len(answer) /\ j - 1 = m
    <2>1. at < at'
      BY <1>1, <1>2, <1>3
    <2>2. at < EndOf(Len(answer))
      <3>1. EndOf(Len(answer)) \in Nat
        BY <1>1, EndOfStep
      <3> QED
        BY <3>1, <2>1, <1>1, <1>4
    <2>3. m # Len(answer)
      BY <2>2, <1>1, <1>6
    <2> QED
      BY <2>3, <1>1, <1>5, <1>7
  <1>9. /\ EndOf(j) = EndOf(m) + SizeOf(answer[j]) /\ SizeOf(answer[j]) = HeaderSize + Len(answer[j].content) + answer[j].padding
        /\ Len(answer[j].content) \in Nat /\ answer[j].padding \in Nat /\ EndOf(m) \in Nat /\ answer[j].content \in Seq(STRING)
    BY <1>1, <1>5, <1>8, EndOfStep, WireIs
  <1>10. EndOf(j - 1) <= at /\ at < EndOf(j)
    BY <1>3, <1>6, <1>8, <1>9
  <1>11. Record = answer[j]
    BY <1>1, <1>8, <1>10, RecordIs
  <1>12. PICK r : r = answer[j]
    OBVIOUS
  <1>13. IF n < HeaderSize \/ TooLarge(r) THEN fpc' = "failed" /\ got' = got /\ stdout_data' = stdout_data
         ELSE AfterHeader(r)
    BY <1>11, <1>12 DEF ReadHeader
  <1>14. CASE n < HeaderSize \/ TooLarge(r)
    <2>1. ReadAt("failed", at', got, gone, stdout_data)
      BY <1>1, <1>4, FailedReads
    <2> QED
      BY <2>1, <1>2, <1>13, <1>14
  <1>15. CASE ~(n < HeaderSize \/ TooLarge(r))
    <2>1. at' = EndOf(j - 1) + HeaderSize
      BY <1>2, <1>3, <1>6, <1>8, <1>15
    <2>2. AfterHeader(r)
      BY <1>13, <1>15
    <2>3. Fits(j, stdout_data)
      <3>1. MaxFcgiResponse \in Nat /\ Len(stdout_data) \in Nat
        BY <1>1, FcgiAssumption
      <3> QED
        BY <3>1, <1>9, <1>12, <1>15 DEF TooLarge, Fits
    <2>4. CASE r.content # <<>>
      <3>1. fpc' = "content" /\ got' = 0 /\ stdout_data' = stdout_data
        BY <2>2, <2>4 DEF AfterHeader
      <3>2. Len(r.content) > 0
        BY <2>4, <1>9, <1>12
      <3>3. AtContent(j, at', 0, stdout_data)
        BY <3>2, <2>1, <2>3, <1>3, <1>6, <1>8, <1>9, <1>12 DEF AtContent
      <3> QED
        BY <3>1, <3>3, <1>1, <1>2, <1>4, <1>8 DEF ReadAt, FcgiPoints
    <2>5. CASE r.content = <<>>
      <3>1. AfterContent(r) /\ Len(r.content) = 0
        BY <2>2, <2>5 DEF AfterHeader
      <3>2. at' = EndOf(j - 1) + HeaderSize + Len(r.content)
        BY <3>1, <2>1, <1>3, <1>8, <1>9
      <3> QED
        BY <3>1, <3>2, <2>3, <1>1, <1>2, <1>4, <1>6, <1>8, <1>12, AfterContentReads
    <2> QED
      BY <2>4, <2>5
  <1> QED
    BY <1>14, <1>15

(* A read() of content.                                                     *)
LEMMA ContentReads ==
    ASSUME ReadInv, NEW n, ReadContent(n)
    PROVE  ReadAt(fpc', at', got', gone', stdout_data')
  <1>1. /\ answer \in Seq(Wires) /\ at \in Nat /\ got \in Nat /\ gone \in BOOLEAN /\ stdout_data \in Seq(STRING)
        /\ Len(stdout_data) <= MaxFcgiResponse /\ Len(answer) \in Nat
    BY DEF ReadInv, ReadAt
  <1>2. fpc = "content" /\ n \in 1..(Len(Record.content) - got) /\ n <= Arriving /\ at' = at + n /\ gone' = gone
    BY DEF ReadContent
  <1>3. PICK j \in 1..Len(answer) : AtContent(j, at, got, stdout_data)
    BY <1>2 DEF ReadInv, ReadAt
  <1>4. PICK r : r = answer[j]
    OBVIOUS
  <1>5. /\ EndOf(j) = EndOf(j - 1) + SizeOf(r) /\ SizeOf(r) = HeaderSize + Len(r.content) + r.padding
        /\ Len(r.content) \in Nat /\ r.padding \in Nat /\ EndOf(j - 1) \in Nat /\ HeaderSize \in Nat
    <2>1. j - 1 \in 0..Len(answer)
      BY <1>1
    <2> QED
      BY <2>1, <1>1, <1>4, EndOfStep, WireIs
  <1>6. /\ at = EndOf(j - 1) + HeaderSize + got /\ got < Len(r.content) /\ TakenFrom(j - 1, stdout_data)
        /\ Fits(j, stdout_data)
    BY <1>3, <1>4 DEF AtContent
  <1>7. EndOf(j - 1) <= at /\ at < EndOf(j)
    <2>1. PICK e : e = EndOf(j - 1)
      OBVIOUS
    <2>2. PICK c : c = Len(r.content)
      OBVIOUS
    <2>3. PICK d : d = r.padding
      OBVIOUS
    <2>4. PICK f : f = EndOf(j)
      OBVIOUS
    <2>5. /\ f = e + (HeaderSize + c + d) /\ e \in Nat /\ c \in Nat /\ d \in Nat /\ HeaderSize \in Nat
          /\ at = e + HeaderSize + got /\ got < c
      BY <2>1, <2>2, <2>3, <2>4, <1>5, <1>6
    <2>6. e <= at /\ at < f
      BY <2>5, <1>1
    <2> QED
      BY <2>1, <2>4, <2>6
  <1>8. Record = r
    BY <1>1, <1>4, <1>7, RecordIs
  <1>9. n \in Nat /\ n > 0 /\ got + n <= Len(r.content) /\ got + n \in Nat
    BY <1>1, <1>2, <1>5, <1>8
  <1>10. ~gone /\ at' <= EndOf(Len(answer)) /\ at' \in Nat
    BY <1>2, <1>9, ArrivingIs
  <1>11. CASE got + n < Len(r.content)
    <2>1. got' = got + n /\ fpc' = fpc /\ stdout_data' = stdout_data
      BY <1>8, <1>11 DEF ReadContent
    <2>2. AtContent(j, at', got', stdout_data)
      BY <2>1, <1>1, <1>2, <1>4, <1>5, <1>6, <1>9, <1>11 DEF AtContent
    <2> QED
      BY <2>1, <2>2, <1>1, <1>2, <1>9, <1>10 DEF ReadAt, FcgiPoints
  <1>12. CASE ~(got + n < Len(r.content))
    <2>1. AfterContent(r)
      BY <1>8, <1>12 DEF ReadContent
    <2>2. at' = EndOf(j - 1) + HeaderSize + Len(r.content)
      <3>1. PICK e : e = EndOf(j - 1)
        OBVIOUS
      <3>2. PICK c : c = Len(r.content)
        OBVIOUS
      <3>3. at' = (e + HeaderSize + got) + n /\ e \in Nat /\ c \in Nat
        BY <3>1, <3>2, <1>2, <1>5, <1>6
      <3>4. got + n = c
        BY <3>2, <3>3, <1>1, <1>9, <1>12
      <3> QED
        BY <3>1, <3>2, <3>3, <3>4, <1>1, <1>5, <1>9
    <2> QED
      BY <2>1, <2>2, <1>1, <1>2, <1>4, <1>6, <1>10, AfterContentReads
  <1> QED
    BY <1>11, <1>12

(* The record is taken after its padding, or some of it.                    *)
LEMMA PaddedTaken ==
    ASSUME answer \in Seq(Wires), NEW j \in 1..Len(answer), TakenFrom(j - 1, stdout_data), Fits(j, stdout_data),
           TakeRecord(answer[j]), at' \in Nat, gone' \in BOOLEAN,
           EndOf(j) - answer[j].padding <= at', at' <= EndOf(j), gone' \/ at' = EndOf(j)
    PROVE  ReadAt(fpc', at', got', gone', stdout_data')
  <1>1. PICK o2 : o2 = stdout_data'
    OBVIOUS
  <1>2. PICK p2 : p2 = fpc'
    OBVIOUS
  <1>3. PICK t2 : t2 = at'
    OBVIOUS
  <1>4. PICK go2 : go2 = gone'
    OBVIOUS
  <1>5. PICK o : o = stdout_data
    OBVIOUS
  <1>6. ReadAt(p2, t2, 0, go2, o2)
    BY <1>1, <1>2, <1>3, <1>4, <1>5, TakeReads DEF TakeRecord
  <1>7. got' = 0
    BY DEF TakeRecord
  <1> QED
    BY <1>1, <1>2, <1>3, <1>4, <1>6, <1>7

(* A read() of padding.                                                     *)
LEMMA PaddingIs ==
    ASSUME ReadInv, fpc = "padding"
    PROVE  \E j \in 1..Len(answer) :
              /\ Record = answer[j] /\ TakenFrom(j - 1, stdout_data) /\ Fits(j, stdout_data)
              /\ at = EndOf(j - 1) + HeaderSize + Len(answer[j].content) + got /\ got < answer[j].padding
              /\ EndOf(j) = at - got + answer[j].padding /\ answer[j].padding \in Nat
              /\ AtPadding(j, at, got, stdout_data)
  <1>1. answer \in Seq(Wires) /\ at \in Nat /\ got \in Nat /\ Len(answer) \in Nat
    BY DEF ReadInv, ReadAt
  <1>3. PICK j \in 1..Len(answer) : AtPadding(j, at, got, stdout_data)
    BY DEF ReadInv, ReadAt
  <1>4. PICK r : r = answer[j]
    OBVIOUS
  <1>5. /\ EndOf(j) = EndOf(j - 1) + SizeOf(r) /\ SizeOf(r) = HeaderSize + Len(r.content) + r.padding
        /\ Len(r.content) \in Nat /\ r.padding \in Nat /\ EndOf(j - 1) \in Nat /\ HeaderSize \in Nat
    <2>1. j - 1 \in 0..Len(answer)
      BY <1>1
    <2> QED
      BY <2>1, <1>1, <1>4, EndOfStep, WireIs
  <1>6. /\ at = EndOf(j - 1) + HeaderSize + Len(r.content) + got /\ got < r.padding
        /\ TakenFrom(j - 1, stdout_data) /\ Fits(j, stdout_data)
    BY <1>3, <1>4 DEF AtPadding
  <1>7. EndOf(j - 1) <= at /\ at < EndOf(j) /\ EndOf(j) = at - got + r.padding
    <2>1. PICK e : e = EndOf(j - 1)
      OBVIOUS
    <2>2. PICK c : c = Len(r.content)
      OBVIOUS
    <2>3. PICK d : d = r.padding
      OBVIOUS
    <2>4. at = e + HeaderSize + c + got /\ EndOf(j) = e + (HeaderSize + c + d) /\ got < d
      BY <2>1, <2>2, <2>3, <1>5, <1>6
    <2>5. e \in Nat /\ c \in Nat /\ d \in Nat /\ HeaderSize \in Nat
      BY <2>1, <2>2, <2>3, <1>5
    <2>6. PICK q : q = e + HeaderSize + c
      OBVIOUS
    <2>7. q \in Nat /\ e <= q /\ at = q + got /\ EndOf(j) = q + d
      BY <2>4, <2>5, <2>6, <1>1
    <2>8. e <= at /\ at < EndOf(j) /\ EndOf(j) = at - got + d
      BY <2>4, <2>5, <2>7, <1>1
    <2> QED
      BY <2>1, <2>3, <2>8
  <1>8. Record = r
    BY <1>1, <1>4, <1>7, RecordIs
  <1> QED
    BY <1>3, <1>4, <1>5, <1>6, <1>7, <1>8

(* A read of the padding.                                                   *)
LEMMA PaddingReads ==
    ASSUME ReadInv, NEW n, ReadPadding(n)
    PROVE  ReadAt(fpc', at', got', gone', stdout_data')
  <1>1. /\ answer \in Seq(Wires) /\ at \in Nat /\ got \in Nat /\ gone \in BOOLEAN /\ stdout_data \in Seq(STRING)
        /\ Len(stdout_data) <= MaxFcgiResponse /\ Len(answer) \in Nat
    BY DEF ReadInv, ReadAt
  <1>2. fpc = "padding" /\ n \in 1..(Record.padding - got) /\ n <= Arriving /\ at' = at + n /\ gone' = gone
    BY DEF ReadPadding
  <1>3. PICK j \in 1..Len(answer) :
           /\ Record = answer[j] /\ TakenFrom(j - 1, stdout_data) /\ Fits(j, stdout_data)
           /\ at = EndOf(j - 1) + HeaderSize + Len(answer[j].content) + got /\ got < answer[j].padding
           /\ EndOf(j) = at - got + answer[j].padding /\ answer[j].padding \in Nat
           /\ AtPadding(j, at, got, stdout_data)
    BY <1>2, PaddingIs
  <1>4. PICK r : r = answer[j]
    OBVIOUS
  <1>5. n \in Nat /\ n > 0 /\ got + n <= r.padding /\ got + n \in Nat
    <2>1. PICK d : d = r.padding
      OBVIOUS
    <2>2. d \in Nat /\ n \in 1..(d - got)
      BY <2>1, <1>2, <1>3, <1>4
    <2> QED
      BY <2>1, <2>2, <1>1
  <1>6. ~gone /\ at' <= EndOf(Len(answer)) /\ at' \in Nat
    BY <1>2, <1>5, ArrivingIs
  <1>7. CASE got + n < r.padding
    <2>1. got' = got + n /\ fpc' = fpc /\ stdout_data' = stdout_data
      BY <1>3, <1>4, <1>7 DEF ReadPadding
    <2>2. at' = EndOf(j - 1) + HeaderSize + Len(answer[j].content) + got'
      <3>1. EndOf(j - 1) \in Nat /\ HeaderSize \in Nat /\ Len(answer[j].content) \in Nat
        <4>1. j - 1 \in 0..Len(answer)
          BY <1>1
        <4> QED
          BY <4>1, <1>1, EndOfStep, WireIs
      <3>2. PICK e : e = EndOf(j - 1)
        OBVIOUS
      <3>3. PICK c : c = Len(answer[j].content)
        OBVIOUS
      <3>4. at' = (e + HeaderSize + c + got) + n /\ e \in Nat /\ c \in Nat /\ HeaderSize \in Nat /\ got' = got + n
        BY <3>1, <3>2, <3>3, <2>1, <1>2, <1>3
      <3>5. at' = e + HeaderSize + c + got'
        BY <3>4, <1>1, <1>5
      <3> QED
        BY <3>2, <3>3, <3>5
    <2>3. AtPadding(j, at', got', stdout_data)
      BY <2>1, <2>2, <1>3, <1>4, <1>7 DEF AtPadding
    <2> QED
      BY <2>1, <2>3, <1>1, <1>2, <1>5, <1>6 DEF ReadAt, FcgiPoints
  <1>8. CASE ~(got + n < r.padding)
    <2>1. TakeRecord(r)
      BY <1>3, <1>4, <1>8 DEF ReadPadding
    <2>2. at' = EndOf(j) /\ EndOf(j) - r.padding <= at'
      <3>1. PICK d : d = r.padding
        OBVIOUS
      <3>2. PICK f : f = EndOf(j)
        OBVIOUS
      <3>3. f = at - got + d /\ d \in Nat /\ at' = at + n /\ got + n <= d /\ ~(got + n < d)
        BY <3>1, <3>2, <1>2, <1>3, <1>4, <1>5, <1>8
      <3>4. at' = f /\ f - d <= at'
        BY <3>3, <1>1, <1>5
      <3> QED
        BY <3>1, <3>2, <3>4
    <2>3. at' <= EndOf(j)
      BY <2>2, <1>6
    <2> QED
      BY <2>1, <2>2, <2>3, <1>1, <1>2, <1>3, <1>4, <1>6, PaddedTaken
  <1> QED
    BY <1>7, <1>8

(* read() returns nothing more.                                             *)
LEMMA EndReads ==
    ASSUME ReadInv, ReadEnds
    PROVE  ReadAt(fpc', at', got', gone', stdout_data')
  <1>1. /\ answer \in Seq(Wires) /\ at \in Nat /\ got \in Nat /\ gone \in BOOLEAN /\ stdout_data \in Seq(STRING)
        /\ Len(stdout_data) <= MaxFcgiResponse /\ Len(answer) \in Nat /\ at <= EndOf(Len(answer))
    BY DEF ReadInv, ReadAt
  <1>2. gone' = TRUE /\ at' = at
    BY DEF ReadEnds
  <1>3. ASSUME fpc' = "failed", got' = got, stdout_data' = stdout_data
        PROVE  ReadAt(fpc', at', got', gone', stdout_data')
    <2>1. ReadAt("failed", at, got, TRUE, stdout_data)
      BY <1>1, FailedReads
    <2> QED
      BY <2>1, <1>2, <1>3
  <1>4. CASE fpc = "header"
    <2>1. got' = got /\ stdout_data' = stdout_data /\ fpc' = IF stdout_data = <<>> THEN "failed" ELSE "answered"
      BY <1>4 DEF ReadEnds
    <2>2. CASE stdout_data # <<>>
      <3>1. PICK n \in 0..Len(answer) : AtHeader(n, at, gone, stdout_data)
        BY <1>4 DEF ReadInv, ReadAt
      <3>2. n # 0
        BY <3>1, <2>2, ContentOfNone DEF AtHeader, TakenFrom
      <3>3. n \in 1..Len(answer) /\ n > 0 /\ \A i \in 1..(n - 1) : i \in 1..n
        BY <3>1, <3>2, <1>1
      <3>4. AnsweredBy(n, at, TRUE, stdout_data)
        BY <3>1, <3>3 DEF AtHeader, TakenFrom, AnsweredBy
      <3> QED
        BY <3>3, <3>4, <2>1, <2>2, <1>1, <1>2 DEF ReadAt, FcgiPoints
    <2> QED
      BY <2>1, <2>2, <1>3
  <1>5. CASE fpc = "content"
    BY <1>3, <1>5 DEF ReadEnds
  <1>6. CASE fpc = "padding"
    <2>1. TakeRecord(Record)
      BY <1>6 DEF ReadEnds
    <2>2. PICK j \in 1..Len(answer) :
             /\ Record = answer[j] /\ TakenFrom(j - 1, stdout_data) /\ Fits(j, stdout_data)
             /\ at = EndOf(j - 1) + HeaderSize + Len(answer[j].content) + got /\ got < answer[j].padding
             /\ EndOf(j) = at - got + answer[j].padding /\ answer[j].padding \in Nat
             /\ AtPadding(j, at, got, stdout_data)
      BY <1>6, PaddingIs
    <2>3. EndOf(j) - answer[j].padding <= at /\ at <= EndOf(j)
      BY <2>2, <1>1
    <2> QED
      BY <2>1, <2>2, <2>3, <1>1, <1>2, PaddedTaken
  <1> QED
    BY <1>4, <1>5, <1>6 DEF ReadEnds

(* The application's records stay while they are read.                      *)
LEMMA ReadStays ==
    ASSUME answer \in Seq(Wires), answer' = answer, ReadAt(fpc', at', got', gone', stdout_data')
    PROVE  ReadInv'
  <1>1. ASSUME NEW i PROVE EndOf(i)' = EndOf(i)
    BY DEF EndOf, SizeOf
  <1>2. ASSUME NEW n, NEW type PROVE ContentOf(answer, n, type)' = ContentOf(answer, n, type)
    BY DEF ContentOf
  <1> QED
    BY <1>1, <1>2 DEF ReadInv, ReadAt, AtHeader, AtContent, AtPadding, AnsweredBy, TakenFrom, Fits

(* No record of the answer has been read before there is one.               *)
Unread ==
    /\ answer \in Seq(Wires) /\ at = 0 /\ got = 0 /\ gone = FALSE /\ stdout_data = <<>>
    /\ fpc \in {"idle", "write", "header", "failed"}

(* Nothing read is a place before the first record.                         *)
LEMMA ReadBegins == Unread => ReadInv
  <1> SUFFICES ASSUME Unread PROVE ReadInv
    OBVIOUS
  <1>0. /\ answer \in Seq(Wires) /\ at = 0 /\ got = 0 /\ gone = FALSE /\ stdout_data = <<>>
        /\ fpc \in {"idle", "write", "header", "failed"}
    BY DEF Unread
  <1>1. Len(answer) \in Nat /\ EndOf(0) = 0 /\ EndOf(Len(answer)) \in Nat /\ 0 \in 0..Len(answer)
    BY <1>0, EndOfStep
  <1>2. AtHeader(0, at, gone, stdout_data)
    BY <1>0, <1>1, ContentOfNone DEF AtHeader, TakenFrom
  <1>3. Len(stdout_data) <= MaxFcgiResponse /\ stdout_data \in Seq(STRING)
    BY <1>0, FcgiAssumption
  <1>4. at <= EndOf(Len(answer))
    BY <1>0, <1>1
  <1> QED
    BY <1>0, <1>1, <1>2, <1>3, <1>4 DEF ReadInv, ReadAt, FcgiPoints

(* Before the first step the client is idle.                                *)
LEMMA FcgiStarts == Init => ReadInv
  <1> SUFFICES ASSUME Init PROVE ReadInv
    OBVIOUS
  <1>1. answer \in Seq(Wires)
    BY DEF Init, FcgiInit
  <1> QED
    BY <1>1, ReadBegins DEF Init, FcgiInit, Unread

(* A step of the client.                                                    *)
LEMMA FcgiReads ==
    ASSUME ReadInv, FastCGI
    PROVE  ReadInv'
  <1>0. answer \in Seq(Wires)
    BY DEF ReadInv
  <1>1. ASSUME fpc \in {"idle", "write"}, answer' \in Seq(Wires), UNCHANGED <<at, got, gone, stdout_data>>,
               fpc' \in {"idle", "write", "header", "failed"}
        PROVE  ReadInv'
    <2>1. at = 0 /\ got = 0 /\ ~gone /\ stdout_data = <<>> /\ gone \in BOOLEAN
      BY <1>1 DEF ReadInv, ReadAt
    <2>2. at' = 0 /\ got' = 0 /\ gone' = FALSE /\ stdout_data' = <<>>
      BY <2>1, <1>1
    <2>3. Unread'
      BY <2>2, <1>1 DEF Unread
    <2> QED
      BY <2>3, ReadBegins, PTL
  <1>2. CASE SendRequest(parser.body)
    BY <1>0, <1>1, <1>2 DEF SendRequest
  <1>3. CASE ConnectFails
    BY <1>0, <1>1, <1>3 DEF ConnectFails
  <1>4. ASSUME NEW n \in 1..Len(packet), Write(n) PROVE ReadInv'
    <2>1. answer' \in Seq(Wires)
      BY <1>0, <1>4, FcgiAssumption DEF Write, Wires
    <2> QED
      BY <2>1, <1>1, <1>4 DEF Write
  <1>5. CASE WriteFails
    BY <1>0, <1>1, <1>5 DEF WriteFails
  <1>6. ASSUME NEW n, ReadHeader(n) PROVE ReadInv'
    <2>1. answer' = answer
      BY <1>6 DEF ReadHeader
    <2>2. ReadAt(fpc', at', got', gone', stdout_data')
      BY <1>6, HeaderReads
    <2> QED
      BY <2>1, <2>2, <1>0, ReadStays
  <1>7. ASSUME NEW n, ReadContent(n) PROVE ReadInv'
    <2>1. answer' = answer
      BY <1>7 DEF ReadContent
    <2>2. ReadAt(fpc', at', got', gone', stdout_data')
      BY <1>7, ContentReads
    <2> QED
      BY <2>1, <2>2, <1>0, ReadStays
  <1>8. ASSUME NEW n, ReadPadding(n) PROVE ReadInv'
    <2>1. answer' = answer
      BY <1>8 DEF ReadPadding
    <2>2. ReadAt(fpc', at', got', gone', stdout_data')
      BY <1>8, PaddingReads
    <2> QED
      BY <2>1, <2>2, <1>0, ReadStays
  <1>9. CASE ReadEnds
    <2>1. answer' = answer
      BY <1>9 DEF ReadEnds
    <2>2. ReadAt(fpc', at', got', gone', stdout_data')
      BY <1>9, EndReads
    <2> QED
      BY <2>1, <2>2, <1>0, ReadStays
  <1> QED
    BY <1>2, <1>3, <1>4, <1>5, <1>6, <1>7, <1>8, <1>9 DEF FastCGI

(* Any step.                                                                *)
LEMMA ReadStep == ReadInv /\ [Next]_vars => ReadInv'
  <1> SUFFICES ASSUME ReadInv, [Next]_vars PROVE ReadInv'
    OBVIOUS
  <1>1. ASSUME UNCHANGED fcgiVars PROVE ReadInv'
    <2>1. answer \in Seq(Wires) /\ ReadAt(fpc, at, got, gone, stdout_data)
      BY DEF ReadInv
    <2>2. /\ answer' = answer /\ fpc' = fpc /\ at' = at /\ got' = got
          /\ gone' = gone /\ stdout_data' = stdout_data
      BY <1>1 DEF fcgiVars
    <2>3. ReadAt(fpc', at', got', gone', stdout_data')
      BY <2>1, <2>2
    <2> QED
      BY <2>1, <2>2, <2>3, ReadStays
  <1>2. CASE FastCGI
    BY <1>2, FcgiReads
  <1>3. CASE UNCHANGED vars
    BY <1>1, <1>3 DEF vars
  <1>4. ASSUME NEW cut, Read(cut) PROVE ReadInv'
    BY <1>1, <1>4 DEF Read
  <1>5. CASE InspectRequest
    BY <1>1, <1>5 DEF InspectRequest
  <1>6. CASE ReadStops
    BY <1>1, <1>6 DEF ReadStops
  <1>7. ASSUME NEW f, Client(f) PROVE ReadInv'
    BY <1>1, <1>7 DEF Client
  <1>8. ASSUME NEW n, WebSocket(n) PROVE ReadInv'
    BY <1>1, <1>8 DEF WebSocket
  <1>9. CASE StaticFile
    BY <1>1, <1>9 DEF StaticFile
  <1> QED
    BY <1>2, <1>3, <1>4, <1>5, <1>6, <1>7, <1>8, <1>9 DEF Next

(* read_response() keeps its place in the application's records.            *)
THEOREM ReadInvariant == Spec => []ReadInv
  BY FcgiStarts, ReadStep, PTL DEF Spec

(* The page that read_response() hands on is what the application wrote to  *)
(* stdout up to its END_REQUEST, for any records of any sizes and however    *)
(* read() cuts them.                                                        *)
THEOREM FcgiAnswerIntact == Spec => []AnswerIntact
  BY ReadInvariant, ReadInvAnswer, PTL

-----------------------------------------------------------------------------
(* The parser, for a body with a length or none.                            *)
SentUnits == STRING \cup {"eoh"}

(* What two sequences in a row are, unit by unit.                           *)
LEMMA JoinIs ==
    ASSUME NEW S, NEW a \in Seq(S), NEW b \in Seq(S), NEW c, Joins(c, a, b)
    PROVE  c \in Seq(S) /\ IsJoin(c, a, b)
  <1>1. c \in Seq(S) /\ Len(c) = Len(a) + Len(b)
    BY ConcatProperties DEF Joins
  <1>2. \A i \in 1..Len(a) : c[i] = a[i]
    BY DEF Joins
  <1>3. \A i \in 1..Len(b) : c[Len(a) + i] = b[i]
    BY DEF Joins
  <1> QED
    BY <1>1, <1>2, <1>3 DEF IsJoin

(* Sequences that agree are the same.                                       *)
LEMMA SameUnits ==
    ASSUME NEW S, NEW a \in Seq(S), NEW b \in Seq(S), Len(a) = Len(b), \A i \in 1..Len(a) : a[i] = b[i]
    PROVE  a = b
  OBVIOUS

(* What the client sends, unit by unit.                                     *)
LEMMA StreamIs ==
    ASSUME NEW r \in Requests
    PROVE  /\ r.lines \in Seq(SentUnits) /\ r.wire \in Seq(SentUnits) /\ r.body \in Seq(SentUnits) /\ Stream(r) \in Seq(SentUnits)
           /\ Len(Stream(r)) = Len(r.lines) + 1 + Len(r.wire) /\ Len(r.lines) \in Nat /\ Len(r.wire) \in Nat
           /\ \A i \in 1..Len(r.lines) : Stream(r)[i] = r.lines[i] /\ r.lines[i] # "eoh"
           /\ Stream(r)[Len(r.lines) + 1] = "eoh"
           /\ \A i \in 1..Len(r.wire) : Stream(r)[Len(r.lines) + 1 + i] = r.wire[i]
  <1>1. PICK l : l = r.lines
    OBVIOUS
  <1>2. PICK w : w = r.wire
    OBVIOUS
  <1>3. l \in Seq(STRING) /\ w \in Seq(STRING) /\ r.body \in Seq(STRING) /\ ~Contains(l, "eoh")
    BY <1>1, <1>2, ParserAssumption
  <1>4. l \in Seq(SentUnits) /\ w \in Seq(SentUnits) /\ r.body \in Seq(SentUnits)
    BY <1>3, SeqMonotonic DEF SentUnits
  <1>5. PICK h : h = <<"eoh">>
    OBVIOUS
  <1>6. h \in Seq(SentUnits) /\ Len(h) = 1 /\ h[1] = "eoh"
    <2>1. "eoh" \in SentUnits
      BY DEF SentUnits
    <2> QED
      BY <2>1, <1>5
  <1>7. PICK lh : Joins(lh, l, h)
    BY DEF Joins
  <1>8. /\ lh \in Seq(SentUnits) /\ Len(lh) = Len(l) + 1 /\ Len(l) \in Nat
        /\ (\A i \in 1..Len(l) : lh[i] = l[i]) /\ lh[Len(l) + 1] = "eoh"
    <2>1. lh \in Seq(SentUnits) /\ IsJoin(lh, l, h)
      BY <1>4, <1>6, <1>7, JoinIs
    <2> QED
      BY <2>1, <1>4, <1>6 DEF IsJoin
  <1>9. PICK s : Joins(s, lh, w)
    BY DEF Joins
  <1>10. /\ s \in Seq(SentUnits) /\ Len(s) = Len(lh) + Len(w) /\ Len(w) \in Nat
         /\ (\A i \in 1..Len(lh) : s[i] = lh[i]) /\ \A i \in 1..Len(w) : s[Len(lh) + i] = w[i]
    <2>1. s \in Seq(SentUnits) /\ IsJoin(s, lh, w)
      BY <1>4, <1>8, <1>9, JoinIs
    <2> QED
      BY <2>1, <1>4 DEF IsJoin
  <1>11. Stream(r) = s
    BY <1>1, <1>2, <1>5, <1>7, <1>9 DEF Stream, Joins
  <1>12. ASSUME NEW i \in 1..Len(l) PROVE s[i] = l[i] /\ l[i] # "eoh"
    <2>1. i \in 1..Len(lh)
      BY <1>8, <1>10
    <2>2. s[i] = l[i]
      BY <2>1, <1>8, <1>10
    <2> QED
      BY <2>2, <1>3 DEF Contains
  <1>13. s[Len(l) + 1] = "eoh"
    <2>1. Len(l) + 1 \in 1..Len(lh)
      BY <1>8
    <2> QED
      BY <2>1, <1>8, <1>10
  <1>14. ASSUME NEW i \in 1..Len(w) PROVE s[Len(l) + 1 + i] = w[i]
    <2>1. s[Len(lh) + i] = w[i]
      BY <1>10
    <2> QED
      BY <2>1, <1>8
  <1> QED
    BY <1>1, <1>2, <1>4, <1>8, <1>10, <1>11, <1>12, <1>13, <1>14

(* What feed() has of it.                                                   *)
IsFed(r, n, b) == n \in 0..Len(Stream(r)) /\ b = SubSeq(Stream(r), 1, n)
EndOfHead(b) == Min({i \in DOMAIN b : b[i] = "eoh"})

(* The end of the head is in it exactly if it is longer than the lines.     *)
LEMMA FedIs ==
    ASSUME NEW r \in Requests, NEW n, NEW b, IsFed(r, n, b)
    PROVE  /\ b \in Seq(SentUnits) /\ Len(b) = n /\ DOMAIN b = 1..n
           /\ \A i \in 1..n : b[i] = Stream(r)[i]
           /\ Contains(b, "eoh") <=> n > Len(r.lines)
           /\ n > Len(r.lines) =>
                 /\ EndOfHead(b) = Len(r.lines) + 1
                 /\ SubSeq(b, 1, Len(r.lines)) = r.lines
  <1>1. b \in Seq(SentUnits) /\ Len(b) = n /\ \A i \in 1..n : b[i] = Stream(r)[i]
    BY StreamIs, Beginning DEF IsFed
  <1>2. PICK l : l = r.lines
    OBVIOUS
  <1>3. /\ l \in Seq(SentUnits) /\ Len(l) \in Nat /\ \A i \in 1..Len(l) : Stream(r)[i] = l[i] /\ l[i] # "eoh"
        /\ Stream(r)[Len(l) + 1] = "eoh" /\ Len(Stream(r)) \in Nat
    <2>1. Len(Stream(r)) \in Nat
      <3>1. Stream(r) \in Seq(SentUnits)
        BY StreamIs
      <3> QED
        BY <3>1
    <2> QED
      BY <2>1, <1>2, StreamIs
  <1>4. DOMAIN b = 1..n /\ n \in Nat
    BY <1>1, <1>3 DEF IsFed
  <1>5. CASE n > Len(l)
    <2>1. Len(l) + 1 \in 1..n
      BY <1>3, <1>4, <1>5
    <2>2. b[Len(l) + 1] = "eoh"
      BY <2>1, <1>1, <1>3
    <2>3. Contains(b, "eoh")
      BY <2>1, <2>2, <1>1 DEF Contains
    <2>4. PICK T : T = {i \in DOMAIN b : b[i] = "eoh"}
      OBVIOUS
    <2>5. Len(l) + 1 \in T
      BY <2>1, <2>2, <2>4, <1>4
    <2>6. ASSUME NEW i \in T PROVE i \in Nat /\ Len(l) + 1 <= i
      <3>1. i \in 1..n /\ b[i] = "eoh"
        BY <2>4, <1>4
      <3>2. ~(i \in 1..Len(l))
        BY <3>1, <1>1, <1>3
      <3> QED
        BY <3>1, <3>2, <1>3, <1>4
    <2>7. Min(T) = Len(l) + 1
      <3>1. Min(T) \in T /\ \A y \in T : Min(T) <= y
        BY <2>5, <2>6 DEF Min
      <3>2. PICK m : m = Min(T)
        OBVIOUS
      <3>3. m \in Nat /\ Len(l) + 1 <= m /\ m <= Len(l) + 1
        BY <3>1, <3>2, <2>5, <2>6
      <3> QED
        BY <3>2, <3>3, <1>3
    <2>8. SubSeq(b, 1, Len(l)) = l
      <3>1. Len(l) \in 0..Len(b)
        BY <1>1, <1>3, <1>4, <1>5
      <3>2. PICK c : c = SubSeq(b, 1, Len(l))
        OBVIOUS
      <3>3. c \in Seq(SentUnits) /\ Len(c) = Len(l) /\ \A i \in 1..Len(l) : c[i] = b[i]
        BY <3>1, <3>2, <1>1, Beginning
      <3>4. \A i \in 1..Len(l) : c[i] = l[i]
        <4> TAKE i \in 1..Len(l)
        <4>1. i \in 1..n
          BY <1>3, <1>4, <1>5
        <4> QED
          BY <4>1, <3>3, <1>1, <1>3
      <3> QED
        BY <3>2, <3>3, <3>4, <1>3, SameUnits
    <2> QED
      BY <2>3, <2>4, <2>7, <2>8, <1>1, <1>2, <1>4, <1>5 DEF EndOfHead
  <1>6. CASE ~(n > Len(l))
    <2>1. \A i \in 1..n : i \in 1..Len(l)
      BY <1>3, <1>4, <1>6
    <2>2. ~Contains(b, "eoh")
      BY <2>1, <1>1, <1>3 DEF Contains
    <2> QED
      BY <2>2, <1>1, <1>2, <1>4, <1>6
  <1> QED
    BY <1>5, <1>6

(* The heads that parse_request_line() and parse_header_line() take.        *)
Readable(r) ==
    /\ Len(r.lines) > 1 /\ r.lines[1] = "request"
    /\ \A i \in 2..Len(r.lines) : r.lines[i] \notin {"bad", "badlength"}
    /\ OneLength(r)

(* They are the heads that are accepted.                                    *)
LEMMA AcceptedIs ==
    ASSUME NEW r \in Requests
    PROVE  HeadAccepted(r.lines) <=> Readable(r)
  <1>1. PICK l : l = r.lines
    OBVIOUS
  <1>2. l \in Seq(SentUnits) /\ Len(l) \in Nat /\ DOMAIN l = 1..Len(l)
    <2>1. l \in Seq(SentUnits)
      BY <1>1, StreamIs
    <2> QED
      BY <2>1
  <1>3. PICK T : T = LengthLines(l)
    OBVIOUS
  <1>4. T = {i \in 1..Len(l) : l[i] \in DOMAIN LengthOf}
    BY <1>2, <1>3 DEF LengthLines
  <1>5. IsFiniteSet(T) /\ Cardinality(T) \in Nat
    <2>1. IsFiniteSet(1..Len(l)) /\ T \subseteq 1..Len(l)
      BY <1>2, <1>4, FS_Interval
    <2> QED
      BY <2>1, FS_Subset, FS_CardinalityType
  <1>6. Cardinality(T) <= 1 <=> \A i, j \in T : i = j
    <2>1. CASE T = {}
      BY <2>1, <1>5, FS_EmptySet
    <2>2. CASE T # {}
      <3>1. PICK x : x \in T
        BY <2>2
      <3>2. Cardinality(T) # 0
        BY <2>2, <1>5, FS_EmptySet
      <3>3. Cardinality(T) <= 1 <=> Cardinality(T) = 1
        BY <3>2, <1>5
      <3>4. Cardinality(T) = 1 <=> \E y : T = {y}
        BY <1>5, FS_Singleton
      <3>5. (\E y : T = {y}) <=> \A i, j \in T : i = j
        <4>1. ASSUME \A i, j \in T : i = j PROVE T = {x}
          BY <4>1, <3>1
        <4> QED
          BY <4>1
      <3> QED
        BY <3>3, <3>4, <3>5
    <2> QED
      BY <2>1, <2>2
  <1>7. (\A i, j \in T : i = j) <=>
          \A i, j \in 1..Len(l) : l[i] \in DOMAIN LengthOf /\ l[j] \in DOMAIN LengthOf => i = j
    BY <1>4
  <1>8. ASSUME Len(l) > 1, l[1] = "request"
        PROVE  (~Contains(l, "bad") /\ ~Contains(l, "badlength"))
                 <=> \A i \in 2..Len(l) : l[i] \notin {"bad", "badlength"}
    <2>1. \A i \in 1..Len(l) : i = 1 \/ i \in 2..Len(l)
      BY <1>2
    <2>2. \A i \in 2..Len(l) : i \in 1..Len(l)
      BY <1>2
    <2>3. l[1] # "bad" /\ l[1] # "badlength"
      BY <1>8
    <2> QED
      BY <2>1, <2>2, <2>3 DEF Contains
  <1> QED
    BY <1>1, <1>3, <1>6, <1>7, <1>8 DEF HeadAccepted, Readable, OneLength

(* The length a head gives a body.                                          *)
LengthFor(r) ==
    IF LengthLines(r.lines) = {} THEN 0 ELSE LengthOf[r.lines[Max(LengthLines(r.lines))]]

(* It is the length of the body that was meant.                             *)
LEMMA LengthForIs ==
    ASSUME NEW r \in Requests, Readable(r), ~Chunked(r)
    PROVE  LengthFor(r) \in Nat /\ LengthFor(r) <= Len(r.wire) /\ r.body = SubSeq(r.wire, 1, LengthFor(r))
  <1>0. r.lines \in Seq(SentUnits) /\ r.wire \in Seq(SentUnits) /\ Len(r.wire) \in Nat /\ Len(r.lines) \in Nat
    BY StreamIs
  <1>1. DOMAIN r.lines = 1..Len(r.lines)
    BY <1>0
  <1>2. PICK T : T = LengthLines(r.lines)
    OBVIOUS
  <1>3. T = {i \in 1..Len(r.lines) : r.lines[i] \in DOMAIN LengthOf}
    BY <1>1, <1>2 DEF LengthLines
  <1>4. PICK given : given = {LengthOf[r.lines[i]] : i \in T}
    OBVIOUS
  <1>5. (given = {} => r.body = <<>>) /\ \A n \in given : n <= Len(r.wire) /\ r.body = SubSeq(r.wire, 1, n)
    BY <1>3, <1>4, SizedAssumption DEF SizedBody, Readable
  <1>6. CASE T = {}
    <2>1. r.body = <<>> /\ LengthFor(r) = 0
      BY <1>2, <1>4, <1>5, <1>6 DEF LengthFor
    <2>2. SubSeq(r.wire, 1, 0) = <<>>
      BY <1>0
    <2> QED
      BY <2>1, <2>2, <1>0
  <1>7. CASE T # {}
    <2>1. Max(T) \in T
      <3>1. T \subseteq 0..Len(r.lines)
        BY <1>3
      <3> QED
        BY <3>1, <1>0, <1>7, MaxIn
    <2>2. LengthFor(r) = LengthOf[r.lines[Max(T)]]
      BY <1>2, <1>7 DEF LengthFor
    <2>3. LengthFor(r) \in given
      BY <2>1, <2>2, <1>4
    <2>4. LengthFor(r) \in Nat
      <3>1. r.lines[Max(T)] \in DOMAIN LengthOf
        BY <2>1, <1>3
      <3> QED
        BY <3>1, <2>2, ParserAssumption
    <2> QED
      BY <2>3, <2>4, <1>5
  <1> QED
    BY <1>6, <1>7

(* The members of the parser while a body has no chunks.                    *)
Members(done, length, start, body, state) ==
    [headers_done_ |-> done, use_chunked_ |-> FALSE, content_length_ |-> length,
     body_start_offset_ |-> start, chunk_done_ |-> FALSE, current_chunk_remaining_ |-> 0,
     reading_chunk_size_ |-> TRUE, body |-> body, state |-> state]

(* The parser with n units of a request, the head complete.                 *)
Whole(r, n) == n - (Len(r.lines) + 1) >= LengthFor(r)
Headed(r, n) ==
    Members(TRUE, LengthFor(r), Len(r.lines) + 1,
            SubSeq(r.wire, 1, IF Whole(r, n) THEN LengthFor(r) ELSE n - (Len(r.lines) + 1)),
            IF Whole(r, n) THEN "COMPLETE" ELSE "INCOMPLETE")

SizedAt(r, n, p) ==
    \/ n <= Len(r.lines) /\ p = NewParser
    \/ (~Readable(r) \/ Len(r.lines) > MaxHead) /\ p = [NewParser EXCEPT !.state = "ERROR"]
    \/ n > Len(r.lines) /\ Readable(r) /\ p = Headed(r, n)

(* The body as far as it has been read.                                     *)
LEMMA LengthParsed ==
    ASSUME NEW r \in Requests, Readable(r), ~Chunked(r), NEW n, NEW b, IsFed(r, n, b), n > Len(r.lines),
           NEW before, NEW p, p = Members(TRUE, LengthFor(r), Len(r.lines) + 1, before, "INCOMPLETE")
    PROVE  ParseLength(p, b) = Headed(r, n)
  <1>1. PICK l : l = Len(r.lines)
    OBVIOUS
  <1>2. PICK w : w = r.wire
    OBVIOUS
  <1>3. PICK c : c = LengthFor(r)
    OBVIOUS
  <1>4. /\ l \in Nat /\ w \in Seq(SentUnits) /\ Len(w) \in Nat /\ c \in Nat /\ c <= Len(w)
        /\ b \in Seq(SentUnits) /\ Len(b) = n /\ n > l
    <2>1. b \in Seq(SentUnits) /\ Len(b) = n
      BY FedIs, Zenon
    <2> QED
      BY <2>1, <1>1, <1>2, <1>3, StreamIs, LengthForIs
  <1>5. n \in Nat /\ n <= l + 1 + Len(w) /\ n - (l + 1) \in 0..Len(w)
    <2>1. Len(Stream(r)) = l + 1 + Len(w)
      BY <1>1, <1>2, StreamIs
    <2> QED
      BY <2>1, <1>4 DEF IsFed
  <1>6. PICK k : k = n - (l + 1)
    OBVIOUS
  <1>7. k \in 0..Len(w) /\ l + 1 + k = n
    BY <1>4, <1>5, <1>6
  <1>8. PICK rest : rest = SubSeq(b, l + 1 + 1, n)
    OBVIOUS
  <1>9. rest \in Seq(SentUnits) /\ Len(rest) = k /\ \A i \in 1..k : rest[i] = b[l + 1 + i]
    <2>1. PICK f : f = l + 1 + 1
      OBVIOUS
    <2>2. f \in 1..(Len(b) + 1) /\ n \in f-1..Len(b) /\ f + k = n + 1
      BY <2>1, <1>4, <1>5, <1>7
    <2>3. rest \in Seq(SentUnits) /\ Len(rest) = n - f + 1 /\ \A i \in 1..(n - f + 1) : rest[i] = b[f + i - 1]
      BY <2>1, <2>2, <1>4, <1>8, SubSeqProperties
    <2>4. n - f + 1 = k /\ \A i \in 1..k : f + i - 1 = l + 1 + i
      BY <2>1, <2>2, <1>4, <1>5, <1>7
    <2> QED
      BY <2>3, <2>4
  <1>10. \A i \in 1..k : rest[i] = w[i]
    <2> TAKE i \in 1..k
    <2>1. i \in 1..Len(w) /\ l + 1 + i \in 1..n
      BY <1>4, <1>7
    <2>2. b[l + 1 + i] = Stream(r)[l + 1 + i]
      <3>1. \A j \in 1..n : b[j] = Stream(r)[j]
        BY FedIs, Zenon
      <3> QED
        BY <3>1, <2>1
    <2>3. Stream(r)[l + 1 + i] = w[i]
      BY <2>1, <1>1, <1>2, StreamIs
    <2> QED
      BY <2>2, <2>3, <1>9
  <1>11. ASSUME NEW m \in 0..k PROVE SubSeq(rest, 1, m) = SubSeq(w, 1, m)
    <2>1. m \in 0..Len(rest) /\ m \in 0..Len(w) /\ \A i \in 1..m : i \in 1..k
      BY <1>4, <1>7, <1>9
    <2>2. PICK x : x = SubSeq(rest, 1, m)
      OBVIOUS
    <2>3. PICK y : y = SubSeq(w, 1, m)
      OBVIOUS
    <2>4. x \in Seq(SentUnits) /\ Len(x) = m /\ \A i \in 1..m : x[i] = rest[i]
      BY <2>1, <2>2, <1>9, Beginning
    <2>5. y \in Seq(SentUnits) /\ Len(y) = m /\ \A i \in 1..m : y[i] = w[i]
      BY <2>1, <2>3, <1>4, Beginning
    <2>6. \A i \in 1..m : x[i] = y[i]
      BY <2>1, <2>4, <2>5, <1>10
    <2> QED
      BY <2>2, <2>3, <2>4, <2>5, <2>6, SameUnits
  <1>12. SubSeq(rest, 1, k) = rest
    BY <1>9
  <1>13. /\ p.body_start_offset_ = l + 1 /\ p.content_length_ = c
         /\ p = Members(TRUE, c, l + 1, before, "INCOMPLETE")
    BY <1>1, <1>3 DEF Members
  <1>14. Whole(r, n) <=> k >= c
    BY <1>1, <1>3, <1>6 DEF Whole
  <1>15. CASE k >= c
    <2>1. ParseLength(p, b) = [p EXCEPT !.body = SubSeq(rest, 1, c), !.state = "COMPLETE"]
      BY <1>4, <1>8, <1>9, <1>13, <1>15 DEF ParseLength
    <2>2. SubSeq(rest, 1, c) = SubSeq(w, 1, c)
      BY <1>4, <1>7, <1>11, <1>15
    <2>3. ParseLength(p, b) = Members(TRUE, c, l + 1, SubSeq(w, 1, c), "COMPLETE")
      BY <2>1, <2>2, <1>13 DEF Members
    <2> QED
      BY <2>3, <1>1, <1>2, <1>3, <1>14, <1>15 DEF Headed
  <1>16. CASE ~(k >= c)
    <2>1. ParseLength(p, b) = [p EXCEPT !.body = rest, !.state = "INCOMPLETE"]
      BY <1>4, <1>8, <1>9, <1>13, <1>16 DEF ParseLength
    <2>2. rest = SubSeq(w, 1, k)
      BY <1>4, <1>7, <1>11, <1>12
    <2>3. ParseLength(p, b) = Members(TRUE, c, l + 1, SubSeq(w, 1, k), "INCOMPLETE")
      BY <2>1, <2>2, <1>13 DEF Members
    <2> QED
      BY <2>3, <1>1, <1>2, <1>3, <1>6, <1>14, <1>16 DEF Headed
  <1> QED
    BY <1>15, <1>16

(* A call of feed().                                                        *)
LEMMA SizedParsed ==
    ASSUME NEW r \in Requests, ~Chunked(r), NEW m \in Nat, NEW n, NEW b, IsFed(r, n, b), NEW p,
           SizedAt(r, m, p), p.state = "INCOMPLETE", m < n
    PROVE  SizedAt(r, n, Parsed(p, b))
  <1>0. Len(r.lines) \in Nat /\ n \in Nat /\ Len(b) = n /\ MaxHead \in Nat
    <2>1. b \in Seq(SentUnits) /\ Len(b) = n
      BY FedIs, Zenon
    <2> QED
      BY <2>1, StreamIs, ParserAssumption
  <1>1. CASE m <= Len(r.lines) /\ p = NewParser
    <2>1. ~p.headers_done_
      BY <1>1 DEF NewParser
    <2>2. CASE n <= Len(r.lines)
      <3>1. ~Contains(b, "eoh")
        <4>1. Contains(b, "eoh") <=> n > Len(r.lines)
          BY FedIs, Zenon
        <4> QED
          BY <4>1, <2>2, <1>0
      <3>2. ParseHead(p, b) = [p EXCEPT !.state = IF n > MaxHead THEN "ERROR" ELSE "INCOMPLETE"]
        BY <3>1, <1>0 DEF ParseHead
      <3>3. Parsed(p, b) = ParseHead(p, b)
        BY <3>2, <2>1, <1>1 DEF Parsed, NewParser
      <3>4. CASE n > MaxHead
        <4>1. Len(r.lines) > MaxHead
          BY <3>4, <2>2, <1>0
        <4> QED
          BY <4>1, <3>2, <3>3, <3>4, <1>1 DEF SizedAt
      <3>5. CASE ~(n > MaxHead)
        <4>1. [NewParser EXCEPT !.state = "INCOMPLETE"] = NewParser
          BY DEF NewParser
        <4> QED
          BY <4>1, <3>2, <3>3, <3>5, <2>2, <1>1 DEF SizedAt
      <3> QED
        BY <3>4, <3>5
    <2>3. CASE n > Len(r.lines)
      <3>1. Contains(b, "eoh") /\ EndOfHead(b) = Len(r.lines) + 1
            /\ SubSeq(b, 1, Len(r.lines)) = r.lines
        <4>1. Contains(b, "eoh") <=> n > Len(r.lines)
          BY FedIs, Zenon
        <4>2. n > Len(r.lines) => EndOfHead(b) = Len(r.lines) + 1
          BY FedIs, Zenon
        <4>3. n > Len(r.lines) => SubSeq(b, 1, Len(r.lines)) = r.lines
          BY FedIs, Zenon
        <4> QED
          BY <4>1, <4>2, <4>3, <2>3, Zenon
      <3>2. SubSeq(b, 1, EndOfHead(b) - 1) = r.lines
        <4>1. PICK e : e = EndOfHead(b)
          OBVIOUS
        <4>2. e = Len(r.lines) + 1
          BY <4>1, <3>1
        <4>3. e - 1 = Len(r.lines)
          BY <4>2, <1>0
        <4>4. SubSeq(b, 1, e - 1) = r.lines
          BY <4>3, <3>1
        <4> QED
          BY <4>1, <4>4
      <3>3. ParseHead(p, b) = IF HeadAccepted(r.lines) THEN ValidateHeaders(p, r.lines) ELSE [p EXCEPT !.state = "ERROR"]
        BY <3>1, <3>2, Zenon DEF ParseHead, EndOfHead
      <3>4. CASE ~Readable(r)
        <4>1. ParseHead(p, b) = [NewParser EXCEPT !.state = "ERROR"]
          BY <3>3, <3>4, <1>1, AcceptedIs
        <4>2. Parsed(p, b) = ParseHead(p, b)
          BY <4>1, <2>1 DEF Parsed, NewParser
        <4> QED
          BY <4>1, <4>2, <3>4 DEF SizedAt
      <3>5. CASE Readable(r)
        <4>1. PICK h : h = ParseHead(p, b)
          OBVIOUS
        <4>2. h = ValidateHeaders(NewParser, r.lines)
          BY <4>1, <3>3, <3>5, <1>1, AcceptedIs
        <4>3. h = [NewParser EXCEPT !.headers_done_ = TRUE, !.use_chunked_ = FALSE,
                                    !.content_length_ = LengthFor(r), !.body_start_offset_ = Len(r.lines) + 1]
          <5>1. HasChunked(r.lines) = FALSE
            BY DEF Chunked, HasChunked
          <5>2. LengthFor(r) = IF HasChunked(r.lines) \/ LengthLines(r.lines) = {} THEN 0
                               ELSE LengthOf[r.lines[Max(LengthLines(r.lines))]]
            BY <5>1 DEF LengthFor
          <5> QED
            BY <5>1, <5>2, <4>2, Zenon DEF ValidateHeaders
        <4>4. h = Members(TRUE, LengthFor(r), Len(r.lines) + 1, <<>>, "INCOMPLETE")
          BY <4>3 DEF Members, NewParser
        <4>5. h.headers_done_ /\ ~h.use_chunked_
          BY <4>4 DEF Members
        <4>6. Parsed(p, b) = ParseLength(h, b)
          BY <4>1, <4>5, <2>1 DEF Parsed
        <4>7. ParseLength(h, b) = Headed(r, n)
          BY <4>4, <3>5, <2>3, LengthParsed
        <4> QED
          BY <4>6, <4>7, <3>5, <2>3 DEF SizedAt
      <3> QED
        BY <3>4, <3>5
    <2> QED
      BY <2>2, <2>3, <1>0
  <1>2. CASE p = [NewParser EXCEPT !.state = "ERROR"]
    BY <1>2 DEF NewParser
  <1>3. CASE m > Len(r.lines) /\ Readable(r) /\ p = Headed(r, m)
    <2>1. PICK before : p = Members(TRUE, LengthFor(r), Len(r.lines) + 1, before, "INCOMPLETE")
      <3>1. PICK before : before = SubSeq(r.wire, 1, IF Whole(r, m) THEN LengthFor(r) ELSE m - (Len(r.lines) + 1))
        OBVIOUS
      <3>2. PICK st : st = IF Whole(r, m) THEN "COMPLETE" ELSE "INCOMPLETE"
        OBVIOUS
      <3>3. p = Members(TRUE, LengthFor(r), Len(r.lines) + 1, before, st)
        BY <3>1, <3>2, <1>3 DEF Headed
      <3>4. st = "INCOMPLETE"
        BY <3>3 DEF Members
      <3> QED
        BY <3>3, <3>4
    <2>2. p.headers_done_ /\ ~p.use_chunked_
      BY <2>1 DEF Members
    <2>3. n > Len(r.lines)
      BY <1>0, <1>3
    <2>4. Parsed(p, b) = ParseLength(p, b)
      BY <2>2 DEF Parsed
    <2>5. ParseLength(p, b) = Headed(r, n)
      <3>1. Readable(r)
        BY <1>3
      <3> QED
        BY <3>1, <2>1, <2>3, LengthParsed
    <2> QED
      BY <2>3, <2>4, <2>5, <1>3 DEF SizedAt
  <1> QED
    BY <1>1, <1>2, <1>3 DEF SizedAt

-----------------------------------------------------------------------------
(* The types of the parser, chunks included.                                *)

(* u starts with a and steps by F as long as it is in A.                    *)
Follows(n, A, a, F, u) ==
    /\ u[0] = a
    /\ \A k \in 1..n : u[k - 1] \in A => u[k] = F[k][u[k - 1]]
LeadsIn(n, A, F) == \A k \in 1..n : \A x \in A : F[k][x] \in A

(* It stays there.                                                          *)
LEMMA StaysIn ==
    ASSUME NEW n \in Nat, NEW A, NEW a \in A, NEW F, LeadsIn(n, A, F), NEW u, Follows(n, A, a, F, u)
    PROVE  (\A k \in 0..n : u[k] \in A) /\ \A k \in 1..n : u[k] = F[k][u[k - 1]]
  <1> DEFINE S == {k \in 0..n : u[k] \in A}
  <1>1. 0 \in S
    BY DEF Follows
  <1>2. ASSUME NEW k \in 1..n, k - 1 \in S PROVE k \in S
    BY <1>2 DEF Follows, LeadsIn
  <1>3. 0..n \subseteq S
    <2> HIDE DEF S
    <2> QED
      BY <1>1, <1>2, UpTo
  <1>4. \A k \in 1..n : u[k] = F[k][u[k - 1]]
    <2> TAKE k \in 1..n
    <2>1. k - 1 \in 0..n
      OBVIOUS
    <2> QED
      BY <2>1, <1>3 DEF Follows
  <1> QED
    BY <1>3, <1>4

(* The value of digits.                                                     *)
LEMMA HexValueIs ==
    ASSUME NEW d \in Seq(DOMAIN HexOf)
    PROVE  HexValue(d) \in Nat
  <1>a. PICK n : n = Len(d)
    OBVIOUS
  <1>0. n \in Nat /\ n \in 0..n
    BY <1>a
  <1> DEFINE P(u) == u = [k \in 0..n |-> IF k = 0 THEN 0 ELSE 16 * u[k - 1] + HexOf[d[k]]]
  <1>1. PICK F : F = [k \in 1..n |-> [x \in Nat |-> 16 * x + HexOf[d[k]]]]
    OBVIOUS
  <1>2. ASSUME NEW k \in 1..n, NEW x \in Nat PROVE F[k][x] = 16 * x + HexOf[d[k]] /\ F[k][x] \in Nat
    <2>1. HexOf[d[k]] \in Nat
      <3>1. d[k] \in DOMAIN HexOf
        BY <1>a
      <3> QED
        BY <3>1, ParserAssumption
    <2>2. PICK G : G = [y \in Nat |-> 16 * y + HexOf[d[k]]]
      OBVIOUS
    <2>3. F[k] = G
      BY <1>1, <2>2
    <2>4. G[x] = 16 * x + HexOf[d[k]]
      BY <2>2
    <2>5. 16 * x + HexOf[d[k]] \in Nat
      BY <2>1
    <2> QED
      BY <2>3, <2>4, <2>5
  <1>3. LeadsIn(n, Nat, F)
    BY <1>2 DEF LeadsIn
  <1>4. PICK g : Iterates(n, Nat, 0, F, g)
    BY <1>0, <1>3, Iterated DEF LeadsIn
  <1>5. P(g)
    <2>1. \A k \in 0..n : g[k] = IF k = 0 THEN 0 ELSE 16 * g[k - 1] + HexOf[d[k]]
      <3> TAKE k \in 0..n
      <3>1. k = 0 \/ k \in 1..n
        BY <1>0
      <3>2. CASE k \in 1..n
        <4>1. k - 1 \in 0..n
          BY <3>2, <1>0
        <4>2. g[k - 1] \in Nat /\ g[k] = F[k][g[k - 1]]
          BY <4>1, <3>2, <1>4 DEF Iterates
        <4>3. PICK x : x = g[k - 1]
          OBVIOUS
        <4>4. F[k][x] = 16 * x + HexOf[d[k]]
          BY <4>2, <4>3, <3>2, <1>2
        <4>5. g[k] = 16 * g[k - 1] + HexOf[d[k]]
          BY <4>2, <4>3, <4>4
        <4>6. k # 0
          BY <3>2, <1>0
        <4> QED
          BY <4>5, <4>6
      <3> QED
        BY <3>1, <3>2, <1>4 DEF Iterates
    <2> QED
      BY <2>1, <1>4 DEF Iterates
  <1>6. PICK u : u = CHOOSE v : P(v)
    OBVIOUS
  <1>7. P(u)
    BY <1>5, <1>6
  <1>8. HexValue(d) = u[n]
    BY <1>6, <1>a DEF HexValue
  <1>9. \A k \in 0..n : u[k] = IF k = 0 THEN 0 ELSE 16 * u[k - 1] + HexOf[d[k]]
    BY <1>7
  <1> HIDE DEF P
  <1>10. Follows(n, Nat, 0, F, u)
    <2>1. u[0] = 0
      BY <1>0, <1>9
    <2>2. ASSUME NEW k \in 1..n, u[k - 1] \in Nat PROVE u[k] = F[k][u[k - 1]]
      <3>1. k \in 0..n /\ k # 0
        BY <1>0
      <3> QED
        BY <3>1, <2>2, <1>2, <1>9
    <2> QED
      BY <2>1, <2>2 DEF Follows
  <1>11. \A k \in 0..n : u[k] \in Nat
    BY <1>0, <1>3, <1>10, StaysIn
  <1> QED
    BY <1>0, <1>8, <1>11

(* The digits of a text.                                                    *)
LEMMA DigitsIs ==
    ASSUME NEW S, NEW text \in Seq(S)
    PROVE  Digits(text) \in Seq(DOMAIN HexOf)
  <1>1. PICK T : T = {k \in 0..Len(text) : \A i \in 1..k : text[i] \in DOMAIN HexOf}
    OBVIOUS
  <1>2. 0 \in T /\ T \subseteq 0..Len(text) /\ Len(text) \in Nat
    BY <1>1
  <1>3. PICK n : n = Max(T)
    OBVIOUS
  <1>4. n \in T
    BY <1>2, <1>3, MaxIn
  <1>5. n \in 0..Len(text) /\ \A i \in 1..n : text[i] \in DOMAIN HexOf
    BY <1>1, <1>4
  <1>6. SubSeq(text, 1, n) \in Seq(DOMAIN HexOf)
    <2>1. n \in Int /\ 1 \in Int
      BY <1>2, <1>5
    <2> QED
      BY <2>1, <1>5, SubSeqProperties
  <1> QED
    BY <1>1, <1>3, <1>6 DEF Digits

(* A parser whose body begins within the first n units, and the loop.       *)
Parsers(n) ==
    [headers_done_ : BOOLEAN, use_chunked_ : BOOLEAN, content_length_ : Nat, body_start_offset_ : 0..n,
     chunk_done_ : BOOLEAN, current_chunk_remaining_ : Nat, reading_chunk_size_ : BOOLEAN,
     body : Seq(SentUnits), state : {"INCOMPLETE", "COMPLETE", "ERROR"}]
Loops(n) ==
    [p : Parsers(n), at : 0..n, stop : {"no", "end", "INCOMPLETE", "COMPLETE", "ERROR"}]

(* A turn that does not end the loop takes it further.                      *)
Onward(s, t) == t.stop # "no" \/ t.at > s.at

(* A chunk size.                                                            *)
LEMMA SizeTurnType ==
    ASSUME NEW b \in Seq(SentUnits), NEW s \in Loops(Len(b))
    PROVE  ReadChunkSize(s, b) \in Loops(Len(b)) /\ Onward(s, ReadChunkSize(s, b))
  <1>0. Len(b) \in Nat /\ s.at \in 0..Len(b) /\ s.p \in Parsers(Len(b))
    BY DEF Loops
  <1>1. PICK ends : ends = FindCrlf(b, s.at)
    OBVIOUS
  <1>2. PICK crlf : crlf = Min(ends)
    OBVIOUS
  <1>3. PICK digits : digits = Digits(SubSeq(b, s.at + 1, crlf))
    OBVIOUS
  <1>4. ReadChunkSize(s, b) =
          IF ends = {} THEN [s EXCEPT !.stop = "INCOMPLETE"]
          ELSE IF digits = <<>> THEN [s EXCEPT !.stop = "ERROR"]
          ELSE IF HexValue(digits) = 0
          THEN [s EXCEPT !.p.chunk_done_ = TRUE,
                         !.stop = IF crlf + 4 <= Len(b) THEN "COMPLETE" ELSE "INCOMPLETE"]
          ELSE [s EXCEPT !.p.current_chunk_remaining_ = HexValue(digits),
                         !.p.reading_chunk_size_ = FALSE, !.at = crlf + 2]
    BY <1>1, <1>2, <1>3 DEF ReadChunkSize
  <1>5. CASE ends = {}
    <2>1. ReadChunkSize(s, b) = [s EXCEPT !.stop = "INCOMPLETE"]
      BY <1>4, <1>5
    <2> QED
      BY <2>1 DEF Loops, Onward
  <1>6. CASE ends # {}
    <2>1. ends \subseteq Nat /\ \A i \in ends : i \in s.at..(Len(b) - 2)
      BY <1>0, <1>1 DEF FindCrlf
    <2>2. crlf \in ends
      BY <2>1, <1>2, <1>6, LeastElement DEF Min
    <2>3. crlf \in Nat /\ crlf + 2 \in 0..Len(b) /\ crlf <= Len(b)
      BY <2>1, <2>2, <1>0
    <2>4. HexValue(digits) \in Nat
      <3>1. PICK text : text = SubSeq(b, s.at + 1, crlf)
        OBVIOUS
      <3>2. text \in Seq(SentUnits)
        <4>1. \A i \in (s.at + 1)..crlf : b[i] \in SentUnits
          <5> TAKE i \in (s.at + 1)..crlf
          <5>1. i \in 1..Len(b)
            BY <2>3, <1>0
          <5> QED
            BY <5>1
        <4>2. s.at + 1 \in Int /\ crlf \in Int
          BY <2>3, <1>0
        <4> QED
          BY <4>1, <4>2, <3>1, SubSeqProperties
      <3> QED
        BY <3>1, <3>2, <1>3, DigitsIs, HexValueIs
    <2>5. PICK v : v = HexValue(digits)
      OBVIOUS
    <2>6. CASE digits = <<>>
      <3>1. ReadChunkSize(s, b) = [s EXCEPT !.stop = "ERROR"]
        BY <2>6, <1>4, <1>6
      <3> QED
        BY <3>1 DEF Loops, Onward
    <2>7. CASE digits # <<>> /\ v = 0
      <3>1. PICK q : q = [s.p EXCEPT !.chunk_done_ = TRUE]
        OBVIOUS
      <3>2. q \in Parsers(Len(b))
        BY <3>1, <1>0 DEF Parsers
      <3>3. PICK st : st = IF crlf + 4 <= Len(b) THEN "COMPLETE" ELSE "INCOMPLETE"
        OBVIOUS
      <3>4. ReadChunkSize(s, b) = [s EXCEPT !.p = q, !.stop = st]
        BY <3>1, <3>3, <2>5, <2>7, <1>4, <1>6
      <3>5. st \in {"no", "end", "INCOMPLETE", "COMPLETE", "ERROR"}
        BY <3>3
      <3> QED
        <4>1. ReadChunkSize(s, b) \in Loops(Len(b)) /\ ReadChunkSize(s, b).stop = st
          BY <3>2, <3>4, <3>5 DEF Loops
        <4> QED
          BY <4>1, <3>3 DEF Onward
    <2>8. CASE digits # <<>> /\ v # 0
      <3>1. PICK q : q = [s.p EXCEPT !.current_chunk_remaining_ = v, !.reading_chunk_size_ = FALSE]
        OBVIOUS
      <3>2. q \in Parsers(Len(b))
        BY <3>1, <2>4, <2>5, <1>0 DEF Parsers
      <3>3. PICK t : t = crlf + 2
        OBVIOUS
      <3>4. ReadChunkSize(s, b) = [s EXCEPT !.p = q, !.at = t]
        BY <3>1, <3>3, <2>5, <2>8, <1>4, <1>6 DEF Loops
      <3> QED
        <4>1. ReadChunkSize(s, b) \in Loops(Len(b)) /\ ReadChunkSize(s, b).at = t
          BY <3>2, <3>3, <3>4, <2>3 DEF Loops
        <4>2. t > s.at
          BY <3>3, <2>1, <2>2, <2>3, <1>0
        <4> QED
          BY <4>1, <4>2 DEF Onward
    <2> QED
      BY <2>6, <2>7, <2>8
  <1> QED
    BY <1>5, <1>6

(* The data of a chunk.                                                     *)
LEMMA DataTurnType ==
    ASSUME NEW b \in Seq(SentUnits), NEW s \in Loops(Len(b)), s.at < Len(b)
    PROVE  ReadChunkData(s, b) \in Loops(Len(b)) /\ Onward(s, ReadChunkData(s, b))
  <1>0. Len(b) \in Nat /\ s.at \in 0..Len(b) /\ s.p \in Parsers(Len(b))
    BY DEF Loops
  <1>1. s.p.current_chunk_remaining_ \in Nat /\ s.p.body \in Seq(SentUnits)
    BY <1>0 DEF Parsers
  <1>2. PICK n : n = Min({Len(b) - s.at, s.p.current_chunk_remaining_})
    OBVIOUS
  <1>3. /\ n \in Nat /\ n <= Len(b) - s.at /\ n <= s.p.current_chunk_remaining_
        /\ n = Len(b) - s.at \/ n = s.p.current_chunk_remaining_
    <2>1. PICK x : x = Len(b) - s.at
      OBVIOUS
    <2>2. PICK y : y = s.p.current_chunk_remaining_
      OBVIOUS
    <2>3. x \in Nat /\ y \in Nat /\ n = Min({x, y})
      BY <2>1, <2>2, <1>0, <1>1, <1>2
    <2>4. n \in {x, y} /\ n <= x /\ n <= y
      <3>1. \E m \in {x, y} : \A z \in {x, y} : m <= z
        BY <2>3
      <3>2. n \in {x, y} /\ \A z \in {x, y} : n <= z
        BY <3>1, <2>3 DEF Min
      <3> QED
        BY <3>2
    <2> QED
      BY <2>1, <2>2, <2>3, <2>4
  <1>4. PICK left : left = s.p.current_chunk_remaining_ - n
    OBVIOUS
  <1>5. left \in Nat
    BY <1>1, <1>3, <1>4
  <1>6. PICK body : body = s.p.body \o SubSeq(b, s.at + 1, s.at + n)
    OBVIOUS
  <1>7. body \in Seq(SentUnits)
    <2>1. PICK c : c = SubSeq(b, s.at + 1, s.at + n)
      OBVIOUS
    <2>2. c \in Seq(SentUnits)
      <3>1. \A i \in (s.at + 1)..(s.at + n) : b[i] \in SentUnits
        <4> TAKE i \in (s.at + 1)..(s.at + n)
        <4>1. i \in 1..Len(b)
          BY <1>0, <1>3
        <4> QED
          BY <4>1
      <3>2. s.at + 1 \in Int /\ s.at + n \in Int
        BY <1>0, <1>3
      <3> QED
        BY <3>1, <3>2, <2>1, SubSeqProperties
    <2>3. s.p.body \o c \in Seq(SentUnits)
      BY <2>2, <1>1, ConcatProperties
    <2> QED
      BY <2>1, <2>3, <1>6
  <1>8. PICK q : q = [s.p EXCEPT !.body = body, !.current_chunk_remaining_ = left]
    OBVIOUS
  <1>9. q \in Parsers(Len(b))
    BY <1>0, <1>5, <1>7, <1>8 DEF Parsers
  <1>10. PICK t : t = s.at + n
    OBVIOUS
  <1>11. t \in 0..Len(b)
    BY <1>0, <1>3, <1>10
  <1>12. PICK read_ : read_ = [s EXCEPT !.p = q, !.at = t]
    OBVIOUS
  <1>13. read_ \in Loops(Len(b)) /\ read_.p = q /\ read_.at = t
    BY <1>9, <1>11, <1>12 DEF Loops
  <1>14. ReadChunkData(s, b) =
           IF left > 0 THEN read_
           ELSE IF t + 2 > Len(b) THEN [read_ EXCEPT !.stop = "INCOMPLETE"]
           ELSE [read_ EXCEPT !.at = t + 2, !.p.reading_chunk_size_ = TRUE]
    BY <1>2, <1>4, <1>6, <1>8, <1>10, <1>12 DEF ReadChunkData, Loops
  <1>15. CASE left > 0
    <2>1. n > 0
      BY <1>0, <1>1, <1>3, <1>4, <1>15
    <2>2. t > s.at
      BY <2>1, <1>0, <1>3, <1>10
    <2> QED
      BY <2>2, <1>13, <1>14, <1>15 DEF Onward
  <1>16. CASE ~(left > 0) /\ t + 2 > Len(b)
    <2>1. ReadChunkData(s, b) = [read_ EXCEPT !.stop = "INCOMPLETE"]
      BY <1>14, <1>16
    <2> QED
      BY <2>1, <1>13 DEF Loops, Onward
  <1>17. CASE ~(left > 0) /\ ~(t + 2 > Len(b))
    <2>1. PICK q2 : q2 = [q EXCEPT !.reading_chunk_size_ = TRUE]
      OBVIOUS
    <2>2. q2 \in Parsers(Len(b))
      BY <2>1, <1>9 DEF Parsers
    <2>3. PICK t2 : t2 = t + 2
      OBVIOUS
    <2>4. t2 \in 0..Len(b)
      BY <2>3, <1>0, <1>11, <1>17
    <2>5. ReadChunkData(s, b) = [read_ EXCEPT !.at = t2, !.p = q2]
      BY <2>1, <2>3, <1>13, <1>14, <1>17 DEF Loops
    <2> QED
      <3>1. ReadChunkData(s, b) \in Loops(Len(b)) /\ ReadChunkData(s, b).at = t2
        BY <2>2, <2>4, <2>5, <1>13 DEF Loops
      <3>2. t2 > s.at
        BY <2>3, <1>0, <1>3, <1>10
      <3> QED
        BY <3>1, <3>2 DEF Onward
  <1> QED
    BY <1>15, <1>16, <1>17

(* A turn of the loop.                                                      *)
LEMMA TurnType ==
    ASSUME NEW b \in Seq(SentUnits), NEW s \in Loops(Len(b))
    PROVE  /\ ChunkTurn(s, b) \in Loops(Len(b))
           /\ s.stop # "no" => ChunkTurn(s, b) = s
           /\ s.stop = "no" => Onward(s, ChunkTurn(s, b))
  <1>0. Len(b) \in Nat /\ s.at \in 0..Len(b)
    BY DEF Loops
  <1>1. CASE s.stop # "no"
    BY <1>1 DEF ChunkTurn
  <1>2. CASE s.stop = "no" /\ (s.at >= Len(b) \/ s.p.chunk_done_)
    <2>1. ChunkTurn(s, b) = [s EXCEPT !.stop = "end"]
      BY <1>2 DEF ChunkTurn
    <2>2. ChunkTurn(s, b) \in Loops(Len(b)) /\ ChunkTurn(s, b).stop = "end"
      BY <2>1 DEF Loops
    <2> QED
      BY <2>2, <1>2 DEF Onward
  <1>3. CASE s.stop = "no" /\ ~(s.at >= Len(b) \/ s.p.chunk_done_)
    <2>1. s.at < Len(b)
      BY <1>0, <1>3
    <2>2. ChunkTurn(s, b) = IF s.p.reading_chunk_size_ THEN ReadChunkSize(s, b) ELSE ReadChunkData(s, b)
      BY <1>3 DEF ChunkTurn
    <2> QED
      BY <2>1, <2>2, <1>3, SizeTurnType, DataTurnType
  <1> QED
    BY <1>1, <1>2, <1>3

(* The loop over the chunks, which ends.                                    *)
LEMMA ChunksType ==
    ASSUME NEW b \in Seq(SentUnits), NEW p \in Parsers(Len(b))
    PROVE  ParseChunks(p, b) \in Parsers(Len(b))
  <1>a. PICK n : n = 2 * Len(b) + 2
    OBVIOUS
  <1>b. PICK A : A = Loops(Len(b))
    OBVIOUS
  <1>c. PICK start : start = [p |-> p, at |-> p.body_start_offset_, stop |-> "no"]
    OBVIOUS
  <1> DEFINE P(u) == u = [i \in 0..n |-> IF i = 0 THEN start ELSE ChunkTurn(u[i - 1], b)]
  <1>0. n \in Nat /\ n \in 0..n /\ Len(b) \in Nat /\ n > Len(b)
    <2>1. Len(b) \in Nat
      OBVIOUS
    <2> QED
      BY <2>1, <1>a
  <1>1. start \in A
    <2>1. p.body_start_offset_ \in 0..Len(b)
      BY DEF Parsers
    <2> QED
      BY <2>1, <1>b, <1>c DEF Loops
  <1>2. PICK F : F = [k \in 1..n |-> [s \in A |-> ChunkTurn(s, b)]]
    OBVIOUS
  <1>3. ASSUME NEW k \in 1..n, NEW s \in A PROVE F[k][s] = ChunkTurn(s, b) /\ F[k][s] \in A
    <2>1. PICK G : G = [x \in A |-> ChunkTurn(x, b)]
      OBVIOUS
    <2>2. F[k] = G
      BY <1>2, <2>1
    <2>3. G[s] = ChunkTurn(s, b)
      BY <2>1
    <2>4. ChunkTurn(s, b) \in A
      BY <1>b, TurnType
    <2> QED
      BY <2>2, <2>3, <2>4
  <1>4. LeadsIn(n, A, F)
    BY <1>3 DEF LeadsIn
  <1>5. PICK g : Iterates(n, A, start, F, g)
    BY <1>0, <1>1, <1>4, Iterated DEF LeadsIn
  <1>6. P(g)
    <2>1. \A k \in 0..n : g[k] = IF k = 0 THEN start ELSE ChunkTurn(g[k - 1], b)
      <3> TAKE k \in 0..n
      <3>1. k = 0 \/ k \in 1..n
        BY <1>0
      <3>2. CASE k \in 1..n
        <4>1. k - 1 \in 0..n /\ k # 0
          BY <3>2, <1>0
        <4>2. g[k - 1] \in A /\ g[k] = F[k][g[k - 1]]
          BY <4>1, <3>2, <1>5 DEF Iterates
        <4> QED
          BY <4>1, <4>2, <3>2, <1>3
      <3> QED
        BY <3>1, <3>2, <1>5 DEF Iterates
    <2> QED
      BY <2>1, <1>5 DEF Iterates
  <1>7. PICK u : u = CHOOSE v : P(v)
    OBVIOUS
  <1>8. P(u)
    BY <1>6, <1>7
  <1>9. PICK s : s = u[n]
    OBVIOUS
  <1>10. ParseChunks(p, b) =
           IF s.stop = "end"
           THEN [s.p EXCEPT !.body_start_offset_ = s.at,
                            !.state = IF s.p.chunk_done_ THEN "COMPLETE" ELSE "INCOMPLETE"]
           ELSE [s.p EXCEPT !.state = s.stop]
    BY <1>7, <1>9, <1>a, <1>c DEF ParseChunks
  <1>11. \A k \in 0..n : u[k] = IF k = 0 THEN start ELSE ChunkTurn(u[k - 1], b)
    BY <1>8
  <1> HIDE DEF P
  <1>12. Follows(n, A, start, F, u)
    <2>1. u[0] = start
      BY <1>0, <1>11
    <2>2. ASSUME NEW k \in 1..n, u[k - 1] \in A PROVE u[k] = F[k][u[k - 1]]
      <3>1. k \in 0..n /\ k # 0
        BY <1>0
      <3> QED
        BY <3>1, <2>2, <1>3, <1>11
    <2> QED
      BY <2>1, <2>2 DEF Follows
  <1>13. (\A k \in 0..n : u[k] \in A) /\ \A k \in 1..n : u[k] = F[k][u[k - 1]]
    BY <1>0, <1>1, <1>4, <1>12, StaysIn
  <1> DEFINE S == {k \in 0..n : u[k].stop # "no" \/ u[k].at >= k}
  <1>14. 0 \in S
    <2>1. u[0].at \in Nat
      BY <1>0, <1>13, <1>b DEF Loops
    <2> QED
      BY <2>1, <1>0
  <1>15. ASSUME NEW k \in 1..n, k - 1 \in S PROVE k \in S
    <2>1. k - 1 \in 0..n /\ k \in 0..n
      BY <1>0
    <2>2. u[k - 1] \in A /\ u[k] \in A /\ u[k] = ChunkTurn(u[k - 1], b)
      BY <2>1, <1>3, <1>13
    <2>3. PICK x : x = u[k - 1]
      OBVIOUS
    <2>4. PICK y : y = u[k]
      OBVIOUS
    <2>5. x \in A /\ y = ChunkTurn(x, b) /\ x.at \in Nat /\ y.at \in Nat
      BY <2>2, <2>3, <2>4, <1>b DEF Loops
    <2>6. (x.stop # "no" => y = x) /\ (x.stop = "no" => Onward(x, y))
      BY <2>5, <1>b, TurnType
    <2>7. x.stop # "no" \/ x.at >= k - 1
      BY <2>3, <1>15
    <2>8. y.stop # "no" \/ y.at >= k
      BY <2>5, <2>6, <2>7 DEF Onward
    <2> QED
      BY <2>1, <2>4, <2>8
  <1>16. 0..n \subseteq S
    <2> HIDE DEF S
    <2> QED
      BY <1>0, <1>14, <1>15, UpTo
  <1>17. s \in A /\ (s.stop # "no" \/ s.at >= n)
    BY <1>0, <1>9, <1>13, <1>16
  <1>18. s.p \in Parsers(Len(b)) /\ s.at \in 0..Len(b) /\ s.stop \in {"no", "end", "INCOMPLETE", "COMPLETE", "ERROR"}
    BY <1>17, <1>b DEF Loops
  <1>19. s.stop # "no"
    BY <1>0, <1>17, <1>18
  <1>20. CASE s.stop = "end"
    <2>1. PICK st : st = IF s.p.chunk_done_ THEN "COMPLETE" ELSE "INCOMPLETE"
      OBVIOUS
    <2>2. ParseChunks(p, b) = [s.p EXCEPT !.body_start_offset_ = s.at, !.state = st]
      BY <2>1, <1>10, <1>20
    <2> QED
      BY <2>1, <2>2, <1>18 DEF Parsers
  <1>21. CASE s.stop # "end"
    <2>1. ParseChunks(p, b) = [s.p EXCEPT !.state = s.stop]
      BY <1>10, <1>21
    <2>2. s.stop \in {"INCOMPLETE", "COMPLETE", "ERROR"}
      BY <1>18, <1>19, <1>21
    <2> QED
      BY <2>1, <2>2, <1>18 DEF Parsers
  <1> QED
    BY <1>20, <1>21

(* A call of feed().                                                        *)
LEMMA ParsedType ==
    ASSUME NEW r \in Requests, NEW n, NEW b, IsFed(r, n, b), NEW p \in Parsers(n)
    PROVE  Parsed(p, b) \in Parsers(n)
  <1>0. b \in Seq(SentUnits) /\ Len(b) = n /\ n \in Nat /\ Len(r.lines) \in Nat
    <2>1. b \in Seq(SentUnits) /\ Len(b) = n
      BY FedIs, Zenon
    <2> QED
      BY <2>1, StreamIs
  <1>1. PICK h : h = IF p.headers_done_ THEN p ELSE ParseHead(p, b)
    OBVIOUS
  <1>2. h \in Parsers(n)
    <2>1. CASE p.headers_done_
      BY <2>1, <1>1
    <2>2. CASE ~p.headers_done_ /\ ~Contains(b, "eoh")
      <3>1. PICK st : st = IF Len(b) > MaxHead THEN "ERROR" ELSE "INCOMPLETE"
        OBVIOUS
      <3>2. h = [p EXCEPT !.state = st]
        BY <3>1, <2>2, <1>1 DEF ParseHead
      <3> QED
        BY <3>1, <3>2 DEF Parsers
    <2>3. CASE ~p.headers_done_ /\ Contains(b, "eoh")
      <3>1. n > Len(r.lines)
        BY <2>3, FedIs, Zenon
      <3>2. EndOfHead(b) = Len(r.lines) + 1 /\ SubSeq(b, 1, Len(r.lines)) = r.lines
        <4>1. n > Len(r.lines) => EndOfHead(b) = Len(r.lines) + 1
          BY FedIs, Zenon
        <4>2. n > Len(r.lines) => SubSeq(b, 1, Len(r.lines)) = r.lines
          BY FedIs, Zenon
        <4> QED
          BY <4>1, <4>2, <3>1
      <3>3. SubSeq(b, 1, EndOfHead(b) - 1) = r.lines
        <4>1. PICK e : e = EndOfHead(b)
          OBVIOUS
        <4>2. e - 1 = Len(r.lines)
          BY <4>1, <3>2, <1>0
        <4>3. SubSeq(b, 1, e - 1) = r.lines
          BY <4>2, <3>2
        <4> QED
          BY <4>1, <4>3
      <3>4. ParseHead(p, b) = IF HeadAccepted(r.lines) THEN ValidateHeaders(p, r.lines) ELSE [p EXCEPT !.state = "ERROR"]
        BY <3>3, <2>3, Zenon DEF ParseHead, EndOfHead
      <3>5. [p EXCEPT !.state = "ERROR"] \in Parsers(n)
        BY DEF Parsers
      <3>6. ValidateHeaders(p, r.lines) \in Parsers(n)
        <4>1. PICK c : c = HasChunked(r.lines)
          OBVIOUS
        <4>2. c \in BOOLEAN
          BY <4>1 DEF HasChunked
        <4>3. PICK l : l = IF c \/ LengthLines(r.lines) = {} THEN 0 ELSE LengthOf[r.lines[Max(LengthLines(r.lines))]]
          OBVIOUS
        <4>4. l \in Nat
          <5>1. CASE LengthLines(r.lines) = {}
            BY <5>1, <4>3
          <5>2. CASE LengthLines(r.lines) # {}
            <6>1. PICK T : T = LengthLines(r.lines)
              OBVIOUS
            <6>2. r.lines \in Seq(SentUnits)
              BY StreamIs
            <6>3. T \subseteq 0..Len(r.lines) /\ \A i \in T : r.lines[i] \in DOMAIN LengthOf
              BY <6>1, <6>2 DEF LengthLines
            <6>4. Max(T) \in T
              BY <6>1, <6>3, <5>2, <1>0, MaxIn
            <6>5. LengthOf[r.lines[Max(T)]] \in Nat
              BY <6>3, <6>4, ParserAssumption
            <6> QED
              BY <6>1, <6>5, <4>3
          <5> QED
            BY <5>1, <5>2
        <4>5. ValidateHeaders(p, r.lines) =
                [p EXCEPT !.headers_done_ = TRUE, !.use_chunked_ = c, !.content_length_ = l,
                          !.body_start_offset_ = Len(r.lines) + 1]
          BY <4>1, <4>3, Zenon DEF ValidateHeaders
        <4>6. Len(r.lines) + 1 \in 0..n
          BY <3>1, <1>0
        <4> QED
          BY <4>2, <4>4, <4>5, <4>6 DEF Parsers
      <3> QED
        BY <3>4, <3>5, <3>6, <2>3, <1>1
    <2> QED
      BY <2>1, <2>2, <2>3
  <1>3. Parsed(p, b) = IF ~h.headers_done_ THEN h ELSE IF h.use_chunked_ THEN ParseChunks(h, b) ELSE ParseLength(h, b)
    BY <1>1 DEF Parsed
  <1>4. ParseChunks(h, b) \in Parsers(n)
    BY <1>0, <1>2, ChunksType
  <1>5. ParseLength(h, b) \in Parsers(n)
    <2>1. PICK rest : rest = SubSeq(b, h.body_start_offset_ + 1, Len(b))
      OBVIOUS
    <2>2. h.body_start_offset_ \in 0..n /\ h.content_length_ \in Nat
      BY <1>2 DEF Parsers
    <2>3. rest \in Seq(SentUnits)
      <3>1. h.body_start_offset_ + 1 \in Int /\ Len(b) \in Int
        BY <2>2, <1>0
      <3>2. \A i \in (h.body_start_offset_ + 1)..Len(b) : b[i] \in SentUnits
        <4> TAKE i \in (h.body_start_offset_ + 1)..Len(b)
        <4>1. i \in 1..Len(b)
          BY <2>2, <1>0
        <4> QED
          BY <4>1, <1>0
      <3> QED
        BY <3>1, <3>2, <2>1, SubSeqProperties
    <2>4. CASE Len(rest) >= h.content_length_
      <3>1. PICK c : c = SubSeq(rest, 1, h.content_length_)
        OBVIOUS
      <3>2. c \in Seq(SentUnits)
        <4>1. h.content_length_ \in 0..Len(rest)
          BY <2>2, <2>3, <2>4
        <4> QED
          BY <4>1, <3>1, <2>3, Beginning
      <3>3. ParseLength(h, b) = [h EXCEPT !.body = c, !.state = "COMPLETE"]
        BY <3>1, <2>1, <2>4 DEF ParseLength
      <3> QED
        BY <3>2, <3>3, <1>2 DEF Parsers
    <2>5. CASE ~(Len(rest) >= h.content_length_)
      <3>1. ParseLength(h, b) = [h EXCEPT !.body = rest, !.state = "INCOMPLETE"]
        BY <2>1, <2>5 DEF ParseLength
      <3> QED
        BY <3>1, <2>3, <1>2 DEF Parsers
    <2> QED
      BY <2>4, <2>5
  <1> QED
    BY <1>2, <1>3, <1>4, <1>5

(* The parser between the reads.                                            *)
ParserInv ==
    /\ req \in Requests /\ fed \in 0..Len(Stream(req)) /\ parser \in Parsers(fed)
    /\ ~Chunked(req) => SizedAt(req, fed, parser) /\ ~slipped

(* A new parser has been fed nothing.                                       *)
LEMMA ParserStarts == Init => ParserInv
  <1> SUFFICES ASSUME Init PROVE ParserInv
    OBVIOUS
  <1>1. req \in Requests /\ fed = 0 /\ parser = NewParser /\ slipped = FALSE
    BY DEF Init, ParserInit
  <1>2. Stream(req) \in Seq(SentUnits) /\ Len(req.lines) \in Nat
    BY <1>1, StreamIs
  <1>3. fed \in 0..Len(Stream(req)) /\ fed <= Len(req.lines)
    BY <1>1, <1>2
  <1>4. parser \in Parsers(fed)
    <2>1. <<>> \in Seq(SentUnits) /\ 0 \in 0..fed
      BY <1>1
    <2> QED
      BY <2>1, <1>1 DEF Parsers, NewParser
  <1> QED
    BY <1>1, <1>3, <1>4 DEF ParserInv, SizedAt

(* feed() is called.                                                        *)
LEMMA FeedKeepsParser ==
    ASSUME ParserInv, NEW cut, Feed(cut)
    PROVE  ParserInv'
  <1>1. /\ req \in Requests /\ fed \in 0..Len(Stream(req)) /\ parser \in Parsers(fed)
        /\ ~Chunked(req) => SizedAt(req, fed, parser) /\ ~slipped
    BY DEF ParserInv
  <1>2. PICK r : r = req
    OBVIOUS
  <1>3. PICK b : b = SubSeq(Stream(req), 1, cut)
    OBVIOUS
  <1>4. /\ parser.state = "INCOMPLETE" /\ cut \in req.cuts /\ cut > fed /\ fed' = cut
        /\ parser' = Parsed(parser, b) /\ req' = req
        /\ slipped' = (slipped \/ Slips(parser, parser'))
    BY <1>3 DEF Feed
  <1>5. IsFed(r, cut, b) /\ r \in Requests /\ cut \in Nat /\ fed \in Nat /\ fed < cut
    <2>1. cut \in 1..Len(Stream(req))
      BY <1>1, <1>4, ParserAssumption
    <2>2. Stream(req) \in Seq(SentUnits)
      BY <1>1, StreamIs
    <2>3. Len(Stream(req)) \in Nat
      BY <2>2
    <2> QED
      BY <2>1, <2>3, <1>1, <1>2, <1>3, <1>4 DEF IsFed
  <1>6. PICK p : p = parser
    OBVIOUS
  <1>7. p \in Parsers(cut)
    <2>1. \A x \in 0..fed : x \in 0..cut
      BY <1>5
    <2> QED
      BY <2>1, <1>1, <1>6 DEF Parsers
  <1>8. Parsed(p, b) \in Parsers(cut)
    BY <1>5, <1>7, ParsedType
  <1>9. ~Chunked(r) => SizedAt(r, cut, Parsed(p, b))
    <2> SUFFICES ASSUME ~Chunked(r) PROVE SizedAt(r, cut, Parsed(p, b))
      OBVIOUS
    <2>1. PICK m : m = fed
      OBVIOUS
    <2>2. SizedAt(r, m, p) /\ p.state = "INCOMPLETE" /\ m \in Nat /\ m < cut
      BY <2>1, <1>1, <1>2, <1>4, <1>5, <1>6
    <2> QED
      BY <2>2, <1>5, SizedParsed
  <1>10. cut \in 0..Len(Stream(r))
    BY <1>5 DEF IsFed
  <1>11. /\ req' \in Requests /\ fed' \in 0..Len(Stream(req')) /\ parser' \in Parsers(fed')
         /\ ~Chunked(req') => SizedAt(req', fed', parser')
    BY <1>2, <1>4, <1>5, <1>6, <1>8, <1>9, <1>10
  <1>12. ~Chunked(req') => ~slipped'
    <2> SUFFICES ASSUME ~Chunked(req') PROVE ~slipped'
      OBVIOUS
    <2>1. PICK q : q = parser'
      OBVIOUS
    <2>2. SizedAt(req', fed', q)
      BY <2>1, <1>11
    <2>3. ~q.use_chunked_
      BY <2>2 DEF SizedAt, NewParser, Headed, Members
    <2>4. ~Slips(parser, q)
      BY <2>3 DEF Slips
    <2>5. ~slipped
      BY <1>1, <1>4
    <2> QED
      BY <2>1, <2>4, <2>5, <1>4, Zenon
  <1> QED
    BY <1>11, <1>12 DEF ParserInv

(* Any step.                                                                *)
LEMMA ParserStep == ParserInv /\ [Next]_vars => ParserInv'
  <1> SUFFICES ASSUME ParserInv, [Next]_vars PROVE ParserInv'
    OBVIOUS
  <1>1. ASSUME UNCHANGED parserVars PROVE ParserInv'
    <2>1. req' = req /\ fed' = fed /\ parser' = parser /\ slipped' = slipped
      BY <1>1 DEF parserVars
    <2> QED
      BY <2>1 DEF ParserInv
  <1>2. CASE FastCGI
    BY <1>1, <1>2 DEF FastCGI
  <1>3. CASE UNCHANGED vars
    BY <1>1, <1>3 DEF vars
  <1>4. ASSUME NEW cut, Read(cut) PROVE ParserInv'
    BY <1>4, FeedKeepsParser DEF Read
  <1>5. CASE InspectRequest
    BY <1>1, <1>5 DEF InspectRequest
  <1>6. CASE ReadStops
    BY <1>1, <1>6 DEF ReadStops
  <1>7. ASSUME NEW f, Client(f) PROVE ParserInv'
    BY <1>1, <1>7 DEF Client
  <1>8. ASSUME NEW n, WebSocket(n) PROVE ParserInv'
    BY <1>1, <1>8 DEF WebSocket
  <1>9. CASE StaticFile
    BY <1>1, <1>9 DEF StaticFile
  <1> QED
    BY <1>2, <1>3, <1>4, <1>5, <1>6, <1>7, <1>8, <1>9 DEF Next

(* feed() keeps its offsets within what it was fed, whatever it is fed.     *)
THEOREM ParserInvariant == Spec => []ParserInv
  BY ParserStarts, ParserStep, PTL DEF Spec

(* What it says of a request without chunks.                                *)
LEMMA ParserInvSized == ParserInv /\ ~Chunked(req) => ~slipped /\ ParsedAsSent
  <1> SUFFICES ASSUME ParserInv, ~Chunked(req) PROVE ~slipped /\ ParsedAsSent
    OBVIOUS
  <1>0. ~slipped
    BY DEF ParserInv
  <1>1. req \in Requests /\ fed \in 0..Len(Stream(req)) /\ SizedAt(req, fed, parser)
    BY DEF ParserInv
  <1>2. /\ Len(req.lines) \in Nat /\ Len(req.wire) \in Nat
        /\ Len(Stream(req)) = Len(req.lines) + 1 + Len(req.wire)
    BY <1>1, StreamIs
  <1>3. CASE fed <= Len(req.lines) /\ parser = NewParser
    <2>1. parser.state = "INCOMPLETE"
      BY <1>3 DEF NewParser
    <2>2. fed # Len(Stream(req))
      <3>1. PICK l : l = Len(req.lines)
        OBVIOUS
      <3>2. PICK w : w = Len(req.wire)
        OBVIOUS
      <3>3. l \in Nat /\ w \in Nat /\ Len(Stream(req)) = l + 1 + w /\ fed <= l
        BY <3>1, <3>2, <1>2, <1>3
      <3> QED
        BY <3>3
    <2> QED
      BY <2>1, <2>2, <1>0 DEF ParsedAsSent, RequestAsSent, MalformedRefused, WellFormedAccepted, WholeIsDecided
  <1>4. CASE (~Readable(req) \/ Len(req.lines) > MaxHead) /\ parser = [NewParser EXCEPT !.state = "ERROR"]
    <2>1. parser.state = "ERROR"
      BY <1>4 DEF NewParser
    <2>2. WellFormed(req) /\ Len(req.lines) # 1 => Readable(req)
      <3>1. \A n \in Nat : n > 0 /\ n # 1 => n > 1
        OBVIOUS
      <3> QED
        BY <3>1, <1>2 DEF WellFormed, Readable
    <2> QED
      BY <2>1, <2>2, <1>0, <1>4 DEF ParsedAsSent, RequestAsSent, MalformedRefused, WellFormedAccepted, WholeIsDecided
  <1>5. CASE fed > Len(req.lines) /\ Readable(req) /\ parser = Headed(req, fed)
    <2>1. parser.state = (IF Whole(req, fed) THEN "COMPLETE" ELSE "INCOMPLETE")
      BY <1>5 DEF Headed, Members
    <2>2. parser.body = SubSeq(req.wire, 1, IF Whole(req, fed) THEN LengthFor(req) ELSE fed - (Len(req.lines) + 1))
      BY <1>5 DEF Headed, Members
    <2>3. LengthFor(req) \in Nat /\ LengthFor(req) <= Len(req.wire) /\ req.body = SubSeq(req.wire, 1, LengthFor(req))
      BY <1>1, <1>5, LengthForIs
    <2>4. fed = Len(Stream(req)) => Whole(req, fed)
      BY <2>3, <1>2 DEF Whole
    <2>5. parser.state = "COMPLETE" => Whole(req, fed)
      BY <2>1
    <2>6. RequestAsSent
      BY <2>2, <2>3, <2>5, <1>5 DEF RequestAsSent
    <2>7. WellFormedAccepted /\ WholeIsDecided
      BY <2>1, <2>4 DEF WellFormedAccepted, WholeIsDecided
    <2>8. Strict(req) => MalformedRefused
      <3>1. Len(req.lines) > 0
        BY <1>2, <1>5 DEF Readable
      <3> QED
        BY <3>1, <1>5 DEF MalformedRefused, WellFormed, Readable
    <2> QED
      BY <2>6, <2>7, <2>8, <1>0 DEF ParsedAsSent
  <1> QED
    BY <1>1, <1>3, <1>4, <1>5 DEF SizedAt

(* feed() hands on exactly what was sent, refuses a request exactly if it   *)
(* must and does not wait beyond its end, for every request whose body is   *)
(* not chunked and wherever the reads cut it: it never forgets its place.   *)
THEOREM SizedParsedAsSent == Spec => [](~Chunked(req) => ~slipped /\ ParsedAsSent)
  BY ParserInvariant, ParserInvSized, PTL

-----------------------------------------------------------------------------
(* The inspection of a request.                                             *)

(* A round of recursive_url_decode().                                       *)
Peel(D, x) == [i \in D |-> IF x[i] > 0 THEN x[i] - 1 ELSE 0]

(* The encodings of the units of a payload.                                 *)
LEMMA EncodingsIs ==
    ASSUME NEW S, NEW payload \in Seq(S)
    PROVE  Encodings(payload) \in [1..Len(payload) -> Nat] /\ DOMAIN payload = 1..Len(payload) /\ Len(payload) \in Nat
  <1>1. DOMAIN payload = 1..Len(payload) /\ Len(payload) \in Nat
    OBVIOUS
  <1>2. \A x \in DOMAIN Signs : Signs[x].layers \in Nat
    BY WafAssumption
  <1> QED
    BY <1>1, <1>2 DEF Encodings

(* After MaxIterations rounds those with at most so many encodings are bare. *)
LEMMA DecodedIs ==
    ASSUME NEW S, NEW payload \in Seq(S), NEW i \in 1..Len(payload)
    PROVE  Decoded(payload)[i] = 0 <=> Encodings(payload)[i] <= MaxIterations
  <1>a. PICK n : n = MaxIterations
    OBVIOUS
  <1>b. PICK D : D = 1..Len(payload)
    OBVIOUS
  <1>c. PICK e : e = Encodings(payload)
    OBVIOUS
  <1>d. PICK A : A = [D -> Nat]
    OBVIOUS
  <1> DEFINE P(u) == u = [k \in 0..n |-> IF k = 0 THEN e ELSE Peel(D, u[k - 1])]
  <1>0. n \in Nat /\ n \in 0..n /\ DOMAIN payload = D /\ i \in D
    BY <1>a, <1>b, WafAssumption
  <1>1. e \in A
    BY <1>b, <1>c, <1>d, EncodingsIs
  <1>2. PICK F : F = [k \in 1..n |-> [x \in A |-> Peel(D, x)]]
    OBVIOUS
  <1>3. ASSUME NEW k \in 1..n, NEW x \in A PROVE F[k][x] = Peel(D, x) /\ F[k][x] \in A
    <2>1. PICK G : G = [y \in A |-> Peel(D, y)]
      OBVIOUS
    <2>2. F[k] = G
      BY <1>2, <2>1
    <2>3. G[x] = Peel(D, x)
      BY <2>1
    <2>4. Peel(D, x) \in A
      BY <1>d DEF Peel
    <2> QED
      BY <2>2, <2>3, <2>4
  <1>4. LeadsIn(n, A, F)
    BY <1>3 DEF LeadsIn
  <1>5. PICK g : Iterates(n, A, e, F, g)
    BY <1>0, <1>1, <1>4, Iterated DEF LeadsIn
  <1>6. P(g)
    <2>1. \A k \in 0..n : g[k] = IF k = 0 THEN e ELSE Peel(D, g[k - 1])
      <3> TAKE k \in 0..n
      <3>1. k = 0 \/ k \in 1..n
        BY <1>0
      <3>2. CASE k \in 1..n
        <4>1. k - 1 \in 0..n /\ k # 0
          BY <3>2, <1>0
        <4>2. g[k - 1] \in A /\ g[k] = F[k][g[k - 1]]
          BY <4>1, <3>2, <1>5 DEF Iterates
        <4> QED
          BY <4>1, <4>2, <3>2, <1>3
      <3> QED
        BY <3>1, <3>2, <1>5 DEF Iterates
    <2> QED
      BY <2>1, <1>5 DEF Iterates
  <1>7. PICK u : u = CHOOSE v : P(v)
    OBVIOUS
  <1>8. P(u)
    BY <1>6, <1>7
  <1>9. Decoded(payload) = u[n]
    BY <1>0, <1>7, <1>a, <1>c DEF Decoded, Peel
  <1>10. \A k \in 0..n : u[k] = IF k = 0 THEN e ELSE Peel(D, u[k - 1])
    BY <1>8
  <1> HIDE DEF P
  <1> DEFINE T == {k \in 0..n : u[k][i] = IF e[i] > k THEN e[i] - k ELSE 0}
  <1>11. e[i] \in Nat
    BY <1>0, <1>1, <1>d
  <1>12. 0 \in T
    <2>1. u[0] = e
      BY <1>0, <1>10
    <2> QED
      BY <2>1, <1>0, <1>11
  <1>13. ASSUME NEW k \in 1..n, k - 1 \in T PROVE k \in T
    <2>1. k \in 0..n /\ k # 0
      BY <1>0
    <2>2. u[k] = Peel(D, u[k - 1])
      BY <2>1, <1>10
    <2>3. u[k][i] = IF u[k - 1][i] > 0 THEN u[k - 1][i] - 1 ELSE 0
      BY <2>2, <1>0 DEF Peel
    <2>4. PICK x : x = u[k - 1][i]
      OBVIOUS
    <2>5. x = IF e[i] > k - 1 THEN e[i] - (k - 1) ELSE 0
      BY <2>4, <1>13
    <2>6. u[k][i] = IF e[i] > k THEN e[i] - k ELSE 0
      BY <2>3, <2>4, <2>5, <1>11
    <2> QED
      BY <2>1, <2>6
  <1>14. 0..n \subseteq T
    <2> HIDE DEF T
    <2> QED
      BY <1>0, <1>12, <1>13, UpTo
  <1>15. u[n][i] = IF e[i] > n THEN e[i] - n ELSE 0
    BY <1>0, <1>14
  <1> QED
    BY <1>0, <1>9, <1>11, <1>15, <1>a, <1>c

(* scan_payload() finds the rules that can be found.                        *)
LEMMA ScanIs ==
    ASSUME NEW S, NEW payload \in Seq(S)
    PROVE  ScanPayload(payload) = Weight(payload)
  <1>0. DOMAIN payload = 1..Len(payload)
    OBVIOUS
  <1>1. ASSUME NEW j \in DOMAIN payload, payload[j] \in DOMAIN Signs
        PROVE  Decoded(payload)[j] = 0 <=> Signs[payload[j]].layers <= MaxIterations
    <2>1. Encodings(payload)[j] = Signs[payload[j]].layers
      BY <1>1 DEF Encodings
    <2>2. Decoded(payload)[j] = 0 <=> Encodings(payload)[j] <= MaxIterations
      BY <1>0, DecodedIs
    <2> QED
      BY <2>1, <2>2
  <1>2. PICK I : I = {j \in DOMAIN payload : payload[j] \in DOMAIN Signs /\ Decoded(payload)[j] = 0}
    OBVIOUS
  <1>3. PICK U : U = {x \in ToSet(payload) : x \in DOMAIN Signs /\ Signs[x].layers <= MaxIterations}
    OBVIOUS
  <1>4. RulesIn(payload) = {Signs[payload[j]].rule : j \in I}
    BY <1>2 DEF RulesIn
  <1>5. Found(payload) = {Signs[x].rule : x \in U}
    BY <1>3 DEF Found
  <1>6. U = {payload[j] : j \in I}
    <2>1. ASSUME NEW x \in U PROVE \E j \in I : x = payload[j]
      <3>1. PICK j \in DOMAIN payload : x = payload[j]
        BY <1>3 DEF ToSet
      <3>2. payload[j] \in DOMAIN Signs /\ Signs[payload[j]].layers <= MaxIterations
        BY <3>1, <1>3
      <3>3. j \in I
        BY <3>2, <1>1, <1>2
      <3> QED
        BY <3>1, <3>3
    <2>2. ASSUME NEW j \in I PROVE payload[j] \in U
      <3>1. j \in DOMAIN payload /\ payload[j] \in DOMAIN Signs /\ Decoded(payload)[j] = 0
        BY <1>2
      <3>2. Signs[payload[j]].layers <= MaxIterations
        BY <3>1, <1>1
      <3>3. payload[j] \in ToSet(payload)
        BY <3>1 DEF ToSet
      <3> QED
        BY <3>1, <3>2, <3>3, <1>3
    <2> QED
      BY <2>1, <2>2
  <1>7. RulesIn(payload) = Found(payload)
    BY <1>4, <1>5, <1>6
  <1> QED
    BY <1>7 DEF ScanPayload, Weight

(* The score of rules.                                                      *)
LEMMA ScoreIs ==
    ASSUME NEW found PROVE ScoreOf(found) \in Nat
  <1>a. PICK n : n = Len(Rules)
    OBVIOUS
  <1>0. n \in Nat /\ n \in 0..n /\ \A k \in 1..n : Rules[k].score \in Nat
    <2>1. Rules \in Seq([rule : STRING, score : Nat])
      BY WafAssumption
    <2>2. n \in Nat /\ \A k \in 1..n : Rules[k] \in [rule : STRING, score : Nat]
      <3>1. PICK R : R = [rule : STRING, score : Nat]
        OBVIOUS
      <3>2. Rules \in Seq(R)
        BY <3>1, <2>1
      <3>3. n \in Nat /\ \A k \in 1..n : Rules[k] \in R
        BY <3>2, <1>a
      <3> QED
        BY <3>1, <3>3
    <2> QED
      BY <2>2
  <1>1. PICK v : v = [k \in 1..n |-> IF Rules[k].rule \in found THEN Rules[k].score ELSE 0]
    OBVIOUS
  <1>2. v \in [1..n -> Nat]
    BY <1>0, <1>1
  <1> DEFINE P(u) == u = [k \in 0..n |-> IF k = 0 THEN 0
                                        ELSE u[k - 1] + (IF Rules[k].rule \in found THEN Rules[k].score ELSE 0)]
  <1>3. ASSUME NEW u PROVE P(u) <=> Sums(n, v, u)
    <2>1. \A k \in 0..n : k # 0 => v[k] = IF Rules[k].rule \in found THEN Rules[k].score ELSE 0
      BY <1>0, <1>1
    <2>2. [k \in 0..n |-> IF k = 0 THEN 0 ELSE u[k - 1] + (IF Rules[k].rule \in found THEN Rules[k].score ELSE 0)]
            = [k \in 0..n |-> IF k = 0 THEN 0 ELSE u[k - 1] + v[k]]
      BY <2>1
    <2> QED
      BY <2>2 DEF Sums
  <1>4. PICK g : P(g)
    BY <1>0, <1>2, <1>3, SumsExist
  <1>5. PICK u : u = CHOOSE w : P(w)
    OBVIOUS
  <1>6. P(u)
    BY <1>4, <1>5
  <1>7. ScoreOf(found) = u[n]
    BY <1>a, <1>5 DEF ScoreOf
  <1> HIDE DEF P
  <1>8. \A k \in 0..n : u[k] \in Nat
    BY <1>0, <1>2, <1>3, <1>6, SumsStep
  <1> QED
    BY <1>0, <1>7, <1>8

(* What is wrong with a header.                                             *)
LEMMA FaultScoreIs ==
    ASSUME NEW faults PROVE FaultScore(faults) \in Nat
  BY DEF FaultScore, HeaderScore

(* check_headers() stops early only where the headers suffice.              *)
Agree(x, w) == x \in Nat /\ w \in Nat /\ (x >= Threshold <=> w >= Threshold) /\ (w < Threshold => x = w)
CheckNext(x, faults) == IF x >= Threshold THEN x ELSE x + FaultScore(faults)

(* So they come to the threshold exactly if all headers together do.        *)
LEMMA CheckAgrees ==
    ASSUME NEW S, NEW headers \in Seq(S)
    PROVE  Agree(CheckHeaders(headers), HeaderWeight(headers))
  <1>a. PICK n : n = Len(headers)
    OBVIOUS
  <1>0. n \in Nat /\ n \in 0..n /\ Threshold \in Nat
    BY <1>a, WafAssumption
  <1>1. PICK v : v = [k \in 1..n |-> FaultScore(headers[k])]
    OBVIOUS
  <1>2. v \in [1..n -> Nat]
    BY <1>1, FaultScoreIs
  <1> DEFINE P(u) == u = [k \in 0..n |-> IF k = 0 THEN 0 ELSE u[k - 1] + FaultScore(headers[k])]
             Q(u) == u = [k \in 0..n |-> IF k = 0 THEN 0
                                         ELSE IF u[k - 1] >= Threshold THEN u[k - 1]
                                         ELSE u[k - 1] + FaultScore(headers[k])]
  <1>3. ASSUME NEW u PROVE P(u) <=> Sums(n, v, u)
    <2>1. \A k \in 0..n : k # 0 => v[k] = FaultScore(headers[k])
      BY <1>0, <1>1
    <2>2. [k \in 0..n |-> IF k = 0 THEN 0 ELSE u[k - 1] + FaultScore(headers[k])]
            = [k \in 0..n |-> IF k = 0 THEN 0 ELSE u[k - 1] + v[k]]
      BY <2>1
    <2> QED
      BY <2>2 DEF Sums
  <1>4. PICK g : P(g)
    BY <1>0, <1>2, <1>3, SumsExist
  <1>5. PICK w : w = CHOOSE x : P(x)
    OBVIOUS
  <1>6. P(w)
    BY <1>4, <1>5
  <1>7. HeaderWeight(headers) = w[n]
    BY <1>a, <1>5 DEF HeaderWeight
  <1>8. w[0] = 0 /\ (\A k \in 1..n : w[k] = w[k - 1] + v[k]) /\ \A k \in 0..n : w[k] \in Nat
    <2> HIDE DEF P
    <2> QED
      BY <1>0, <1>2, <1>3, <1>6, SumsStep
  <1>9. PICK F : F = [k \in 1..n |-> [x \in Nat |-> CheckNext(x, headers[k])]]
    OBVIOUS
  <1>10. ASSUME NEW k \in 1..n, NEW x \in Nat PROVE F[k][x] = CheckNext(x, headers[k]) /\ F[k][x] \in Nat
    <2>1. PICK G : G = [y \in Nat |-> CheckNext(y, headers[k])]
      OBVIOUS
    <2>2. F[k] = G
      BY <1>9, <2>1
    <2>3. G[x] = CheckNext(x, headers[k])
      BY <2>1
    <2>4. CheckNext(x, headers[k]) \in Nat
      BY FaultScoreIs DEF CheckNext
    <2> QED
      BY <2>2, <2>3, <2>4
  <1>11. LeadsIn(n, Nat, F)
    BY <1>10 DEF LeadsIn
  <1>12. PICK h : Iterates(n, Nat, 0, F, h)
    BY <1>0, <1>11, Iterated DEF LeadsIn
  <1>13. Q(h)
    <2>1. \A k \in 0..n : h[k] = IF k = 0 THEN 0 ELSE CheckNext(h[k - 1], headers[k])
      <3> TAKE k \in 0..n
      <3>1. k = 0 \/ k \in 1..n
        BY <1>0
      <3>2. CASE k \in 1..n
        <4>1. k - 1 \in 0..n /\ k # 0
          BY <3>2, <1>0
        <4>2. h[k - 1] \in Nat /\ h[k] = F[k][h[k - 1]]
          BY <4>1, <3>2, <1>12 DEF Iterates
        <4> QED
          BY <4>1, <4>2, <3>2, <1>10
      <3> QED
        BY <3>1, <3>2, <1>12 DEF Iterates
    <2> QED
      BY <2>1, <1>12 DEF Iterates, CheckNext
  <1>14. PICK u : u = CHOOSE x : Q(x)
    OBVIOUS
  <1>15. Q(u)
    BY <1>13, <1>14
  <1>16. CheckHeaders(headers) = u[n]
    BY <1>a, <1>14 DEF CheckHeaders
  <1>17. \A k \in 0..n : u[k] = IF k = 0 THEN 0 ELSE CheckNext(u[k - 1], headers[k])
    BY <1>15 DEF CheckNext
  <1> HIDE DEF P, Q
  <1> DEFINE T == {k \in 0..n : Agree(u[k], w[k])}
  <1>18. 0 \in T
    <2>1. u[0] = 0 /\ w[0] = 0
      BY <1>0, <1>8, <1>17
    <2> QED
      BY <2>1, <1>0 DEF Agree
  <1>19. ASSUME NEW k \in 1..n, k - 1 \in T PROVE k \in T
    <2>1. k \in 0..n /\ k # 0
      BY <1>0
    <2>2. PICK x : x = u[k - 1]
      OBVIOUS
    <2>3. PICK y : y = w[k - 1]
      OBVIOUS
    <2>4. PICK f : f = FaultScore(headers[k])
      OBVIOUS
    <2>5. f \in Nat /\ Agree(x, y)
      BY <2>2, <2>3, <2>4, <1>19, FaultScoreIs
    <2>6. w[k] = y + f
      BY <2>3, <2>4, <1>1, <1>8
    <2>7. u[k] = CheckNext(x, headers[k])
      BY <2>1, <2>2, <1>17
    <2>8. u[k] = IF x >= Threshold THEN x ELSE x + f
      BY <2>4, <2>7 DEF CheckNext
    <2>9. Agree(u[k], w[k])
      BY <2>5, <2>6, <2>8, <1>0 DEF Agree
    <2> QED
      BY <2>1, <2>9
  <1>20. 0..n \subseteq T
    <2> HIDE DEF T
    <2> QED
      BY <1>0, <1>18, <1>19, UpTo
  <1>21. Agree(u[n], w[n])
    BY <1>0, <1>20
  <1> QED
    BY <1>7, <1>16, <1>21

(* The verdict while n is what has been added up.                           *)
Verdicts == [blocked : BOOLEAN, score : Nat]
SoFar(v, n) == v \in Verdicts /\ (v.blocked => n >= Threshold) /\ (~v.blocked => v.score = n)
Totals(v, n) == SoFar(v, n) /\ (v.blocked <=> n >= Threshold)

(* Adding a score keeps the verdict and the sum in step.                    *)
LEMMA AddTotals ==
    ASSUME NEW v, NEW n \in Nat, NEW x \in Nat, SoFar(v, n)
    PROVE  Totals(Add(v, x), n + x)
  <1>0. Threshold \in Nat /\ v \in Verdicts /\ v.score \in Nat
    BY WafAssumption DEF SoFar, Verdicts
  <1>1. CASE v.blocked
    <2>1. Add(v, x) = v
      BY <1>1 DEF Add
    <2>2. n >= Threshold
      BY <1>1 DEF SoFar
    <2>3. n + x >= Threshold
      BY <2>2, <1>0
    <2> QED
      BY <2>1, <2>3, <1>0, <1>1 DEF Totals, SoFar
  <1>2. CASE ~v.blocked
    <2>1. PICK t : t = n + x
      OBVIOUS
    <2>2. PICK y : y = (t >= Threshold)
      OBVIOUS
    <2>3. y \in BOOLEAN /\ t \in Nat
      BY <2>1, <2>2, <1>0
    <2>4. v.score = n
      BY <1>2 DEF SoFar
    <2>5. Add(v, x) = [blocked |-> y, score |-> t]
      BY <2>1, <2>2, <2>4, <1>2 DEF Add
    <2>6. Totals([blocked |-> y, score |-> t], t)
      BY <2>2, <2>3 DEF Totals, SoFar, Verdicts
    <2> QED
      BY <2>1, <2>5, <2>6
  <1> QED
    BY <1>1, <1>2

(* A blocked request stays blocked.                                         *)
LEMMA AddBlocked ==
    ASSUME NEW v, NEW x, v.blocked PROVE Add(v, x) = v
  BY DEF Add

(* inspect() blocks a request exactly if it is suspicious.                  *)
LEMMA InspectIs ==
    ASSUME NEW r \in Requests, NEW s, s = r.signs, NEW body \in Seq(SentUnits)
    PROVE  Inspect(s, body).blocked <=> Suspicious(s, body)
  <1>1. /\ s.malformed_uri \in BOOLEAN /\ s.blocked_ua \in BOOLEAN
        /\ s.headers \in Seq(SUBSET DOMAIN HeaderScore) /\ s.path \in Seq(STRING) /\ s.query \in Seq(STRING)
    BY SignsAssumption
  <1>2. PICK h : h = CheckHeaders(s.headers)
    OBVIOUS
  <1>3. PICK w : w = HeaderWeight(s.headers)
    OBVIOUS
  <1>4. PICK a : a = ScanPayload(s.path)
    OBVIOUS
  <1>5. PICK q : q = ScanPayload(s.query)
    OBVIOUS
  <1>6. PICK part : part = ScannedBody(body)
    OBVIOUS
  <1>7. PICK c : c = ScanPayload(part)
    OBVIOUS
  <1>8. part \in Seq(SentUnits)
    <2>1. PICK m : m = Min({BodyLimit, Len(body)})
      OBVIOUS
    <2>2. BodyLimit \in Nat /\ Len(body) \in Nat
      BY WafAssumption
    <2>3. m \in 0..Len(body)
      <3>1. \E x \in {BodyLimit, Len(body)} : \A z \in {BodyLimit, Len(body)} : x <= z
        BY <2>2
      <3>2. m \in {BodyLimit, Len(body)} /\ \A z \in {BodyLimit, Len(body)} : m <= z
        BY <3>1, <2>1 DEF Min
      <3> QED
        BY <3>2, <2>2
    <2> QED
      BY <2>1, <2>3, <1>6, Beginning DEF ScannedBody
  <1>9. Agree(h, w)
    BY <1>1, <1>2, <1>3, CheckAgrees
  <1>10. a \in Nat /\ a = Weight(s.path) /\ q \in Nat /\ q = Weight(s.query) /\ c \in Nat /\ c = Weight(part)
    <2>1. a = Weight(s.path)
      BY <1>1, <1>4, ScanIs
    <2>2. q = Weight(s.query)
      BY <1>1, <1>5, ScanIs
    <2>3. c = Weight(part)
      BY <1>7, <1>8, ScanIs
    <2> QED
      BY <2>1, <2>2, <2>3, ScoreIs DEF Weight
  <1>11. Threshold \in Nat /\ h \in Nat /\ w \in Nat
    BY <1>9, WafAssumption DEF Agree
  <1>12. PICK m : m = Contains(part, "multibyte")
    OBVIOUS
  <1>13. m <=> "multibyte" \in ToSet(part)
    BY <1>8, <1>12 DEF Contains, ToSet
  <1>14. Suspicious(s, body) <=> s.malformed_uri \/ s.blocked_ua \/ m \/ w + a + q + c >= Threshold
    BY <1>3, <1>6, <1>10, <1>13 DEF Suspicious
  <1>15. PICK v1 : v1 = IF s.malformed_uri THEN Block(Clear) ELSE Clear
    OBVIOUS
  <1>16. PICK ua : ua = IF s.blocked_ua THEN Threshold ELSE 0
    OBVIOUS
  <1>17. PICK v2 : v2 = Add(v1, ua)
    OBVIOUS
  <1>18. PICK v3 : v3 = Add(v2, h)
    OBVIOUS
  <1>19. PICK v4 : v4 = Add(v3, a)
    OBVIOUS
  <1>20. PICK v5 : v5 = Add(v4, q)
    OBVIOUS
  <1>21. Inspect(s, body) = InspectBody(v5, body)
    BY <1>2, <1>4, <1>5, <1>15, <1>16, <1>17, <1>18, <1>19, <1>20 DEF Inspect
  <1>22. InspectBody(v5, body) = IF v5.blocked THEN v5 ELSE IF m THEN Block(v5) ELSE Add(v5, c)
    BY <1>6, <1>7, <1>12 DEF InspectBody
  <1>23. CASE s.malformed_uri
    <2>1. v1.blocked
      BY <1>15, <1>23 DEF Block
    <2>2. v2 = v1 /\ v3 = v1 /\ v4 = v1 /\ v5 = v1
      BY <2>1, <1>17, <1>18, <1>19, <1>20, AddBlocked
    <2> QED
      BY <2>1, <2>2, <1>14, <1>21, <1>22, <1>23
  <1>24. CASE ~s.malformed_uri
    <2>1. SoFar(v1, 0)
      BY <1>15, <1>24 DEF Clear, SoFar, Verdicts
    <2>2. ua \in Nat
      BY <1>11, <1>16
    <2>3. Totals(v2, 0 + ua)
      BY <2>1, <2>2, <1>17, AddTotals
    <2>4. PICK n2 : n2 = 0 + ua
      OBVIOUS
    <2>5. n2 \in Nat /\ n2 = ua /\ SoFar(v2, n2)
      BY <2>2, <2>3, <2>4 DEF Totals
    <2>6. PICK n3 : n3 = n2 + h
      OBVIOUS
    <2>7. n3 \in Nat /\ SoFar(v3, n3)
      BY <2>5, <2>6, <1>11, <1>18, AddTotals DEF Totals
    <2>8. PICK n4 : n4 = n3 + a
      OBVIOUS
    <2>9. n4 \in Nat /\ SoFar(v4, n4)
      <3>1. a \in Nat
        BY <1>10
      <3>2. Totals(Add(v3, a), n3 + a)
        BY <3>1, <2>7, AddTotals
      <3>3. n4 \in Nat
        BY <3>1, <2>7, <2>8
      <3> QED
        BY <3>2, <3>3, <2>8, <1>19 DEF Totals
    <2>10. PICK n5 : n5 = n4 + q
      OBVIOUS
    <2>11. n5 \in Nat /\ Totals(v5, n5)
      <3>1. q \in Nat
        BY <1>10
      <3>2. Totals(Add(v4, q), n4 + q)
        BY <3>1, <2>9, AddTotals
      <3>3. n5 \in Nat
        BY <3>1, <2>9, <2>10
      <3> QED
        BY <3>2, <3>3, <2>10, <1>20
    <2>12. Totals(Add(v5, c), n5 + c)
      BY <2>11, <1>10, AddTotals DEF Totals
    <2>13. n5 = ua + h + a + q
      BY <2>2, <2>4, <2>5, <2>6, <2>8, <2>10, <1>10, <1>11
    <2>14. n5 + c >= Threshold <=> s.blocked_ua \/ w + a + q + c >= Threshold
      <3>1. CASE s.blocked_ua
        <4>1. ua = Threshold
          BY <3>1, <1>16
        <4>2. n5 + c >= Threshold
          BY <4>1, <2>13, <1>10, <1>11
        <4> QED
          BY <3>1, <4>2
      <3>2. CASE ~s.blocked_ua
        <4>1. n5 = h + a + q
          BY <3>2, <2>2, <2>13, <1>10, <1>11, <1>16
        <4>2. CASE w >= Threshold
          <5>1. h >= Threshold
            BY <4>2, <1>9 DEF Agree
          <5> QED
            BY <5>1, <4>1, <4>2, <1>10, <1>11
        <4>3. CASE ~(w >= Threshold)
          <5>1. h = w
            BY <4>3, <1>9, <1>11 DEF Agree
          <5> QED
            BY <5>1, <4>1, <3>2, <1>10, <1>11
        <4> QED
          BY <4>2, <4>3
      <3> QED
        BY <3>1, <3>2, <1>1
    <2>15. CASE v5.blocked
      <3>1. n5 >= Threshold
        BY <2>11, <2>15 DEF Totals
      <3>2. n5 + c >= Threshold
        BY <3>1, <2>11, <1>10, <1>11
      <3> QED
        BY <3>2, <2>14, <2>15, <1>14, <1>21, <1>22
    <2>16. CASE ~v5.blocked /\ m
      <3>1. Block(v5).blocked
        BY DEF Block
      <3> QED
        BY <3>1, <2>16, <1>14, <1>21, <1>22
    <2>17. CASE ~v5.blocked /\ ~m
      <3>1. Inspect(s, body) = Add(v5, c)
        BY <2>17, <1>21, <1>22
      <3>2. Add(v5, c).blocked <=> n5 + c >= Threshold
        BY <2>12 DEF Totals
      <3> QED
        BY <3>1, <3>2, <2>14, <2>17, <1>14, <1>24
    <2> QED
      BY <2>15, <2>16, <2>17
  <1> QED
    BY <1>1, <1>23, <1>24

(* The worker between the steps.                                            *)
VerdictInv ==
    /\ xpc \in {"read", "inspect", "php", "websocket", "file", "closed"}
    /\ verdict \in {"none", "passed", "blocked"}
    /\ parser.state # "COMPLETE" => xpc \in {"read", "closed"}
    /\ verdict # "none" =>
          parser.state = "COMPLETE" /\ (verdict = "blocked" <=> Suspicious(req.signs, parser.body))

(* A new exchange has no verdict.                                           *)
LEMMA VerdictStarts == Init => VerdictInv
  BY DEF Init, ParserInit, NewParser, VerdictInv

(* Steps that leave the parser and the verdict.                             *)
LEMMA VerdictStays ==
    ASSUME VerdictInv, UNCHANGED <<parserVars, verdict>>,
           xpc' \in {"read", "inspect", "php", "websocket", "file", "closed"},
           xpc' \in {xpc, "closed"} \/ parser.state = "COMPLETE"
    PROVE  VerdictInv'
  <1>1. req' = req /\ parser' = parser /\ verdict' = verdict
    BY DEF parserVars
  <1>2. /\ verdict' \in {"none", "passed", "blocked"}
        /\ verdict' # "none" =>
             parser'.state = "COMPLETE" /\ (verdict' = "blocked" <=> Suspicious(req'.signs, parser'.body))
    BY <1>1 DEF VerdictInv
  <1>3. parser'.state # "COMPLETE" => xpc' \in {"read", "closed"}
    BY <1>1 DEF VerdictInv
  <1> QED
    BY <1>2, <1>3 DEF VerdictInv

(* A read.                                                                  *)
LEMMA ReadKeepsVerdict ==
    ASSUME VerdictInv, ParserInv', NEW cut, Read(cut)
    PROVE  VerdictInv'
  <1>1. /\ parser.state = "INCOMPLETE" /\ verdict' = verdict /\ xpc = "read"
        /\ xpc' = IF parser'.state = "INCOMPLETE" THEN "read" ELSE IF parser'.state = "ERROR" THEN "closed" ELSE "inspect"
    BY DEF Read, Feed
  <1>2. verdict' = "none"
    BY <1>1 DEF VerdictInv
  <1>3. parser'.state \in {"INCOMPLETE", "COMPLETE", "ERROR"}
    BY DEF ParserInv, Parsers
  <1> QED
    BY <1>1, <1>2, <1>3 DEF VerdictInv

(* The inspection.                                                          *)
LEMMA InspectKeepsVerdict ==
    ASSUME VerdictInv, ParserInv, InspectRequest
    PROVE  VerdictInv'
  <1>1. /\ xpc = "inspect" /\ req' = req /\ parser' = parser
        /\ verdict' = IF Inspect(req.signs, parser.body).blocked THEN "blocked" ELSE "passed"
        /\ xpc' \in {"php", "websocket", "file", "closed"}
    BY DEF InspectRequest, parserVars
  <1>2. parser.state = "COMPLETE"
    BY <1>1 DEF VerdictInv
  <1>3. req \in Requests /\ parser.body \in Seq(SentUnits)
    BY DEF ParserInv, Parsers
  <1>4. Inspect(req.signs, parser.body).blocked <=> Suspicious(req.signs, parser.body)
    <2>1. PICK r : r = req
      OBVIOUS
    <2>2. PICK body : body = parser.body
      OBVIOUS
    <2>3. PICK s : s = r.signs
      OBVIOUS
    <2>4. Inspect(s, body).blocked <=> Suspicious(s, body)
      BY <2>1, <2>2, <2>3, <1>3, InspectIs
    <2> QED
      BY <2>1, <2>2, <2>3, <2>4
  <1>5. verdict' = "blocked" <=> Suspicious(req'.signs, parser'.body)
    BY <1>1, <1>4
  <1> QED
    BY <1>1, <1>2, <1>5 DEF VerdictInv

(* Any step.                                                                *)
LEMMA VerdictStep == VerdictInv /\ ParserInv /\ ParserInv' /\ [Next]_vars => VerdictInv'
  <1> SUFFICES ASSUME VerdictInv, ParserInv, ParserInv', [Next]_vars PROVE VerdictInv'
    OBVIOUS
  <1>0. xpc \in {"read", "inspect", "php", "websocket", "file", "closed"}
    BY DEF VerdictInv
  <1>2. CASE FastCGI
    BY <1>0, <1>2, VerdictStays DEF FastCGI
  <1>3. CASE UNCHANGED vars
    BY <1>0, <1>3, VerdictStays DEF vars, parserVars
  <1>4. ASSUME NEW cut, Read(cut) PROVE VerdictInv'
    BY <1>4, ReadKeepsVerdict
  <1>5. CASE InspectRequest
    BY <1>5, InspectKeepsVerdict
  <1>6. CASE ReadStops
    BY <1>0, <1>6, VerdictStays DEF ReadStops
  <1>7. ASSUME NEW f, Client(f) PROVE VerdictInv'
    BY <1>0, <1>7, VerdictStays DEF Client
  <1>8. ASSUME NEW n, WebSocket(n) PROVE VerdictInv'
    BY <1>0, <1>8, VerdictStays DEF WebSocket
  <1>9. CASE StaticFile
    BY <1>0, <1>9, VerdictStays DEF StaticFile
  <1> QED
    BY <1>2, <1>3, <1>4, <1>5, <1>6, <1>7, <1>8, <1>9 DEF Next

(* A verdict is given on complete requests only, and is the one the signs   *)
(* of the request and the parsed body call for.                             *)
THEOREM VerdictInvariant == Spec => []VerdictInv
  BY VerdictStarts, VerdictStep, ParserInvariant, PTL DEF Spec

(* inspect() comes to the verdict that all signs together call for, in      *)
(* every request whose body the parser hands on as it was sent.             *)
THEOREM VerdictTotal == Spec => [](RequestAsSent => VerdictIsTotal)
  <1>1. VerdictInv => (RequestAsSent => VerdictIsTotal)
    BY DEF VerdictInv, RequestAsSent, VerdictIsTotal
  <1> QED
    BY <1>1, VerdictInvariant, PTL

-----------------------------------------------------------------------------
(* A request to the application: what its records hold.                     *)

(* Records of at most n units.                                              *)
LEMMA Multiples ==
    ASSUME NEW n \in Nat \ {0}
    PROVE  /\ \A k \in Nat : k * n \in Nat /\ k * n >= k
           /\ \A k \in Nat \ {0} : k * n = (k - 1) * n + n
  OBVIOUS

(* A beginning, and what follows it.                                        *)
LEMMA Continued ==
    ASSUME NEW S, NEW s \in Seq(S), NEW b \in 0..Len(s), NEW a \in 0..b, NEW t, t = SubSeq(s, a + 1, b)
    PROVE  t \in Seq(S) /\ Len(t) = b - a /\ SubSeq(s, 1, b) = SubSeq(s, 1, a) \o t
  <1>1. t \in Seq(S) /\ Len(t) = b - a
    OBVIOUS
  <1>2. PICK p : p = SubSeq(s, 1, a)
    OBVIOUS
  <1>3. PICK c : Joins(c, p, t)
    BY DEF Joins
  <1>4. p \in Seq(S) /\ Len(p) = a /\ \A i \in 1..a : p[i] = s[i]
    <2>1. a \in 0..Len(s)
      OBVIOUS
    <2> QED
      BY <2>1, <1>2, Beginning
  <1>5. c \in Seq(S) /\ IsJoin(c, p, t)
    BY <1>1, <1>3, <1>4, JoinIs
  <1>6. Len(c) = b /\ (\A i \in 1..a : c[i] = s[i]) /\ \A i \in 1..(b - a) : c[a + i] = t[i]
    <2>1. Len(c) = a + (b - a) /\ a + (b - a) = b
      BY <1>1, <1>4, <1>5 DEF IsJoin
    <2>2. \A i \in 1..a : c[i] = s[i]
      BY <1>4, <1>5 DEF IsJoin
    <2>3. \A i \in 1..(b - a) : c[a + i] = t[i]
      BY <1>1, <1>4, <1>5 DEF IsJoin
    <2> QED
      BY <2>1, <2>2, <2>3
  <1>7. \A i \in 1..(b - a) : t[i] = s[a + i]
    OBVIOUS
  <1>8. ASSUME NEW i \in 1..b PROVE c[i] = s[i]
    <2>1. CASE i <= a
      BY <2>1, <1>6
    <2>2. CASE i > a
      <3>1. i - a \in 1..(b - a) /\ a + (i - a) = i
        BY <2>2
      <3> QED
        BY <3>1, <1>6, <1>7
    <2> QED
      BY <2>1, <2>2
  <1>9. PICK q : q = SubSeq(s, 1, b)
    OBVIOUS
  <1>10. q \in Seq(S) /\ Len(q) = b /\ \A i \in 1..b : q[i] = s[i]
    BY <1>9, Beginning
  <1>11. q = c
    BY <1>5, <1>6, <1>8, <1>10, SameUnits
  <1> QED
    BY <1>1, <1>2, <1>3, <1>9, <1>11 DEF Joins

(* n records of at most m hold l units, and no fewer do.                    *)
Suffices(n, m, l) == n \in 0..l /\ n * m >= l /\ \A k \in Nat : k < n => k * m < l

(* Records() makes as many.                                                 *)
LEMMA RecordsSuffice ==
    ASSUME NEW m \in Nat \ {0}, NEW l \in Nat
    PROVE  Suffices(Min({k \in 0..l : k * m >= l}), m, l)
  <1>1. PICK T : T = {k \in 0..l : k * m >= l}
    OBVIOUS
  <1>2. l \in T
    <2>1. l * m >= l
      BY Multiples
    <2> QED
      BY <2>1, <1>1
  <1>3. T \subseteq Nat
    BY <1>1
  <1>4. \E x \in T : \A y \in T : x <= y
    BY <1>2, <1>3, LeastElement
  <1>5. PICK n : n = Min(T)
    OBVIOUS
  <1>6. n \in T /\ \A y \in T : n <= y
    BY <1>4, <1>5 DEF Min
  <1>7. n \in 0..l /\ n * m >= l
    BY <1>1, <1>6
  <1>8. ASSUME NEW k \in Nat, k < n PROVE k * m < l
    <2>1. k \in 0..l /\ k \notin T
      BY <1>6, <1>7, <1>8
    <2>2. ~(k * m >= l)
      BY <2>1, <1>1
    <2>3. k * m \in Nat
      BY Multiples
    <2> QED
      BY <2>2, <2>3
  <1> QED
    BY <1>1, <1>5, <1>7, <1>8 DEF Suffices

(* The smaller of two.                                                      *)
LEMMA MinOfTwo ==
    ASSUME NEW a \in Nat, NEW b \in Nat
    PROVE  Min({a, b}) = IF a <= b THEN a ELSE b
  <1>1. PICK x : x = IF a <= b THEN a ELSE b
    OBVIOUS
  <1>2. x \in {a, b} /\ \A y \in {a, b} : x <= y
    BY <1>1
  <1>3. Min({a, b}) \in {a, b} /\ \A y \in {a, b} : Min({a, b}) <= y
    BY <1>2 DEF Min
  <1> QED
    BY <1>1, <1>3

(* The records of a stream, one after the other, and the empty one.         *)
IsBlock(rs, A, type, content) ==
    /\ Len(rs) \in Nat /\ Len(rs) > 0
    /\ rs \in Seq([type : {type}, content : Seq(A)])
    /\ \A i \in 1..Len(rs) : rs[i].content = <<>> <=> i = Len(rs)
    /\ ContentOf(rs, Len(rs), type) = content

(* Records() makes one.                                                     *)
LEMMA RecordsAre ==
    ASSUME NEW A, NEW type, NEW content \in Seq(A)
    PROVE  IsBlock(Records(type, content), A, type, content)
  <1>1. PICK m : m = MaxRecord
    OBVIOUS
  <1>2. PICK l : l = Len(content)
    OBVIOUS
  <1>3. PICK n : n = Min({k \in 0..l : k * m >= l})
    OBVIOUS
  <1>4. m \in Nat \ {0} /\ l \in Nat
    BY <1>1, <1>2, FcgiAssumption
  <1>5. Suffices(n, m, l)
    BY <1>3, <1>4, RecordsSuffice
  <1>6. n \in Nat /\ n * m >= l /\ n * m \in Nat /\ n <= l
    <2>1. n \in 0..l /\ n * m >= l
      BY <1>5 DEF Suffices
    <2> QED
      BY <2>1, <1>4, Multiples
  <1> DEFINE Q(i) == SubSeq(content, (i - 1) * m + 1, Min({i * m, l}))
  <1>7. PICK P : P = [i \in 1..n |-> Q(i)]
    OBVIOUS
  <1>8. PICK rs : rs = [i \in 1..(n + 1) |-> [type |-> type, content |-> IF i <= n THEN P[i] ELSE <<>>]]
    OBVIOUS
  <1>9. Records(type, content) = rs
    <2>1. ASSUME NEW i \in 1..(n + 1), i <= n PROVE P[i] = Q(i)
      <3>1. i \in 1..n
        BY <2>1, <1>6
      <3> HIDE DEF Q
      <3> QED
        BY <3>1, <1>7
    <2>2. Records(type, content) =
            [i \in 1..(n + 1) |-> [type |-> type, content |-> IF i <= n THEN Q(i) ELSE <<>>]]
      BY <1>1, <1>2, <1>3 DEF Records
    <2> HIDE DEF Q
    <2> QED
      BY <2>1, <2>2, <1>8
  <1>10. PICK e : e = [i \in 0..n |-> IF i < n THEN i * m ELSE l]
    OBVIOUS
  (* Where the records begin and end in the content. *)
  <1>11. ASSUME NEW i \in 0..n PROVE e[i] \in 0..l
    <2>1. CASE i < n
      <3>1. i \in Nat /\ i * m < l /\ i * m \in Nat
        BY <2>1, <1>4, <1>5, Multiples DEF Suffices
      <3> QED
        BY <3>1, <2>1, <1>4, <1>10
    <2>2. CASE ~(i < n)
      BY <2>2, <1>4, <1>10
    <2> QED
      BY <2>1, <2>2
  <1>12. ASSUME NEW i \in 1..n
         PROVE  e[i - 1] < e[i] /\ P[i] = SubSeq(content, e[i - 1] + 1, e[i])
    <2>0. i - 1 \in 0..n /\ i - 1 \in Nat /\ i - 1 < n /\ i \in 0..n /\ i \in Nat \ {0}
      BY <1>6
    <2>1. PICK a : a = (i - 1) * m
      OBVIOUS
    <2>2. a \in Nat /\ a < l /\ i * m = a + m
      BY <2>0, <2>1, <1>4, <1>5, Multiples DEF Suffices
    <2>3. e[i - 1] = a
      BY <2>0, <2>1, <1>10
    <2>4. PICK b : b = i * m
      OBVIOUS
    <2>5. b \in Nat /\ a < b
      BY <2>2, <2>4, <1>4
    <2>6. Min({b, l}) = e[i]
      <3>1. CASE i < n
        <4>1. b < l
          BY <3>1, <2>0, <2>4, <1>5 DEF Suffices
        <4> QED
          BY <4>1, <3>1, <2>0, <2>4, <2>5, <1>4, <1>10, MinOfTwo
      <3>2. CASE ~(i < n)
        <4>1. i = n /\ l <= b
          BY <3>2, <2>0, <2>4, <1>6
        <4> QED
          BY <4>1, <2>0, <2>5, <1>4, <1>10, MinOfTwo
      <3> QED
        BY <3>1, <3>2
    <2>7. a < e[i]
      BY <2>2, <2>5, <2>6, <1>4, MinOfTwo
    <2> QED
      BY <2>1, <2>3, <2>4, <2>6, <2>7, <1>7
  <1>13. e[0] = 0 /\ e[n] = l
    <2>1. 0 * m = 0
      BY <1>4
    <2>2. CASE n = 0
      <3>1. l = 0
        BY <2>1, <2>2, <1>4, <1>6
      <3> QED
        BY <3>1, <2>2, <1>10
    <2>3. CASE n # 0
      BY <2>1, <2>3, <1>6, <1>10
    <2> QED
      BY <2>2, <2>3
  <1>14. ASSUME NEW i \in 1..n
         PROVE  /\ P[i] \in Seq(A) /\ P[i] # <<>>
                /\ SubSeq(content, 1, e[i]) = SubSeq(content, 1, e[i - 1]) \o P[i]
    <2>1. i - 1 \in 0..n /\ i \in 0..n
      BY <1>6
    <2>2. PICK a : a = e[i - 1]
      OBVIOUS
    <2>3. PICK b : b = e[i]
      OBVIOUS
    <2>4. a \in 0..l /\ b \in 0..l /\ a < b /\ P[i] = SubSeq(content, a + 1, b)
      BY <2>1, <2>2, <2>3, <1>11, <1>12
    <2>5. b \in 0..Len(content) /\ a \in 0..b
      BY <2>4, <1>2, <1>4
    <2>6. P[i] \in Seq(A) /\ Len(P[i]) = b - a /\ SubSeq(content, 1, b) = SubSeq(content, 1, a) \o P[i]
      BY <2>4, <2>5, Continued
    <2>7. Len(P[i]) # 0
      BY <2>4, <2>6, <1>4
    <2> QED
      BY <2>2, <2>3, <2>6, <2>7
  <1>15. Len(rs) = n + 1 /\ n + 1 \in Nat /\ n + 1 > 0
    BY <1>6, <1>8
  <1>16. ASSUME NEW i \in 1..(n + 1)
         PROVE  rs[i].type = type /\ rs[i].content \in Seq(A) /\ (rs[i].content = <<>> <=> i = n + 1)
                /\ rs[i] = [type |-> type, content |-> rs[i].content]
    <2>1. /\ rs[i].type = type /\ rs[i].content = IF i <= n THEN P[i] ELSE <<>>
          /\ rs[i] = [type |-> type, content |-> rs[i].content]
      BY <1>8
    <2>2. CASE i <= n
      <3>1. i \in 1..n /\ i # n + 1
        BY <2>2, <1>6
      <3> QED
        BY <3>1, <2>1, <2>2, <1>14
    <2>3. CASE ~(i <= n)
      <3>1. i = n + 1
        BY <2>3, <1>6
      <3> QED
        BY <3>1, <2>1, <2>3
    <2> QED
      BY <2>2, <2>3
  <1>161. \A i \in 1..(n + 1) : rs[i].content \in Seq(A)
    BY <1>16
  <1> DEFINE S == {i \in 0..n : ContentOf(rs, i, type) = SubSeq(content, 1, e[i])}
  <1>17. 0 \in S
    <2>1. SubSeq(content, 1, 0) = <<>>
      OBVIOUS
    <2>2. ContentOf(rs, 0, type) = <<>>
      BY ContentOfNone
    <2>3. 0 \in 0..n
      BY <1>6
    <2> QED
      BY <2>1, <2>2, <2>3, <1>13
  <1>18. ASSUME NEW i \in 1..n, i - 1 \in S PROVE i \in S
    <2>1. i \in 1..(n + 1) /\ i \in 0..n /\ i <= n
      BY <1>6
    <2>2. ContentOf(rs, i, type) = ContentOf(rs, i - 1, type) \o Part(rs[i], type)
      <3>1. n + 1 \in Nat /\ i \in 1..(n + 1)
        BY <2>1, <1>15
      <3> QED
        BY ONLY <3>1, <1>161, ContentStep, Zenon
    <2>3. Part(rs[i], type) = P[i]
      BY <2>1, <1>8 DEF Part
    <2>4. ContentOf(rs, i - 1, type) = SubSeq(content, 1, e[i - 1])
      BY <1>18
    <2> QED
      BY <2>1, <2>2, <2>3, <2>4, <1>14
  <1>19. ContentOf(rs, n, type) = content
    <2>1. n \in S
      <3>1. 0..n \subseteq S
        <4> HIDE DEF S
        <4> QED
          BY <1>6, <1>17, <1>18, UpTo
      <3> QED
        BY <3>1, <1>6
    <2>2. SubSeq(content, 1, l) = content
      BY <1>2
    <2> QED
      BY <2>1, <2>2, <1>13
  <1>20. ContentOf(rs, n + 1, type) = content
    <2>1. n + 1 \in 1..(n + 1) /\ (n + 1) - 1 = n
      BY <1>6
    <2>0. ContentOf(rs, n + 1, type) = ContentOf(rs, (n + 1) - 1, type) \o Part(rs[n + 1], type)
      <3>1. n + 1 \in Nat /\ n + 1 \in 1..(n + 1)
        BY <2>1, <1>15
      <3> QED
        BY ONLY <3>1, <1>161, ContentStep, Zenon
    <2>2. ContentOf(rs, n + 1, type) = ContentOf(rs, n, type) \o Part(rs[n + 1], type)
      BY <2>1, <2>0
    <2>3. Part(rs[n + 1], type) = <<>>
      BY <2>1, <1>16 DEF Part
    <2> QED
      BY <2>2, <2>3, <1>19
  <1>21. rs \in Seq([type : {type}, content : Seq(A)])
    <2>1. PICK R : R = [type : {type}, content : Seq(A)]
      OBVIOUS
    <2>2. ASSUME NEW i \in 1..(n + 1) PROVE rs[i] \in R
      <3>1. PICK x : x = rs[i].content
        OBVIOUS
      <3>2. x \in Seq(A) /\ rs[i] = [type |-> type, content |-> x]
        BY <3>1, <1>16
      <3> QED
        BY <3>2, <2>1
    <2>3. rs \in [1..(n + 1) -> R]
      BY <2>2, <1>8
    <2>4. rs \in Seq(R)
      BY <2>3, <1>15
    <2> QED
      BY <2>1, <2>4
  <1> QED
    BY <1>9, <1>15, <1>16, <1>20, <1>21 DEF IsBlock

(* Records in a row.                                                        *)
HaveContent(rs, A) == Len(rs) \in Nat /\ \A i \in 1..Len(rs) : rs[i].content \in Seq(A)

(* What they hold of a stream.                                              *)
LEMMA ContentIs ==
    ASSUME NEW rs, NEW A, NEW type, HaveContent(rs, A), NEW p, p = [i \in 1..Len(rs) |-> Part(rs[i], type)]
    PROVE  /\ p \in Seq(Seq(A)) /\ Len(p) = Len(rs) /\ \A i \in 1..Len(rs) : p[i] = Part(rs[i], type)
           /\ FlattenSeq(p) = ContentOf(rs, Len(rs), type)
  <1>1. ASSUME NEW i \in 1..Len(rs) PROVE Part(rs[i], type) \in Seq(A)
    <2>1. rs[i].content \in Seq(A) /\ <<>> \in Seq(A)
      BY DEF HaveContent
    <2> QED
      BY <2>1 DEF Part
  <1>2. Len(rs) \in Nat
    BY DEF HaveContent
  <1>3. p \in Seq(Seq(A)) /\ Len(p) = Len(rs)
    BY <1>1, <1>2
  <1> QED
    BY <1>3 DEF ContentOf, Part

(* Their streams are in a row.                                              *)
LEMMA ContentJoin ==
    ASSUME NEW A, NEW type, NEW a, NEW b, NEW c, HaveContent(a, A), HaveContent(b, A), IsJoin(c, a, b)
    PROVE  /\ HaveContent(c, A)
           /\ ContentOf(c, Len(c), type) = ContentOf(a, Len(a), type) \o ContentOf(b, Len(b), type)
  <1>0. Len(a) \in Nat /\ Len(b) \in Nat /\ Len(c) = Len(a) + Len(b) /\ Len(c) \in Nat
    BY DEF HaveContent, IsJoin
  <1>1. ASSUME NEW i \in 1..Len(c)
        PROVE  \/ i \in 1..Len(a) /\ c[i] = a[i]
               \/ i - Len(a) \in 1..Len(b) /\ c[i] = b[i - Len(a)]
    <2>1. CASE i <= Len(a)
      <3>1. i \in 1..Len(a)
        BY <2>1, <1>0
      <3> QED
        BY <3>1 DEF IsJoin
    <2>2. CASE i > Len(a)
      <3>1. i - Len(a) \in 1..Len(b) /\ Len(a) + (i - Len(a)) = i
        BY <2>2, <1>0
      <3> QED
        BY <3>1 DEF IsJoin
    <2> QED
      BY <2>1, <2>2, <1>0
  <1>2. HaveContent(c, A)
    BY <1>0, <1>1 DEF HaveContent
  <1>3. PICK p : p = [i \in 1..Len(a) |-> Part(a[i], type)]
    OBVIOUS
  <1>4. PICK q : q = [i \in 1..Len(b) |-> Part(b[i], type)]
    OBVIOUS
  <1>5. PICK r : r = [i \in 1..Len(c) |-> Part(c[i], type)]
    OBVIOUS
  <1>6. /\ p \in Seq(Seq(A)) /\ Len(p) = Len(a) /\ \A i \in 1..Len(a) : p[i] = Part(a[i], type)
        /\ FlattenSeq(p) = ContentOf(a, Len(a), type)
    BY <1>3, ContentIs
  <1>7. /\ q \in Seq(Seq(A)) /\ Len(q) = Len(b) /\ \A i \in 1..Len(b) : q[i] = Part(b[i], type)
        /\ FlattenSeq(q) = ContentOf(b, Len(b), type)
    BY <1>4, ContentIs
  <1>8. /\ r \in Seq(Seq(A)) /\ Len(r) = Len(c) /\ \A i \in 1..Len(c) : r[i] = Part(c[i], type)
        /\ FlattenSeq(r) = ContentOf(c, Len(c), type)
    BY <1>2, <1>5, ContentIs
  <1>9. IsJoin(r, p, q)
    <2>1. Len(r) = Len(p) + Len(q)
      BY <1>0, <1>6, <1>7, <1>8
    <2>2. ASSUME NEW i \in 1..Len(p) PROVE r[i] = p[i]
      <3>1. i \in 1..Len(a) /\ i \in 1..Len(c) /\ c[i] = a[i]
        BY <1>0, <1>6 DEF IsJoin
      <3> QED
        BY <3>1, <1>6, <1>8
    <2>3. ASSUME NEW i \in 1..Len(q) PROVE r[Len(p) + i] = q[i]
      <3>1. i \in 1..Len(b) /\ Len(a) + i \in 1..Len(c) /\ c[Len(a) + i] = b[i]
        BY <1>0, <1>7 DEF IsJoin
      <3> QED
        BY <3>1, <1>6, <1>7, <1>8
    <2> QED
      BY <2>1, <2>2, <2>3 DEF IsJoin
  <1>10. FlattenSeq(r) = FlattenSeq(p) \o FlattenSeq(q)
    BY <1>6, <1>7, <1>8, <1>9, FlattenJoin
  <1> QED
    BY <1>2, <1>6, <1>7, <1>8, <1>10

(* Records of other streams hold nothing of this one.                       *)
LEMMA ContentOfOthers ==
    ASSUME NEW A, NEW type, NEW rs, HaveContent(rs, A), \A i \in 1..Len(rs) : rs[i].type # type
    PROVE  ContentOf(rs, Len(rs), type) = <<>>
  <1>0. Len(rs) \in Nat /\ \A i \in 1..Len(rs) : rs[i].content \in Seq(A)
    BY DEF HaveContent
  <1> DEFINE S == {k \in 0..Len(rs) : ContentOf(rs, k, type) = <<>>}
  <1>1. 0 \in S
    <2>1. 0 \in 0..Len(rs)
      BY <1>0
    <2> QED
      BY <2>1, ContentOfNone
  <1>2. ASSUME NEW k \in 1..Len(rs), k - 1 \in S PROVE k \in S
    <2>1. ContentOf(rs, k, type) = ContentOf(rs, k - 1, type) \o Part(rs[k], type)
      BY <1>0, ContentStep, Zenon
    <2>2. Part(rs[k], type) = <<>> /\ ContentOf(rs, k - 1, type) = <<>>
      BY <1>2 DEF Part
    <2>3. k \in 0..Len(rs) /\ <<>> \o <<>> = <<>>
      BY <1>0
    <2> QED
      BY <2>1, <2>2, <2>3
  <1>3. 0..Len(rs) \subseteq S
    <2> HIDE DEF S
    <2> QED
      BY <1>0, <1>1, <1>2, UpTo
  <1> QED
    BY <1>0, <1>3

(* What the application can put together of records: Forwarded, of any.     *)
ForwardedBy(rs, type, content) ==
    /\ ContentOf(rs, Len(rs), type) = content
    /\ \E last \in 1..Len(rs) :
          /\ rs[last].type = type
          /\ \A i \in 1..Len(rs) : rs[i].type = type =>
                i <= last /\ (rs[i].content = <<>> <=> i = last)

Others(rs, A, type) == HaveContent(rs, A) /\ \A i \in 1..Len(rs) : rs[i].type # type

(* The records of a stream after those of others.                           *)
LEMMA ForwardedLast ==
    ASSUME NEW A, NEW type, NEW content \in Seq(A), NEW a, NEW b, NEW c,
           Others(a, A, type), IsBlock(b, A, type, content), IsJoin(c, a, b)
    PROVE  ForwardedBy(c, type, content) /\ HaveContent(c, A)
  <1>0. /\ HaveContent(a, A) /\ Len(a) \in Nat /\ (\A i \in 1..Len(a) : a[i].type # type)
        /\ Len(b) \in Nat /\ Len(b) > 0 /\ Len(c) = Len(a) + Len(b) /\ Len(c) \in Nat
    BY DEF Others, HaveContent, IsBlock, IsJoin
  <1>1. \A i \in 1..Len(b) : b[i].type = type /\ b[i].content \in Seq(A) /\ (b[i].content = <<>> <=> i = Len(b))
    <2>1. PICK R : R = [type : {type}, content : Seq(A)]
      OBVIOUS
    <2>2. b \in Seq(R) /\ \A i \in 1..Len(b) : b[i].content = <<>> <=> i = Len(b)
      BY <2>1 DEF IsBlock
    <2>3. ASSUME NEW i \in 1..Len(b) PROVE b[i].type = type /\ b[i].content \in Seq(A)
      <3>1. b[i] \in R
        BY <2>2
      <3> QED
        BY <3>1, <2>1
    <2> QED
      BY <2>2, <2>3
  <1>2. HaveContent(b, A)
    BY <1>0, <1>1 DEF HaveContent
  <1>3. HaveContent(c, A) /\ ContentOf(c, Len(c), type) = ContentOf(a, Len(a), type) \o ContentOf(b, Len(b), type)
    BY <1>0, <1>2, ContentJoin
  <1>4. ContentOf(a, Len(a), type) = <<>> /\ ContentOf(b, Len(b), type) = content
    BY <1>0, ContentOfOthers DEF IsBlock
  <1>5. ContentOf(c, Len(c), type) = content
    <2>1. <<>> \o content = content
      OBVIOUS
    <2> QED
      BY <2>1, <1>3, <1>4
  <1>6. ASSUME NEW i \in 1..Len(c)
        PROVE  /\ c[i].type = type <=> i > Len(a)
               /\ i > Len(a) => (c[i].content = <<>> <=> i = Len(c))
    <2>1. CASE i <= Len(a)
      <3>1. i \in 1..Len(a)
        BY <2>1, <1>0
      <3>2. c[i] = a[i]
        BY <3>1 DEF IsJoin
      <3> QED
        BY <3>1, <3>2, <2>1, <1>0
    <2>2. CASE i > Len(a)
      <3>1. PICK k : k = i - Len(a)
        OBVIOUS
      <3>2. k \in 1..Len(b) /\ Len(a) + k = i /\ (k = Len(b) <=> i = Len(c))
        BY <3>1, <2>2, <1>0
      <3>3. c[i] = b[k]
        BY <3>2 DEF IsJoin
      <3> QED
        BY <3>2, <3>3, <2>2, <1>1
    <2> QED
      BY <2>1, <2>2, <1>0
  <1>7. Len(c) \in 1..Len(c) /\ Len(c) > Len(a)
    BY <1>0
  <1>8. c[Len(c)].type = type
    BY <1>6, <1>7
  <1>9. \A i \in 1..Len(c) : c[i].type = type => i <= Len(c) /\ (c[i].content = <<>> <=> i = Len(c))
    BY <1>0, <1>6
  <1> QED
    BY <1>3, <1>5, <1>7, <1>8, <1>9 DEF ForwardedBy

(* Records of others behind them change nothing.                            *)
LEMMA ForwardedStill ==
    ASSUME NEW A, NEW type, NEW content \in Seq(A), NEW a, NEW b, NEW c,
           HaveContent(a, A), ForwardedBy(a, type, content), Others(b, A, type), IsJoin(c, a, b)
    PROVE  ForwardedBy(c, type, content)
  <1>0. /\ Len(a) \in Nat /\ (\A i \in 1..Len(b) : b[i].type # type) /\ HaveContent(b, A)
        /\ Len(b) \in Nat /\ Len(c) = Len(a) + Len(b) /\ Len(c) \in Nat
    BY DEF Others, HaveContent, IsJoin
  <1>1. ContentOf(c, Len(c), type) = ContentOf(a, Len(a), type) \o ContentOf(b, Len(b), type)
    <2>1. HaveContent(b, A)
      BY <1>0
    <2>2. HaveContent(a, A) /\ IsJoin(c, a, b)
      OBVIOUS
    <2> QED
      BY ONLY <2>1, <2>2, ContentJoin
  <1>2. ContentOf(b, Len(b), type) = <<>> /\ ContentOf(a, Len(a), type) = content
    BY <1>0, ContentOfOthers DEF ForwardedBy
  <1>3. ContentOf(c, Len(c), type) = content
    <2>1. content \o <<>> = content
      OBVIOUS
    <2> QED
      BY <2>1, <1>1, <1>2
  <1>4. PICK last \in 1..Len(a) :
           /\ a[last].type = type
           /\ \A i \in 1..Len(a) : a[i].type = type => i <= last /\ (a[i].content = <<>> <=> i = last)
    BY DEF ForwardedBy
  <1>5. last \in 1..Len(c) /\ c[last].type = type
    BY <1>0, <1>4 DEF IsJoin
  <1>6. ASSUME NEW i \in 1..Len(c), c[i].type = type PROVE i <= last /\ (c[i].content = <<>> <=> i = last)
    <2>1. CASE i <= Len(a)
      <3>1. i \in 1..Len(a)
        BY <2>1, <1>0
      <3>2. c[i] = a[i]
        BY <3>1 DEF IsJoin
      <3> QED
        BY <3>1, <3>2, <1>4, <1>6
    <2>2. CASE i > Len(a)
      <3>1. PICK k : k = i - Len(a)
        OBVIOUS
      <3>2. k \in 1..Len(b) /\ Len(a) + k = i
        BY <3>1, <2>2, <1>0
      <3>3. c[i] = b[k]
        BY <3>2 DEF IsJoin
      <3> QED
        BY <3>2, <3>3, <1>0, <1>6
    <2> QED
      BY <2>1, <2>2, <1>0
  <1> QED
    BY <1>3, <1>5, <1>6 DEF ForwardedBy

(* What send_request() puts together.                                       *)
Sending(body) ==
    <<[type |-> "BEGIN", content |-> <<>>]>> \o Records("PARAMS", Params) \o Records("STDIN", body)
SendTypes == {"BEGIN", "PARAMS", "STDIN"}
Sends == [type : SendTypes, content : Seq(SentUnits)]

(* The records of one stream are of no other.                               *)
LEMMA BlockIsOther ==
    ASSUME NEW type \in SendTypes, NEW other, other # type, NEW content, NEW rs, IsBlock(rs, SentUnits, type, content)
    PROVE  rs \in Seq(Sends) /\ Others(rs, SentUnits, other) /\ HaveContent(rs, SentUnits)
  <1>1. PICK R : R = [type : {type}, content : Seq(SentUnits)]
    OBVIOUS
  <1>2. rs \in Seq(R) /\ Len(rs) \in Nat
    BY <1>1 DEF IsBlock
  <1>3. ASSUME NEW i \in 1..Len(rs) PROVE rs[i].type = type /\ rs[i].content \in Seq(SentUnits)
    <2>1. rs[i] \in R
      BY <1>2
    <2> QED
      BY <2>1, <1>1
  <1>4. HaveContent(rs, SentUnits)
    BY <1>2, <1>3 DEF HaveContent
  <1>5. Others(rs, SentUnits, other)
    BY <1>3, <1>4 DEF Others
  <1>6. R \subseteq Sends
    BY <1>1 DEF Sends
  <1>7. rs \in Seq(Sends)
    BY <1>2, <1>6, SeqMonotonic
  <1> QED
    BY <1>4, <1>5, <1>7

(* The whole request gives the application the parameters and the body.     *)
LEMMA SendingIs ==
    ASSUME NEW body \in Seq(SentUnits)
    PROVE  /\ Sending(body) \in Seq(Sends) /\ Sending(body) # <<>>
           /\ ForwardedBy(Sending(body), "PARAMS", Params)
           /\ ForwardedBy(Sending(body), "STDIN", body)
  <1>1. PICK b : b = [type |-> "BEGIN", content |-> <<>>]
    OBVIOUS
  <1>2. PICK B : B = <<b>>
    OBVIOUS
  <1>3. b \in Sends
    <2>1. <<>> \in Seq(SentUnits)
      OBVIOUS
    <2> QED
      BY <2>1, <1>1 DEF Sends, SendTypes
  <1>4. B \in Seq(Sends) /\ Len(B) = 1 /\ B[1] = b
    BY <1>2, <1>3
  <1>5. HaveContent(B, SentUnits)
    <2>1. ASSUME NEW i \in 1..Len(B) PROVE B[i].content \in Seq(SentUnits)
      <3>1. i = 1
        BY <1>4
      <3> QED
        BY <3>1, <1>1, <1>4
    <2> QED
      BY <2>1, <1>4 DEF HaveContent
  <1>6. ASSUME NEW i \in 1..Len(B) PROVE B[i].type = "BEGIN"
    <2>1. i = 1
      BY <1>4
    <2> QED
      BY <2>1, <1>1, <1>4
  <1>7. Others(B, SentUnits, "PARAMS") /\ Others(B, SentUnits, "STDIN")
    BY <1>5, <1>6 DEF Others
  <1>8. Params \in Seq(SentUnits)
    BY FcgiAssumption, SeqMonotonic DEF SentUnits
  <1>9. PICK P : P = Records("PARAMS", Params)
    OBVIOUS
  <1>10. PICK S : S = Records("STDIN", body)
    OBVIOUS
  <1>11. IsBlock(P, SentUnits, "PARAMS", Params) /\ IsBlock(S, SentUnits, "STDIN", body)
    BY <1>8, <1>9, <1>10, RecordsAre
  <1>12. P \in Seq(Sends) /\ Others(P, SentUnits, "STDIN") /\ HaveContent(P, SentUnits)
    BY <1>11, BlockIsOther DEF SendTypes
  <1>13. S \in Seq(Sends) /\ Others(S, SentUnits, "PARAMS")
    BY <1>11, BlockIsOther DEF SendTypes
  <1>14. PICK c : Joins(c, B, P)
    BY DEF Joins
  <1>15. PICK d : Joins(d, c, S)
    BY DEF Joins
  <1>16. c \in Seq(Sends) /\ IsJoin(c, B, P)
    BY <1>4, <1>12, <1>14, JoinIs
  <1>17. d \in Seq(Sends) /\ IsJoin(d, c, S)
    BY <1>13, <1>15, <1>16, JoinIs
  <1>18. Sending(body) = d
    BY <1>1, <1>2, <1>9, <1>10, <1>14, <1>15 DEF Sending, Joins
  <1>19. ForwardedBy(c, "PARAMS", Params) /\ HaveContent(c, SentUnits)
    BY <1>7, <1>8, <1>11, <1>16, ForwardedLast
  <1>20. ForwardedBy(d, "PARAMS", Params)
    BY <1>8, <1>13, <1>17, <1>19, ForwardedStill
  <1>21. Others(c, SentUnits, "STDIN")
    <2>1. ASSUME NEW i \in 1..Len(c) PROVE c[i].type # "STDIN"
      <3>0. Len(c) = 1 + Len(P) /\ Len(P) \in Nat
        BY <1>4, <1>12, <1>16 DEF IsJoin
      <3>1. CASE i = 1
        <4>1. 1 \in 1..Len(B)
          BY <1>4
        <4>2. c[i] = B[1]
          BY <4>1, <3>1, <1>16 DEF IsJoin
        <4> QED
          BY <4>2, <1>1, <1>4
      <3>2. CASE i # 1
        <4>1. PICK k : k = i - 1
          OBVIOUS
        <4>2. k \in 1..Len(P) /\ Len(B) + k = i
          BY <4>1, <3>0, <3>2, <1>4
        <4>3. c[i] = P[k]
          BY <4>2, <1>16 DEF IsJoin
        <4> QED
          BY <4>2, <4>3, <1>12 DEF Others
      <3> QED
        BY <3>1, <3>2
    <2> QED
      BY <2>1, <1>19 DEF Others
  <1>22. ForwardedBy(d, "STDIN", body)
    BY <1>11, <1>17, <1>21, ForwardedLast
  <1>23. d # <<>>
    <2>1. Len(c) \in Nat /\ Len(S) \in Nat /\ Len(S) > 0 /\ Len(d) = Len(c) + Len(S)
      BY <1>11, <1>16, <1>17 DEF IsJoin, IsBlock
    <2>2. Len(d) # 0
      BY <2>1
    <2> QED
      BY <2>2
  <1> QED
    BY <1>17, <1>18, <1>20, <1>22, <1>23

(* The request between the steps of send_request().                         *)
SendInv ==
    /\ fpc = "idle" => received = <<>>
    /\ fpc = "write" =>
          /\ received \in Seq(Sends) /\ packet \in Seq(Sends)
          /\ Sending(parser.body) = received \o packet
    /\ fpc \in {"header", "content", "padding", "answered"} => received = Sending(parser.body)
    /\ fpc # "idle" => parser.state = "COMPLETE"

(* A new client has sent nothing.                                           *)
LEMMA SendStarts == Init => SendInv
  BY DEF Init, FcgiInit, SendInv

(* Steps that leave the client, and the body of a complete request.         *)
LEMMA SendStays ==
    ASSUME SendInv, fpc' = fpc, received' = received, packet' = packet,
           parser' = parser \/ fpc = "idle"
    PROVE  SendInv'
  <1>1. CASE parser' = parser
    <2>1. Sending(parser.body)' = Sending(parser.body)
      BY <1>1 DEF Sending
    <2> QED
      BY <2>1, <1>1 DEF SendInv
  <1>2. CASE fpc = "idle"
    BY <1>2 DEF SendInv
  <1> QED
    BY <1>1, <1>2

(* A step of the client.                                                    *)
LEMMA FcgiSends ==
    ASSUME SendInv, ParserInv, VerdictInv, FastCGI
    PROVE  SendInv'
  <1>0. xpc = "php" /\ parser' = parser /\ parser.state = "COMPLETE" /\ parser.body \in Seq(SentUnits)
    BY DEF FastCGI, parserVars, VerdictInv, ParserInv, Parsers
  <1>1. PICK body : body = parser.body
    OBVIOUS
  <1>2. PICK whole : whole = Sending(body)
    OBVIOUS
  <1>3. Sending(parser.body) = whole /\ Sending(parser'.body) = whole /\ parser'.state = "COMPLETE"
    BY <1>0, <1>1, <1>2
  <1>4. whole \in Seq(Sends)
    BY <1>0, <1>1, <1>2, SendingIs
  <1>5. CASE SendRequest(parser.body)
    <2>1. fpc = "idle" /\ fpc' = "write" /\ received' = received /\ packet' = whole
      BY <1>1, <1>2, <1>5 DEF SendRequest, Sending
    <2>2. received = <<>>
      BY <2>1 DEF SendInv
    <2>3. received' \in Seq(Sends) /\ <<>> \o whole = whole
      BY <2>1, <2>2, <1>4
    <2> QED
      BY <2>1, <2>2, <2>3, <1>3, <1>4 DEF SendInv
  <1>6. CASE ConnectFails \/ WriteFails
    <2>1. fpc' = "failed"
      BY <1>6 DEF ConnectFails, WriteFails
    <2> QED
      BY <2>1, <1>3 DEF SendInv
  <1>7. ASSUME NEW n, Write(n) PROVE SendInv'
    <2>1. /\ fpc = "write" /\ n \in 1..Len(packet)
          /\ received' = received \o SubSeq(packet, 1, n)
          /\ packet' = SubSeq(packet, n + 1, Len(packet))
          /\ fpc' = IF n = Len(packet) THEN "header" ELSE "write"
      BY <1>7 DEF Write
    <2>2. received \in Seq(Sends) /\ packet \in Seq(Sends) /\ whole = received \o packet
      BY <2>1, <1>3 DEF SendInv
    <2>3. PICK t : t = SubSeq(packet, n + 1, Len(packet))
      OBVIOUS
    <2>4. PICK h : h = SubSeq(packet, 1, n)
      OBVIOUS
    <2>5. PICK l : l = Len(packet)
      OBVIOUS
    <2>6. l \in 0..Len(packet) /\ n \in 0..l
      BY <2>1, <2>2, <2>5
    <2>7. t \in Seq(Sends) /\ Len(t) = l - n /\ SubSeq(packet, 1, l) = SubSeq(packet, 1, n) \o t
      <3>1. PICK S : S = Sends
        OBVIOUS
      <3>2. PICK q : q = packet
        OBVIOUS
      <3>3. q \in Seq(S) /\ t = SubSeq(q, n + 1, l) /\ l \in 0..Len(q) /\ n \in 0..l
        BY <3>1, <3>2, <2>2, <2>3, <2>5, <2>6
      <3>4. t \in Seq(S) /\ Len(t) = l - n /\ SubSeq(q, 1, l) = SubSeq(q, 1, n) \o t
        BY ONLY <3>3, Continued
      <3> QED
        BY <3>1, <3>2, <3>4
    <2>8. SubSeq(packet, 1, l) = packet /\ h \in Seq(Sends)
      BY <2>1, <2>2, <2>4, <2>5
    <2>9. packet = h \o t
      BY <2>4, <2>7, <2>8
    <2>10. received \o h \in Seq(Sends) /\ (received \o h) \o t = whole
      <3>1. received \o h \in Seq(Sends)
        BY <2>2, <2>8
      <3>2. (received \o h) \o t = received \o (h \o t)
        <4>1. received \in Seq(Sends) /\ h \in Seq(Sends) /\ t \in Seq(Sends)
          BY <2>2, <2>7, <2>8
        <4> QED
          BY ONLY <4>1, ConcatAssociative
      <3> QED
        BY <3>1, <3>2, <2>2, <2>9
    <2>11. CASE n = Len(packet)
      <3>1. t = <<>>
        <4>1. Len(t) = 0
          BY <2>5, <2>6, <2>7, <2>11
        <4> QED
          BY <4>1, <2>7
      <3>2. received \o h = whole
        <4>1. PICK x : x = received \o h
          OBVIOUS
        <4>2. x \in Seq(Sends) /\ x \o <<>> = whole
          BY <4>1, <3>1, <2>10
        <4>3. x \o <<>> = x
          BY <4>2
        <4> QED
          BY <4>1, <4>2, <4>3
      <3>3. fpc' = "header" /\ received' = whole
        BY <3>2, <2>1, <2>4, <2>11
      <3> QED
        BY <3>3, <1>3 DEF SendInv
    <2>12. CASE n # Len(packet)
      <3>1. fpc' = "write" /\ received' = received \o h /\ packet' = t
        BY <2>1, <2>3, <2>4, <2>12
      <3> QED
        BY <3>1, <2>7, <2>10, <1>3 DEF SendInv
    <2> QED
      BY <2>11, <2>12
  <1>8. ASSUME fpc \in {"header", "content", "padding"}, received' = received,
               fpc' \in {"header", "content", "padding", "answered", "failed"}
        PROVE  SendInv'
    <2>1. received' = whole
      BY <1>3, <1>8 DEF SendInv
    <2> QED
      BY <2>1, <1>3, <1>8 DEF SendInv
  <1>9. ASSUME NEW n, ReadHeader(n) PROVE SendInv'
    <2>1. fpc = "header" /\ received' = received
      BY <1>9 DEF ReadHeader
    <2>2. fpc' \in {"header", "content", "padding", "answered", "failed"}
      BY <1>9 DEF ReadHeader, AfterHeader, AfterContent, TakeRecord
    <2> QED
      BY <2>1, <2>2, <1>8
  <1>10. ASSUME NEW n, ReadContent(n) \/ ReadPadding(n) PROVE SendInv'
    <2>1. fpc \in {"content", "padding"} /\ received' = received
      BY <1>10 DEF ReadContent, ReadPadding
    <2>2. fpc' \in {"header", "content", "padding", "answered", "failed"}
      BY <2>1, <1>10 DEF ReadContent, ReadPadding, AfterContent, TakeRecord
    <2> QED
      BY <2>1, <2>2, <1>8
  <1>11. CASE ReadEnds
    <2>1. fpc \in {"header", "content", "padding"} /\ received' = received
      BY <1>11 DEF ReadEnds
    <2>2. fpc' \in {"header", "content", "padding", "answered", "failed"}
      BY <1>11 DEF ReadEnds, TakeRecord
    <2> QED
      BY <2>1, <2>2, <1>8
  <1> QED
    BY <1>5, <1>6, <1>7, <1>9, <1>10, <1>11 DEF FastCGI

(* Any step.                                                                *)
LEMMA SendStep == SendInv /\ ParserInv /\ VerdictInv /\ [Next]_vars => SendInv'
  <1> SUFFICES ASSUME SendInv, ParserInv, VerdictInv, [Next]_vars PROVE SendInv'
    OBVIOUS
  <1>1. ASSUME UNCHANGED fcgiVars, UNCHANGED parserVars PROVE SendInv'
    BY <1>1, SendStays DEF fcgiVars, parserVars
  <1>2. CASE FastCGI
    BY <1>2, FcgiSends
  <1>3. CASE UNCHANGED vars
    BY <1>1, <1>3 DEF vars
  <1>4. ASSUME NEW cut, Read(cut) PROVE SendInv'
    <2>1. parser.state = "INCOMPLETE" /\ UNCHANGED fcgiVars
      BY <1>4 DEF Read, Feed
    <2>2. fpc = "idle"
      BY <2>1 DEF SendInv
    <2> QED
      BY <2>1, <2>2, SendStays DEF fcgiVars
  <1>5. CASE InspectRequest
    BY <1>1, <1>5 DEF InspectRequest
  <1>6. CASE ReadStops
    BY <1>1, <1>6 DEF ReadStops
  <1>7. ASSUME NEW f, Client(f) PROVE SendInv'
    BY <1>1, <1>7 DEF Client
  <1>8. ASSUME NEW n, WebSocket(n) PROVE SendInv'
    BY <1>1, <1>8 DEF WebSocket
  <1>9. CASE StaticFile
    BY <1>1, <1>9 DEF StaticFile
  <1> QED
    BY <1>2, <1>3, <1>4, <1>5, <1>6, <1>7, <1>8, <1>9 DEF Next

(* The shapes of the variables.                                             *)
LEMMA InvariantsType == WsInv /\ ReadInv /\ ParserInv /\ VerdictInv => TypeOK
  <1> SUFFICES ASSUME WsInv, ReadInv, ParserInv, VerdictInv PROVE TypeOK
    OBVIOUS
  <1>1. /\ xpc \in {"read", "inspect", "php", "websocket", "file", "closed"}
        /\ verdict \in {"none", "passed", "blocked"}
    BY DEF VerdictInv
  <1>2. /\ parser.state \in {"INCOMPLETE", "COMPLETE", "ERROR"}
        /\ fed \in 0..Len(Stream(req)) /\ parser.body_start_offset_ \in 0..fed
    BY DEF ParserInv, Parsers
  <1>3. read \in 0..(2 * Len(frames)) /\ ws.done \in 0..read
    <2>1. WsShape /\ ws.done \in Nat
      BY DEF WsInv, WsShape, Connections
    <2>2. Len(frames) \in Nat /\ read \in Nat /\ read <= 2 * Len(frames)
      BY <2>1 DEF WsShape
    <2>3. PICK r : r = Received
      OBVIOUS
    <2>4. r \in Nat /\ (read = 2 * r \/ read = 2 * r + 1)
      BY <2>1, <2>3, ReceivedIs DEF UpToFrame
    <2>5. ws.done <= 2 * r
      BY <2>3 DEF WsInv, AnswersOf, KeptIs
    <2> QED
      BY <2>1, <2>2, <2>4, <2>5
  <1>4. /\ fpc \in {"idle", "write", "header", "content", "padding", "answered", "failed"}
        /\ at \in 0..EndOf(Len(answer)) /\ Len(stdout_data) <= MaxFcgiResponse
    <2>1. answer \in Seq(Wires) /\ fpc \in FcgiPoints /\ at \in Nat /\ at <= EndOf(Len(answer))
          /\ Len(stdout_data) <= MaxFcgiResponse
      BY DEF ReadInv, ReadAt
    <2>2. EndOf(Len(answer)) \in Nat
      <3>1. Len(answer) \in 0..Len(answer)
        BY <2>1
      <3> QED
        BY <3>1, <2>1, EndOfStep
    <2> QED
      BY <2>1, <2>2 DEF FcgiPoints
  <1> QED
    BY <1>1, <1>2, <1>3, <1>4 DEF TypeOK

(* What the application has when the request is written.                    *)
LEMMA InvariantsForward == SendInv /\ ReadInv /\ ParserInv => (RequestAsSent => BodyForwarded)
  <1> SUFFICES ASSUME SendInv, ReadInv, ParserInv, RequestAsSent, fpc \notin {"idle", "write", "failed"}
               PROVE  Forwarded("PARAMS", Params) /\ Forwarded("STDIN", req.body)
    BY DEF BodyForwarded
  <1>1. fpc \in {"header", "content", "padding", "answered"}
    BY DEF ReadInv, ReadAt, FcgiPoints
  <1>2. received = Sending(parser.body) /\ parser.state = "COMPLETE"
    BY <1>1 DEF SendInv
  <1>3. parser.body = req.body /\ parser.body \in Seq(SentUnits)
    BY <1>2 DEF RequestAsSent, ParserInv, Parsers
  <1>4. ForwardedBy(received, "PARAMS", Params) /\ ForwardedBy(received, "STDIN", req.body)
    BY <1>2, <1>3, SendingIs
  <1> QED
    BY <1>4 DEF Forwarded, ForwardedBy

(* send_request() writes a complete request only, in records that come to   *)
(* exactly the parameters and the parsed body, in however many writes.      *)
THEOREM SendInvariant == Spec => []SendInv
  BY SendStarts, SendStep, ParserInvariant, VerdictInvariant, PTL DEF Spec

(* A PHP request passes send_request() whole, whatever the records and the  *)
(* writes, once the parser has handed on what the client sent; its answer   *)
(* passes read_response() whole; and no offset of the exchange passes what  *)
(* has been read.                                                           *)
THEOREM WholeForwarded == Spec => [](RequestAsSent => ForwardedWhole)
  <1>1. TypeOK /\ (RequestAsSent => BodyForwarded) /\ AnswerIntact => (RequestAsSent => ForwardedWhole)
    BY DEF ForwardedWhole
  <1> QED
    BY <1>1, WsInvariant, ReadInvariant, ParserInvariant, VerdictInvariant, SendInvariant, FcgiAnswerIntact,
       InvariantsType, InvariantsForward, PTL

(* So a request whose body is not chunked goes through the exchange as it   *)
(* was sent: parser, inspection and FastCGI client.                         *)
THEOREM SizedExchange == Spec => [](~Chunked(req) => ParsedAsSent /\ VerdictIsTotal /\ ForwardedWhole)
  <1>1. ~slipped /\ ParsedAsSent => RequestAsSent
    BY DEF ParsedAsSent
  <1> QED
    BY <1>1, SizedParsedAsSent, VerdictTotal, WholeForwarded, PTL
=============================================================================
