---------------------------- MODULE FileHandler ----------------------------
(***************************************************************************)
(* How a worker answers with a static file: Worker::try_sendfile() and     *)
(* FileHandler::resolve_for_sendfile() on a plain connection, serve() and  *)
(* send_response() otherwise or if that declines, while another process    *)
(* may write the file, the client may go away and a signal may interrupt a *)
(* call.  A head is one unit that carries Content-Length, in HeadSize      *)
(* parts; a file is a sequence of units.  That resolve_path() refuses or   *)
(* finds nothing is an outcome of it; paths are not modelled.              *)
(***************************************************************************)
EXTENDS Integers, SequencesExt

CONSTANTS
    Contents,         \* what the file may hold
    ErrorPage,        \* the body make_error() writes
    HeadSize,         \* parts in which a head may be sent
    MaxWrites         \* bound: changes of the file

VARIABLES
    method,           \* "GET", "HEAD" or another
    file,
    hpc,              \* "idle", "start", "head", "body", "serve", "send", "done"
    open,             \* SendfileInfo::fd is open
    announced,        \* SendfileInfo::file_size
    offset,           \* of sendfile(), or of the parts of a head
    answer_,          \* serve()'s response, still to be sent
    error,            \* that response is one of make_error()
    out,              \* what the client was sent, after
    broken,           \* history: the parts of a head that try_sendfile() gave up
    lost,             \* history: a send of the answer failed, and it was given up
    writes, shrunk    \* history: changes of the file; one made it shorter than the head says

fileVars == <<method, file, hpc, open, announced, offset, answer_, error, out, broken, lost, writes, shrunk>>

(* A head's parts are told from the units of a file by what they carry.     *)
Units == UNION {ToSet(content) : content \in Contents \cup {ErrorPage}}

ASSUME FileAssumption ==
    /\ HeadSize \in Nat \ {0} /\ MaxWrites \in Nat
    /\ Contents \subseteq Seq(Units) /\ ErrorPage \in Seq(Units)
    /\ \A u \in Units : "part" \notin DOMAIN u

Head_(length) == [i \in 1..HeadSize |-> [part |-> i, length |-> length]]

FileInit ==
    /\ method = "GET" /\ file = <<>>
    /\ hpc = "idle" /\ open = FALSE /\ announced = 0 /\ offset = 0
    /\ answer_ = <<>> /\ error = FALSE /\ out = <<>> /\ broken = <<>> /\ lost = FALSE
    /\ writes = 0 /\ shrunk = FALSE

(* A request comes, and the file it names holds something.                  *)
Begin(m, content) ==
    /\ hpc = "idle" /\ hpc' = "start"
    /\ method' = m /\ file' = content
    /\ UNCHANGED <<open, announced, offset, answer_, error, out, broken, lost, writes, shrunk>>

(* Another process writes the file in place.                                *)
WriteFile(content) ==
    /\ hpc \notin {"idle", "done"} /\ writes < MaxWrites /\ content # file
    /\ file' = content /\ writes' = writes + 1
    /\ shrunk' = (shrunk \/ (open /\ Len(content) < announced))
    /\ UNCHANGED <<method, hpc, open, announced, offset, answer_, error, out, broken, lost>>

-----------------------------------------------------------------------------
(* resolve_for_sendfile(): the size announced is that of the moment.        *)
OpenFile ==
    /\ hpc = "start" /\ method = "GET"
    /\ open' = TRUE /\ announced' = Len(file) /\ offset' = 0
    /\ hpc' = "head"
    /\ UNCHANGED <<method, file, answer_, error, out, broken, lost, writes, shrunk>>

(* It declines: not a GET, nothing there, or an error.                      *)
Decline ==
    /\ hpc = "start" /\ hpc' = "serve"
    /\ UNCHANGED <<method, file, open, announced, offset, answer_, error, out, broken, lost, writes, shrunk>>

SendHead(n) ==
    /\ hpc = "head" /\ n \in 1..(HeadSize - offset)
    /\ out' = out \o SubSeq(Head_(announced), offset + 1, offset + n)
    /\ offset' = IF offset + n = HeadSize THEN 0 ELSE offset + n
    /\ hpc' = IF offset + n = HeadSize THEN "body" ELSE "head"
    /\ UNCHANGED <<method, file, open, announced, answer_, error, broken, lost, writes, shrunk>>

(* A send fails, because the client is gone or a signal came: the file is   *)
(* closed, and the worker goes on to serve() as if nothing had been sent.   *)
HeadFails ==
    /\ hpc = "head"
    /\ open' = FALSE /\ hpc' = "serve"
    /\ broken' = out /\ out' = <<>> /\ shrunk' = FALSE
    /\ UNCHANGED <<method, file, announced, offset, answer_, error, lost, writes>>

(* Fault: sendfile() is asked for all of the file each time. *)
RemainingAll == Len(file)

Remaining == announced - offset
Available == Max({0, Min({Remaining, Len(file) - offset})})

(* sendfile() takes n units of what the file now holds.                     *)
SendBody(n) ==
    /\ hpc = "body" /\ n \in 1..Available
    /\ out' = out \o SubSeq(file, offset + 1, offset + n)
    /\ offset' = offset + n
    /\ UNCHANGED <<method, file, hpc, open, announced, answer_, error, broken, lost, writes, shrunk>>

(* The loop ends: nothing remains, sendfile() returns 0 at the end of the   *)
(* file, or it fails.                                                       *)
SendfileEnds ==
    /\ hpc = "body"
    /\ lost' \in {TRUE} \cup (IF Available = 0 THEN {lost} ELSE {})
    /\ open' = FALSE /\ hpc' = "done"
    /\ UNCHANGED <<method, file, announced, offset, answer_, error, out, broken, writes, shrunk>>

-----------------------------------------------------------------------------
(* serve(): the file is read, and its content measured; or an error page,   *)
(* which has a body whatever the method.                                    *)
Serve(found) ==
    /\ hpc = "serve"
    /\ error' = (~found \/ method \notin {"GET", "HEAD"})
    /\ answer_' = IF error' THEN Head_(Len(ErrorPage)) \o ErrorPage
                  ELSE IF method = "HEAD" THEN Head_(Len(file)) ELSE Head_(Len(file)) \o file
    /\ hpc' = "send"
    /\ UNCHANGED <<method, file, open, announced, offset, out, broken, lost, writes, shrunk>>

(* send_response(), in as many sends as it takes.                           *)
SendAnswer(n) ==
    /\ hpc = "send" /\ n \in 1..Len(answer_)
    /\ out' = out \o SubSeq(answer_, 1, n)
    /\ answer_' = SubSeq(answer_, n + 1, Len(answer_))
    /\ hpc' = IF n = Len(answer_) THEN "done" ELSE "send"
    /\ UNCHANGED <<method, file, open, announced, offset, error, broken, lost, writes, shrunk>>

SendFails ==
    /\ hpc = "send"
    /\ lost' = TRUE /\ hpc' = "done"
    /\ UNCHANGED <<method, file, open, announced, offset, answer_, error, out, broken, writes, shrunk>>

FileStep ==
    \/ \E n \in 1..HeadSize : SendHead(n)
    \/ HeadFails
    \/ \E n \in 1..Available : SendBody(n)
    \/ SendfileEnds
    \/ \E found \in BOOLEAN : Serve(found)
    \/ \E n \in 1..Len(answer_) : SendAnswer(n)
    \/ SendFails

-----------------------------------------------------------------------------
(* The client gets one head and then no more units than it announces, with  *)
(* whatever is written to the file meanwhile; at the end it has got all of  *)
(* them, unless a send failed, a signal cut sendfile() short or the file    *)
(* became shorter than its head had said.  Before them it may have got the  *)
(* beginning of a head, never a whole one, that try_sendfile() gave up when *)
(* a send failed.  An answer to HEAD has no body if the file is there; an   *)
(* error page is sent with its body, to HEAD as well.                       *)
FileFramed ==
    LET body == Len(out) - HeadSize IN
    /\ Len(broken) < HeadSize
    /\ \A i \in DOMAIN out : "part" \in DOMAIN out[i] <=> i <= HeadSize
    /\ body > 0 => body <= out[1].length
    /\ hpc = "done" /\ ~lost /\ ~shrunk =>
           body >= 0 /\ body = IF method = "HEAD" /\ ~error THEN 0 ELSE out[1].length

(* When the answer is finished the file is closed, on every path.           *)
FileClosed == hpc \in {"serve", "send", "done"} => ~open

(* A static file is sent as announced and closed, whichever call fails and  *)
(* whatever happens to the file meanwhile.                                  *)
FileSound == FileFramed /\ FileClosed
=============================================================================
