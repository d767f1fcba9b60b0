---------------------------- MODULE ServerBacklog ----------------------------
(***************************************************************************)
(* Server with a history variable: stranded holds while the last turn of   *)
(* the accept loop has been left by an error of accept4 with connections   *)
(* in the backlog, and no client has raised an edge since.                 *)
(***************************************************************************)
EXTENDS Server

VARIABLE stranded

backlogVars == <<vars, stranded>>

Backlog == {c \in Conns : cstate[c] = "backlog"}

(* Set where the accept loop is left with a backlog behind it and no edge   *)
(* to come for it, cleared by the next edge.                                *)
Strand == stranded' = IF rpc = "accept" /\ rpc' = "loop" THEN Backlog # {} /\ ~edge
                      ELSE stranded /\ ~edge'

BacklogInit == Init /\ stranded = FALSE
BacklogNext == Next /\ Strand
BacklogSpec == BacklogInit /\ [][BacklogNext]_backlogVars

BacklogFairSpec == BacklogSpec /\ Fairness

(* No connection is overlooked: as long as accept4 has not failed over a    *)
(* backlog (which strands it until the next client comes), a connection in  *)
(* it is accepted while the server runs, whenever it comes: before, between *)
(* or after the turns of the accept loop, or during a wait.                 *)
BacklogIsAccepted ==
    \A c \in Conns :
        cstate[c] = "backlog" /\ running_ ~> cstate[c] # "backlog" \/ ~running_ \/ stranded
=============================================================================
