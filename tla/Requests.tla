------------------------------ MODULE Requests ------------------------------
(***************************************************************************)
(* The requests of the SQL Server client: one queue for all connections of  *)
(* the client, which a connection takes from when a request is added for it *)
(* and when one it ran succeeds (lib/dialects/mssql/index.ts).  A request   *)
(* is a record with at least the connection it was made for (conn).         *)
(***************************************************************************)
EXTENDS Sequences, SequencesExt

CONSTANT Idle \* the request of a connection that runs none

VARIABLES requestQueue, \* waiting requests
          running       \* per connection, the request it runs

\* Variant: a connection takes only what was made for it.
PoppedOwn(queue, conn) ==
    LET own == {i \in DOMAIN queue : queue[i].conn = conn}
    IN IF own = {} THEN 0 ELSE CHOOSE i \in own : \A j \in own : i <= j

\* pop(): the last one, whichever connection it was made for.
Popped(queue, conn) == Len(queue)

\* The driver's state LoggedIn: connected, and no request under way.
LoggedIn(conn, lost) == running[conn] = Idle /\ conn \notin lost

Chomp(queue, conn) ==
    LET i == Popped(queue, conn)
    IN IF i = 0 THEN /\ requestQueue' = queue
                     /\ running' = [running EXCEPT ![conn] = Idle]
       ELSE /\ requestQueue' = RemoveAt(queue, i)
            /\ running' = [running EXCEPT ![conn] = queue[i]]

EnqueueRequest(request, lost) ==
    IF LoggedIn(request.conn, lost)
    THEN Chomp(Append(requestQueue, request), request.conn)
    ELSE /\ requestQueue' = Append(requestQueue, request)
         /\ UNCHANGED running

\* The next one starts after a success only.
RequestCompleted(conn, ok) ==
    IF ok THEN Chomp(requestQueue, conn)
    ELSE /\ running' = [running EXCEPT ![conn] = Idle]
         /\ UNCHANGED requestQueue
=============================================================================
