------------------------------ MODULE IrpcInv ------------------------------
(***************************************************************************)
(* The invariants of Irpc that its proofs rest on.                         *)
(***************************************************************************)
EXTENDS Irpc

Made(c) == call[c] # Unmade

(* The order of messages *)

\* A message of p carries a number that p has given out; those in its queues
\* are its own, and those that it backed off are marked.
Numbered ==
    /\ \A q \in Proc : \A i \in DOMAIN socket[q] :
          socket[q][i].to = q /\ socket[q][i].n <= sent[socket[q][i].from]
    /\ \A p \in Proc : \A i \in DOMAIN pending[p] :
          pending[p][i].from = p /\ pending[p][i].n <= sent[p]
    /\ \A p \in Proc : \A i \in DOMAIN retry_queue[p] :
          /\ retry_queue[p][i].from = p /\ retry_queue[p][i].n <= sent[p]
          /\ retry_queue[p][i].late
    /\ \A p, q \in Proc : last[p][q] <= sent[p]

\* Message a is to be taken before message b.
Before(a, b) == a.from = b.from /\ a.to = b.to /\ ~a.late /\ ~b.late => a.n < b.n

Ordered ==
    /\ \A q \in Proc : \A i, j \in DOMAIN socket[q] :
          i < j => Before(socket[q][i], socket[q][j])
    /\ \A p \in Proc : \A i, j \in DOMAIN pending[p] :
          i < j => Before(pending[p][i], pending[p][j])
    /\ \A p, q \in Proc : \A i \in DOMAIN socket[q] : \A j \in DOMAIN pending[p] :
          Before(socket[q][i], pending[p][j])

NotTaken ==
    /\ \A q \in Proc : \A i \in DOMAIN socket[q] :
          ~socket[q][i].late => last[socket[q][i].from][q] < socket[q][i].n
    /\ \A p \in Proc : \A i \in DOMAIN pending[p] :
          ~pending[p][i].late => last[p][pending[p][i].to] < pending[p][i].n

OrderInv == Numbered /\ Ordered /\ NotTaken

-----------------------------------------------------------------------------
(* Calls and what is on its way for them *)

\* Calls are made in the order of their numbers.
MadeInOrder ==
    /\ IsFiniteSet({c \in Call : Made(c)})
    /\ \A c, d \in Call : c < d /\ Made(d) => Made(c)

\* No call is given the id of one that is still in flight in its process.
IdsDiffer ==
    \A c, d \in Call : c < d /\ InFlight(c) /\ Made(d) /\ call[c].from = call[d].from =>
        call[c].callid # call[d].callid

\* What a call that has an outcome has for one.
Outcomes ==
    \A c \in Call : Made(c) =>
        /\ call[c].pc = "sent" => call[c].status = "none" /\ call[c].got = 0
        /\ call[c].pc # "sent" => call[c].status # "none"
        /\ call[c].status \in {"ok", "unparsed"} => call[c].got # 0

\* Where a message or what is left of one can be: in a queue of a process, at
\* an index, or among the requests that it has still to reply to.
Where == {"socket", "pending", "retry_queue", "deferred"}

Queue(k, q) ==
    IF k = "socket" THEN socket[q] ELSE IF k = "pending" THEN pending[q] ELSE retry_queue[q]

Spots(k, q) == IF k = "deferred" THEN deferred[q] ELSE DOMAIN Queue(k, q)

Item(k, q, i) == IF k = "deferred" THEN i ELSE Queue(k, q)[i]

\* A message that is the request or the reply of call c, and the process that
\* made the call.
About(m, c) == m.body.kind \in {"request", "reply"} /\ m.body.of = c
Asker(m) == IF m.body.kind = "request" THEN m.from ELSE m.to

\* What is on its way for a call has the id of the call and goes to, or came
\* from, its process; and the call has not had its own answer.
Carried ==
    \A k \in Where, q \in Proc : \A i \in Spots(k, q) : \A c \in Call :
        About(Item(k, q, i), c) =>
            /\ Made(c) /\ call[c].status # "failed" /\ call[c].got # c
            /\ call[c].callid = Item(k, q, i).body.callid
            /\ call[c].from = Asker(Item(k, q, i))

\* A call has its request on its way, or its reply, but nothing twice.
Once ==
    \A k, l \in Where, q, r \in Proc : \A i \in Spots(k, q), j \in Spots(l, r) : \A c \in Call :
        About(Item(k, q, i), c) /\ About(Item(l, r, j), c) => k = l /\ q = r /\ i = j

CallInv == MadeInOrder /\ IdsDiffer /\ Outcomes /\ Carried /\ Once /\ OwnAnswer
=============================================================================
