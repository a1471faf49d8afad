---------------------------- MODULE BundleRelay ----------------------------
(***************************************************************************)
(* Daemons that exchange bundles: the handlers and the two background      *)
(* tasks of daemon/server.py, the queue of transport/bundle.py, the        *)
(* connections of transport/cla/tcp_mdns.py.                               *)
(*                                                                         *)
(* A daemon is one asyncio program.  A handler runs without a break until  *)
(* it awaits something that is not ready; the only such thing here is      *)
(* writer.drain() of a connection whose other end does not read: a write   *)
(* always goes into the stream, and drain() then waits while more than     *)
(* HighWater bundles are on their way.                                     *)
(*                                                                         *)
(* Abstractions.  A bundle is a member of a set, with its type, recipient  *)
(* and author fixed; it exists from the time it is first seen.  A daemon's *)
(* identity is its node.  A connection is named <<dialer, acceptor>>:      *)
(* _connect_to_peer keeps one per address.  A dialer that is not in Nodes  *)
(* is a program of another make: it hands bundles in, and in time reads    *)
(* what it is sent.  What a sigchain bundle does to the stored chain is in *)
(* ChainStore.                                                             *)
(***************************************************************************)
EXTENDS Clock, Selection, Sequences, SequencesExt

CONSTANTS Nodes,        \* daemons
          Links,        \* the pairs <<dialer, acceptor>> that discover each other
          Bundles,      \* the bundles of one behaviour
          TypeOf,       \* BundleType of a bundle
          RecipientOf,  \* a node, an identity elsewhere, or "*"
          AuthorOf,     \* bundle.sender
          Known,        \* the authors whose chain is stored: [Nodes -> SUBSET authors]
          Ttl,          \* bundle.ttl
          HighWater,    \* bundles a stream holds before drain() waits
          Nobody,       \* no identity, no bundle, no connection
          MaxHandIns,   \* bound: bundles handed in, copies included
          MaxFaults     \* bound: connections broken and daemons restarted

ASSUME BundleRelayAssumption ==
    /\ \A l \in Links : l[1] # l[2] /\ l[2] \in Nodes
    /\ HighWater \in Nat /\ Ttl \in Nat /\ MaxHandIns \in Nat /\ MaxFaults \in Nat
    /\ Nobody \notin Nodes \cup Bundles \cup Links \cup Nat

VARIABLES born,     \* bundle.created, Nobody before the bundle exists
          queue,    \* bundle_queue of each node
          up,       \* the open connections
          label,    \* peer.info.node_identity, per node and connection
          inbox,    \* the bundles on their way to a node, per connection
          loop,     \* _receive_loop of a connection that waits in a broadcast
          send,     \* _process_queue and send_message calls that wait in a send
          saved,    \* messages table: the messages stored at a node
          ended,    \* history: the directed bundles that were handled or lost to a known cause
          handed, faults

vars == <<now, born, queue, up, label, inbox, loop, send, saved, ended, handed, faults>>

-----------------------------------------------------------------------------
(* Bundles and the queue *)

\* BUNDLE_PRIORITY
Priority(b) ==
    CASE TypeOf[b] = "revocation" -> 0 [] TypeOf[b] = "sigchain" -> 1
      [] TypeOf[b] \in {"ack", "delivery_ack"} -> 2 [] TypeOf[b] = "message" -> 3
      [] TypeOf[b] = "content_announce" -> 4 [] OTHER -> 5

\* is_expired: `time.time() > self.expires_at`
Expired(b) == now > born[b] + Ttl

Directed(b) == RecipientOf[b] # "*"

\* bundle.created, also of a bundle that is created in this step.
Created(b) == IF born[b] = Nobody THEN now ELSE born[b]

\* The sort key of the queue, (priority, created).
Before(b, c) ==
    Priority(b) < Priority(c) \/ (Priority(b) = Priority(c) /\ Created(b) <= Created(c))

Push_Unsorted(q, b) == Append(q, b)

\* BundleQueue.push into a sorted queue; the sort is stable.
Push(q, b) == InsertAt(q, Cardinality({i \in DOMAIN q : Before(q[i], b)}) + 1, b)

\* BundleQueue.remove_expired
Unexpired(q) == Selected(q, {i \in DOMAIN q : ~Expired(q[i])})

-----------------------------------------------------------------------------
(* Connections *)

Ends(l) == {l[1], l[2]} \cap Nodes
Far(n, l) == IF l[1] = n THEN l[2] ELSE l[1]
LinksOf(n) == {l \in Links : n \in Ends(l)}
Peers(n) == up \cap LinksOf(n)

\* The connections whose peer goes by this identity.
Routes(n, identity) == {l \in Peers(n) : label[n][l] = identity}

Elsewhere(n, l) == Far(n, l) \notin Nodes

\* drain() does not return while too much is on its way from n over l.
Paused(n, l) == l \in up /\ ~Elsewhere(n, l) /\ Len(inbox[Far(n, l)][l]) > HighWater

\* drain() after one more bundle waits; whether a program of another make has
\* read what it was sent is not known.
Pauses(n, l) == ~Elsewhere(n, l) /\ Len(inbox[Far(n, l)][l]) + 1 > HighWater
MayPause(n, l) == Elsewhere(n, l) \/ Pauses(n, l)

\* `box`, the bundles under way, after n wrote b to each of `ls`.
Written(box, n, b, ls) ==
    [m \in Nodes |-> [l \in Links |->
        IF l \in ls /\ m = Far(n, l) THEN Append(box[m][l], b) ELSE box[m][l]]]

Taken(n, l) == [inbox EXCEPT ![n][l] = Tail(@)]

Idle == [bundle |-> Nobody, on |-> Nobody, rest |-> {}]

\* A task that wrote `b` to `l`, waits in drain(), and has `rest` still to do.
Wait(b, l, rest) == [bundle |-> b, on |-> l, rest |-> rest]

\* drain() returns, or raises because the connection is gone.
Resumes(n, task) == task # Idle /\ ~Paused(n, task.on)

Callers == {"queue", "api"}

Ended(bs) == ended' = ended \cup {b \in bs \cap Bundles : Directed(b)}

Init ==
    /\ ClockInit
    /\ born = [b \in Bundles |-> Nobody]
    /\ queue = [n \in Nodes |-> << >>]
    /\ up = {}
    /\ label = [n \in Nodes |-> [l \in Links |-> Nobody]]
    /\ inbox = [n \in Nodes |-> [l \in Links |-> << >>]]
    /\ loop = [n \in Nodes |-> [l \in Links |-> Idle]]
    /\ send = [n \in Nodes |-> [c \in Callers |-> Idle]]
    /\ saved = [n \in Nodes |-> {}]
    /\ ended = {}
    /\ handed = 0 /\ faults = 0

\* _connect_to_peer, for a service that mDNS announced: the dialer knows the
\* peer's identity from the announcement, the acceptor knows nothing.  A dead
\* connection stays in _peers, in the way of a new one, until its receive loop
\* has come back to reading.
Connect(l) ==
    /\ l \notin up /\ \A n \in Ends(l) : loop[n][l] = Idle
    /\ up' = up \cup {l}
    /\ label' = [n \in Nodes |-> IF n \in Ends(l)
                    THEN [label[n] EXCEPT ![l] = IF n = l[1] THEN l[2] ELSE Nobody] ELSE label[n]]
    /\ UNCHANGED <<now, born, queue, inbox, loop, send, saved, ended, handed, faults>>

\* The bundles under way on `ls`, and those whose sender still waits there.
UnderWay(ls) == UNION {ToSet(inbox[n][l]) : n \in Nodes, l \in ls}
    \cup {b \in Bundles : \E n \in Nodes, c \in Callers : send[n][c].on \in ls /\ send[n][c].bundle = b}

Closed_KeepsBuffers(ls) ==
    /\ up' = up \ ls
    /\ inbox' = inbox
    /\ label' = [n \in Nodes |-> [l \in Links |-> IF l \in ls THEN Nobody ELSE label[n][l]]]

\* What closing `ls` does to the connections and to what is on them.
Closed(ls) ==
    /\ up' = up \ ls
    /\ inbox' = [n \in Nodes |-> [l \in Links |-> IF l \in ls THEN << >> ELSE inbox[n][l]]]
    /\ label' = [n \in Nodes |-> [l \in Links |-> IF l \in ls THEN Nobody ELSE label[n][l]]]

\* A connection breaks: IncompleteReadError, _close_peer.
Disconnect(l) ==
    /\ l \in up /\ faults < MaxFaults /\ faults' = faults + 1
    /\ Closed({l})
    /\ Ended(UnderWay({l}))
    /\ UNCHANGED <<now, born, queue, loop, send, saved, handed>>

-----------------------------------------------------------------------------
(* Receiving *)

\* _receive_loop: the peer goes by the author of the first bundle it sends.
Learn(n, l, b) ==
    label' = IF label[n][l] = Nobody THEN [label EXCEPT ![n][l] = AuthorOf[b]] ELSE label

\* "Store for potential relay"
ToRelay_ForPeers(n, b) == Directed(b) /\ Routes(n, RecipientOf[b]) # {}
ToRelay(n, b) == Directed(b) /\ RecipientOf[b] # n

\* The end of _handle_bundle.
Relay(n, b) == queue' = IF ToRelay(n, b) THEN [queue EXCEPT ![n] = Push(@, b)] ELSE queue

\* _handle_message
Keep(n, b) ==
    saved' = IF TypeOf[b] = "message" /\ RecipientOf[b] \in {"*", n}
             THEN [saved EXCEPT ![n] = @ \cup {b}] ELSE saved

\* broadcast() over the connections `todo`, until the first on which it must
\* wait; the order of _peers is any.
Broadcast(n, l, b, todo, box) ==
    \/ /\ \A m \in todo : ~Pauses(n, m)
       /\ inbox' = Written(box, n, b, todo)
       /\ loop' = [loop EXCEPT ![n][l] = Idle]
       /\ Relay(n, b)
    \/ \E stop \in todo, first \in SUBSET todo :
       /\ MayPause(n, stop) /\ stop \notin first /\ \A m \in first : ~Pauses(n, m)
       /\ inbox' = Written(box, n, b, first \cup {stop})
       /\ loop' = [loop EXCEPT ![n][l] = Wait(b, stop, todo \ (first \cup {stop}))]
       /\ UNCHANGED queue

\* _handle_revocation, of an identity whose chain is stored.
Rebroadcasts(n, b) == TypeOf[b] = "revocation" /\ AuthorOf[b] \in Known[n]

\* An expired bundle is dropped where it arrives.
Discards(b) == Expired(b)

\* A bundle is read from connection l and handled.  A revocation goes to all
\* peers, the one it came from included.
Receive(n, l) ==
    /\ l \in up /\ loop[n][l] = Idle /\ inbox[n][l] # << >>
    /\ LET b == Head(inbox[n][l])
       IN  /\ Learn(n, l, b)
           /\ IF ~Discards(b) /\ Rebroadcasts(n, b)
              THEN Broadcast(n, l, b, Peers(n), Taken(n, l))
              ELSE /\ inbox' = Taken(n, l)
                   /\ IF Discards(b) THEN UNCHANGED queue ELSE Relay(n, b)
                   /\ UNCHANGED loop
           /\ IF Discards(b) THEN UNCHANGED <<saved, ended>>
              ELSE /\ Keep(n, b)
                   /\ Ended(IF RecipientOf[b] = n /\ TypeOf[b] # "message" THEN {b} ELSE {})
    /\ UNCHANGED <<now, born, up, send, handed, faults>>

\* The broadcast that loop l of n waits in goes on: drain() returned, or the
\* connection is gone and counts as not sent.
ResumeBroadcast_IfOpen(n, l) ==
    /\ Resumes(n, loop[n][l]) /\ loop[n][l].on \in up
    /\ Broadcast(n, l, loop[n][l].bundle, loop[n][l].rest \cap up, inbox)
    /\ UNCHANGED <<now, born, up, label, send, saved, ended, handed, faults>>

ResumeBroadcast(n, l) ==
    /\ Resumes(n, loop[n][l])
    /\ Broadcast(n, l, loop[n][l].bundle, loop[n][l].rest \cap up, inbox)
    /\ UNCHANGED <<now, born, up, label, send, saved, ended, handed, faults>>

-----------------------------------------------------------------------------
(* Sending *)

\* `b` is written to l; the caller waits, or goes on at once.
SendTo(n, c, b, l, rest, waits) ==
    /\ IF waits THEN MayPause(n, l) ELSE ~Pauses(n, l)
    /\ inbox' = Written(inbox, n, b, {l})
    /\ Ended(IF Elsewhere(n, l) THEN {b} ELSE {})
    /\ send' = [send EXCEPT ![n][c] = IF waits THEN Wait(b, l, rest) ELSE Idle]

\* _process_queue, up to the send: expired bundles go, the first of the others
\* is sent if there is a route, and removed if the send did not wait.
ProcessQueue(n) ==
    LET q == Unexpired(queue[n])
        routes == IF q = << >> THEN {} ELSE Routes(n, RecipientOf[Head(q)])
    IN  /\ send[n]["queue"] = Idle
        /\ \/ /\ routes = {} /\ q # queue[n]
              /\ queue' = [queue EXCEPT ![n] = q]
              /\ UNCHANGED <<inbox, send, ended>>
           \/ \E l \in routes, waits \in BOOLEAN :
              /\ SendTo(n, "queue", Head(q), l, {}, waits)
              /\ queue' = [queue EXCEPT ![n] = IF waits THEN q ELSE Tail(q)]
        /\ UNCHANGED <<now, born, up, label, loop, saved, handed, faults>>

\* The send of _process_queue returns, and pop() removes what is first by now.
SendReturns(n) ==
    LET task == send[n]["queue"]
        popped == task.on \in up /\ queue[n] # << >>
    IN  /\ Resumes(n, task)
        /\ send' = [send EXCEPT ![n]["queue"] = Idle]
        /\ queue' = IF popped THEN [queue EXCEPT ![n] = Tail(@)] ELSE queue
        /\ Ended(IF popped THEN {Head(queue[n])} \ {task.bundle} ELSE {})
        /\ UNCHANGED <<now, born, up, label, inbox, loop, saved, handed, faults>>

\* _cleanup_expired
CleanupExpired(n) ==
    /\ Unexpired(queue[n]) # queue[n]
    /\ queue' = [queue EXCEPT ![n] = Unexpired(@)]
    /\ UNCHANGED <<now, born, up, label, inbox, loop, send, saved, ended, handed, faults>>

\* The rest of send_message: the peers not tried yet, then the queue.
TryRoutes(n, b, routes) ==
    \/ /\ routes = {}
       /\ queue' = [queue EXCEPT ![n] = Push(@, b)]
       /\ send' = [send EXCEPT ![n]["api"] = Idle]
       /\ UNCHANGED <<inbox, ended>>
    \/ \E l \in routes, waits \in BOOLEAN :
       SendTo(n, "api", b, l, routes \ {l}, waits) /\ UNCHANGED queue

\* POST /send
SendMessage(n, b) ==
    /\ AuthorOf[b] = n /\ TypeOf[b] = "message" /\ born[b] = Nobody /\ send[n]["api"] = Idle
    /\ born' = [born EXCEPT ![b] = now]
    /\ TryRoutes(n, b, Routes(n, RecipientOf[b]))
    /\ UNCHANGED <<now, up, label, loop, saved, handed, faults>>

\* A send of send_message returns; one that failed is tried over the next peer.
SendMessageGoesOn(n) ==
    LET task == send[n]["api"]
    IN  /\ Resumes(n, task)
        /\ \/ /\ task.on \in up
              /\ send' = [send EXCEPT ![n]["api"] = Idle]
              /\ UNCHANGED <<queue, inbox, ended>>
           \/ /\ task.on \notin up
              /\ TryRoutes(n, task.bundle, task.rest \cap up)
        /\ UNCHANGED <<now, born, up, label, loop, saved, handed, faults>>

-----------------------------------------------------------------------------
(* The rest of the world *)

\* A program of another make hands in a bundle, perhaps again: it relays, or
\* is another device of an identity that also runs a daemon.
HandIn(l, b) ==
    /\ l \in up /\ l[1] \notin Nodes
    /\ TypeOf[b] # "message"
    /\ handed < MaxHandIns /\ handed' = handed + 1
    /\ born' = IF born[b] = Nobody THEN [born EXCEPT ![b] = now] ELSE born
    /\ inbox' = [inbox EXCEPT ![l[2]][l] = Append(@, b)]
    /\ UNCHANGED <<now, queue, up, label, loop, send, saved, ended, faults>>

\* A daemon stops, or crashes, and starts again: only the database remains.
Restart(n) ==
    /\ faults < MaxFaults /\ faults' = faults + 1
    /\ Closed(Peers(n))
    /\ queue' = [queue EXCEPT ![n] = << >>]
    /\ loop' = [loop EXCEPT ![n] = [l \in Links |-> Idle]]
    /\ send' = [send EXCEPT ![n] = [c \in Callers |-> Idle]]
    /\ Ended(UnderWay(Peers(n)) \cup ToSet(queue[n])
               \cup {send[n][c].bundle : c \in Callers} \cup {loop[n][l].bundle : l \in Links})
    /\ UNCHANGED <<now, born, saved, handed>>

TimePasses == Tick /\ UNCHANGED <<born, queue, up, label, inbox, loop, send, saved, ended,
                                  handed, faults>>

Handling == \E n \in Nodes, l \in Links : l \in LinksOf(n) /\ (Receive(n, l) \/ ResumeBroadcast(n, l))
Sending == \E n \in Nodes : \/ ProcessQueue(n) \/ SendReturns(n) \/ CleanupExpired(n)
                            \/ SendMessageGoesOn(n) \/ \E b \in Bundles : SendMessage(n, b)
Surroundings ==
    \/ \E l \in Links : Connect(l) \/ Disconnect(l) \/ \E b \in Bundles : HandIn(l, b)
    \/ \E n \in Nodes : Restart(n)
    \/ TimePasses

Next == Handling \/ Sending \/ Surroundings

\* Every task that can run does in time: the event loop is fair, a loop whose
\* stream holds a bundle reads it.
Fairness == \A n \in Nodes, l \in Links :
    l \in LinksOf(n) => WF_vars(Receive(n, l)) /\ WF_vars(ResumeBroadcast(n, l))

Spec == Init /\ [][Next]_vars /\ Fairness

-----------------------------------------------------------------------------
(* Properties *)

Tasks == [bundle : Bundles \cup {Nobody}, on : Links \cup {Nobody}, rest : SUBSET Links]

\* Every variable has its type, and no connection holds a bundle unless it is
\* open: what a broken connection held is not delivered later.
TypeOK ==
    /\ now \in 0 .. MaxTime
    /\ born \in [Bundles -> (0 .. MaxTime) \cup {Nobody}]
    /\ queue \in [Nodes -> Seq(Bundles)]
    /\ up \subseteq Links
    /\ DOMAIN label = Nodes
    /\ inbox \in [Nodes -> [Links -> Seq(Bundles)]]
    /\ loop \in [Nodes -> [Links -> Tasks]]
    /\ send \in [Nodes -> [Callers -> Tasks]]
    /\ saved \in [Nodes -> SUBSET Bundles]
    /\ ended \subseteq Bundles
    /\ \A n \in Nodes, l \in Links : inbox[n][l] # << >> => l \in up

Holds(n, b) == \/ b \in ToSet(queue[n])
               \/ \E l \in Links : b \in ToSet(inbox[n][l]) \/ loop[n][l].bundle = b
               \/ \E c \in Callers : send[n][c].bundle = b

\* A directed bundle that has not expired does not vanish without cause: a
\* message is somewhere on its way or stored at its recipient, unless a
\* connection broke under it, a daemon that held it stopped, _process_queue
\* popped it in another's place, or it was handed to a peer that goes by the
\* name of its recipient and is not.
NothingVanishes ==
    \A b \in Bundles : born[b] # Nobody /\ Directed(b) /\ ~Expired(b) =>
        b \in ended \/ \E n \in Nodes : Holds(n, b) \/ (RecipientOf[b] = n /\ b \in saved[n])

\* "Revocation events are top priority" (identity-system.md, Revocation
\* Priority): no bundle waits in a queue behind one of lower priority, and of
\* two of the same priority the older is ahead, whatever order they came in.
RevocationsFirst ==
    \A n \in Nodes : \A i, j \in DOMAIN queue[n] :
        i < j => Before(queue[n][i], queue[n][j])

\* The receive loops that cannot go on.
Waiting == {x \in Nodes \X Links : loop[x[1]][x[2]] # Idle /\ Paused(x[1], loop[x[1]][x[2]].on)}
WaitsFor(x) == LET on == loop[x[1]][x[2]].on IN <<Far(x[1], on), on>>

\* Receive loops that all wait in a broadcast to the next.
Knot == \E s \in SUBSET Waiting : s # {} /\ \A x \in s : WaitsFor(x) \in s

\* No copy of an expired revocation is under way, or keeps a receive loop.
Settled ==
    \A b \in Bundles : TypeOf[b] = "revocation" /\ born[b] # Nobody /\ Expired(b) =>
        \A n \in Nodes, l \in Links : b \notin ToSet(inbox[n][l]) /\ loop[n][l].bundle # b

\* A revocation is broadcast again by every node that gets it, any number of
\* times; only its expiry ends that.  Once it has expired its copies go and the
\* receive loops come free, in spite of broken connections and restarts, unless
\* loops have blocked each other.
StormEnds == []<>(Settled \/ Knot)
=============================================================================
