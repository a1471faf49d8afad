----------------------------- MODULE RelayPoller -----------------------------
(***************************************************************************)
(* The relay poller of relay/poller.py and the relay routes that steer it. *)
(* Its task gives way where it waits for the event or its interval, for a  *)
(* point's answer, and for the messages; what it does in between is one    *)
(* step, together with the start of the next identity's turn.              *)
(*                                                                         *)
(* An identity's points are those of its row, or those the last event of   *)
(* the stored chain that names any (Named); they are tried in order.  The  *)
(* messages a point has, and how the last poll of a row went, are stored   *)
(* for others to read and are left out.                                    *)
(***************************************************************************)
EXTENDS NodeChains

CONSTANTS Points,       \* distribution points
          Named,        \* [Identities -> the points each event names, << >> for none]
          Relayable,    \* the identities whose relaying is asked for
          Offered       \* the lists of points that are sent along

ASSUME RelayPollerAssumption ==
    /\ Relayable \subseteq Identities /\ Offered \subseteq Seq(Points)
    /\ Named \in [Identities -> Seq(Seq(Points))]
    /\ \A i \in Identities : Len(Named[i]) = Len(History[i])

VARIABLES rows,       \* relayed_identities table, newest first: [identity, points]
          suspended,  \* _suspended, and polling_suspended of relay_config
          trigger,    \* _poll_now_event
          poll,       \* where the task is: the identity and the points yet to
                      \* be tried, the rows yet to be taken
          owed        \* history: identities added while polling was on, and in
                      \* no cycle since

pollerVars == <<rows, suspended, trigger, poll, owed>>

Waiting == [at |-> "waiting", identity |-> None, points |-> << >>, todo |-> << >>]

RelayPollerInit ==
    /\ rows = << >>
    /\ suspended = FALSE /\ trigger = FALSE
    /\ poll = Waiting
    /\ owed = {}

-----------------------------------------------------------------------------
(* One cycle *)

\* The points that the first n events of each chain name in the end.
NamedBy ==
    [i \in Identities |-> [n \in 0 .. Len(History[i]) |->
        LET k == SelectLastInSeq(SubSeq(Named[i], 1, n), LAMBDA points : points # << >>)
        IN  IF k = 0 THEN << >> ELSE Named[i][k]]]

\* The points of a listed row, or else of the stored chain.
PointsOf(entry) ==
    IF entry.points # << >> THEN entry.points ELSE NamedBy[entry.identity][held[entry.identity]]

\* UPDATE ... WHERE: a row that was removed meanwhile stays removed.
Updated(table, i, points) ==
    [n \in DOMAIN table |-> IF table[n].identity = i THEN [table[n] EXCEPT !.points = points]
                           ELSE table[n]]

Cleared_Again == FALSE

\* The event when a cycle is over: it was cleared when the cycle began.
Cleared == trigger

\* _poll_all_identities from a list of rows on: identities without points are
\* passed over, the first that has some has its turn.
Turn(todo, table) ==
    LET k == SelectInSeq(todo, LAMBDA entry : PointsOf(entry) # << >>)
    IN  IF k = 0
        THEN poll' = Waiting /\ rows' = table
        ELSE /\ poll' = [at |-> "point", identity |-> todo[k].identity,
                         points |-> PointsOf(todo[k]), todo |-> SubSeq(todo, k + 1, Len(todo))]
             /\ rows' = IF todo[k].points # << >> THEN table
                        ELSE Updated(table, todo[k].identity, PointsOf(todo[k]))

\* The end of an identity's turn; the event is not touched.
NextTurn == Turn(poll.todo, rows) /\ trigger' = IF poll'.at = "waiting" THEN Cleared ELSE trigger

\* After a wait that ends: list_relayed_identities, unless polling is off.
StartCycle ==
    IF suspended THEN UNCHANGED <<rows, poll, owed>> ELSE Turn(rows, rows) /\ owed' = {}

Wake ==
    /\ poll.at = "waiting" /\ trigger
    /\ trigger' = FALSE
    /\ StartCycle
    /\ UNCHANGED <<held, suspended>>

WakeByInterval ==
    /\ poll.at = "waiting"
    /\ StartCycle
    /\ UNCHANGED <<held, trigger, suspended>>

\* The point has a copy that verifies, or answers without one (0).
PointAnswers ==
    /\ poll.at = "point"
    /\ LET i == poll.identity
       IN  \E n \in {0} \cup Around[i] :
              /\ IF n > held[i] THEN SaveSigchain(i, n) ELSE UNCHANGED held
              /\ rows' = IF NamedBy[i][n] = << >> THEN rows ELSE Updated(rows, i, NamedBy[i][n])
    /\ poll' = [poll EXCEPT !.at = "messages"]
    /\ UNCHANGED <<suspended, trigger, owed>>

\* A chain that does not verify, no chain, an error, 30 seconds without answer:
\* the next point is tried, after the last one the poll has failed.
PointFails ==
    /\ poll.at = "point"
    /\ IF Len(poll.points) > 1
       THEN poll' = [poll EXCEPT !.points = Tail(@)] /\ UNCHANGED <<rows, trigger>>
       ELSE NextTurn
    /\ UNCHANGED <<held, suspended, owed>>

\* _fetch_messages ends, well or not.
MessagesArrive ==
    /\ poll.at = "messages"
    /\ NextTurn
    /\ UNCHANGED <<held, suspended, owed>>

-----------------------------------------------------------------------------
(* Routes *)

Others_Kept(i) == rows

\* All rows but that of identity i.
Others(i) == Selected(rows, {n \in DOMAIN rows : rows[n].identity # i})

\* POST /relay/identities: INSERT OR REPLACE.  Without points the chain's are taken.
AddIdentity(i, points) ==
    /\ rows' = <<[identity |-> i, points |-> IF points # << >> THEN points ELSE NamedBy[i][held[i]]]>>
               \o Others(i)
    /\ IF suspended THEN UNCHANGED <<trigger, owed>>
       ELSE trigger' = TRUE /\ owed' = owed \cup {i}
    /\ UNCHANGED <<held, suspended, poll>>

RemoveIdentity(i) ==
    /\ rows' = Others(i)
    /\ owed' = owed \ {i}
    /\ UNCHANGED <<held, suspended, trigger, poll>>

PollNow == trigger' = TRUE /\ UNCHANGED <<held, rows, suspended, poll, owed>>

Suspend == suspended' = TRUE /\ UNCHANGED <<held, rows, trigger, poll, owed>>

Resume ==
    /\ suspended' = FALSE /\ trigger' = TRUE
    /\ UNCHANGED <<held, rows, poll, owed>>

\* The node stops and starts: the task is cancelled where it is, a new event is
\* not set, and what was added waits for the interval.
RestartPoller ==
    /\ poll' = Waiting /\ trigger' = FALSE /\ owed' = {}
    /\ UNCHANGED <<held, rows, suspended>>

-----------------------------------------------------------------------------

PollerTypeOK ==
    LET Entries == [identity : Relayable, points : Seq(Points)]
    IN  /\ rows \in Seq(Entries)
        /\ \A j, k \in DOMAIN rows : rows[j].identity = rows[k].identity => j = k
        /\ suspended \in BOOLEAN /\ trigger \in BOOLEAN
        /\ poll.at \in {"waiting", "point", "messages"}
        /\ poll.at # "waiting" => poll.identity \in Relayable /\ poll.points \in Seq(Points) \ {<< >>}
        /\ poll.todo \in Seq(Entries)
        /\ owed \subseteq {rows[n].identity : n \in DOMAIN rows}

\* An identity that is added while polling is on is in a cycle that begins
\* later, without waiting for the interval: also when it is added in the middle
\* of a cycle that has its list already, when the event is set several times,
\* and when a suspension uses the event up before it is lifted.
TriggeredPollHappens ==
    <>[](~suspended) => \A i \in Relayable : (i \in owed) ~> (i \notin owed)
=============================================================================
