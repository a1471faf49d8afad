------------------------------ MODULE TrustDesk ------------------------------
(***************************************************************************)
(* Trust delegations: the table behind POST /trust/delegations, and the    *)
(* score that GET /trust/calculate derives from it with core/trust.py.     *)
(* A weight is a whole number of Unit-ths; a path that ends before the     *)
(* depth limit is scored as if Unit were the weight of the steps it saves, *)
(* so that scores of paths of different lengths compare.                   *)
(***************************************************************************)
EXTENDS Integers, Sequences, FiniteSets, SequencesExt, FiniteSetsExt

CONSTANTS People,      \* identities that delegate and are delegated to
          Delegable,   \* the pairs <<from, to>> of one behaviour
          Unit,        \* weight 1.0
          Offers,      \* [weight, depth_limit, scope]: what a delegation says
          Topics,      \* claim types
          AllTopics,   \* scope None, and claim_type None
          NoLimit,     \* depth_limit None
          MaxHops,     \* the largest max_depth asked for
          Absent       \* no delegation

ASSUME TrustDeskAssumption ==
    /\ Delegable \subseteq People \X People
    /\ Unit \in Nat \ {0} /\ MaxHops \in Nat \ {0}
    /\ Offers \subseteq [weight : 0 .. Unit, depth_limit : Nat \cup {NoLimit},
                         scope : (SUBSET Topics) \cup {AllTopics}]
    /\ Absent \notin Offers /\ NoLimit \notin Nat

VARIABLE delegations  \* trust_delegations table: one row per pair

TrustDeskInit == delegations = [pair \in Delegable |-> Absent]

\* create_delegation in the session of pair[1]; save_trust_delegation replaces
\* what the pair had before.
CreateDelegation(pair, offer) == delegations' = [delegations EXCEPT ![pair] = offer]

-----------------------------------------------------------------------------
(* GET /trust/calculate *)

\* covers(); a caller may ask about no topic in particular.
Covers(pair, topic) ==
    \/ AllTopics \in {topic, delegations[pair].scope}
    \/ topic \in delegations[pair].scope

\* get_trust_delegations(i)
From(i) == {pair \in Delegable : pair[1] = i /\ delegations[pair] # Absent}

\* Whom the handler asks for delegations: breadth first, max_depth rounds.
Asked(me, max_depth) ==
    LET seen[round \in 1 .. max_depth] ==
            IF round = 1 THEN {me}
            ELSE seen[round - 1] \cup {pair[2] : pair \in UNION {From(i) : i \in seen[round - 1]}}
    IN  seen[max_depth]

Budget_Inherited(budget, limit) == budget - 1

\* What is left of the depth after a delegation is followed.
Budget(budget, limit) ==
    IF limit # NoLimit /\ limit < budget - 1 THEN limit ELSE budget - 1

\* The paths of calculate_trust after each number of steps: those in the queue,
\* and those that have just reached the subject, which go no further.
Paths(me, subject, topic, max_depth) ==
    LET asked == Asked(me, max_depth)
        Followed(p, pair) ==
            [hops |-> Append(p.hops, pair[2]), weights |-> Append(p.weights, delegations[pair].weight),
             budget |-> Budget(p.budget, delegations[pair].depth_limit)]
        Onward(p) ==
            {Followed(p, pair) : pair \in {q \in From(Last(p.hops)) :
                Last(p.hops) \in asked /\ ~Contains(p.hops, q[2]) /\ Covers(q, topic)}}
        level[steps \in 0 .. max_depth] ==
            IF steps = 0 THEN {[hops |-> <<me>>, weights |-> << >>, budget |-> max_depth]}
            ELSE UNION {Onward(p) : p \in {q \in level[steps - 1] :
                                              q.budget > 0 /\ Last(q.hops) # subject}}
    IN  {p \in UNION {level[steps] : steps \in 1 .. max_depth} : Last(p.hops) = subject}

\* The product of the weights, in Unit-ths to the power of MaxHops.
CombinedScore(weights) ==
    FoldLeft(LAMBDA product, w : product * w, Unit ^ (MaxHops - Len(weights)), weights)

\* trust_score: the best path, 0 if there is none, all for oneself.
TrustScore(me, subject, topic, max_depth) ==
    IF subject = me THEN Unit ^ MaxHops
    ELSE Max({0} \cup {CombinedScore(p.weights) : p \in Paths(me, subject, topic, max_depth)})

-----------------------------------------------------------------------------

TrustDeskTypeOK == delegations \in [Delegable -> Offers \cup {Absent}]

\* Every way along delegations that cover the topic, through no one twice, and
\* at most max_depth long, of which each delegation allows what comes after it.
Ways(me, subject, topic, max_depth) ==
    {way \in UNION {[1 .. n -> People] : n \in 2 .. max_depth + 1} :
        /\ way[1] = me /\ way[Len(way)] = subject
        /\ \A i, j \in DOMAIN way : way[i] = way[j] => i = j
        /\ \A i \in 1 .. Len(way) - 1 :
              LET pair == <<way[i], way[i + 1]>>
              IN  /\ pair \in From(way[i]) /\ Covers(pair, topic)
                  /\ delegations[pair].depth_limit # NoLimit =>
                        Len(way) - 1 - i <= delegations[pair].depth_limit}

WayScore(way) == CombinedScore([i \in 1 .. Len(way) - 1 |-> delegations[<<way[i], way[i + 1]>>].weight])

\* The search, level by level over what the handler loaded, with one budget per
\* path, finds the best of all the ways there are, whatever shorter or cheaper
\* way meets it first, however the limits along it nest, for every depth.
BestPath ==
    (\E pair \in Delegable : delegations[pair] # Absent) =>
    \A me, subject \in People, topic \in Topics \cup {AllTopics}, max_depth \in 1 .. MaxHops :
        me # subject =>
            TrustScore(me, subject, topic, max_depth)
                = Max({0} \cup {WayScore(way) : way \in Ways(me, subject, topic, max_depth)})
=============================================================================
