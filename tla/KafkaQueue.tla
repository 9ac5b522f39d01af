----------------------------- MODULE KafkaQueue -----------------------------
(***************************************************************************)
(* The Kafka adapter of the ingestion queue (internal/adapters/queue/kafka *)
(* /queue.go): one partition of the topic and the memory-worker processes  *)
(* of its consumer group.  Keys hash to partitions and partitions do not   *)
(* share anything, so one is enough.                                       *)
(*                                                                         *)
(* The broker and the client library are external: a log, one committed    *)
(* offset that each commit overwrites, and an assignment of the partition  *)
(* to one member, who starts reading at the committed offset.              *)
(***************************************************************************)
EXTENDS Naturals

CONSTANTS
    Consumers,    \* memory-worker processes
    Last,         \* messages that may be published
    MaxErrors,    \* bound on handler calls that return an error
    MaxMoves,     \* bound on rebalances and dead processes
    Nobody

ASSUME KafkaAssumption == /\ Last \in Nat /\ MaxErrors \in Nat /\ MaxMoves \in Nat
                          /\ Nobody \notin Consumers

VARIABLES
    log,         \* number of messages published; offsets are 0..log - 1
    committed,   \* the group's committed offset
    owner,       \* the consumer the partition is assigned to
    consumer,    \* each Subscribe loop and its reader's position
    tried,       \* offsets some handler call has returned for
    accepted,     \* offsets some handler call returned nil for
    errors, moves

kafkaVars == <<log, committed, owner, consumer, tried, accepted, errors, moves>>

Offsets == 0..(Last - 1)
ConsumerState == [pc : {"fetching", "handling", "committing", "stopped"},
                  pos : 0..Last]

KafkaInit ==
    /\ log = 0
    /\ committed = 0
    /\ owner = Nobody
    /\ consumer = [c \in Consumers |-> [pc |-> "fetching", pos |-> 0]]
    /\ tried = {}
    /\ accepted = {}
    /\ errors = 0
    /\ moves = 0

PublishMessage ==
    /\ log < Last
    /\ log' = log + 1
    /\ UNCHANGED <<committed, owner, consumer, tried, accepted, errors, moves>>

\* A new owner reads on from the committed offset.
Start == committed

\* A commit says: everything before this offset has been dealt with.
OffsetAfter(pos) == pos + 1

Live == {c \in Consumers : consumer[c].pc # "stopped"}

\* The group gives the partition to a live member, which reads from Start on.
\* The one that loses it finishes what it is doing.
Assign(c) ==
    /\ owner # c
    /\ consumer[c].pc = "fetching"
    /\ \/ owner \notin Live /\ UNCHANGED moves
       \/ moves < MaxMoves /\ moves' = moves + 1
    /\ owner' = c
    /\ consumer' = [consumer EXCEPT ![c].pos = Start]
    /\ UNCHANGED <<log, committed, tried, accepted, errors>>

\* Mutant: ReadMessage in its place, which commits what it returns.
FetchCommitting(c) ==
    /\ consumer[c].pc = "fetching"
    /\ owner = c
    /\ consumer[c].pos < log
    /\ committed' = OffsetAfter(consumer[c].pos)
    /\ consumer' = [consumer EXCEPT ![c].pc = "handling"]
    /\ UNCHANGED <<log, owner, tried, accepted, errors, moves>>

\* FetchMessage: it advances the reader past the message it returns.
Fetch(c) ==
    /\ consumer[c].pc = "fetching"
    /\ owner = c
    /\ consumer[c].pos < log
    /\ consumer' = [consumer EXCEPT ![c].pc = "handling"]
    /\ UNCHANGED <<log, committed, owner, tried, accepted, errors, moves>>

\* The handler returns nil and the loop goes on to CommitMessages.
HandleOk(c) ==
    /\ consumer[c].pc = "handling"
    /\ consumer' = [consumer EXCEPT ![c].pc = "committing"]
    /\ tried' = tried \cup {consumer[c].pos}
    /\ accepted' = accepted \cup {consumer[c].pos}
    /\ UNCHANGED <<log, committed, owner, errors, moves>>

\* The loop continues with the next message; the reader is not moved back.
AfterError(c) == [consumer EXCEPT ![c].pc = "fetching", ![c].pos = @ + 1]

HandleError(c) ==
    /\ consumer[c].pc = "handling"
    /\ errors < MaxErrors
    /\ errors' = errors + 1
    /\ tried' = tried \cup {consumer[c].pos}
    /\ consumer' = AfterError(c)
    /\ UNCHANGED <<log, committed, owner, accepted, moves>>

\* CommitMessages of one message.  From a member that lost the partition the
\* broker may still accept it.
Commit(c) ==
    /\ consumer[c].pc = "committing"
    /\ committed' = OffsetAfter(consumer[c].pos)
    /\ consumer' = [consumer EXCEPT ![c].pc = "fetching", ![c].pos = @ + 1]
    /\ UNCHANGED <<log, owner, tried, accepted, errors, moves>>

\* It is refused, or fails: Subscribe returns the error and main exits.
CommitFails(c) ==
    /\ consumer[c].pc = "committing"
    /\ \/ owner # c /\ UNCHANGED moves
       \/ moves < MaxMoves /\ moves' = moves + 1
    /\ consumer' = [consumer EXCEPT ![c].pc = "stopped"]
    /\ UNCHANGED <<log, committed, owner, tried, accepted, errors>>

\* The process dies, or FetchMessage fails, or its context is cancelled.
Die(c) ==
    /\ consumer[c].pc # "stopped"
    /\ moves < MaxMoves
    /\ moves' = moves + 1
    /\ consumer' = [consumer EXCEPT ![c].pc = "stopped"]
    /\ UNCHANGED <<log, committed, owner, tried, accepted, errors>>

\* The supervisor starts the process again; it joins without the partition.
RestartConsumer(c) ==
    /\ consumer[c].pc = "stopped"
    /\ consumer' = [consumer EXCEPT ![c] = [pc |-> "fetching", pos |-> committed]]
    /\ owner' = IF owner = c THEN Nobody ELSE owner
    /\ UNCHANGED <<log, committed, tried, accepted, errors, moves>>

Step(c) == \/ Assign(c) \/ Fetch(c) \/ HandleOk(c) \/ HandleError(c)
           \/ Commit(c) \/ CommitFails(c) \/ Die(c) \/ RestartConsumer(c)

KafkaNext == PublishMessage \/ \E c \in Consumers : Step(c)

KafkaSpec == KafkaInit /\ [][KafkaNext]_kafkaVars

\* The group assigns a partition nobody reads, live members fetch, handlers and
\* commits return, and dead processes are restarted.
KafkaFairSpec ==
    /\ KafkaSpec
    /\ WF_kafkaVars(\E c \in Consumers : Assign(c) /\ UNCHANGED moves)
    /\ \A c \in Consumers : /\ WF_kafkaVars(Fetch(c))
                            /\ WF_kafkaVars(HandleOk(c) \/ HandleError(c))
                            /\ WF_kafkaVars(Commit(c) \/ CommitFails(c))
                            /\ WF_kafkaVars(RestartConsumer(c))

-----------------------------------------------------------------------------
(* Properties. *)

\* The reader's position and the offsets stay within what was published.
KafkaTypeOK ==
    /\ log \in 0..Last
    /\ committed \in 0..log
    /\ owner \in Consumers \cup {Nobody}
    /\ consumer \in [Consumers -> ConsumerState]
    /\ \A c \in Consumers : /\ consumer[c].pos <= log
                            /\ consumer[c].pc \in {"handling", "committing"}
                                  => consumer[c].pos < log
    /\ accepted \subseteq tried
    /\ tried \subseteq 0..(log - 1)
    /\ errors \in 0..MaxErrors
    /\ moves \in 0..MaxMoves

\* No message is jumped over: what lies before the committed offset has been
\* given to a handler that returned, however often the partition moved and
\* whoever's late commit was accepted.
NoneSkipped == \A o \in Offsets : o < committed => o \in tried

\* Every published message reaches a handler that returns: readers die, lose
\* the partition and commit late, handlers fail, and nothing is left unread.
EveryMessageTried ==
    \A o \in Offsets : (o < log) ~> (o \in tried)

\* "commits only after the handler succeeds, so failed messages are
\* redelivered": what the group will not read again has been handled.
CommittedWereHandled == \A o \in Offsets : o < committed => o \in accepted
=============================================================================
