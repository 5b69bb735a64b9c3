------------------------------ MODULE RideEvents ------------------------------
(***************************************************************************)
(* Domain events: publish_event of src/event_service/rabbitmq_client.py,   *)
(* the queue taxi.audit, and the consumer that keeps read_model.json.      *)
(*                                                                         *)
(* Each event is published by a producer.py of its own, so those of one    *)
(* ride come in any order; event_driven_design.md:166 and test_events.py   *)
(* have the order of the stages.  The broker keeps its queue over a        *)
(* restart (durable, persistent), delivers one message at a time           *)
(* (prefetch_count=1), and puts a message that was not acknowledged back   *)
(* where it was.  Of a payload only the event it came with is kept.        *)
(***************************************************************************)
EXTENDS Naturals, Sequences, FiniteSets

CONSTANTS Ride,
          Nil,
          Produced,       \* the events that may be published
          LogLength,      \* length of last_events: 20 in the code
          MaxCrashes,     \* bound of the model: deaths of the consumer
          MaxRepeats      \* bound of the model: events published once more

VARIABLES published,      \* events whose producer has returned
          queue,          \* taxi.audit: messages ready for delivery
          hand,           \* the delivered, unacknowledged message, or Nil
          pc,             \* where the consumer process is
          pending,        \* the model in the consumer's memory
          file,           \* read_model.json
          crashes,
          repeats,
          lost,           \* history: events the broker never stored
          overtaken,      \* history: events that a later one of their ride
                          \* reached the broker before
          again           \* history: events that may be processed once more

history == <<lost, overtaken, again>>
eventVars == <<published, queue, hand, pc, pending, file, crashes, repeats, history>>

-----------------------------------------------------------------------------
(***************************************************************************)
(* Events and the read model                                               *)
(***************************************************************************)

Created == 1              \* ride.created,   section active_rides
Accepted == 2             \* ride.accepted,  section accepted_rides
Completed == 3            \* ride.completed, section completed_rides
Stage == {Created, Accepted, Completed}

RideEvent == [ride : Ride, stage : Stage]
OtherEvent == [ride |-> Nil, stage |-> 0]      \* user.*, driver.*
Event == RideEvent \cup {OtherEvent}

ASSUME EventsAssumption ==
  /\ LogLength \in Nat \ {0}
  /\ MaxCrashes \in Nat
  /\ MaxRepeats \in Nat
  /\ Nil \notin Ride /\ Nil \notin Event
  /\ Produced \subseteq Event

\* rides[r][s]: what the section of stage s holds of ride r, as the set of the
\* events whose payloads were merged into it; empty if r is not in the section.
Model == [rides : [Ride -> [Stage -> SUBSET Stage]], last_events : Seq(RideEvent)]

EmptyModel ==
  [rides |-> [r \in Ride |-> [s \in Stage |-> {}]], last_events |-> <<>>]

\* A file that open("w") has truncated and json.dump has not finished.
Torn == [readable |-> FALSE, model |-> EmptyModel]
Saved(m) == [readable |-> TRUE, model |-> m]

\* get in the place of pop.
Moved_Copies(entry, s) ==
  IF s = Created
    THEN [entry EXCEPT ![s] = {s}]
    ELSE [entry EXCEPT ![s] = entry[s - 1] \cup {s}]

\* The payload in the place of the merged entry.
Moved_PayloadOnly(entry, s) ==
  IF s = Created
    THEN [entry EXCEPT ![s] = {s}]
    ELSE [entry EXCEPT ![s] = {s}, ![s - 1] = {}]

\* ride.created assigns; the others pop the entry of the stage before, or {}.
Moved(entry, s) ==
  IF s = Created
    THEN [entry EXCEPT ![s] = {s}]
    ELSE [entry EXCEPT ![s] = entry[s - 1] \cup {s}, ![s - 1] = {}]

\* Without the slice.
Logged_Grows(log, e) == Append(log, e)

Logged(log, e) ==
  LET longer == Append(log, e)
  IN  IF Len(longer) <= LogLength THEN longer ELSE Tail(longer)

update_read_model(m, e) ==
  [rides |-> [m.rides EXCEPT ![e.ride] = Moved(m.rides[e.ride], e.stage)],
   last_events |-> Logged(m.last_events, e)]

-----------------------------------------------------------------------------
(***************************************************************************)
(* Producers                                                               *)
(***************************************************************************)

EventsInit ==
  /\ published = {}
  /\ queue = <<>>
  /\ hand = Nil
  /\ pc = "down"
  /\ pending = EmptyModel
  /\ file = Saved(EmptyModel)        \* no file yet: load_read_model starts empty
  /\ crashes = 0
  /\ repeats = 0
  /\ lost = {}
  /\ overtaken = {}
  /\ again = {}

\* What reached the broker.
Stored == published \ lost

\* The events before e in the life of its ride.
Earlier(e) == {f \in RideEvent : f.ride = e.ride /\ f.stage < e.stage}

\* producer.py is run for an event, or run for it once more.
publish_event(e) ==
  /\ e \in published => repeats < MaxRepeats
  /\ repeats' = IF e \in published THEN repeats + 1 ELSE repeats
  /\ published' = published \cup {e}
  /\ queue' = Append(queue, e)
  /\ lost' = lost \ {e}
  /\ overtaken' = overtaken \cup (Earlier(e) \ Stored)
                            \cup {f \in {e} : \E g \in Stored : f \in Earlier(g)}
  /\ again' = again \cup ({e} \cap Stored)
  /\ UNCHANGED <<hand, pc, pending, file, crashes>>

\* There are no publisher confirms: the broker may go down with the message.
PublishLost(e) ==
  /\ e \notin published
  /\ published' = published \cup {e}
  /\ lost' = lost \cup {e}
  /\ UNCHANGED <<queue, hand, pc, pending, file, crashes, repeats, overtaken, again>>

-----------------------------------------------------------------------------
(***************************************************************************)
(* Consumer                                                                *)
(***************************************************************************)

\* The container is restarted until the broker answers.
Start ==
  /\ pc = "down"
  /\ pc' = "ready"
  /\ UNCHANGED <<published, queue, hand, pending, file, crashes, repeats, history>>

Deliver ==
  /\ pc = "ready"
  /\ hand = Nil
  /\ queue # <<>>
  /\ hand' = Head(queue)
  /\ queue' = Tail(queue)
  /\ pc' = "received"
  /\ UNCHANGED <<published, pending, file, crashes, repeats, history>>

\* Only the branch of the ride events acknowledges.
SkipOther_NoAck ==
  /\ pc = "received"
  /\ hand = OtherEvent
  /\ pc' = "ready"
  /\ UNCHANGED <<published, queue, hand, pending, file, crashes, repeats, history>>

\* The event is none of a ride: nothing is saved.
SkipOther ==
  /\ pc = "received"
  /\ hand = OtherEvent
  /\ pc' = "saved"
  /\ UNCHANGED <<published, queue, hand, pending, file, crashes, repeats, history>>

\* load_read_model, the update in memory, and open("w").
OpenFile ==
  /\ pc = "received"
  /\ hand # OtherEvent
  /\ file.readable
  /\ pending' = update_read_model(file.model, hand)
  /\ file' = Torn
  /\ pc' = "writing"
  /\ UNCHANGED <<published, queue, hand, crashes, repeats, history>>

\* The message goes to the end of the queue.
Requeued_AtEnd(e) == Append(queue, e)

\* What the broker does with a message that comes back.
Requeued(e) == <<e>> \o queue

\* json.load raises: basic_nack.
LoadFails ==
  /\ pc = "received"
  /\ hand # OtherEvent
  /\ ~file.readable
  /\ queue' = Requeued(hand)
  /\ hand' = Nil
  /\ pc' = "ready"
  /\ UNCHANGED <<published, pending, file, crashes, repeats, history>>

WriteFile ==
  /\ pc = "writing"
  /\ file' = Saved(pending)
  /\ pending' = EmptyModel
  /\ pc' = "saved"
  /\ UNCHANGED <<published, queue, hand, crashes, repeats, history>>

\* json.dump raises, for instance on a full disk: basic_nack.
WriteFails ==
  /\ pc = "writing"
  /\ queue' = Requeued(hand)
  /\ hand' = Nil
  /\ pending' = EmptyModel
  /\ pc' = "ready"
  /\ UNCHANGED <<published, file, crashes, repeats, history>>

Ack ==
  /\ pc = "saved"
  /\ hand' = Nil
  /\ pc' = "ready"
  /\ UNCHANGED <<published, queue, pending, file, crashes, repeats, history>>

\* basic_consume with auto_ack: the message in hand is no longer the broker's.
Crash_AutoAck ==
  /\ pc # "down"
  /\ crashes < MaxCrashes
  /\ crashes' = crashes + 1
  /\ again' = IF pc = "saved" THEN again \cup {hand} ELSE again
  /\ hand' = Nil
  /\ pending' = EmptyModel
  /\ pc' = "down"
  /\ UNCHANGED <<published, queue, file, repeats, lost, overtaken>>

\* The process dies, or its connection: then basic_ack raises, basic_nack in the
\* except branch raises too, and main ends.
Crash ==
  /\ pc # "down"
  /\ crashes < MaxCrashes
  /\ crashes' = crashes + 1
  /\ queue' = IF hand = Nil THEN queue ELSE Requeued(hand)
  /\ again' = IF pc = "saved" THEN again \cup {hand} ELSE again
  /\ hand' = Nil
  /\ pending' = EmptyModel
  /\ pc' = "down"
  /\ UNCHANGED <<published, file, repeats, lost, overtaken>>

ConsumerStep ==
  \/ Start \/ Deliver \/ SkipOther \/ OpenFile \/ LoadFails
  \/ WriteFile \/ WriteFails \/ Ack

EventsNext ==
  \/ \E e \in Produced : publish_event(e) \/ PublishLost(e)
  \/ ConsumerStep
  \/ Crash

EventsSpec == EventsInit /\ [][EventsNext]_eventVars

\* The consumer waits for nobody; producers and failures owe nothing.
FairEventsSpec == EventsSpec /\ WF_eventVars(ConsumerStep)

-----------------------------------------------------------------------------
(***************************************************************************)
(* Properties                                                              *)
(***************************************************************************)

Waiting(e) == e = hand \/ \E i \in DOMAIN queue : queue[i] = e

\* Messages, the consumer's memory and the file have the shapes of consumer.py;
\* the consumer holds a message exactly while it processes one, and no message
\* is in the broker twice unless it was published twice.
EventsTypeOK ==
  /\ published \subseteq Produced
  /\ lost \subseteq published /\ again \subseteq published
  /\ overtaken \subseteq RideEvent
  /\ queue \in Seq(Stored)
  /\ hand \in Stored \cup {Nil}
  /\ pc \in {"down", "ready", "received", "writing", "saved"}
  /\ hand # Nil <=> pc \in {"received", "writing", "saved"}
  /\ pending \in Model
  /\ file \in [readable : BOOLEAN, model : Model]
  /\ Len(file.model.last_events) <= LogLength
  /\ crashes \in 0 .. MaxCrashes
  /\ repeats \in 0 .. MaxRepeats
  /\ \A e \in Produced :
       Cardinality({i \in DOMAIN queue : queue[i] = e} \cup {i \in {0} : hand = e})
         <= repeats + 1

Acked(r) ==
  {s \in Stage : LET e == [ride |-> r, stage |-> s]
                 IN  e \in Stored /\ ~Waiting(e)}

\* The file is torn and nobody is writing it.
Stuck == ~file.readable /\ pc # "writing"

\* The read model: the file or, while it is rewritten, the model in memory.
Held == IF pc = "writing" THEN pending ELSE file.model

Reflected(r, s) == \E t \in Stage : t >= s /\ t \in Held.rides[r][t]

\* An event that left the broker is in the read model, its ride in the section of
\* that event or of a later one, at every step of the consumer.  There is one
\* exception: a rewriting of the file was cut short by a failure or by the death of
\* the consumer.  Then every acknowledged event is lost for ever, which the
\* at-least-once of event_driven_design.md:126 does not say.
AckedIsReflected ==
  \A r \in Ride : \A s \in Acked(r) : Stuck \/ Reflected(r, s)

\* Redelivery does not make a second copy of a ride (event_driven_design.md:138).
\* A ride is in two sections only if an event from the first of them on came to
\* the broker after a later one, or never.
TwoSectionsOnlyIfOvertaken ==
  \A r \in Ride : \A s, t \in Stage :
    /\ s < t
    /\ file.model.rides[r][s] # {} /\ file.model.rides[r][t] # {}
    => \E u \in s .. (t - 1) : [ride |-> r, stage |-> u] \in overtaken

\* The entry of a ride has the payloads of all its events.  One is missing only if
\* it, or one that would have carried it on, was overtaken or lost, or if a later
\* event was processed a second time: that finds the section before empty and
\* overwrites the entry with its own payload.
MissingOnlyIfOvertakenOrRepeated ==
  \A r \in Ride : \A s, t \in Stage :
    /\ s <= t
    /\ file.model.rides[r][t] # {} /\ s \notin file.model.rides[r][t]
    => \E u \in s .. t :
         LET e == [ride |-> r, stage |-> u]
         IN  (u < t /\ e \in overtaken) \/ (u > s /\ e \in again)

\* The same as event_driven_design.md:138 has it: repeated processing just writes
\* the state again.  But consumer.py:44 finds no entry to move when ride.accepted is
\* processed a second time, and :46 puts the bare payload in the place of the ride.
MissingOnlyIfOvertaken ==
  \A r \in Ride : \A s, t \in Stage :
    /\ s <= t
    /\ file.model.rides[r][t] # {} /\ s \notin file.model.rides[r][t]
    => \E u \in s .. (t - 1) : [ride |-> r, stage |-> u] \in overtaken

\* last_events shows the events of a ride going backwards only where they reached
\* the broker so, however often the consumer starts over.
LogKeepsOrder ==
  LET log == file.model.last_events
  IN  \A i, j \in DOMAIN log :
        i < j /\ log[i].ride = log[j].ride /\ log[i].stage > log[j].stage
          => log[j] \in overtaken

\* Once the producers have published what they publish, all that the broker stored
\* of it is processed and acknowledged, unless a rewriting of the file was cut short:
\* then the message in front is requeued for ever.
EventsAreHandled == <>[](queue = <<>> /\ hand = Nil) \/ <>[]Stuck
=============================================================================
