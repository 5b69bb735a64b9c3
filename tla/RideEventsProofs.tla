--------------------------- MODULE RideEventsProofs ---------------------------
(***************************************************************************)
(* What order, loss and redelivery of events may do to read_model.json,    *)
(* for any rides, any events and any number of deaths and repetitions.     *)
(***************************************************************************)
EXTENDS RideEvents, FiniteSetTheorems, SequenceTheorems, TLAPS

-----------------------------------------------------------------------------
(***************************************************************************)
(* The broker.  The message in hand is still the broker's: with the queue  *)
(* behind it, it makes a sequence that only publish_event and Ack change.  *)
(***************************************************************************)
Broker == IF hand = Nil THEN queue ELSE <<hand>> \o queue

\* A later event of the ride than f was stored before f was.
OvertakenIsMarked ==
  /\ \A e \in Stored : Earlier(e) \subseteq Stored \cup overtaken
  /\ \A i, j \in DOMAIN Broker :
       i < j /\ Broker[j] \in Earlier(Broker[i]) => Broker[j] \in overtaken

CopiesAreMarked ==
  \A i, j \in DOMAIN Broker : i < j /\ Broker[i] = Broker[j] => Broker[i] \in again

\* The events a model shows to have been processed.
Shown(m) ==
  {e \in RideEvent : m.rides[e.ride][e.stage] # {}}
    \cup {m.last_events[i] : i \in DOMAIN m.last_events}

ShownInOrder(m) ==
  /\ Shown(m) \subseteq Stored
  /\ \A r \in Ride, s \in Stage : m.rides[r][s] # {} => s \in m.rides[r][s]
  /\ \A g \in Shown(m) : \A i \in DOMAIN Broker :
       Broker[i] \in Earlier(g) => Broker[i] \in overtaken

\* The events not yet, or perhaps once more, to be worked into the file.
Behind == {e \in RideEvent : \E i \in DOMAIN queue : queue[i] = e}
ToDo == Behind \cup {e \in RideEvent : e = hand /\ pc # "saved"}

\* A stored event that is not to do is in the model.  If its section is empty, the
\* next event of its ride took the entry, and would now be a repetition.
Account(m, stored, todo, repeated) ==
  \A e \in (stored \cap RideEvent) \ todo :
    /\ \E t \in Stage : t >= e.stage /\ t \in m.rides[e.ride][t]
    /\ e.stage < Completed /\ m.rides[e.ride][e.stage] = {} =>
         LET f == [ride |-> e.ride, stage |-> e.stage + 1]
         IN  f \in stored /\ (f \in todo => f \in repeated)

AccountInv ==
  /\ file.readable => Account(file.model, Stored, ToDo, again)
  /\ pc = "writing" => Account(pending, Stored, Behind, again)

\* The three properties of the file, of any model.
TwoSectionsIn(m) ==
  \A r \in Ride : \A s, t \in Stage :
    s < t /\ m.rides[r][s] # {} /\ m.rides[r][t] # {}
      => \E u \in s .. (t - 1) : [ride |-> r, stage |-> u] \in overtaken

MissingIn(m) ==
  \A r \in Ride : \A s, t \in Stage :
    s <= t /\ m.rides[r][t] # {} /\ s \notin m.rides[r][t]
      => \E u \in s .. t :
           LET e == [ride |-> r, stage |-> u]
           IN  (u < t /\ e \in overtaken) \/ (u > s /\ e \in again)

LogOrderIn(m) ==
  LET log == m.last_events
  IN  \A i, j \in DOMAIN log :
        i < j /\ log[j] \in Earlier(log[i]) => log[j] \in overtaken

ModelInv(m) == ShownInOrder(m) /\ TwoSectionsIn(m) /\ MissingIn(m) /\ LogOrderIn(m)

EventsInv ==
  /\ OvertakenIsMarked /\ CopiesAreMarked
  /\ AccountInv
  /\ ModelInv(file.model) /\ ModelInv(pending)

-----------------------------------------------------------------------------
(***************************************************************************)
(* The read model                                                          *)
(***************************************************************************)

\* The log with one more event, and without its first if it was full.
LEMMA LoggedIs ==
  ASSUME NEW log \in Seq(RideEvent), Len(log) <= LogLength, NEW e \in RideEvent
  PROVE  /\ Logged(log, e) \in Seq(RideEvent)
         /\ Len(Logged(log, e)) <= LogLength
         /\ \E k \in {0, 1} :
              /\ Len(Logged(log, e)) = Len(log) + 1 - k
              /\ \A i \in 1 .. (Len(log) + 1 - k) :
                   Logged(log, e)[i] =
                     IF i + k <= Len(log) THEN log[i + k] ELSE e
<1> DEFINE longer == Append(log, e)
<1>1. /\ longer \in Seq(RideEvent) /\ longer # <<>>
      /\ Len(log) \in Nat /\ Len(longer) = Len(log) + 1
      /\ \A i \in 1 .. Len(longer) :
           longer[i] = IF i <= Len(log) THEN log[i] ELSE e
  BY AppendProperties, LenProperties
<1>2. LogLength \in Nat
  BY EventsAssumption
<1> HIDE DEF longer
<1>3. Logged(log, e) = IF Len(longer) <= LogLength THEN longer ELSE Tail(longer)
  BY DEF Logged, longer
<1>4. CASE Len(longer) <= LogLength
  <2>1. \A i \in 1 .. (Len(log) + 1) :
          longer[i] = IF i + 0 <= Len(log) THEN log[i + 0] ELSE e
    BY <1>1
  <2> QED BY <1>1, <1>3, <1>4, <2>1
<1>5. CASE ~(Len(longer) <= LogLength)
  <2>1. /\ Tail(longer) \in Seq(RideEvent) /\ Len(Tail(longer)) = Len(log)
        /\ \A i \in 1 .. Len(log) : Tail(longer)[i] = longer[i + 1]
    BY <1>1, HeadTailProperties
  <2>2. \A i \in 1 .. Len(log) :
          Tail(longer)[i] = IF i + 1 <= Len(log) THEN log[i + 1] ELSE e
    BY <1>1, <2>1
  <2> QED BY <1>1, <1>2, <1>3, <1>5, <2>1, <2>2
<1> QED BY <1>4, <1>5

\* What an event does to the sections of its ride.
LEMMA MovedIs ==
  ASSUME NEW entry \in [Stage -> SUBSET Stage], NEW h \in Stage
  PROVE  /\ Moved(entry, h) \in [Stage -> SUBSET Stage]
         /\ Moved(entry, h)[h] =
              (IF h = Created THEN {} ELSE entry[h - 1]) \cup {h}
         /\ \A s \in Stage :
              s # h => Moved(entry, h)[s] = IF s + 1 = h THEN {} ELSE entry[s]
BY DEF Moved, Stage, Created, Accepted, Completed

LEMMA UpdateIs ==
  ASSUME NEW m \in Model, Len(m.last_events) <= LogLength, NEW e \in RideEvent
  PROVE  LET n == update_read_model(m, e) IN
         /\ n \in Model /\ Len(n.last_events) <= LogLength
         /\ n.last_events = Logged(m.last_events, e)
         /\ \A r \in Ride :
              n.rides[r] = IF r = e.ride THEN Moved(m.rides[r], e.stage)
                                         ELSE m.rides[r]
<1>1. e.ride \in Ride /\ e.stage \in Stage
  BY DEF RideEvent
<1>2. /\ m.rides \in [Ride -> [Stage -> SUBSET Stage]]
      /\ m.last_events \in Seq(RideEvent)
  BY DEF Model
<1>3. Moved(m.rides[e.ride], e.stage) \in [Stage -> SUBSET Stage]
  BY <1>1, <1>2, MovedIs
<1>4. /\ Logged(m.last_events, e) \in Seq(RideEvent)
      /\ Len(Logged(m.last_events, e)) <= LogLength
  BY <1>2, LoggedIs
<1> QED BY <1>1, <1>2, <1>3, <1>4 DEF update_read_model, Model

\* An event that is worked in is the only one that is new in the model.
LEMMA ShownAfterUpdate ==
  ASSUME NEW m \in Model, Len(m.last_events) <= LogLength, NEW e \in RideEvent
  PROVE  Shown(update_read_model(m, e)) \subseteq Shown(m) \cup {e}
<1> DEFINE n == update_read_model(m, e)
<1>1. e.ride \in Ride /\ e.stage \in Stage
      /\ m.rides \in [Ride -> [Stage -> SUBSET Stage]]
      /\ m.last_events \in Seq(RideEvent)
  BY DEF RideEvent, Model
<1>2. /\ n.last_events = Logged(m.last_events, e)
      /\ \A r \in Ride :
           n.rides[r] = IF r = e.ride THEN Moved(m.rides[r], e.stage) ELSE m.rides[r]
  BY UpdateIs
<1> HIDE DEF n
<1>3. ASSUME NEW i \in DOMAIN n.last_events
      PROVE  n.last_events[i] \in Shown(m) \cup {e}
  <2>1. PICK k \in {0, 1} :
          /\ Len(Logged(m.last_events, e)) = Len(m.last_events) + 1 - k
          /\ \A j \in 1 .. (Len(m.last_events) + 1 - k) :
               Logged(m.last_events, e)[j] =
                 IF j + k <= Len(m.last_events) THEN m.last_events[j + k] ELSE e
    BY <1>1, LoggedIs
  <2>2. DOMAIN n.last_events = 1 .. (Len(m.last_events) + 1 - k)
    BY <1>1, <1>2, <2>1, LoggedIs, LenProperties
  <2>3. \/ i + k \in DOMAIN m.last_events /\ n.last_events[i] = m.last_events[i + k]
        \/ n.last_events[i] = e
    BY <1>1, <1>2, <2>1, <2>2, LenProperties
  <2> QED BY <2>3 DEF Shown
<1>4. ASSUME NEW f \in RideEvent, n.rides[f.ride][f.stage] # {}, f # e
      PROVE  m.rides[f.ride][f.stage] # {}
  <2>1. f.ride \in Ride /\ f.stage \in Stage
    BY DEF RideEvent
  <2>2. f.ride = e.ride => f.stage # e.stage
    BY <1>4 DEF RideEvent
  <2>3. CASE f.ride = e.ride
    <3>1. m.rides[f.ride] \in [Stage -> SUBSET Stage]
      BY <1>1, <2>1
    <3>2. n.rides[f.ride] = Moved(m.rides[f.ride], e.stage)
      BY <1>2, <2>1, <2>3
    <3>3. \A entry \in [Stage -> SUBSET Stage] : \A h, s \in Stage :
            s # h /\ Moved(entry, h)[s] # {} => entry[s] # {}
      <4> SUFFICES ASSUME NEW entry \in [Stage -> SUBSET Stage], NEW h \in Stage
                   PROVE  \A s \in Stage :
                            s # h /\ Moved(entry, h)[s] # {} => entry[s] # {}
        OBVIOUS
      <4> QED BY MovedIs
    <3> QED BY <1>1, <1>4, <2>1, <2>2, <2>3, <3>1, <3>2, <3>3
  <2>4. CASE f.ride # e.ride
    BY <1>2, <1>4, <2>1, <2>4
  <2> QED BY <2>3, <2>4
<1> QED BY <1>3, <1>4 DEF Shown, n

-----------------------------------------------------------------------------
(***************************************************************************)
(* Types                                                                   *)
(***************************************************************************)

\* EventsTypeOK but for the copies of a message, with the log in memory bounded.
EventTypes ==
  /\ published \subseteq Produced
  /\ lost \subseteq published /\ again \subseteq published
  /\ overtaken \subseteq RideEvent
  /\ queue \in Seq(Stored)
  /\ hand \in Stored \cup {Nil}
  /\ pc \in {"down", "ready", "received", "writing", "saved"}
  /\ hand # Nil <=> pc \in {"received", "writing", "saved"}
  /\ pending \in Model
  /\ file \in [readable : BOOLEAN, model : Model]
  /\ Len(file.model.last_events) <= LogLength
  /\ Len(pending.last_events) <= LogLength
  /\ crashes \in 0 .. MaxCrashes
  /\ repeats \in 0 .. MaxRepeats

\* The model of an empty or a torn file has no rides and no events.
LEMMA EmptyModelIs ==
  /\ EmptyModel \in Model /\ Len(EmptyModel.last_events) = 0
  /\ EmptyModel.last_events = <<>>
  /\ \A r \in Ride : \A s \in Stage : EmptyModel.rides[r][s] = {}
BY DEF EmptyModel, Model

\* An event is one of a ride or OtherEvent, and never Nil.
LEMMA EventIs ==
  /\ \A e \in Produced : e \in Event /\ e # Nil
  /\ \A e \in Event : e # OtherEvent <=> e \in RideEvent
BY EventsAssumption DEF Event, RideEvent, OtherEvent

\* What the producers do to the set of the events the broker has stored.
LEMMA StoredStep ==
  ASSUME EventTypes, [EventsNext]_eventVars
  PROVE  /\ Stored \subseteq Stored'
         /\ \A e : publish_event(e) => Stored' = Stored \cup {e}
         /\ \/ Stored' = Stored
            \/ \E e \in Produced : publish_event(e)
<1>1. ASSUME NEW e, publish_event(e) PROVE Stored' = Stored \cup {e}
  BY <1>1 DEF publish_event, Stored
<1>2. ASSUME NEW e, PublishLost(e) PROVE Stored' = Stored
  BY <1>2 DEF PublishLost, Stored, EventTypes
<1>3. ASSUME ConsumerStep PROVE Stored' = Stored
  BY <1>3 DEF ConsumerStep, Stored, Start, Deliver, SkipOther, OpenFile, LoadFails,
              WriteFile, WriteFails, Ack, history
<1>4. ASSUME Crash PROVE Stored' = Stored
  BY <1>4 DEF Crash, Stored
<1>5. ASSUME UNCHANGED eventVars PROVE Stored' = Stored
  BY <1>5 DEF eventVars, history, Stored
<1> QED BY <1>1, <1>2, <1>3, <1>4, <1>5 DEF EventsNext

\* A queue of stored messages stays one when more are stored.
LEMMA QueueGrows ==
  ASSUME NEW S, NEW T, S \subseteq T, NEW q \in Seq(S)
  PROVE  q \in Seq(T)
OBVIOUS

\* The types hold at the start.
LEMMA EventTypesInit == EventsInit => EventTypes
BY EmptyModelIs, EventsAssumption DEF EventsInit, EventTypes, Stored, Saved

\* Every step keeps the types.
LEMMA EventTypesStep == EventTypes /\ [EventsNext]_eventVars => EventTypes'
<1> SUFFICES ASSUME EventTypes, [EventsNext]_eventVars PROVE EventTypes'
  OBVIOUS
<1> USE DEF EventTypes
<1>0. Stored \subseteq Stored' /\ queue \in Seq(Stored')
  BY StoredStep, QueueGrows
<1>a. MaxRepeats \in Nat /\ MaxCrashes \in Nat /\ LogLength \in Nat
  BY EventsAssumption
<1>b. Stored \subseteq published /\ Stored \subseteq Produced
  BY DEF Stored
<1>c. \A e \in Stored : e # Nil
  BY <1>b, EventIs
<1>1. ASSUME NEW e \in Produced, publish_event(e) PROVE EventTypes'
  <2>1. Stored' = Stored \cup {e}
    BY <1>1, StoredStep
  <2>2. queue' \in Seq(Stored')
    BY <1>0, <1>1, <2>1 DEF publish_event
  <2>3. overtaken' \subseteq RideEvent
    BY <1>1 DEF publish_event, Earlier
  <2>4. repeats' \in 0 .. MaxRepeats
    BY <1>1, <1>a DEF publish_event
  <2>5. hand' \in Stored' \cup {Nil}
    BY <1>0, <1>1 DEF publish_event
  <2>6. /\ published' \subseteq Produced
        /\ lost' \subseteq published' /\ again' \subseteq published'
    BY <1>1 DEF publish_event
  <2> QED BY <1>1, <2>2, <2>3, <2>4, <2>5, <2>6 DEF publish_event
<1>2. ASSUME NEW e \in Produced, PublishLost(e) PROVE EventTypes'
  BY <1>0, <1>2 DEF PublishLost
<1>3. CASE Start
  BY <1>0, <1>3 DEF Start, history
<1>4. CASE Deliver
  <2>1. Head(queue) \in Stored /\ Tail(queue) \in Seq(Stored)
    BY <1>4 DEF Deliver
  <2>2. Stored' = Stored
    BY <1>4 DEF Deliver, history, Stored
  <2> QED BY <1>4, <1>c, <2>1, <2>2 DEF Deliver, history
<1>5. CASE SkipOther
  BY <1>0, <1>5 DEF SkipOther, history
<1>6. CASE OpenFile
  <2>1. hand \in RideEvent
    BY <1>6, <1>b, EventIs DEF OpenFile
  <2>2. pending' \in Model /\ Len(pending'.last_events) <= LogLength
    BY <1>6, <2>1, UpdateIs DEF OpenFile
  <2>3. /\ file' \in [readable : BOOLEAN, model : Model]
        /\ Len(file'.model.last_events) <= LogLength
    BY <1>6, <1>a, EmptyModelIs DEF OpenFile, Torn
  <2> QED BY <1>0, <1>6, <2>2, <2>3 DEF OpenFile, history
<1>7. CASE LoadFails
  <2>1. Stored' = Stored /\ hand \in Stored
    BY <1>7 DEF LoadFails, history, Stored
  <2> QED BY <1>7, <2>1 DEF LoadFails, Requeued, history
<1>8. CASE WriteFile
  <2>1. /\ file' \in [readable : BOOLEAN, model : Model]
        /\ Len(file'.model.last_events) <= LogLength
    BY <1>8 DEF WriteFile, Saved
  <2>2. pending' \in Model /\ Len(pending'.last_events) <= LogLength
    BY <1>8, <1>a, EmptyModelIs DEF WriteFile
  <2> QED BY <1>0, <1>8, <2>1, <2>2 DEF WriteFile, history
<1>9. CASE WriteFails
  <2>1. Stored' = Stored /\ hand \in Stored
    BY <1>9 DEF WriteFails, history, Stored
  <2>2. pending' \in Model /\ Len(pending'.last_events) <= LogLength
    BY <1>9, <1>a, EmptyModelIs DEF WriteFails
  <2> QED BY <1>9, <2>1, <2>2 DEF WriteFails, Requeued, history
<1>10. CASE Ack
  BY <1>0, <1>10 DEF Ack, history
<1>11. CASE Crash
  <2>1. Stored' = Stored
    BY <1>11 DEF Crash, Stored
  <2>2. queue' \in Seq(Stored)
    BY <1>11 DEF Crash, Requeued
  <2>3. pending' \in Model /\ Len(pending'.last_events) <= LogLength
    BY <1>11, <1>a, EmptyModelIs DEF Crash
  <2>4. again' \subseteq published'
    BY <1>11, <1>b DEF Crash
  <2>5. crashes' \in 0 .. MaxCrashes
    BY <1>11, <1>a DEF Crash
  <2> QED BY <1>11, <2>1, <2>2, <2>3, <2>4, <2>5 DEF Crash
<1>12. CASE UNCHANGED eventVars
  BY <1>0, <1>12 DEF eventVars, history
<1> QED
  BY <1>1, <1>2, <1>3, <1>4, <1>5, <1>6, <1>7, <1>8, <1>9, <1>10, <1>11, <1>12
  DEF EventsNext, ConsumerStep

-----------------------------------------------------------------------------
(***************************************************************************)
(* The broker's sequence                                                   *)
(***************************************************************************)

\* Where the messages of the broker are in its sequence.
LEMMA BrokerIs ==
  ASSUME EventTypes
  PROVE  /\ Broker \in Seq(Stored)
         /\ hand = Nil => Broker = queue
         /\ hand # Nil => /\ Len(Broker) = Len(queue) + 1
                          /\ Broker[1] = hand
                          /\ \A i \in 1 .. Len(queue) : Broker[i + 1] = queue[i]
                          /\ Tail(Broker) = queue
         /\ DOMAIN Broker = 1 .. Len(Broker) /\ Len(Broker) \in Nat
         /\ \A i \in DOMAIN Broker : Broker[i] \in Stored
<1>1. queue \in Seq(Stored) /\ hand \in Stored \cup {Nil}
  BY DEF EventTypes
<1>2. Broker \in Seq(Stored)
  BY <1>1 DEF Broker
<1>3. /\ DOMAIN Broker = 1 .. Len(Broker) /\ Len(Broker) \in Nat
      /\ \A i \in DOMAIN Broker : Broker[i] \in Stored
  BY <1>2, LenProperties, ElementOfSeq
<1>4. CASE hand = Nil
  BY <1>2, <1>3, <1>4 DEF Broker
<1>5. CASE hand # Nil
  BY <1>1, <1>2, <1>3, <1>5 DEF Broker
<1> QED BY <1>4, <1>5

\* A message waits if it is somewhere in the broker's sequence.
LEMMA WaitingIs ==
  ASSUME EventTypes, NEW e \in Stored
  PROVE  Waiting(e) <=> \E i \in DOMAIN Broker : Broker[i] = e
<1>1. e # Nil
  BY EventIs DEF Stored, EventTypes
<1>2. DOMAIN queue = 1 .. Len(queue) /\ Len(queue) \in Nat
  BY LenProperties DEF EventTypes
<1>3. CASE hand = Nil
  BY <1>1, <1>3, BrokerIs DEF Waiting
<1>4. CASE hand # Nil
  <2>1. \A i \in DOMAIN Broker : i # 1 => i - 1 \in 1 .. Len(queue)
    BY <1>2, <1>4, BrokerIs
  <2>2. \A i \in DOMAIN Broker : i # 1 => Broker[i] = queue[i - 1]
    <3> SUFFICES ASSUME NEW i \in DOMAIN Broker, i # 1
                 PROVE  Broker[i] = queue[i - 1]
      OBVIOUS
    <3>1. i \in 1 .. Len(Broker)
      BY BrokerIs
    <3>2. i - 1 \in 1 .. Len(queue) /\ (i - 1) + 1 = i
      BY <2>1, <3>1
    <3>3. Broker[(i - 1) + 1] = queue[i - 1]
      BY <1>4, <3>2, BrokerIs
    <3> QED BY <3>2, <3>3
  <2>3. ASSUME NEW i \in DOMAIN queue
        PROVE  i + 1 \in DOMAIN Broker /\ Broker[i + 1] = queue[i]
    BY <1>2, <1>4, BrokerIs
  <2>4. 1 \in DOMAIN Broker /\ Broker[1] = hand
    BY <1>2, <1>4, BrokerIs
  <2> QED BY <1>2, <2>1, <2>2, <2>3, <2>4 DEF Waiting
<1> QED BY <1>3, <1>4

\* A published message goes behind those that are there.
LEMMA PublishedIsLast ==
  ASSUME EventTypes, NEW e \in Produced, publish_event(e)
  PROVE  Broker' = Append(Broker, e)
<1>1. queue' = Append(queue, e) /\ hand' = hand
  BY DEF publish_event
<1>2. queue \in Seq(published \cup {e}) /\ hand \in published \cup {Nil}
  BY QueueGrows DEF EventTypes, Stored
<1>3. CASE hand = Nil
  BY <1>1, <1>3 DEF Broker
<1>4. CASE hand # Nil
  <2>1. <<hand>> \o Append(queue, e) = Append(<<hand>> \o queue, e)
    <3> DEFINE T == published \cup {e, hand}
    <3>1. queue \in Seq(T) /\ <<hand>> \in Seq(T) /\ <<e>> \in Seq(T)
      BY <1>2, QueueGrows
    <3>2. <<hand>> \o (queue \o <<e>>) = (<<hand>> \o queue) \o <<e>>
      BY <3>1, ConcatAssociative
    <3>3. Append(queue, e) = queue \o <<e>>
      BY <3>1, AppendIsConcat
    <3>4. Append(<<hand>> \o queue, e) = (<<hand>> \o queue) \o <<e>>
      BY <3>1, AppendIsConcat, ConcatProperties
    <3> QED BY <3>2, <3>3, <3>4
  <2> QED BY <1>1, <1>4, <2>1 DEF Broker
<1> QED BY <1>3, <1>4

\* An acknowledged message was the first.
LEMMA AckedIsFirst ==
  ASSUME EventTypes, Ack
  PROVE  /\ hand # Nil /\ Broker # <<>>
         /\ Broker' = Tail(Broker) /\ Broker' = queue /\ queue' = queue
<1>1. hand # Nil /\ hand' = Nil /\ queue' = queue
  BY DEF Ack, EventTypes
<1>2. queue \in Seq(Stored) /\ Broker' = queue
  BY <1>1 DEF EventTypes, Broker
<1>3. Broker # <<>> /\ Tail(Broker) = queue
  BY <1>1, <1>2, BrokerIs
<1> QED BY <1>1, <1>2, <1>3

\* Delivering a message, losing it again, and all else leave the sequence alone.
LEMMA BrokerIsKept ==
  ASSUME EventTypes, [EventsNext]_eventVars, ~Ack,
         \A e \in Produced : ~publish_event(e)
  PROVE  Broker' = Broker
<1>1. queue \in Seq(Stored) /\ hand \in Stored \cup {Nil}
  BY DEF EventTypes
<1>2. CASE Deliver
  <2>1. /\ queue # <<>> /\ hand = Nil
        /\ hand' = Head(queue) /\ queue' = Tail(queue)
    BY <1>2 DEF Deliver
  <2>2. Head(queue) # Nil
    BY <1>1, <2>1, EventIs DEF EventTypes, Stored
  <2>3. <<Head(queue)>> \o Tail(queue) = queue
    BY <1>1, <2>1
  <2> QED BY <2>1, <2>2, <2>3 DEF Broker
<1>3. CASE LoadFails \/ WriteFails
  <2>1. hand # Nil /\ hand' = Nil /\ queue' = <<hand>> \o queue
    BY <1>3 DEF LoadFails, WriteFails, Requeued, EventTypes
  <2> QED BY <2>1 DEF Broker
<1>4. CASE Crash
  BY <1>4 DEF Crash, Requeued, Broker
<1>5. CASE UNCHANGED <<queue, hand>>
  BY <1>5 DEF Broker
<1>6. \/ Deliver \/ LoadFails \/ WriteFails \/ Crash
      \/ UNCHANGED <<queue, hand>>
  BY DEF EventsNext, ConsumerStep, PublishLost, Start, SkipOther, OpenFile,
         WriteFile, eventVars
<1> QED BY <1>2, <1>3, <1>4, <1>5, <1>6

\* The steps of the broker's sequence, message by message.
LEMMA BrokerStep ==
  ASSUME EventTypes, [EventsNext]_eventVars
  PROVE  \/ /\ Broker' = Broker /\ Stored' = Stored
            /\ overtaken' = overtaken /\ again \subseteq again'
         \/ /\ Ack
            /\ Stored' = Stored /\ overtaken' = overtaken /\ again' = again
            /\ \A i \in DOMAIN Broker' :
                 i \in Int /\ i + 1 \in DOMAIN Broker /\ Broker'[i] = Broker[i + 1]
         \/ \E e \in Produced :
              /\ publish_event(e)
              /\ Stored' = Stored \cup {e}
              /\ overtaken \subseteq overtaken' /\ again \subseteq again'
              /\ DOMAIN Broker \subseteq DOMAIN Broker'
              /\ \A i \in DOMAIN Broker' :
                   \/ i \in DOMAIN Broker /\ Broker'[i] = Broker[i]
                   \/ i \notin DOMAIN Broker /\ Broker'[i] = e
              /\ \A i, j \in DOMAIN Broker' :
                   i < j => i \in DOMAIN Broker
<1>1. Broker \in Seq(Stored) /\ Len(Broker) \in Nat /\ DOMAIN Broker = 1 .. Len(Broker)
  BY BrokerIs
<1>2. ASSUME NEW e \in Produced, publish_event(e)
      PROVE  /\ publish_event(e)
             /\ Stored' = Stored \cup {e}
             /\ overtaken \subseteq overtaken' /\ again \subseteq again'
             /\ DOMAIN Broker \subseteq DOMAIN Broker'
             /\ \A i \in DOMAIN Broker' :
                  \/ i \in DOMAIN Broker /\ Broker'[i] = Broker[i]
                  \/ i \notin DOMAIN Broker /\ Broker'[i] = e
             /\ \A i, j \in DOMAIN Broker' :
                  i < j => i \in DOMAIN Broker
  <2>1. overtaken \subseteq overtaken' /\ again \subseteq again'
    BY <1>2 DEF publish_event
  <2>2. Broker' = Append(Broker, e)
    BY <1>2, PublishedIsLast
  <2>3. Broker \in Seq(Stored \cup {e})
    BY <1>1, QueueGrows
  <2>4. /\ Append(Broker, e) \in Seq(Stored \cup {e})
        /\ Len(Append(Broker, e)) = Len(Broker) + 1
        /\ \A i \in 1 .. Len(Broker) + 1 :
             Append(Broker, e)[i] = IF i <= Len(Broker) THEN Broker[i] ELSE e
    BY <2>3, AppendProperties
  <2>5. DOMAIN Broker' = 1 .. Len(Broker) + 1
    BY <2>2, <2>4, LenProperties
  <2> QED BY <1>1, <1>2, <2>1, <2>2, <2>4, <2>5, StoredStep
<1>3. CASE Ack
  <2>1. Broker # <<>> /\ Broker' = Tail(Broker)
    BY <1>3, AckedIsFirst
  <2>2. /\ Tail(Broker) \in Seq(Stored) /\ Len(Tail(Broker)) = Len(Broker) - 1
        /\ \A i \in 1 .. Len(Tail(Broker)) : Tail(Broker)[i] = Broker[i + 1]
    BY <1>1, <2>1, HeadTailProperties
  <2>3. DOMAIN Broker' = 1 .. Len(Broker) - 1
    BY <2>1, <2>2, LenProperties
  <2>4. Stored' = Stored /\ overtaken' = overtaken /\ again' = again
    BY <1>3 DEF Ack, history, Stored
  <2>5. \A i \in DOMAIN Broker' :
          i \in Int /\ i + 1 \in DOMAIN Broker /\ Broker'[i] = Broker[i + 1]
    BY <1>1, <2>1, <2>2, <2>3
  <2> QED BY <1>3, <2>4, <2>5
<1>4. CASE ~Ack /\ \A e \in Produced : ~publish_event(e)
  <2>1. Broker' = Broker /\ Stored' = Stored
    BY <1>4, BrokerIsKept, StoredStep
  <2>2. overtaken' = overtaken /\ again \subseteq again'
    BY <1>4 DEF EventsNext, ConsumerStep, PublishLost, Start, Deliver, SkipOther,
                OpenFile, LoadFails, WriteFile, WriteFails, Crash, eventVars, history
  <2> QED BY <2>1, <2>2
<1> QED BY <1>2, <1>3, <1>4

\* Every step keeps the marks on the messages of the broker true.
LEMMA MarksStep ==
  ASSUME EventTypes, OvertakenIsMarked, CopiesAreMarked, [EventsNext]_eventVars
  PROVE  OvertakenIsMarked' /\ CopiesAreMarked'
<1>1. CASE /\ Broker' = Broker /\ Stored' = Stored
           /\ overtaken' = overtaken /\ again \subseteq again'
  BY <1>1 DEF OvertakenIsMarked, CopiesAreMarked, Earlier
<1>2. CASE /\ Stored' = Stored /\ overtaken' = overtaken /\ again' = again
           /\ \A i \in DOMAIN Broker' :
                i \in Int /\ i + 1 \in DOMAIN Broker /\ Broker'[i] = Broker[i + 1]
  <2>1. \A i, j \in DOMAIN Broker' : i < j => i + 1 < j + 1
    BY <1>2
  <2>2. OvertakenIsMarked'
    BY <1>2, <2>1 DEF OvertakenIsMarked, Earlier
  <2>3. CopiesAreMarked'
    BY <1>2, <2>1 DEF CopiesAreMarked
  <2> QED BY <2>2, <2>3
<1>3. ASSUME NEW e \in Produced,
             publish_event(e), Stored' = Stored \cup {e},
             overtaken \subseteq overtaken', again \subseteq again',
             \A i \in DOMAIN Broker' :
               \/ i \in DOMAIN Broker /\ Broker'[i] = Broker[i]
               \/ i \notin DOMAIN Broker /\ Broker'[i] = e,
             \A i, j \in DOMAIN Broker' : i < j => i \in DOMAIN Broker
      PROVE  OvertakenIsMarked' /\ CopiesAreMarked'
  <2>1. /\ Earlier(e) \ Stored \subseteq overtaken'
        /\ (\E g \in Stored : e \in Earlier(g)) => e \in overtaken'
        /\ e \in Stored => e \in again'
    BY <1>3 DEF publish_event
  <2>2. \A i \in DOMAIN Broker : Broker[i] \in Stored
    BY BrokerIs
  <2>3. \A g \in Stored' : Earlier(g) \subseteq Stored' \cup overtaken'
    <3>1. \A g \in Stored : Earlier(g) \subseteq Stored \cup overtaken
      BY DEF OvertakenIsMarked
    <3>2. ASSUME NEW g \in Stored', NEW f \in Earlier(g)
          PROVE  f \in Stored' \cup overtaken'
      <4>1. CASE g \in Stored
        BY <1>3, <3>1, <3>2, <4>1
      <4>2. CASE g = e
        BY <1>3, <2>1, <3>2, <4>2
      <4> QED BY <1>3, <4>1, <4>2
    <3> QED BY <3>2
  <2>4. ASSUME NEW i \in DOMAIN Broker', NEW j \in DOMAIN Broker', i < j
        PROVE  /\ Broker'[j] \in Earlier(Broker'[i]) => Broker'[j] \in overtaken'
               /\ Broker'[i] = Broker'[j] => Broker'[i] \in again'
    <3>1. i \in DOMAIN Broker /\ Broker'[i] = Broker[i] /\ Broker[i] \in Stored
      BY <1>3, <2>2, <2>4
    <3>2. CASE j \in DOMAIN Broker
      BY <1>3, <2>4, <3>1, <3>2 DEF OvertakenIsMarked, CopiesAreMarked
    <3>3. CASE j \notin DOMAIN Broker
      BY <1>3, <2>1, <3>1, <3>3
    <3> QED BY <3>2, <3>3
  <2>5. \A g : Earlier(g)' = Earlier(g)
    BY DEF Earlier
  <2> QED BY <2>3, <2>4, <2>5 DEF OvertakenIsMarked, CopiesAreMarked
<1> QED BY <1>1, <1>2, <1>3, BrokerStep

-----------------------------------------------------------------------------
(***************************************************************************)
(* The account of the events                                               *)
(***************************************************************************)

\* An account stays right while more is stored, and while what comes to be done
\* again is known to be a repetition.
LEMMA AccountGrows ==
  ASSUME NEW m, NEW stored, NEW todo, NEW repeated,
         NEW stored2, NEW todo2, NEW repeated2,
         Account(m, stored, todo, repeated),
         stored \subseteq stored2, repeated \subseteq repeated2,
         (stored2 \cap RideEvent) \ todo2 \subseteq (stored \cap RideEvent) \ todo,
         todo2 \cap stored \subseteq todo \cup repeated2
  PROVE  Account(m, stored2, todo2, repeated2)
BY DEF Account

\* A model accounts for the event it is updated with, and for all it did before.
LEMMA AccountUpdated ==
  ASSUME NEW m \in Model, Len(m.last_events) <= LogLength,
         NEW stored, NEW todo, NEW repeated, NEW h \in RideEvent \cap stored,
         Account(m, stored, todo \cup {h}, repeated),
         h \in todo => h \in repeated
  PROVE  Account(update_read_model(m, h), stored, todo, repeated)
<1> DEFINE n == update_read_model(m, h)
<1>1. h.ride \in Ride /\ h.stage \in Stage /\ m.rides \in [Ride -> [Stage -> SUBSET Stage]]
  BY DEF RideEvent, Model
<1>2. \A r \in Ride :
        n.rides[r] = IF r = h.ride THEN Moved(m.rides[r], h.stage) ELSE m.rides[r]
  BY UpdateIs
<1> HIDE DEF n
<1> SUFFICES ASSUME NEW e \in (stored \cap RideEvent) \ todo
             PROVE  /\ \E t \in Stage : t >= e.stage /\ t \in n.rides[e.ride][t]
                    /\ e.stage < Completed /\ n.rides[e.ride][e.stage] = {} =>
                         LET f == [ride |-> e.ride, stage |-> e.stage + 1]
                         IN  f \in stored /\ (f \in todo => f \in repeated)
  BY DEF Account, n
<1>3. e.ride \in Ride /\ e.stage \in Stage /\ e = [ride |-> e.ride, stage |-> e.stage]
  BY DEF RideEvent
<1>4. e # h =>
        /\ \E t \in Stage : t >= e.stage /\ t \in m.rides[e.ride][t]
        /\ e.stage < Completed /\ m.rides[e.ride][e.stage] = {} =>
             LET f == [ride |-> e.ride, stage |-> e.stage + 1]
             IN  f \in stored /\ (f \in todo \cup {h} => f \in repeated)
  BY DEF Account
<1>5. CASE e.ride # h.ride
  BY <1>2, <1>3, <1>4, <1>5
<1>6. CASE e.ride = h.ride
  <2> DEFINE entry == m.rides[h.ride]
             new == n.rides[h.ride]
  <2>1. entry \in [Stage -> SUBSET Stage] /\ new = Moved(entry, h.stage)
    BY <1>1, <1>2
  <2> HIDE DEF entry, new
  <2>2. /\ h.stage \in new[h.stage]
        /\ \A s \in Stage :
             s # h.stage => new[s] = IF s + 1 = h.stage THEN {} ELSE entry[s]
    BY <1>1, <2>1, MovedIs
  <2>3. CASE e = h
    BY <1>3, <2>2, <2>3 DEF new, Stage, Created, Accepted, Completed
  <2>4. CASE e # h
    <3>1. e.stage # h.stage
      BY <1>3, <1>6, <2>4 DEF RideEvent
    <3>2. PICK t \in Stage : t >= e.stage /\ t \in entry[t]
      BY <1>4, <1>6, <2>4 DEF entry
    <3>3. \E u \in Stage : u >= e.stage /\ u \in new[u]
      <4>1. CASE t = h.stage \/ t + 1 = h.stage
        BY <1>1, <1>3, <2>2, <3>2, <4>1 DEF Stage, Created, Accepted, Completed
      <4>2. CASE t # h.stage /\ t + 1 # h.stage
        BY <2>2, <3>2, <4>2
      <4> QED BY <4>1, <4>2
    <3>4. ASSUME e.stage < Completed, new[e.stage] = {}
          PROVE  LET f == [ride |-> e.ride, stage |-> e.stage + 1]
                 IN  f \in stored /\ (f \in todo => f \in repeated)
      <4>1. CASE e.stage + 1 = h.stage
        <5>1. [ride |-> e.ride, stage |-> e.stage + 1] = h
          BY <1>6, <4>1 DEF RideEvent
        <5> QED BY <5>1
      <4>2. CASE e.stage + 1 # h.stage
        <5>1. entry[e.stage] = {}
          BY <1>3, <2>2, <3>1, <3>4, <4>2
        <5> QED BY <1>4, <1>6, <2>4, <3>4, <5>1 DEF entry
      <4> QED BY <4>1, <4>2
    <3> QED BY <1>6, <3>3, <3>4 DEF new
  <2> QED BY <2>3, <2>4
<1> QED BY <1>5, <1>6

\* What is to be done is what the broker holds, but for a message that is saved.
LEMMA ToDoIs ==
  ASSUME EventTypes
  PROVE  /\ ToDo \subseteq {e \in RideEvent : \E i \in DOMAIN Broker : Broker[i] = e}
         /\ \A e \in RideEvent : e \notin ToDo /\ pc # "saved"
              => \A i \in DOMAIN Broker : Broker[i] # e
         /\ ToDo \subseteq Stored /\ Behind \subseteq Stored
<1>1. \A i \in DOMAIN queue : queue[i] \in Stored
  BY ElementOfSeq, LenProperties DEF EventTypes
<1>2. \A e \in RideEvent : e # Nil
  BY EventsAssumption DEF Event
<1>3. ToDo \subseteq Stored /\ Behind \subseteq Stored
  BY <1>1, <1>2 DEF ToDo, Behind, EventTypes
<1>4. \A e \in Stored : Waiting(e) <=> \E i \in DOMAIN Broker : Broker[i] = e
  BY WaitingIs
<1>5. \A i \in DOMAIN Broker : Broker[i] \in Stored
  BY BrokerIs
<1>6. \A e \in ToDo : Waiting(e)
  BY DEF ToDo, Behind, Waiting
<1>7. ASSUME NEW e \in RideEvent, e \notin ToDo, pc # "saved"
      PROVE  ~Waiting(e)
  BY <1>7 DEF ToDo, Behind, Waiting
<1>8. ToDo \subseteq RideEvent
  BY DEF ToDo, Behind
<1> QED BY <1>3, <1>4, <1>5, <1>6, <1>7, <1>8

\* The messages of a queue, when one is published.
LEMMA AppendedMessages ==
  ASSUME NEW S, NEW q \in Seq(S), NEW e \in S, NEW f
  PROVE  (\E i \in DOMAIN Append(q, e) : Append(q, e)[i] = f)
           <=> f = e \/ \E i \in DOMAIN q : q[i] = f
<1>1. Len(q) \in Nat /\ DOMAIN q = 1 .. Len(q)
  BY LenProperties
<1>2. /\ DOMAIN Append(q, e) = 1 .. Len(q) + 1
      /\ \A i \in 1 .. Len(q) : Append(q, e)[i] = q[i]
      /\ Append(q, e)[Len(q) + 1] = e
  BY <1>1, AppendProperties
<1> QED BY <1>1, <1>2

\* The messages of a queue, when one is delivered.
LEMMA DeliveredMessages ==
  ASSUME NEW S, NEW q \in Seq(S), q # <<>>, NEW f
  PROVE  (\E i \in DOMAIN q : q[i] = f)
           <=> f = Head(q) \/ \E i \in DOMAIN Tail(q) : Tail(q)[i] = f
<1>0. Len(q) \in Nat /\ DOMAIN q = 1 .. Len(q)
  BY LenProperties
<1>1. /\ Head(q) = q[1] /\ Len(q) >= 1
      /\ DOMAIN Tail(q) = 1 .. Len(q) - 1
      /\ \A i \in 1 .. Len(q) - 1 : Tail(q)[i] = q[i + 1]
  BY <1>0, HeadTailProperties, LenProperties
<1>2. ASSUME NEW i \in DOMAIN q, i # 1
      PROVE  i - 1 \in DOMAIN Tail(q) /\ Tail(q)[i - 1] = q[i]
  <2>1. i - 1 \in 1 .. Len(q) - 1 /\ (i - 1) + 1 = i
    BY <1>0, <1>1, <1>2
  <2> QED BY <1>1, <2>1
<1>3. ASSUME NEW i \in DOMAIN Tail(q)
      PROVE  i + 1 \in DOMAIN q /\ q[i + 1] = Tail(q)[i]
  BY <1>0, <1>1
<1>4. 1 \in DOMAIN q
  BY <1>0, <1>1
<1> QED BY <1>1, <1>2, <1>3, <1>4

\* Every step but the consumer's two that work an event in leaves to do what was to
\* do, and adds only events that are new or repeated.
LEMMA ToDoStep ==
  ASSUME EventTypes, [EventsNext]_eventVars, ~OpenFile, ~WriteFile
  PROVE  /\ (Stored' \cap RideEvent) \ ToDo' \subseteq (Stored \cap RideEvent) \ ToDo
         /\ ToDo' \cap Stored \subseteq ToDo \cup again'
<1>1. queue \in Seq(Stored) /\ hand \in Stored \cup {Nil}
  BY DEF EventTypes
<1>2. Nil \notin RideEvent /\ OtherEvent \notin RideEvent
  BY EventsAssumption, EventIs DEF Event
<1>3. ASSUME NEW e \in Produced, publish_event(e)
      PROVE  /\ (Stored' \cap RideEvent) \ ToDo' \subseteq (Stored \cap RideEvent) \ ToDo
             /\ ToDo' \cap Stored \subseteq ToDo \cup again'
  <2>1. queue' = Append(queue, e) /\ hand' = hand /\ pc' = pc
        /\ again' = again \cup ({e} \cap Stored) /\ Stored' = Stored \cup {e}
    BY <1>3, StoredStep DEF publish_event
  <2>2. queue \in Seq(Stored \cup {e})
    BY <1>1, QueueGrows
  <2>3. \A f \in RideEvent : f \in Behind' <=> f = e \/ f \in Behind
    BY <2>1, <2>2, AppendedMessages DEF Behind
  <2>4. \A f \in RideEvent : f \in ToDo' <=> f = e \/ f \in ToDo
    BY <2>1, <2>3 DEF ToDo
  <2>5. ToDo' \subseteq RideEvent
    BY DEF ToDo, Behind
  <2> QED BY <2>1, <2>4, <2>5
<1>4. CASE ~(\E e \in Produced : publish_event(e))
  <2>1. Stored' = Stored
    BY <1>4, StoredStep
  <2>2. ToDo \subseteq RideEvent /\ ToDo' \subseteq RideEvent
    BY DEF ToDo, Behind
  <2>a. ASSUME Broker' = Broker, hand' = Nil
        PROVE  \A f \in RideEvent : f \in Behind' <=> f = hand \/ f \in Behind
    <3>1. queue' = Broker
      BY <2>a DEF Broker
    <3>2. \A f \in Stored : Waiting(f) <=> \E i \in DOMAIN queue' : queue'[i] = f
      BY <3>1, WaitingIs
    <3>3. \A i \in DOMAIN queue' : queue'[i] \in Stored
      BY <3>1, BrokerIs
    <3>4. \A f \in Stored \cap RideEvent : Waiting(f) <=> f = hand \/ f \in Behind
      BY DEF Waiting, Behind
    <3>5. Behind \subseteq Stored
      BY ToDoIs
    <3> QED BY <1>1, <1>2, <3>2, <3>3, <3>4, <3>5 DEF Behind
  <2>3. CASE Deliver
    <3>1. hand = Nil /\ queue # <<>> /\ hand' = Head(queue) /\ queue' = Tail(queue)
          /\ pc' = "received"
      BY <2>3 DEF Deliver
    <3>2. \A f \in RideEvent : f \in Behind <=> f = Head(queue) \/ f \in Behind'
      <4>1. \A f : (\E i \in DOMAIN queue : queue[i] = f)
              <=> f = Head(queue) \/ \E i \in DOMAIN Tail(queue) : Tail(queue)[i] = f
        BY <1>1, <3>1, DeliveredMessages
      <4> QED BY <3>1, <4>1 DEF Behind
    <3>3. ToDo' = ToDo
      BY <1>2, <3>1, <3>2, <2>2 DEF ToDo
    <3> QED BY <2>1, <3>3
  <2>4. CASE LoadFails \/ WriteFails
    <3>1. /\ hand \in Stored /\ hand' = Nil /\ pc # "saved"
      BY <2>4 DEF LoadFails, WriteFails, EventTypes
    <3>2. \A f \in RideEvent : f \in Behind' <=> f = hand \/ f \in Behind
      <4>1. ~Ack
        BY <3>1 DEF Ack
      <4> QED BY <1>4, <2>a, <3>1, <4>1, BrokerIsKept
    <3>3. ToDo' = ToDo
      BY <1>2, <2>2, <3>1, <3>2 DEF ToDo
    <3> QED BY <2>1, <3>3
  <2>5. CASE Crash
    <3>1. /\ hand' = Nil
          /\ hand = Nil => queue' = queue
          /\ again' = IF pc = "saved" THEN again \cup {hand} ELSE again
      BY <2>5 DEF Crash
    <3>2. CASE hand = Nil
      <4>1. Behind' = Behind
        BY <3>1, <3>2 DEF Behind
      <4>2. ToDo' = ToDo
        BY <1>2, <2>2, <3>1, <3>2, <4>1 DEF ToDo
      <4> QED BY <2>1, <4>2
    <3>3. CASE hand # Nil
      <4>1. \A f \in RideEvent : f \in Behind' <=> f = hand \/ f \in Behind
        <5>1. ~Ack
          BY <2>5, <1>1, EventsAssumption DEF Ack, Crash
        <5> QED BY <1>4, <2>a, <3>1, <5>1, BrokerIsKept
      <4>2. \A f \in RideEvent : f \in ToDo' <=> f = hand \/ f \in ToDo
        BY <1>2, <3>1, <4>1 DEF ToDo
      <4>3. hand \in RideEvent /\ hand \notin ToDo => hand \in again'
        BY <3>1 DEF ToDo
      <4> QED BY <2>1, <2>2, <4>2, <4>3
    <3> QED BY <3>2, <3>3
  <2>6. CASE Ack
    <3>1. hand' = Nil /\ queue' = queue /\ pc = "saved" /\ pc' = "ready"
      BY <2>6 DEF Ack
    <3>2. ToDo' = ToDo
      BY <1>2, <3>1 DEF ToDo, Behind
    <3> QED BY <2>1, <3>2
  <2>7. CASE SkipOther
    <3>1. hand' = hand /\ hand = OtherEvent /\ queue' = queue
      BY <2>7 DEF SkipOther
    <3>2. ToDo' = ToDo
      BY <1>2, <3>1 DEF ToDo, Behind
    <3> QED BY <2>1, <3>2
  <2>8. CASE Start
    <3>1. hand' = hand /\ queue' = queue /\ pc # "saved" /\ pc' # "saved"
      BY <2>8 DEF Start
    <3>2. ToDo' = ToDo
      BY <3>1 DEF ToDo, Behind
    <3> QED BY <2>1, <3>2
  <2>9. CASE UNCHANGED <<queue, hand, pc>>
    <3>1. ToDo' = ToDo
      BY <2>9 DEF ToDo, Behind
    <3> QED BY <2>1, <3>1
  <2> QED BY <1>4, <2>3, <2>4, <2>5, <2>6, <2>7, <2>8, <2>9
          DEF EventsNext, ConsumerStep, PublishLost, eventVars
<1> QED BY <1>3, <1>4

\* Every step keeps the account of what was stored right.
LEMMA AccountStep ==
  ASSUME EventTypes, CopiesAreMarked, AccountInv, [EventsNext]_eventVars
  PROVE  AccountInv'
<1>1. Stored \subseteq Stored' /\ again \subseteq again'
  BY StoredStep, BrokerStep
<1>2. CASE OpenFile
  <2>1. /\ pc = "received" /\ hand # OtherEvent /\ file.readable
        /\ pending' = update_read_model(file.model, hand)
        /\ ~file'.readable
        /\ again' = again /\ Stored' = Stored /\ Behind' = Behind
    BY <1>2 DEF OpenFile, Torn, history, Stored, Behind
  <2>2. hand \in RideEvent /\ hand \in Stored
    BY <2>1, EventIs DEF EventTypes, Stored
  <2>3. ToDo = Behind \cup {hand}
    BY <2>1, <2>2 DEF ToDo
  <2>4. hand \in Behind => hand \in again
    <3>1. SUFFICES ASSUME NEW i \in DOMAIN queue, queue[i] = hand
                   PROVE  hand \in again
      BY DEF Behind
    <3>2. /\ Len(queue) \in Nat /\ DOMAIN queue = 1 .. Len(queue)
          /\ hand # Nil
      BY <2>1, LenProperties DEF EventTypes
    <3>3. /\ 1 \in DOMAIN Broker /\ i + 1 \in DOMAIN Broker /\ 1 < i + 1
          /\ Broker[1] = hand /\ Broker[i + 1] = hand
      BY <3>1, <3>2, BrokerIs
    <3> QED BY <3>3 DEF CopiesAreMarked
  <2>5. file.model \in Model /\ Len(file.model.last_events) <= LogLength
    BY DEF EventTypes
  <2>6. Account(file.model, Stored, Behind \cup {hand}, again)
    BY <2>1, <2>3 DEF AccountInv
  <2>7. Account(pending', Stored, Behind, again)
    BY <2>1, <2>2, <2>4, <2>5, <2>6, AccountUpdated
  <2> QED BY <2>1, <2>7 DEF AccountInv
<1>3. CASE WriteFile
  <2>1. /\ pc = "writing" /\ pc' = "saved" /\ file'.model = pending
        /\ again' = again /\ Stored' = Stored /\ Behind' = Behind
    BY <1>3 DEF WriteFile, Saved, history, Stored, Behind
  <2>2. ToDo' = Behind
    BY <2>1 DEF ToDo
  <2> QED BY <2>1, <2>2 DEF AccountInv
<1>4. CASE ~OpenFile /\ ~WriteFile
  <2>1. file' = file
    BY <1>4 DEF EventsNext, ConsumerStep, publish_event, PublishLost, Start, Deliver,
                SkipOther, LoadFails, WriteFails, Ack, Crash, eventVars
  <2>2. file.readable => Account(file.model, Stored', ToDo', again')
    BY <1>1, <1>4, ToDoStep, AccountGrows DEF AccountInv
  <2>3. ASSUME pc' = "writing"
        PROVE  Account(pending', Stored', Behind', again')
    <3>1. pc = "writing" /\ pending' = pending
      BY <1>4, <2>3 DEF EventsNext, ConsumerStep, publish_event, PublishLost, Start,
               Deliver, SkipOther, LoadFails, WriteFails, Ack, Crash, eventVars
    <3>2. Account(pending, Stored, Behind, again)
      BY <3>1 DEF AccountInv
    <3>3. CASE UNCHANGED <<queue, published, lost>>
      <4>1. Behind' = Behind /\ Stored' = Stored
        BY <3>3 DEF Behind, Stored
      <4> QED BY <1>1, <3>1, <3>2, <4>1, AccountGrows
    <3>4. ASSUME NEW e \in Produced, publish_event(e)
          PROVE  Account(pending, Stored', Behind', again')
      <4>1. queue' = Append(queue, e) /\ Stored' = Stored \cup {e}
            /\ again' = again \cup ({e} \cap Stored)
        BY <3>4, StoredStep DEF publish_event
      <4>2. queue \in Seq(Stored \cup {e})
        BY QueueGrows DEF EventTypes
      <4>3. \A f \in RideEvent : f \in Behind' <=> f = e \/ f \in Behind
        BY <4>1, <4>2, AppendedMessages DEF Behind
      <4>4. Behind' \subseteq RideEvent
        BY DEF Behind
      <4>5. /\ (Stored' \cap RideEvent) \ Behind' \subseteq (Stored \cap RideEvent) \ Behind
            /\ Behind' \cap Stored \subseteq Behind \cup again'
        BY <4>1, <4>3, <4>4
      <4> QED BY <1>1, <3>2, <4>5, AccountGrows
    <3>5. ASSUME NEW e \in Produced, PublishLost(e)
          PROVE  Behind' = Behind /\ Stored' = Stored
      BY <3>5 DEF PublishLost, Behind, Stored, EventTypes
    <3>6. \/ UNCHANGED <<queue, published, lost>>
          \/ \E e \in Produced : publish_event(e)
          \/ \E e \in Produced : PublishLost(e)
      BY <1>4, <2>3, <3>1 DEF EventsNext, ConsumerStep, Start, Deliver, SkipOther,
               LoadFails, WriteFails, Ack, Crash, eventVars, history
    <3>7. CASE Behind' = Behind /\ Stored' = Stored
      BY <1>1, <3>1, <3>2, <3>7, AccountGrows
    <3> QED BY <3>1, <3>3, <3>4, <3>5, <3>6, <3>7
  <2> QED BY <2>1, <2>2, <2>3 DEF AccountInv
<1> QED BY <1>2, <1>3, <1>4

-----------------------------------------------------------------------------
(***************************************************************************)
(* The model with the next event                                           *)
(***************************************************************************)

\* An event in the broker that is earlier than the one in hand was overtaken; so was
\* the one in hand if the model shows a later one.
LEMMA HandInOrder ==
  ASSUME EventTypes, OvertakenIsMarked, hand \in RideEvent
  PROVE  /\ \A i \in DOMAIN Broker :
              Broker[i] \in Earlier(hand) => Broker[i] \in overtaken
         /\ \A m : ShownInOrder(m) =>
              \A g \in Shown(m) : hand \in Earlier(g) => hand \in overtaken
<1>1. hand # Nil
  BY EventsAssumption DEF Event
<1>2. 1 \in DOMAIN Broker /\ Broker[1] = hand
  <2>1. Len(queue) \in Nat
    BY LenProperties DEF EventTypes
  <2> QED BY <1>1, <2>1, BrokerIs
<1>3. hand \notin Earlier(hand)
  BY DEF Earlier, RideEvent, Stage, Created, Accepted, Completed
<1>4. ASSUME NEW i \in DOMAIN Broker, Broker[i] \in Earlier(hand)
      PROVE  Broker[i] \in overtaken
  <2>1. i # 1
    BY <1>2, <1>3, <1>4
  <2>2. Len(Broker) \in Nat /\ i \in 1 .. Len(Broker)
    BY BrokerIs
  <2>3. 1 < i
    BY <2>1, <2>2
  <2> QED BY <1>2, <1>4, <2>3 DEF OvertakenIsMarked
<1>5. \A m : ShownInOrder(m) =>
        \A g \in Shown(m) : hand \in Earlier(g) => hand \in overtaken
  BY <1>2 DEF ShownInOrder
<1> QED BY <1>4, <1>5

\* An earlier event of the ride in hand was overtaken, or it was stored and is done.
LEMMA EarlierIsDone ==
  ASSUME EventTypes, OvertakenIsMarked, hand \in RideEvent,
         NEW f \in Earlier(hand), f \notin overtaken
  PROVE  f \in Stored /\ f \notin ToDo
<1>1. hand \in Stored
  BY EventsAssumption DEF EventTypes, Event
<1>2. f \in Stored
  BY <1>1 DEF OvertakenIsMarked
<1>3. \A i \in DOMAIN Broker : Broker[i] # f
  BY HandInOrder
<1> QED BY <1>2, <1>3, ToDoIs

\* The model that OpenFile is to write shows stored events only, and in order.
LEMMA ShownInOrderUpdated ==
  ASSUME EventTypes, OvertakenIsMarked, hand \in RideEvent,
         NEW m \in Model, Len(m.last_events) <= LogLength, ShownInOrder(m)
  PROVE  ShownInOrder(update_read_model(m, hand))
<1> DEFINE n == update_read_model(m, hand)
<1>1. Shown(n) \subseteq Shown(m) \cup {hand}
  BY ShownAfterUpdate
<1>2. hand \in Stored
  BY EventsAssumption DEF EventTypes, Event
<1>3. hand.ride \in Ride /\ hand.stage \in Stage
      /\ m.rides \in [Ride -> [Stage -> SUBSET Stage]]
  BY DEF RideEvent, Model
<1>4. \A r \in Ride : n.rides[r] =
        IF r = hand.ride THEN Moved(m.rides[r], hand.stage) ELSE m.rides[r]
  BY UpdateIs
<1> HIDE DEF n
<1>5. ASSUME NEW r \in Ride, NEW s \in Stage, n.rides[r][s] # {}
      PROVE  s \in n.rides[r][s]
  <2>1. m.rides[r][s] # {} => s \in m.rides[r][s]
    BY DEF ShownInOrder
  <2>2. CASE r # hand.ride
    BY <1>4, <1>5, <2>1, <2>2
  <2>3. CASE r = hand.ride
    <3> DEFINE entry == m.rides[r]
               new == n.rides[r]
    <3>1. entry \in [Stage -> SUBSET Stage] /\ new = Moved(entry, hand.stage)
      BY <1>3, <1>4, <2>3
    <3> HIDE DEF entry, new
    <3>2. /\ hand.stage \in new[hand.stage]
          /\ s # hand.stage => new[s] = IF s + 1 = hand.stage THEN {} ELSE entry[s]
      BY <1>3, <3>1, MovedIs
    <3>3. new[s] # {} /\ (entry[s] # {} => s \in entry[s])
      BY <1>5, <2>1 DEF new, entry
    <3>4. s \in new[s]
      BY <3>2, <3>3
    <3> QED BY <3>4 DEF new
  <2> QED BY <2>2, <2>3
<1>6. ASSUME NEW g \in Shown(n), NEW i \in DOMAIN Broker, Broker[i] \in Earlier(g)
      PROVE  Broker[i] \in overtaken
  BY <1>1, <1>6, HandInOrder DEF ShownInOrder
<1>7. Shown(n) \subseteq Stored
  BY <1>1, <1>2 DEF ShownInOrder
<1> QED BY <1>5, <1>6, <1>7 DEF ShownInOrder, n

\* A ride that comes to be in two sections was in two before, or the event in hand was
\* overtaken, or the one between the two was.
LEMMA TwoSectionsUpdated ==
  ASSUME EventTypes, OvertakenIsMarked, hand \in RideEvent,
         NEW m \in Model, Len(m.last_events) <= LogLength,
         ShownInOrder(m), TwoSectionsIn(m), Account(m, Stored, ToDo, again)
  PROVE  TwoSectionsIn(update_read_model(m, hand))
<1> DEFINE n == update_read_model(m, hand)
           h == hand.stage
<1>1. hand.ride \in Ride /\ h \in Stage /\ hand = [ride |-> hand.ride, stage |-> h]
      /\ m.rides \in [Ride -> [Stage -> SUBSET Stage]]
  BY DEF RideEvent, Model
<1>2. \A r \in Ride : n.rides[r] =
        IF r = hand.ride THEN Moved(m.rides[r], h) ELSE m.rides[r]
  BY UpdateIs
<1> HIDE DEF n, h
<1> SUFFICES ASSUME NEW r \in Ride, NEW s \in Stage, NEW t \in Stage, s < t,
                    n.rides[r][s] # {}, n.rides[r][t] # {}
             PROVE  \E u \in s .. (t - 1) : [ride |-> r, stage |-> u] \in overtaken
  BY DEF TwoSectionsIn, n
<1>3. \A x, y \in Stage : x < y /\ m.rides[r][x] # {} /\ m.rides[r][y] # {}
        => \E u \in x .. (y - 1) : [ride |-> r, stage |-> u] \in overtaken
  BY DEF TwoSectionsIn
<1>4. CASE r # hand.ride
  BY <1>2, <1>3, <1>4
<1>5. CASE r = hand.ride
  <2> DEFINE entry == m.rides[r]
             new == n.rides[r]
  <2>1. entry \in [Stage -> SUBSET Stage] /\ new = Moved(entry, h)
    BY <1>1, <1>2, <1>5
  <2> HIDE DEF entry, new
  <2>2. \A x \in Stage :
          x # h => new[x] = IF x + 1 = h THEN {} ELSE entry[x]
    BY <1>1, <2>1, MovedIs
  <2>3. new[s] # {} /\ new[t] # {}
    BY DEF new
  <2>4. CASE s # h /\ t # h
    <3>1. entry[s] # {} /\ entry[t] # {}
      BY <2>2, <2>3, <2>4
    <3> QED BY <1>3, <3>1 DEF entry
  <2>5. CASE s = h
    <3>1. m.rides[r][t] # {}
      BY <2>2, <2>3, <2>5 DEF entry, Stage, Created, Accepted, Completed
    <3>2. [ride |-> r, stage |-> t] \in Shown(m)
      BY <3>1 DEF Shown, RideEvent
    <3>3. hand \in Earlier([ride |-> r, stage |-> t])
      BY <1>5, <2>5 DEF Earlier, h
    <3>4. hand \in overtaken
      BY <3>2, <3>3, HandInOrder
    <3>5. s \in s .. (t - 1)
      BY DEF Stage, Created, Accepted, Completed
    <3> QED BY <1>1, <1>5, <2>5, <3>4, <3>5
  <2>6. CASE t = h /\ s # h
    <3>1. s = 1 /\ t = 3 /\ h = 3 /\ 2 \in Stage
      BY <1>1, <2>2, <2>3, <2>6 DEF Stage, Created, Accepted, Completed
    <3>2. m.rides[r][1] # {}
      BY <2>2, <2>3, <3>1 DEF entry
    <3>3. CASE m.rides[r][2] # {} \/ m.rides[r][3] # {}
      <4>1. PICK y \in {2, 3} : m.rides[r][y] # {}
        BY <3>3
      <4>2. 1 \in Stage /\ y \in Stage /\ 1 < y
        BY <4>1 DEF Stage, Created, Accepted, Completed
      <4>3. \E u \in 1 .. (y - 1) : [ride |-> r, stage |-> u] \in overtaken
        BY <1>3, <3>2, <4>1, <4>2
      <4> QED BY <3>1, <4>1, <4>3
    <3>4. CASE m.rides[r][2] = {} /\ m.rides[r][3] = {}
      <4> DEFINE f == [ride |-> r, stage |-> 2]
      <4>1. f \in Earlier(hand) /\ f \in RideEvent /\ f.ride = r /\ f.stage = 2
        BY <1>5, <3>1 DEF Earlier, RideEvent, h
      <4> HIDE DEF f
      <4>2. ASSUME f \notin overtaken PROVE FALSE
        <5>1. f \in (Stored \cap RideEvent) \ ToDo
          BY <4>1, <4>2, EarlierIsDone
        <5>2. PICK x \in Stage : x >= 2 /\ x \in m.rides[r][x]
          BY <4>1, <5>1 DEF Account
        <5>3. x = 2 \/ x = 3
          BY <5>2 DEF Stage, Created, Accepted, Completed
        <5> QED BY <3>4, <5>2, <5>3
      <4>3. 2 \in s .. (t - 1)
        BY <3>1
      <4> QED BY <4>2, <4>3 DEF f
    <3> QED BY <3>3, <3>4
  <2> QED BY <2>4, <2>5, <2>6
<1> QED BY <1>4, <1>5

\* A payload that comes to be missing was missing before, or the section before was
\* empty: then the event of that section was overtaken, or it was done and carried on
\* already, and the one in hand is processed again.
LEMMA MissingUpdated ==
  ASSUME EventTypes, OvertakenIsMarked, pc = "received", hand \in RideEvent,
         NEW m \in Model, Len(m.last_events) <= LogLength,
         MissingIn(m), Account(m, Stored, ToDo, again)
  PROVE  MissingIn(update_read_model(m, hand))
<1> DEFINE n == update_read_model(m, hand)
           h == hand.stage
<1>1. hand.ride \in Ride /\ h \in Stage /\ hand = [ride |-> hand.ride, stage |-> h]
      /\ m.rides \in [Ride -> [Stage -> SUBSET Stage]]
  BY DEF RideEvent, Model
<1>2. \A r \in Ride : n.rides[r] =
        IF r = hand.ride THEN Moved(m.rides[r], h) ELSE m.rides[r]
  BY UpdateIs
<1> HIDE DEF n, h
<1> DEFINE Excused(r, s, t) ==
             \E u \in s .. t :
               LET e == [ride |-> r, stage |-> u]
               IN  (u < t /\ e \in overtaken) \/ (u > s /\ e \in again)
<1> SUFFICES ASSUME NEW r \in Ride, NEW s \in Stage, NEW t \in Stage, s <= t,
                    n.rides[r][t] # {}, s \notin n.rides[r][t]
             PROVE  Excused(r, s, t)
  BY DEF MissingIn, n
<1>3. \A x, y \in Stage : x <= y /\ m.rides[r][y] # {} /\ x \notin m.rides[r][y]
        => Excused(r, x, y)
  BY DEF MissingIn
<1>4. CASE r # hand.ride
  BY <1>2, <1>3, <1>4
<1>5. CASE r = hand.ride
  <2> DEFINE entry == m.rides[r]
             new == n.rides[r]
  <2>1. entry \in [Stage -> SUBSET Stage] /\ new = Moved(entry, h)
    BY <1>1, <1>2, <1>5
  <2> HIDE DEF entry, new
  <2>2. /\ new[h] = (IF h = Created THEN {} ELSE entry[h - 1]) \cup {h}
        /\ \A x \in Stage :
             x # h => new[x] = IF x + 1 = h THEN {} ELSE entry[x]
    BY <1>1, <2>1, MovedIs
  <2>3. new[t] # {} /\ s \notin new[t]
    BY DEF new
  <2>4. CASE t # h
    <3>1. entry[t] # {} /\ s \notin entry[t]
      BY <2>2, <2>3, <2>4
    <3> QED BY <1>3, <3>1 DEF entry
  <2>5. CASE t = h
    <3>1. s < h /\ h # Created /\ s \notin entry[h - 1]
      BY <2>2, <2>3, <2>5 DEF Stage, Created, Accepted, Completed
    <3>2. h - 1 \in Stage /\ s <= h - 1 /\ h - 1 \in s .. h /\ h \in s .. h /\ h > s
      BY <1>1, <3>1 DEF Stage, Created, Accepted, Completed
    <3>3. CASE entry[h - 1] # {}
      <4>1. Excused(r, s, h - 1)
        BY <1>3, <3>1, <3>2, <3>3 DEF entry
      <4>2. PICK u \in s .. (h - 1) :
              LET e == [ride |-> r, stage |-> u]
              IN  (u < h - 1 /\ e \in overtaken) \/ (u > s /\ e \in again)
        BY <4>1
      <4>3. u \in s .. h /\ (u < h - 1 => u < h)
        BY <1>1, <4>2 DEF Stage, Created, Accepted, Completed
      <4> QED BY <2>5, <4>2, <4>3
    <3>4. CASE entry[h - 1] = {}
      <4> DEFINE f == [ride |-> r, stage |-> h - 1]
      <4>1. /\ f \in Earlier(hand) /\ f \in RideEvent
            /\ f.ride = r /\ f.stage = h - 1 /\ f.stage + 1 = h
        BY <1>1, <1>5, <3>2 DEF Earlier, RideEvent, h, Stage, Created, Accepted, Completed
      <4> HIDE DEF f
      <4>2. CASE f \in overtaken
        <5>1. h - 1 < h
          BY <1>1 DEF Stage, Created, Accepted, Completed
        <5> QED BY <2>5, <3>2, <4>2, <5>1 DEF f
      <4>3. CASE f \notin overtaken
        <5>1. f \in (Stored \cap RideEvent) \ ToDo
          BY <4>1, <4>3, EarlierIsDone
        <5>2. f.stage < Completed /\ m.rides[f.ride][f.stage] = {}
          BY <1>1, <3>4, <4>1 DEF entry, Stage, Created, Accepted, Completed
        <5>3. LET g == [ride |-> f.ride, stage |-> f.stage + 1]
              IN  g \in Stored /\ (g \in ToDo => g \in again)
          BY <5>1, <5>2 DEF Account
        <5>4. [ride |-> f.ride, stage |-> f.stage + 1] = hand
          BY <1>1, <1>5, <4>1
        <5>5. hand \in ToDo
          BY DEF ToDo
        <5>6. [ride |-> r, stage |-> h] \in again
          BY <1>1, <1>5, <5>3, <5>4, <5>5
        <5> QED BY <2>5, <3>2, <5>6
      <4> QED BY <4>2, <4>3
    <3> QED BY <3>3, <3>4
  <2> QED BY <2>4, <2>5
<1> QED BY <1>4, <1>5

\* The event in hand comes last in the log; if it is earlier than one that is there,
\* it was overtaken.
LEMMA LogOrderUpdated ==
  ASSUME EventTypes, OvertakenIsMarked, hand \in RideEvent,
         NEW m \in Model, Len(m.last_events) <= LogLength,
         ShownInOrder(m), LogOrderIn(m)
  PROVE  LogOrderIn(update_read_model(m, hand))
<1> DEFINE n == update_read_model(m, hand)
           log == m.last_events
           new == n.last_events
<1>1. log \in Seq(RideEvent) /\ Len(log) \in Nat /\ DOMAIN log = 1 .. Len(log)
  BY LenProperties DEF Model
<1>2. new = Logged(log, hand) /\ Len(log) <= LogLength
  BY UpdateIs
<1>3. \A i, j \in DOMAIN log : i < j /\ log[j] \in Earlier(log[i]) => log[j] \in overtaken
  BY DEF LogOrderIn
<1>4. \A i \in DOMAIN log : log[i] \in Shown(m)
  BY DEF Shown
<1> HIDE DEF n, log, new
<1>5. Logged(log, hand) \in Seq(RideEvent)
  BY <1>1, <1>2, LoggedIs
<1>6. PICK k \in {0, 1} :
        /\ Len(Logged(log, hand)) = Len(log) + 1 - k
        /\ \A i \in 1 .. (Len(log) + 1 - k) :
             Logged(log, hand)[i] = IF i + k <= Len(log) THEN log[i + k] ELSE hand
  BY <1>1, <1>2, LoggedIs
<1>7. /\ DOMAIN new = 1 .. (Len(log) + 1 - k)
      /\ \A i \in 1 .. (Len(log) + 1 - k) :
           new[i] = IF i + k <= Len(log) THEN log[i + k] ELSE hand
  BY <1>1, <1>2, <1>5, <1>6, LenProperties
<1> SUFFICES ASSUME NEW i \in DOMAIN new, NEW j \in DOMAIN new, i < j,
                    new[j] \in Earlier(new[i])
             PROVE  new[j] \in overtaken
  BY DEF LogOrderIn, new, n
<1>8. i \in 1 .. (Len(log) + 1 - k) /\ j \in 1 .. (Len(log) + 1 - k)
  BY <1>7
<1>9. i + k \in 1 .. Len(log) /\ i + k < j + k
  BY <1>1, <1>8
<1>10. i + k \in DOMAIN log /\ new[i] = log[i + k]
  BY <1>1, <1>7, <1>8, <1>9
<1>11. CASE j + k <= Len(log)
  <2>1. j + k \in DOMAIN log /\ new[j] = log[j + k]
    BY <1>1, <1>7, <1>8, <1>11
  <2> QED BY <1>3, <1>9, <1>10, <2>1
<1>12. CASE ~(j + k <= Len(log))
  <2>1. new[j] = hand
    BY <1>7, <1>8, <1>12
  <2> QED BY <1>4, <1>10, <2>1, HandInOrder
<1> QED BY <1>11, <1>12

-----------------------------------------------------------------------------
(***************************************************************************)
(* The inductive invariant                                                 *)
(***************************************************************************)

\* A model that no event is worked into stays a right one.
LEMMA ModelInvKept ==
  ASSUME EventTypes, [EventsNext]_eventVars, NEW m, ModelInv(m)
  PROVE  ModelInv(m)'
<1>1. Stored \subseteq Stored' /\ overtaken \subseteq overtaken' /\ again \subseteq again'
  BY StoredStep, BrokerStep
<1>2. /\ Shown(m) \subseteq Stored
      /\ \A r \in Ride, s \in Stage : m.rides[r][s] # {} => s \in m.rides[r][s]
      /\ \A g \in Shown(m) : \A i \in DOMAIN Broker :
           Broker[i] \in Earlier(g) => Broker[i] \in overtaken
  BY DEF ModelInv, ShownInOrder
<1>3. \A g \in Shown(m) : \A i \in DOMAIN Broker' :
        Broker'[i] \in Earlier(g) => Broker'[i] \in overtaken'
  <2>1. CASE Broker' = Broker
    BY <1>1, <1>2, <2>1
  <2>2. CASE \A i \in DOMAIN Broker' :
               i + 1 \in DOMAIN Broker /\ Broker'[i] = Broker[i + 1]
    BY <1>1, <1>2, <2>2
  <2>3. ASSUME NEW e \in Produced, publish_event(e),
               \A i \in DOMAIN Broker' :
                 \/ i \in DOMAIN Broker /\ Broker'[i] = Broker[i]
                 \/ i \notin DOMAIN Broker /\ Broker'[i] = e
        PROVE  \A g \in Shown(m) : \A i \in DOMAIN Broker' :
                 Broker'[i] \in Earlier(g) => Broker'[i] \in overtaken'
    <3>1. (\E g \in Stored : e \in Earlier(g)) => e \in overtaken'
      BY <2>3 DEF publish_event
    <3> QED BY <1>1, <1>2, <2>3, <3>1
  <2> QED BY <2>1, <2>2, <2>3, BrokerStep
<1>4. ShownInOrder(m)'
  <2>1. \A g : Earlier(g)' = Earlier(g)
    BY DEF Earlier
  <2>2. Shown(m)' = Shown(m)
    BY DEF Shown
  <2> QED BY <1>1, <1>2, <1>3, <2>1, <2>2 DEF ShownInOrder
<1>5. TwoSectionsIn(m)'
  BY <1>1 DEF ModelInv, TwoSectionsIn
<1>6. MissingIn(m)'
  BY <1>1 DEF ModelInv, MissingIn
<1>7. LogOrderIn(m)'
  BY <1>1 DEF ModelInv, LogOrderIn, Earlier
<1> QED BY <1>4, <1>5, <1>6, <1>7 DEF ModelInv

\* The empty model is a right one.
LEMMA EmptyModelInv == ModelInv(EmptyModel)
<1>1. /\ EmptyModel.last_events = <<>> /\ DOMAIN EmptyModel.last_events = {}
      /\ \A r \in Ride : \A s \in Stage : EmptyModel.rides[r][s] = {}
  BY EmptyModelIs
<1>2. Shown(EmptyModel) = {}
  BY <1>1 DEF Shown, RideEvent
<1> HIDE DEF EmptyModel
<1> QED BY <1>1, <1>2
        DEF ModelInv, ShownInOrder, TwoSectionsIn, MissingIn, LogOrderIn

\* The file and the model in memory stay right ones.
LEMMA ModelInvStep ==
  ASSUME EventTypes, EventsInv, [EventsNext]_eventVars
  PROVE  ModelInv(file.model)' /\ ModelInv(pending)'
<1>1. ModelInv(file.model) /\ ModelInv(pending)
  BY DEF EventsInv
<1>2. CASE OpenFile
  <2>1. /\ pc = "received" /\ hand # OtherEvent /\ file.readable
        /\ pending' = update_read_model(file.model, hand) /\ file'.model = EmptyModel
        /\ UNCHANGED <<queue, hand, published, lost, overtaken, again>>
    BY <1>2 DEF OpenFile, Torn, history
  <2>2. hand \in RideEvent
    BY <2>1, EventIs DEF EventTypes, Stored
  <2>3. /\ file.model \in Model /\ Len(file.model.last_events) <= LogLength
        /\ Account(file.model, Stored, ToDo, again)
        /\ OvertakenIsMarked
    BY <2>1 DEF EventTypes, EventsInv, AccountInv
  <2>4. ModelInv(update_read_model(file.model, hand))
    BY <1>1, <2>1, <2>2, <2>3, ShownInOrderUpdated, TwoSectionsUpdated,
       MissingUpdated, LogOrderUpdated DEF ModelInv
  <2> DEFINE n == update_read_model(file.model, hand)
  <2>5. /\ UNCHANGED <<Stored, Broker, overtaken, again>>
        /\ pending' = n /\ ModelInv(n) /\ file'.model = EmptyModel
    BY <2>1, <2>4 DEF Stored, Broker
  <2> HIDE DEF n
  <2>6. ModelInv(pending)'
    BY <2>5 DEF ModelInv, ShownInOrder, Shown, TwoSectionsIn, MissingIn, LogOrderIn, Earlier
  <2>7. ModelInv(file.model)'
    BY <2>5, EmptyModelInv
    DEF ModelInv, ShownInOrder, Shown, TwoSectionsIn, MissingIn, LogOrderIn, Earlier
  <2> QED BY <2>6, <2>7
<1>3. CASE ~OpenFile
  <2>1. /\ file'.model \in {file.model, pending}
        /\ pending' \in {pending, EmptyModel}
    BY <1>3 DEF EventsNext, ConsumerStep, publish_event, PublishLost, Start, Deliver,
                SkipOther, LoadFails, WriteFile, WriteFails, Ack, Crash, eventVars, Saved
  <2>2. ASSUME NEW m, ModelInv(m) PROVE ModelInv(m)'
    BY <2>2, ModelInvKept
  <2>3. ModelInv(file.model)'
    BY <1>1, <2>1, <2>2
  <2>4. ModelInv(pending)'
    BY <1>1, <2>1, <2>2, EmptyModelInv
  <2> QED BY <2>3, <2>4
<1> QED BY <1>2, <1>3

\* The inductive invariant holds at the start.
LEMMA EventsInvInit == EventsInit => EventsInv
<1> SUFFICES ASSUME EventsInit PROVE EventsInv
  OBVIOUS
<1>1. /\ Stored = {} /\ Broker = <<>> /\ DOMAIN Broker = {}
      /\ file.model = EmptyModel /\ pending = EmptyModel /\ pc # "writing"
  BY DEF EventsInit, Stored, Broker, Saved
<1>2. OvertakenIsMarked /\ CopiesAreMarked
  BY <1>1 DEF OvertakenIsMarked, CopiesAreMarked
<1>3. AccountInv
  BY <1>1 DEF AccountInv, Account
<1> QED BY <1>1, <1>2, <1>3, EmptyModelInv DEF EventsInv

\* Every step keeps it.
LEMMA EventsInvStep == EventTypes /\ EventsInv /\ [EventsNext]_eventVars => EventsInv'
BY MarksStep, AccountStep, ModelInvStep DEF EventsInv

\* It holds in every state.
LEMMA EventsInvHolds == EventsSpec => [](EventTypes /\ EventsInv)
<1>1. EventsInit => EventTypes /\ EventsInv
  BY EventTypesInit, EventsInvInit
<1>2. EventTypes /\ EventsInv /\ [EventsNext]_eventVars => (EventTypes /\ EventsInv)'
  BY EventTypesStep, EventsInvStep
<1> QED BY <1>1, <1>2, PTL DEF EventsSpec

-----------------------------------------------------------------------------
(***************************************************************************)
(* Copies of a message                                                     *)
(***************************************************************************)
Copies(e) == {i \in DOMAIN Broker : Broker[i] = e}

CopiesInv ==
  \A e \in Produced :
    IsFiniteSet(Copies(e)) /\ Cardinality(Copies(e)) <= repeats + 1

\* A message is in the broker once, and once more for each time it is published again.
LEMMA CopiesStep == EventTypes /\ CopiesInv /\ [EventsNext]_eventVars => CopiesInv'
<1> SUFFICES ASSUME EventTypes, CopiesInv, [EventsNext]_eventVars, NEW e \in Produced
             PROVE  IsFiniteSet(Copies(e)') /\ Cardinality(Copies(e)') <= repeats' + 1
  BY DEF CopiesInv, Copies
<1>1. IsFiniteSet(Copies(e)) /\ Cardinality(Copies(e)) <= repeats + 1
  BY DEF CopiesInv
<1>2. Cardinality(Copies(e)) \in Nat /\ repeats \in Nat
  BY <1>1, FS_CardinalityType, EventsAssumption DEF EventTypes
<1>3. Broker \in Seq(Stored) /\ Len(Broker) \in Nat /\ DOMAIN Broker = 1 .. Len(Broker)
  BY BrokerIs
<1>4. ASSUME NEW f \in Produced, publish_event(f)
      PROVE  IsFiniteSet(Copies(e)') /\ Cardinality(Copies(e)') <= repeats' + 1
  <2>1. Broker' = Append(Broker, f)
    BY <1>4, PublishedIsLast
  <2>2. Broker \in Seq(Stored \cup {f})
    BY <1>3, QueueGrows
  <2>3. /\ DOMAIN Broker' = 1 .. Len(Broker) + 1
        /\ \A i \in 1 .. Len(Broker) + 1 :
             Broker'[i] = IF i <= Len(Broker) THEN Broker[i] ELSE f
    BY <1>3, <2>1, <2>2, AppendProperties, LenProperties
  <2>4. repeats' = IF f \in published THEN repeats + 1 ELSE repeats
    BY <1>4 DEF publish_event
  <2>5. CASE f # e
    <3>1. Copies(e)' = Copies(e)
      BY <1>3, <2>3, <2>5 DEF Copies
    <3> QED BY <1>1, <1>2, <2>4, <3>1
  <2>6. CASE f = e
    <3>1. Copies(e)' = Copies(e) \cup {Len(Broker) + 1}
      BY <1>3, <2>3, <2>6 DEF Copies
    <3>2. /\ IsFiniteSet(Copies(e)')
          /\ Cardinality(Copies(e)') \in {Cardinality(Copies(e)), Cardinality(Copies(e)) + 1}
      BY <1>1, <3>1, FS_AddElement
    <3>3. CASE f \in published
      BY <1>1, <1>2, <2>4, <3>2, <3>3
    <3>4. CASE f \notin published
      <4>1. Copies(e) = {}
        BY <2>6, <3>4, BrokerIs DEF Copies, Stored
      <4>2. Cardinality(Copies(e)) = 0
        BY <4>1, FS_EmptySet
      <4> QED BY <1>2, <2>4, <3>2, <3>4, <4>2
    <3> QED BY <3>3, <3>4
  <2> QED BY <2>5, <2>6
<1>5. CASE Ack
  <2>1. \A i \in DOMAIN Broker' :
          i \in Int /\ i + 1 \in DOMAIN Broker /\ Broker'[i] = Broker[i + 1]
    <3>1. Broker # <<>> /\ Broker' = Tail(Broker)
      BY <1>5, AckedIsFirst
    <3>2. /\ Tail(Broker) \in Seq(Stored) /\ Len(Tail(Broker)) = Len(Broker) - 1
          /\ \A i \in 1 .. Len(Tail(Broker)) : Tail(Broker)[i] = Broker[i + 1]
      BY <1>3, <3>1, HeadTailProperties
    <3>3. DOMAIN Broker' = 1 .. Len(Broker) - 1
      BY <3>1, <3>2, LenProperties
    <3> QED BY <1>3, <3>1, <3>2, <3>3
  <2> DEFINE later == [i \in Copies(e)' |-> i + 1]
  <2>2. later \in Injection(Copies(e)', Copies(e))
    <3>1. \A i \in Copies(e)' : i \in Int /\ i + 1 \in Copies(e)
      BY <2>1 DEF Copies
    <3>2. later \in [Copies(e)' -> Copies(e)]
      BY <3>1
    <3>3. \A i, j \in Copies(e)' : later[i] = later[j] => i = j
      BY <3>1
    <3> HIDE DEF later
    <3> QED BY <3>2, <3>3 DEF Injection, IsInjective
  <2>3. repeats' = repeats
    BY <1>5 DEF Ack
  <2>4. IsFiniteSet(Copies(e)') /\ Cardinality(Copies(e)') <= Cardinality(Copies(e))
    BY <1>1, <2>2, FS_Injection
  <2>5. Cardinality(Copies(e)') \in Nat
    BY <2>4, FS_CardinalityType
  <2> QED BY <1>1, <1>2, <2>3, <2>4, <2>5
<1>6. CASE ~Ack /\ \A f \in Produced : ~publish_event(f)
  <2>1. Copies(e)' = Copies(e)
    BY <1>6, BrokerIsKept DEF Copies
  <2>2. repeats' = repeats
    BY <1>6 DEF EventsNext, ConsumerStep, PublishLost, Start, Deliver, SkipOther,
                OpenFile, LoadFails, WriteFile, WriteFails, Crash, eventVars
  <2> QED BY <1>1, <2>1, <2>2
<1> QED BY <1>4, <1>5, <1>6

\* What EventsTypeOK counts are the copies in the broker.
LEMMA CopiesAreCounted ==
  ASSUME EventTypes, CopiesInv, NEW e \in Produced
  PROVE  Cardinality({i \in DOMAIN queue : queue[i] = e} \cup {i \in {0} : hand = e})
           <= repeats + 1
<1> DEFINE counted == {i \in DOMAIN queue : queue[i] = e} \cup {i \in {0} : hand = e}
           place == [i \in counted |-> IF hand = Nil THEN i ELSE i + 1]
<1>1. IsFiniteSet(Copies(e)) /\ Cardinality(Copies(e)) <= repeats + 1 /\ e # Nil
  BY EventIs DEF CopiesInv
<1>2. DOMAIN queue = 1 .. Len(queue) /\ Len(queue) \in Nat
  BY LenProperties DEF EventTypes
<1>3. ASSUME NEW i \in counted PROVE i \in Int /\ place[i] \in Copies(e)
  <2>1. CASE hand = Nil
    BY <1>1, <1>2, <2>1, BrokerIs DEF Copies
  <2>2. CASE hand # Nil /\ i = 0
    <3>1. hand = e
      BY <1>2, <2>2
    <3>2. 1 \in DOMAIN Broker /\ Broker[1] = hand
      BY <1>2, <2>2, BrokerIs
    <3> QED BY <2>2, <3>1, <3>2 DEF Copies
  <2>3. CASE hand # Nil /\ i # 0
    <3>1. i \in 1 .. Len(queue) /\ queue[i] = e
      BY <1>2, <2>3
    <3>2. i + 1 \in DOMAIN Broker /\ Broker[i + 1] = queue[i]
      BY <1>2, <2>3, <3>1, BrokerIs
    <3> QED BY <2>3, <3>1, <3>2 DEF Copies
  <2> QED BY <2>1, <2>2, <2>3
<1>4. place \in Injection(counted, Copies(e))
  <2>1. place \in [counted -> Copies(e)]
    BY <1>3
  <2>2. \A i, j \in counted : place[i] = place[j] => i = j
    BY <1>3
  <2> HIDE DEF place, counted
  <2> QED BY <2>1, <2>2 DEF Injection, IsInjective
<1>5. IsFiniteSet(counted) /\ Cardinality(counted) <= Cardinality(Copies(e))
  BY <1>1, <1>4, FS_Injection
<1>6. Cardinality(counted) \in Nat /\ Cardinality(Copies(e)) \in Nat /\ repeats \in Nat
  BY <1>1, <1>5, FS_CardinalityType, EventsAssumption DEF EventTypes
<1> QED BY <1>1, <1>5, <1>6

-----------------------------------------------------------------------------
(***************************************************************************)
(* Theorems                                                                *)
(***************************************************************************)

\* publish_event and consumer.py keep the shapes of messages, memory and file, and a
\* message is in the broker no more often than it was published.
THEOREM TypesOfEvents == EventsSpec => []EventsTypeOK
<1>1. EventsInit => CopiesInv
  <2> SUFFICES ASSUME EventsInit, NEW e \in Produced
               PROVE  IsFiniteSet(Copies(e)) /\ Cardinality(Copies(e)) <= repeats + 1
    BY DEF CopiesInv
  <2>1. Copies(e) = {} /\ repeats = 0
    BY DEF EventsInit, Broker, Copies
  <2> QED BY <2>1, FS_EmptySet
<1>2. EventTypes /\ CopiesInv => EventsTypeOK
  BY CopiesAreCounted DEF EventTypes, EventsTypeOK
<1>3. EventsInit => EventTypes
  BY EventTypesInit
<1> QED BY <1>1, <1>2, <1>3, EventTypesStep, CopiesStep, PTL DEF EventsSpec

\* The broker's messages, the one in hand first: publish_event adds one at the end,
\* basic_ack takes the first away, and nothing else touches them, not a basic_nack
\* nor the death of the consumer.
THEOREM BrokerIsFifo ==
  EventsSpec =>
    [][ \/ \E e \in Produced : publish_event(e) /\ Broker' = Append(Broker, e)
        \/ Ack /\ Broker # <<>> /\ Broker' = Tail(Broker)
        \/ Broker' = Broker ]_eventVars
<1> DEFINE Fifo == \/ \E e \in Produced : publish_event(e) /\ Broker' = Append(Broker, e)
                   \/ Ack /\ Broker # <<>> /\ Broker' = Tail(Broker)
                   \/ Broker' = Broker
<1>1. EventTypes /\ [EventsNext]_eventVars => [Fifo]_eventVars
  <2> SUFFICES ASSUME EventTypes, [EventsNext]_eventVars PROVE Fifo
    OBVIOUS
  <2>1. ASSUME NEW e \in Produced, publish_event(e) PROVE Fifo
    BY <2>1, PublishedIsLast
  <2>2. CASE Ack
    BY <2>2, AckedIsFirst
  <2>3. CASE ~Ack /\ \A e \in Produced : ~publish_event(e)
    BY <2>3, BrokerIsKept
  <2> QED BY <2>1, <2>2, <2>3
<1> QED BY <1>1, EventsInvHolds, PTL DEF EventsSpec

\* Whatever the order, the losses and the repetitions: a message that was acknowledged
\* is in the read model, in the section of its stage or of a later one, also while the
\* file is rewritten from the consumer's memory; unless a rewriting was cut short.
THEOREM AckedEventsAreReflected == EventsSpec => []AckedIsReflected
<1>1. EventTypes /\ EventsInv => AckedIsReflected
  <2> SUFFICES ASSUME EventTypes, EventsInv, NEW r \in Ride, NEW s \in Acked(r), ~Stuck
               PROVE  Reflected(r, s)
    BY DEF AckedIsReflected
  <2> DEFINE e == [ride |-> r, stage |-> s]
  <2>1. s \in Stage /\ e \in Stored /\ ~Waiting(e)
    BY DEF Acked
  <2>2. e \in RideEvent /\ e.ride = r /\ e.stage = s
    BY <2>1 DEF RideEvent
  <2> HIDE DEF e
  <2>3. e \notin ToDo /\ e \notin Behind
    BY <2>1 DEF ToDo, Behind, Waiting
  <2>4. CASE pc = "writing"
    <3>1. Account(pending, Stored, Behind, again)
      BY <2>4 DEF EventsInv, AccountInv
    <3> QED BY <2>1, <2>2, <2>3, <2>4, <3>1 DEF Account, Reflected, Held
  <2>5. CASE pc # "writing"
    <3>1. Account(file.model, Stored, ToDo, again)
      BY <2>5 DEF EventsInv, AccountInv, Stuck
    <3> QED BY <2>1, <2>2, <2>3, <2>5, <3>1 DEF Account, Reflected, Held
  <2> QED BY <2>4, <2>5
<1> QED BY <1>1, EventsInvHolds, PTL

\* The exception arises in one place: json.dump fails, or the consumer dies, between
\* open("w") and the end of the write.
THEOREM OnlyACutWriteTears ==
  EventsSpec =>
    [][~Stuck /\ Stuck' => pc = "writing" /\ (WriteFails \/ Crash)]_eventVars
<1> DEFINE Cut == ~Stuck /\ Stuck' => pc = "writing" /\ (WriteFails \/ Crash)
<1>1. [EventsNext]_eventVars => [Cut]_eventVars
  BY DEF Stuck, EventsNext, ConsumerStep, publish_event, PublishLost, Start, Deliver,
         SkipOther, OpenFile, LoadFails, WriteFile, WriteFails, Ack, Crash, Saved,
         eventVars
<1> QED BY <1>1, PTL DEF EventsSpec

\* A ride is in two sections of read_model.json only if an event from the first of
\* them on was overtaken or lost: redelivery alone makes no second copy.
THEOREM NoCopyWithoutOvertaking == EventsSpec => []TwoSectionsOnlyIfOvertaken
<1>1. EventsInv => TwoSectionsOnlyIfOvertaken
  BY DEF EventsInv, ModelInv, TwoSectionsIn, TwoSectionsOnlyIfOvertaken
<1> QED BY <1>1, EventsInvHolds, PTL

\* An entry lacks a payload only if an event was overtaken or lost, or a later one of
\* the ride was processed a second time.
THEOREM NothingMissingWithoutReason == EventsSpec => []MissingOnlyIfOvertakenOrRepeated
<1>1. EventsInv => MissingOnlyIfOvertakenOrRepeated
  BY DEF EventsInv, ModelInv, MissingIn, MissingOnlyIfOvertakenOrRepeated
<1> QED BY <1>1, EventsInvHolds, PTL

\* last_events shows two events of a ride the wrong way round only if they reached the
\* broker so, for any length of the log.
THEOREM LogIsInOrder == EventsSpec => []LogKeepsOrder
<1>1. EventTypes /\ EventsInv => LogKeepsOrder
  <2> SUFFICES ASSUME EventTypes, EventsInv,
                      NEW i \in DOMAIN file.model.last_events,
                      NEW j \in DOMAIN file.model.last_events, i < j,
                      file.model.last_events[i].ride = file.model.last_events[j].ride,
                      file.model.last_events[i].stage > file.model.last_events[j].stage
               PROVE  file.model.last_events[j] \in overtaken
    BY DEF LogKeepsOrder
  <2>1. LogOrderIn(file.model) /\ file.model.last_events \in Seq(RideEvent)
    BY DEF EventsInv, ModelInv, EventTypes, Model
  <2>2. /\ file.model.last_events[i] \in RideEvent
        /\ file.model.last_events[j] \in RideEvent
    BY <2>1, ElementOfSeq, LenProperties
  <2>3. file.model.last_events[j] \in Earlier(file.model.last_events[i])
    BY <2>2 DEF Earlier, RideEvent, Stage, Created, Accepted, Completed
  <2> QED BY <2>1, <2>3 DEF LogOrderIn
<1> QED BY <1>1, EventsInvHolds, PTL

\* A torn file that nobody is writing stays so: no redelivery and no restart of the
\* consumer mends it, since consumer.py reads the file before it writes it.
THEOREM StuckForEver == EventsSpec => [](Stuck => []Stuck)
<1>1. Stuck /\ [EventsNext]_eventVars => Stuck'
  BY DEF Stuck, EventsNext, ConsumerStep, publish_event, PublishLost, Start, Deliver,
         SkipOther, OpenFile, LoadFails, WriteFile, WriteFails, Ack, Crash, eventVars
<1> QED BY <1>1, PTL DEF EventsSpec

\* What is acknowledged has been saved, and the first of the broker's messages is then
\* blocked by a file that cannot be read.
SavedIsReadable == pc = "saved" /\ hand # OtherEvent => file.readable

BlockedBy(e) == Stuck /\ Broker # <<>> /\ Head(Broker) = e

\* Only write_read_model leads from an event of a ride to its basic_ack.
LEMMA SavedIsReadableStep ==
  SavedIsReadable /\ [EventsNext]_eventVars => SavedIsReadable'
BY DEF SavedIsReadable, EventsNext, ConsumerStep, publish_event, PublishLost, Start,
       Deliver, SkipOther, OpenFile, LoadFails, WriteFile, WriteFails, Ack, Crash,
       Saved, eventVars

\* With a torn file the event of a ride that is first in the queue is first for ever:
\* consumer.py requeues it each time, and nothing behind it is ever processed.
THEOREM TornFileBlocksTheQueue ==
  ASSUME NEW e \in RideEvent
  PROVE  EventsSpec => [](BlockedBy(e) => []BlockedBy(e))
<1>1. EventTypes /\ SavedIsReadable /\ BlockedBy(e) /\ [EventsNext]_eventVars
        => BlockedBy(e)'
  <2> SUFFICES ASSUME EventTypes, SavedIsReadable, BlockedBy(e), [EventsNext]_eventVars
               PROVE  BlockedBy(e)'
    OBVIOUS
  <2>1. Stuck' /\ Broker # <<>> /\ Head(Broker) = e
    BY DEF BlockedBy, Stuck, EventsNext, ConsumerStep, publish_event, PublishLost, Start,
           Deliver, SkipOther, OpenFile, LoadFails, WriteFile, WriteFails, Ack, Crash,
           eventVars
  <2>2. Broker \in Seq(Stored)
    BY BrokerIs
  <2>3. ASSUME NEW f \in Produced, publish_event(f)
        PROVE  Broker' # <<>> /\ Head(Broker') = e
    <3>1. Broker' = Append(Broker, f)
      BY <2>3, PublishedIsLast
    <3>2. Broker \in Seq(Stored \cup {f})
      BY <2>2, QueueGrows
    <3> QED BY <2>1, <3>1, <3>2, HeadTailAppend, AppendProperties
  <2>4. ~Ack
    <3>1. hand # Nil => Head(Broker) = hand
      <4>1. hand # Nil => Broker[1] = hand
        BY BrokerIs
      <4> QED BY <2>1, <2>2, <4>1, HeadTailProperties
    <3>2. e # OtherEvent
      BY EventIs DEF Event
    <3> QED BY <2>1, <3>1, <3>2 DEF Ack, EventTypes, SavedIsReadable, BlockedBy, Stuck
  <2>5. CASE \A f \in Produced : ~publish_event(f)
    BY <2>1, <2>4, <2>5, BrokerIsKept DEF BlockedBy
  <2> QED BY <2>1, <2>3, <2>5 DEF BlockedBy
<1>2. EventsInit => SavedIsReadable
  BY DEF EventsInit, SavedIsReadable
<1> QED BY <1>1, <1>2, SavedIsReadableStep, EventsInvHolds, PTL DEF EventsSpec
=============================================================================
