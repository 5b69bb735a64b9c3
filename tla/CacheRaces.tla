------------------------------ MODULE CacheRaces ------------------------------
(***************************************************************************)
(* Why an entry of the ResponseCache can be out of date after the change   *)
(* has been answered.  The history variables record, for each reader that  *)
(* is about to fill an entry, whether the tables' invalidation overtook    *)
(* it, and which entries such readers left behind.                         *)
(***************************************************************************)
EXTENDS CachedService

VARIABLES overtaken,   \* readers between Read and Fill that missed a clearing
          suspect      \* keys whose entry may stay out of date

raceVars == <<serviceVars, overtaken, suspect>>

RaceInit == ServiceInit /\ overtaken = {} /\ suspect = {}

Filling(P) ==
  {t \in Task : request[t].pc = "fill" /\ request[t].key \in P}

\* The keys P are cleared, or should have been: what was read before is old.
Overtake(P) == overtaken' = overtaken \cup Filling(P)

NoteFill(t) ==
  /\ Fill(t)
  /\ overtaken' = overtaken \ {t}
  /\ suspect' = IF t \in overtaken THEN suspect \cup {request[t].key}
                ELSE suspect \ {request[t].key}

NoteExpire(k) ==
  /\ Expire(k)
  /\ suspect' = suspect \ {k}
  /\ UNCHANGED overtaken

NoteInvalidate(t) ==
  /\ Invalidate(t)
  /\ Overtake(request[t].prefix)
  /\ suspect' = suspect \ request[t].prefix

NoteUnacknowledged ==
  \E P \in {UsersPrefix, DriversPrefix, RidesPrefix} :
    /\ ChangeUnacknowledged
    /\ users' # users <=> P = UsersPrefix
    /\ rides' # rides <=> P = RidesPrefix
    /\ Overtake(P)
    /\ suspect' = suspect \cup (P \cap DOMAIN cache)

NoteRestart == Restart /\ overtaken' = {} /\ suspect' = {}

NoteNothing ==
  /\ \E t \in Task :
       \/ \E k \in Polled : Miss(t, k)
       \/ Read(t)
       \/ ReadFails(t)
       \/ UsersCreate(t)
       \/ DriversCreate(t)
       \/ RidesCreate(t)
       \/ RidesAccept(t)
       \/ RidesComplete(t)
  /\ UNCHANGED <<overtaken, suspect>>

RaceNext ==
  \/ \E t \in Task : NoteFill(t) \/ NoteInvalidate(t)
  \/ \E k \in Key : NoteExpire(k)
  \/ NoteUnacknowledged
  \/ NoteRestart
  \/ NoteNothing

RaceSpec == RaceInit /\ [][RaceNext]_raceVars

\* Time passes: every entry has a time to live.
TimedRaceSpec == RaceSpec /\ \A k \in Key : WF_serviceVars(Expire(k))

\* An entry is out of date only while its invalidation is on the way, or
\* because a reader that a clearing overtook filled it, or because a change
\* was committed without the service knowing.  Nothing else leaves an old
\* answer in the cache: invalidating after the commit, not before, is right.
StaleOnlyByRace == \A k \in Key : Stale(k) => Pending(k) \/ k \in suspect

\* What an overtaken reader's history means: a reader that no clearing overtook
\* holds the current rows, or a clearing is on the way.
FillsAreCurrent ==
  \A t \in Task : request[t].pc = "fill" =>
    \/ request[t].body = CurrentView(request[t].key)
    \/ Pending(request[t].key)
    \/ t \in overtaken
=============================================================================
