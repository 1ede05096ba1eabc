------------------------ MODULE IncidentCreation_proofs ------------------------
(***************************************************************************)
(* For any rules, threats, events and windows, any number of failures and  *)
(* restarts and any interleaving with the clock: incidents of a detector   *)
(* are spaced, what the caches suppress was saved, and what was stored is  *)
(* announced, but for one incident per lost answer or restart.             *)
(***************************************************************************)
EXTENDS IncidentCreation, FiniteSetTheorems, TLAPS

-----------------------------------------------------------------------------
(* Spacing.                                                                *)

Creation(c) == c.id \in Nat /\ c.key \in Keys /\ c.event \in Events /\ c.at \in Nat

Clock ==
    /\ now \in Nat /\ calls \in Nat
    /\ todo \subseteq Detectors
    /\ event_cache \subseteq Entries(Events) /\ key_cache \subseteq Entries(Keys)
    /\ \A c \in created : Creation(c) /\ c.at <= now /\ c.id <= calls

\* An incident is still in the cache of its key, or hidden there by a later one, or its
\* window is over; the same for the cache of events.
Cached ==
    \A c \in created :
        /\ \/ \E x \in key_cache : x.key = c.key /\ c.at <= x.at
           \/ now - c.at >= Window(c.key[1])
        /\ c.key[1] \in Rules =>
              \/ \E x \in event_cache : x.key = c.event /\ c.at <= x.at
              \/ now - c.at >= EventWindow

\* The detector being handled comes after everything that was created, and far enough.
Handled ==
    detector # NoDetector =>
        /\ detector \in Detectors /\ event \in Events
        /\ started \in Nat /\ started <= now /\ data.id = calls
        /\ \A c \in created :
              /\ c.at <= started /\ c.id < calls
              /\ c.key = KeyOf(detector, event) => started - c.at >= Window(detector)
              /\ {c.key[1], detector} \subseteq Rules /\ c.event = event =>
                    started - c.at >= EventWindow

\* Detectors wait only for an event.
Waiting == /\ todo # {} => event \in Events
           /\ saved # NoId => detector # NoDetector

SpacedIInv == Clock /\ Cached /\ Handled /\ Waiting /\ AlertsAreSpaced

LEMMA Windows ==
    /\ EventWindow \in Nat /\ RuleWindow \in Nat /\ Hour \in Nat
    /\ EventWindow <= RuleWindow /\ RuleWindow <= Hour
    /\ \A d : Window(d) \in Nat /\ Window(d) <= Hour
    /\ \A d \in Rules : Window(d) = RuleWindow
    /\ NoId \notin Nat /\ NoDetector \notin Detectors /\ NoEvent \notin Events
  BY CreationAssumption DEF Window

LEMMA KeysAreKeys ==
    ASSUME NEW d \in Detectors, NEW e \in Events
    PROVE  KeyOf(d, e) \in Keys /\ KeyOf(d, e)[1] = d
  BY CreationAssumption DEF KeyOf, Keys

-----------------------------------------------------------------------------
(* The actions.                                                            *)

\* Whatever handles no detector to its end and starts none.
LEMMA ClockAlone ==
    ASSUME SpacedIInv, now' \in Nat, now <= now', UNCHANGED <<caches, created>>,
           calls' = calls, todo' \subseteq Detectors,
           \/ UNCHANGED <<detector, event, started, data>>
           \/ detector' = NoDetector,
           Waiting'
    PROVE  SpacedIInv'
<1> USE DEF SpacedIInv
<1>1. UNCHANGED <<event_cache, key_cache, created>>
  BY DEF caches
<1>2. now \in Nat /\ calls \in Nat /\ \A c \in created : c.at \in Nat /\ c.id \in Nat
  BY DEF Clock, Creation
<1>3. Clock'
  BY <1>1, <1>2 DEF Clock
<1>4. Cached'
  <2> SUFFICES ASSUME NEW c \in created
               PROVE  /\ \/ \E x \in key_cache : x.key = c.key /\ c.at <= x.at
                         \/ now' - c.at >= Window(c.key[1])
                      /\ c.key[1] \in Rules =>
                            \/ \E x \in event_cache : x.key = c.event /\ c.at <= x.at
                            \/ now' - c.at >= EventWindow
    BY <1>1 DEF Cached, Window
  <2>1. \A w \in Nat : now - c.at >= w => now' - c.at >= w
    BY <1>2
  <2> QED
    BY <2>1, Windows DEF Cached
<1>5. Handled'
  <2>1. CASE detector' = NoDetector
    BY <2>1 DEF Handled
  <2>2. CASE UNCHANGED <<detector, event, started, data>>
    <3>1. started \in Nat /\ started <= now => started <= now'
      BY <1>2
    <3> QED
      BY <1>1, <2>2, <3>1 DEF Handled, Window, KeyOf
  <2> QED
    BY <2>1, <2>2
<1>6. AlertsAreSpaced'
  BY <1>1 DEF AlertsAreSpaced, Window
<1> QED
  BY <1>3, <1>4, <1>5, <1>6

LEMMA ConsiderSpaced ==
    ASSUME SpacedIInv, NEW d \in Detectors, Consider(d)
    PROVE  SpacedIInv'
<1> USE DEF SpacedIInv
<1>1. /\ d \in todo /\ detector = NoDetector /\ todo' = todo \ {d}
      /\ UNCHANGED <<now, saved, event_cache, key_cache, created>>
  BY DEF Consider, caches
<1>2. event \in Events /\ saved = NoId /\ now \in Nat /\ calls \in Nat
  BY <1>1 DEF Waiting, Clock
<1>3. \/ UNCHANGED <<detector, started, data, calls>>
         /\ (todo' # {} => event' = event)
      \/ /\ ~Known(event, d) /\ detector' = d /\ started' = now /\ event' = event
         /\ calls' = calls + 1 /\ data'.id = calls + 1
  BY <1>1 DEF Consider, Rest
<1>4. Waiting'
  BY <1>1, <1>2, <1>3 DEF Waiting
<1>5. CASE UNCHANGED <<detector, started, data, calls>> /\ (todo' # {} => event' = event)
  <2>1. todo' \subseteq Detectors /\ UNCHANGED <<caches, created>>
    BY <1>1 DEF Clock, caches
  <2> QED
    BY <1>1, <1>2, <1>4, <1>5, <2>1, ClockAlone
<1>6. CASE /\ ~Known(event, d) /\ detector' = d /\ started' = now /\ event' = event
           /\ calls' = calls + 1 /\ data'.id = calls + 1
  <2>1. ASSUME NEW c \in created
        PROVE  c.at \in Nat /\ c.id \in Nat /\ c.at <= now /\ c.id <= calls
    BY DEF Clock, Creation
  <2>2. \A x \in key_cache \cup event_cache : x.at \in Nat
    BY DEF Clock, Entries
  <2>3. Clock'
    BY <1>1, <1>2, <1>6, <2>1 DEF Clock
  <2>4. Cached'
    BY <1>1 DEF Cached, Window
  <2>5. ASSUME NEW c \in created, c.key = KeyOf(d, event)
        PROVE  now - c.at >= Window(d)
    <3>1. c.key[1] = d
      BY <1>2, <2>5, KeysAreKeys
    <3>2. ASSUME NEW x \in key_cache, x.key = c.key, c.at <= x.at
          PROVE  now - c.at >= Window(d)
      <4>1. ~(now - x.at < Window(d))
        BY <1>6, <2>5, <3>2 DEF Known, InForce
      <4> QED
        BY <1>2, <2>1, <2>2, <3>2, <4>1, Windows
    <3> QED
      BY <3>1, <3>2 DEF Cached
  <2>6. ASSUME NEW c \in created, c.event = event, c.key[1] \in Rules, d \in Rules
        PROVE  now - c.at >= EventWindow
    <3>1. ASSUME NEW x \in event_cache, x.key = c.event, c.at <= x.at
          PROVE  now - c.at >= EventWindow
      <4>1. ~(now - x.at < EventWindow)
        BY <1>6, <2>6, <3>1 DEF Known, InForce
      <4> QED
        BY <1>2, <2>1, <2>2, <3>1, <4>1, Windows
    <3> QED
      BY <2>6, <3>1 DEF Cached
  <2>7. Handled'
    <3>1. \A c \in created : c.at <= now /\ c.id < calls + 1
      BY <1>2, <2>1
    <3>2. now <= now
      BY <1>2
    <3> QED
      BY <1>1, <1>2, <1>6, <2>5, <2>6, <3>1, <3>2 DEF Handled, Window, KeyOf
  <2>8. AlertsAreSpaced'
    BY <1>1 DEF AlertsAreSpaced, Window
  <2> QED
    BY <1>4, <2>3, <2>4, <2>7, <2>8
<1> QED
  BY <1>3, <1>5, <1>6
\* An entry that a purge drops is out of every window.
LEMMA EntryStaysOrExpired ==
    ASSUME SpacedIInv, detector # NoDetector, NEW cache, NEW key, NEW k, NEW age \in Nat,
           \A x \in cache : x.at \in Nat, NEW at \in Nat, at <= started,
           \E x \in cache : x.key = k /\ at <= x.at
    PROVE  \/ \E x \in Purged(Entered(cache, key), age) : x.key = k /\ at <= x.at
           \/ now - at >= age
<1>1. started \in Nat /\ now \in Nat /\ started <= now
  BY DEF SpacedIInv, Handled, Clock
<1>2. PICK x \in cache : x.key = k /\ at <= x.at
  OBVIOUS
<1> DEFINE y == IF k = key THEN [key |-> key, at |-> started] ELSE x
<1>3. y \in Entered(cache, key) /\ y.key = k /\ at <= y.at /\ y.at \in Nat
  BY <1>1, <1>2 DEF Entered
<1> HIDE DEF y
<1>4. CASE started - y.at < age
  BY <1>3, <1>4 DEF Purged
<1>5. CASE ~(started - y.at < age)
  BY <1>1, <1>3, <1>5
<1> QED
  BY <1>4, <1>5

\* A cache that was not touched, or entered and purged, keeps what is in its window.
LEMMA AnnounceCached ==
    ASSUME SpacedIInv, Announce
    PROVE  /\ Cached' /\ event_cache' \subseteq Entries(Events) /\ key_cache' \subseteq Entries(Keys)
<1> USE DEF SpacedIInv
<1>1. /\ detector \in Detectors /\ detector # NoDetector /\ event \in Events
      /\ started \in Nat /\ now \in Nat /\ started <= now
  BY DEF Announce, Waiting, Handled, Clock
<1>2. PICK new : /\ new = [id |-> data.id, saved |-> saved, event |-> event,
                           key |-> KeyOf(detector, event), at |-> started]
                 /\ created' = created \cup {new}
  BY DEF Announce
<1>3. new.event = event /\ new.key = KeyOf(detector, event) /\ new.at = started
  BY <1>2
<1>4. /\ event_cache' = EventCacheAfter(detector, event)
      /\ key_cache' = KeyCacheAfter(detector, event) /\ now' = now
  BY DEF Announce
<1>5. KeyOf(detector, event) \in Keys /\ KeyOf(detector, event)[1] = detector
  BY <1>1, KeysAreKeys
<1>6. /\ \A x \in key_cache : x.at \in Nat /\ x.key \in Keys
      /\ \A x \in event_cache : x.at \in Nat /\ x.key \in Events
  BY DEF Clock, Entries
<1> DEFINE k0 == KeyOf(detector, event)
           entered == Entered(key_cache, k0)
           age == IF detector \in Rules THEN Hour ELSE 2 * Hour
<1>7. age \in Nat /\ Hour <= age /\ Hour \in Nat
  BY Windows
<1>8. Purged(entered, age) \subseteq key_cache'
  BY <1>4 DEF KeyCacheAfter, Purged
<1>9. key_cache' \subseteq entered
  BY <1>4 DEF KeyCacheAfter, Purged
<1>10. /\ entered \subseteq Entries(Keys)
       /\ Entered(event_cache, event) \subseteq Entries(Events)
       /\ [key |-> k0, at |-> started] \in entered
       /\ [key |-> event, at |-> started] \in Entered(event_cache, event)
  BY <1>1, <1>5 DEF Entered, Entries, Clock
<1>11. event_cache' \in {event_cache, Purged(Entered(event_cache, event), Hour)}
  BY <1>4 DEF EventCacheAfter
<1>12. event_cache' \subseteq Entries(Events)
  BY <1>10, <1>11 DEF Purged, Clock
<1>13. ASSUME NEW c \in created
       PROVE  /\ c.at \in Nat /\ c.at <= started
              /\ \/ \E x \in key_cache' : x.key = c.key /\ c.at <= x.at
                 \/ now - c.at >= Window(c.key[1])
              /\ c.key[1] \in Rules =>
                    \/ \E x \in event_cache' : x.key = c.event /\ c.at <= x.at
                    \/ now - c.at >= EventWindow
  <2>1. c.at \in Nat /\ c.at <= started
    BY <1>1, <1>13 DEF Clock, Creation, Handled
  <2>2. ASSUME \E x \in key_cache : x.key = c.key /\ c.at <= x.at
        PROVE  \/ \E x \in key_cache' : x.key = c.key /\ c.at <= x.at
               \/ now - c.at >= Window(c.key[1])
    <3>1. \/ \E x \in Purged(entered, age) : x.key = c.key /\ c.at <= x.at
          \/ now - c.at >= age
      BY <1>1, <1>6, <1>7, <2>1, <2>2, EntryStaysOrExpired
    <3> HIDE DEF age, entered
    <3>2. now - c.at >= age => now - c.at >= Window(c.key[1])
      BY <1>1, <1>7, <2>1, Windows
    <3> QED
      BY <1>8, <3>1, <3>2
  <2>3. ASSUME c.key[1] \in Rules
        PROVE  \/ \E x \in event_cache' : x.key = c.event /\ c.at <= x.at
               \/ now - c.at >= EventWindow
    <3>1. CASE \E x \in event_cache : x.key = c.event /\ c.at <= x.at
      <4>1. CASE event_cache' = event_cache
        BY <3>1, <4>1
      <4>2. CASE event_cache' = Purged(Entered(event_cache, event), Hour)
        <5>1. \/ \E x \in event_cache' : x.key = c.event /\ c.at <= x.at
              \/ now - c.at >= Hour
          BY <1>1, <1>6, <1>7, <2>1, <3>1, <4>2, EntryStaysOrExpired
        <5> QED
          BY <1>1, <2>1, <5>1, Windows
      <4> QED
        BY <1>11, <4>1, <4>2
    <3>2. CASE now - c.at >= EventWindow
      BY <3>2
    <3> QED
      BY <1>13, <2>3, <3>1, <3>2 DEF Cached
  <2> QED
    BY <1>13, <2>1, <2>2, <2>3 DEF Cached
<1>14. started - started < age /\ started - started < Hour /\ started <= started
  BY <1>1, CreationAssumption
<1>15. \E x \in key_cache' : x.key = new.key /\ new.at <= x.at
  <2> DEFINE x == [key |-> k0, at |-> started]
  <2>1. x \in Purged(entered, age) /\ x.key = k0 /\ x.at = started
    BY <1>10, <1>14 DEF Purged
  <2> QED
    BY <1>3, <1>8, <1>14, <2>1
<1>16. detector \in Rules => \E x \in event_cache' : x.key = new.event /\ new.at <= x.at
  <2> DEFINE x == [key |-> event, at |-> started]
  <2>1. x \in Purged(Entered(event_cache, event), Hour) /\ x.key = event /\ x.at = started
    BY <1>10, <1>14 DEF Purged
  <2>2. detector \in Rules => event_cache' = Purged(Entered(event_cache, event), Hour)
    BY <1>4 DEF EventCacheAfter
  <2> QED
    BY <1>3, <1>14, <2>1, <2>2
<1>17. Cached'
  <2> SUFFICES ASSUME NEW c \in created'
               PROVE  /\ \/ \E x \in key_cache' : x.key = c.key /\ c.at <= x.at
                         \/ now' - c.at >= Window(c.key[1])
                      /\ c.key[1] \in Rules =>
                            \/ \E x \in event_cache' : x.key = c.event /\ c.at <= x.at
                            \/ now' - c.at >= EventWindow
    BY DEF Cached, Window
  <2>1. CASE c \in created
    BY <1>4, <1>13, <2>1
  <2>2. CASE c = new
    BY <1>3, <1>5, <1>15, <1>16, <2>2
  <2> QED
    BY <1>2, <2>1, <2>2
<1> QED
  BY <1>9, <1>10, <1>12, <1>17

LEMMA AnnounceSpaced ==
    ASSUME SpacedIInv, Announce
    PROVE  SpacedIInv'
<1>1. /\ Cached' /\ event_cache' \subseteq Entries(Events) /\ key_cache' \subseteq Entries(Keys)
  BY AnnounceCached
<1> USE DEF SpacedIInv
<1>2. /\ detector \in Detectors /\ detector # NoDetector /\ event \in Events
      /\ started \in Nat /\ now \in Nat /\ started <= now
      /\ data.id = calls /\ calls \in Nat
  BY DEF Announce, Waiting, Handled, Clock
<1>3. PICK new : /\ new = [id |-> data.id, saved |-> saved, event |-> event,
                           key |-> KeyOf(detector, event), at |-> started]
                 /\ created' = created \cup {new}
  BY DEF Announce
<1>4. /\ new.event = event /\ new.key = KeyOf(detector, event) /\ new.at = started
      /\ new.id = calls
  BY <1>2, <1>3
<1>5. KeyOf(detector, event) \in Keys /\ KeyOf(detector, event)[1] = detector
  BY <1>2, KeysAreKeys
<1>6. Creation(new)
  BY <1>2, <1>4, <1>5 DEF Creation
<1>7. /\ now' = now /\ calls' = calls /\ todo' = todo /\ detector' = NoDetector
      /\ saved' = NoId /\ event' = (IF todo = {} THEN NoEvent ELSE event)
  BY DEF Announce, Rest, bounds
<1>8. Clock'
  <2>1. \A c \in created' : Creation(c) /\ c.at <= now /\ c.id <= calls
    BY <1>2, <1>3, <1>4, <1>6 DEF Clock
  <2> QED
    BY <1>1, <1>7, <2>1 DEF Clock
<1>9. Handled' /\ Waiting'
  BY <1>7, <1>2 DEF Handled, Waiting
<1>10. AlertsAreSpaced'
  <2> SUFFICES ASSUME NEW b \in created', NEW c \in created', b.id < c.id
               PROVE  /\ b.key = c.key => c.at - b.at >= Window(c.key[1])
                      /\ b.event = c.event /\ {b.key[1], c.key[1]} \subseteq Rules =>
                             c.at - b.at >= EventWindow
    BY DEF AlertsAreSpaced, Window
  <2>1. CASE b \in created /\ c \in created
    BY <2>1 DEF AlertsAreSpaced
  <2>2. CASE b \in created /\ c = new
    BY <1>2, <1>4, <1>5, <2>2 DEF Handled
  <2>3. CASE b = new
    <3>1. c = new \/ c.id < calls
      BY <1>2, <1>3 DEF Handled
    <3>2. c.id \in Nat
      BY <1>3, <1>6 DEF Clock, Creation
    <3> QED
      BY <1>2, <1>4, <2>3, <3>1, <3>2
  <2> QED
    BY <1>3, <2>1, <2>2, <2>3
<1> QED
  BY <1>1, <1>8, <1>9, <1>10

LEMMA RestartSpaced ==
    ASSUME SpacedIInv, Restart
    PROVE  SpacedIInv'
<1>1. /\ now' = now /\ calls' = calls /\ todo' = {} /\ detector' = NoDetector /\ saved' = NoId
      /\ event_cache' = {} /\ key_cache' = {} /\ created' = {}
  BY DEF Restart
<1> QED
  BY <1>1 DEF SpacedIInv, Clock, Cached, Handled, Waiting, AlertsAreSpaced

\* The calls of save_incident that go on or raise, the clock, and a new event.
LEMMA OthersSpaced ==
    ASSUME SpacedIInv,
           \/ \E e \in Events, S \in Detections : HandleEvent(e, S)
           \/ \E i \in Ids : SaveKnown(i)
           \/ SaveRow \/ SaveFails \/ Tick
    PROVE  SpacedIInv'
<1>1. now \in Nat /\ calls \in Nat /\ todo \subseteq Detectors /\ now <= now
  BY DEF SpacedIInv, Clock
<1>2. UNCHANGED <<caches, created, calls>>
  BY DEF HandleEvent, SaveKnown, SaveRow, SaveFails, Tick, bounds
<1>3. CASE \E e \in Events, S \in Detections : HandleEvent(e, S)
  <2>1. PICK e \in Events, S \in Detections : HandleEvent(e, S)
    BY <1>3
  <2>2. /\ event = NoEvent /\ event' = e /\ todo' = S /\ S \subseteq Detectors
        /\ UNCHANGED <<now, detector, started, data, saved>>
    BY <2>1 DEF HandleEvent, Detections
  <2>3. detector = NoDetector
    BY <2>2, Windows DEF SpacedIInv, Handled
  <2>4. Waiting'
    BY <2>2, <2>3 DEF SpacedIInv, Waiting
  <2> QED
    BY <1>1, <1>2, <2>2, <2>3, <2>4, ClockAlone
<1>4. CASE SaveFails
  <2>1. /\ detector' = NoDetector /\ UNCHANGED <<now, todo, saved>> /\ saved = NoId
        /\ event' = (IF todo = {} THEN NoEvent ELSE event)
    BY <1>4 DEF SaveFails, Saving, Rest
  <2>2. Waiting'
    BY <2>1 DEF SpacedIInv, Waiting
  <2> QED
    BY <1>1, <1>2, <2>1, <2>2, ClockAlone
<1>5. CASE Tick
  <2>1. now' = now + 1 /\ UNCHANGED <<todo, detector, event, started, data, saved>>
    BY <1>5 DEF Tick, handling
  <2>2. Waiting' /\ now' \in Nat /\ now <= now'
    BY <1>1, <2>1 DEF SpacedIInv, Waiting
  <2> QED
    BY <1>1, <1>2, <2>1, <2>2, ClockAlone
<1>6. CASE SaveRow \/ \E i \in Ids : SaveKnown(i)
  <2>1. UNCHANGED <<now, todo, detector, event, started, data>> /\ detector # NoDetector
    BY <1>6 DEF SaveRow, SaveKnown, Saving
  <2>2. Waiting'
    BY <2>1 DEF SpacedIInv, Waiting
  <2> QED
    BY <1>1, <1>2, <2>1, <2>2, ClockAlone
<1> QED
  BY <1>3, <1>4, <1>5, <1>6
LEMMA InitSpaced == Init => SpacedIInv
BY Windows DEF Init, Idle, SpacedIInv, Clock, Cached, Handled, Waiting, AlertsAreSpaced

LEMMA NextSpaced == SpacedIInv /\ [Next]_vars => SpacedIInv'
<1> SUFFICES ASSUME SpacedIInv, [Next]_vars PROVE SpacedIInv'
  OBVIOUS
<1>1. ASSUME NEW d \in Detectors, Consider(d) PROVE SpacedIInv'
  BY <1>1, ConsiderSpaced
<1>2. CASE UNCHANGED vars
  <2>1. /\ UNCHANGED <<now, todo, detector, event, started, data, saved, caches, created>>
        /\ calls' = calls
    BY <1>2 DEF vars, handling, bounds
  <2>2. now \in Nat /\ now <= now /\ todo \subseteq Detectors
    BY DEF SpacedIInv, Clock
  <2>3. Waiting'
    BY <2>1 DEF SpacedIInv, Waiting
  <2> QED
    BY <2>1, <2>2, <2>3, ClockAlone
<1> QED
  BY <1>1, <1>2, AnnounceSpaced, RestartSpaced, OthersSpaced DEF Next

\* In one life of the worker a detector opens no second incident on a contract in its
\* window, and rules no second one for an event in theirs (worker/main.py:2179-2196,
\* 2487-2495), although the caches are stamped before the save, purged by two handlers and
\* several detectors are handled for one event.
THEOREM IncidentsAreSpaced == Spec => []AlertsAreSpaced
<1>1. SpacedIInv => AlertsAreSpaced
  BY DEF SpacedIInv
<1> QED
  BY <1>1, InitSpaced, NextSpaced, PTL DEF Spec

-----------------------------------------------------------------------------
(* What the caches suppress.                                               *)

Vouched(i) == \E r \in rows \cup processed : r.id = i

\* Whatever save_incident returned stems from a row or a record.
VouchedIInv == SuppressedIsStored /\ (saved # NoId => Vouched(saved))

LEMMA VouchedStays ==
    ASSUME rows \subseteq rows', processed \subseteq processed', NEW i, Vouched(i)
    PROVE  Vouched(i)'
BY DEF Vouched

\* Caches that only shrink or stay suppress no more than they did.
LEMMA CachesAlone ==
    ASSUME SuppressedIsStored, rows \subseteq rows', processed \subseteq processed',
           UNCHANGED <<caches, created>>
    PROVE  SuppressedIsStored'
BY DEF SuppressedIsStored, caches

LEMMA AnnounceSuppresses ==
    ASSUME VouchedIInv, Announce
    PROVE  VouchedIInv'
<1>1. PICK new : /\ new = [id |-> data.id, saved |-> saved, event |-> event,
                           key |-> KeyOf(detector, event), at |-> started]
                 /\ created' = created \cup {new}
  BY DEF Announce
<1>2. /\ new.event = event /\ new.key = KeyOf(detector, event) /\ new.at = started
      /\ new.saved = saved
  BY <1>1
<1>3. /\ saved' = NoId /\ UNCHANGED <<rows, processed>> /\ Vouched(saved)
      /\ event_cache' = EventCacheAfter(detector, event)
      /\ key_cache' = KeyCacheAfter(detector, event)
  BY DEF Announce, store, VouchedIInv
<1>4. ASSUME NEW x \in key_cache'
      PROVE  x \in key_cache \/ x = [key |-> KeyOf(detector, event), at |-> started]
  BY <1>3, <1>4 DEF KeyCacheAfter, Purged, Entered
<1>5. ASSUME NEW x \in event_cache'
      PROVE  x \in event_cache \/ x = [key |-> event, at |-> started]
  BY <1>3, <1>5 DEF EventCacheAfter, Purged, Entered
<1>6. ASSUME NEW x \in key_cache'
      PROVE  \E c \in created' : c.key = x.key /\ c.at = x.at
                                 /\ \E r \in rows \cup processed : r.id = c.saved
  BY <1>1, <1>2, <1>3, <1>4, <1>6 DEF VouchedIInv, SuppressedIsStored, Vouched
<1>7. ASSUME NEW x \in event_cache'
      PROVE  \E c \in created' : c.event = x.key /\ c.at = x.at
                                 /\ \E r \in rows \cup processed : r.id = c.saved
  BY <1>1, <1>2, <1>3, <1>5, <1>7 DEF VouchedIInv, SuppressedIsStored, Vouched
<1> QED
  BY <1>3, <1>6, <1>7 DEF VouchedIInv, SuppressedIsStored

LEMMA NextVouched == VouchedIInv /\ [Next]_vars => VouchedIInv'
<1> SUFFICES ASSUME VouchedIInv, [Next]_vars PROVE VouchedIInv'
  OBVIOUS
<1> USE DEF VouchedIInv
<1>1. ASSUME NEW i \in Ids, SaveKnown(i) PROVE VouchedIInv'
  <2>1. saved' = i /\ UNCHANGED <<rows, processed, caches, created>>
    BY <1>1 DEF SaveKnown, store
  <2>2. Vouched(i)
    BY <1>1 DEF SaveKnown, RecordedIds, Vouched
  <2> QED
    BY <2>1, <2>2, VouchedStays, CachesAlone
<1>2. CASE SaveRow
  <2>1. rows \subseteq rows' /\ processed \subseteq processed' /\ UNCHANGED <<caches, created>>
    BY <1>2 DEF SaveRow
  <2>2. CASE rows' = rows \cup {Row} /\ saved' = data.id
    <3>1. Row.id = data.id
      BY DEF Row
    <3> QED
      BY <2>1, <2>2, <3>1, CachesAlone DEF Vouched
  <2>3. CASE saved' \in StoredIds
    BY <2>1, <2>3, CachesAlone DEF Vouched, StoredIds
  <2> QED
    BY <1>2, <2>2, <2>3 DEF SaveRow
<1>3. CASE SaveFails
  <2>1. /\ rows \subseteq rows' /\ processed \subseteq processed'
        /\ UNCHANGED <<caches, created, saved>>
    BY <1>3 DEF SaveFails, store
  <2> QED
    BY <2>1, CachesAlone DEF Vouched
<1>4. CASE Restart
  BY <1>4 DEF Restart, SuppressedIsStored
<1>5. CASE \/ \E e \in Events, S \in Detections : HandleEvent(e, S)
           \/ \E d \in Detectors : Consider(d)
           \/ Tick \/ UNCHANGED vars
  <2>1. UNCHANGED <<rows, processed, caches, created, saved>>
    BY <1>5 DEF HandleEvent, Consider, Tick, vars, store, handling
  <2> QED
    BY <2>1, CachesAlone DEF Vouched
<1> QED
  BY <1>1, <1>2, <1>3, <1>4, <1>5, AnnounceSuppresses DEF Next

\* A cache entry stems from a call that stored an incident or found its key recorded: a
\* save that raised silences no detector (worker/main.py:2421-2460).
THEOREM SuppressedWasSaved == Spec => []SuppressedIsStored
<1>1. Init => VouchedIInv
  BY DEF Init, Idle, VouchedIInv, SuppressedIsStored
<1>2. VouchedIInv => SuppressedIsStored
  BY DEF VouchedIInv
<1> QED
  BY <1>1, <1>2, NextVouched, PTL DEF Spec

-----------------------------------------------------------------------------
(* What is announced.                                                      *)

\* What is stored, serious and not announced, apart from the incident of the call at work.
Silent == {r \in rows : r.loud /\ r.id \notin announced \cup {data.id}}

\* Ids are fresh: a call that has not come back from save_incident has stored nothing, and
\* what it stores is as serious as it is.
StoredIInv ==
    /\ calls \in Nat
    /\ detector = NoDetector => data.id = NoId /\ saved = NoId
    /\ detector # NoDetector => data.id = calls
    /\ \A r \in rows : r.id \in Nat /\ r.id <= calls
    /\ \A r \in rows : r.id = data.id => saved # NoId /\ (r.loud => data.loud)
    /\ \A r, q \in rows : r.id = q.id => r = q

CountIInv ==
    /\ IsFiniteSet(rows) /\ unheard \in Nat /\ restarts \in Nat
    /\ Cardinality(Silent) <= unheard + restarts

\* Fewer incidents go unannounced, or at most one more.
LEMMA SilentShrinks ==
    ASSUME CountIInv, IsFiniteSet(rows'), Silent' \subseteq Silent,
           unheard' = unheard, restarts' = restarts
    PROVE  CountIInv'
<1>1. IsFiniteSet(Silent) /\ Cardinality(Silent) \in Nat
  BY FS_Subset, FS_CardinalityType DEF CountIInv, Silent
<1>2. Cardinality(Silent') <= Cardinality(Silent) /\ Cardinality(Silent') \in Nat
  BY <1>1, FS_Subset, FS_CardinalityType
<1> QED
  BY <1>1, <1>2 DEF CountIInv

LEMMA SilentGrows ==
    ASSUME CountIInv, IsFiniteSet(rows'), NEW r, Silent' \subseteq Silent \cup {r},
           \/ unheard' = unheard + 1 /\ restarts' = restarts
           \/ unheard' = unheard /\ restarts' = restarts + 1
    PROVE  CountIInv'
<1>1. IsFiniteSet(Silent) /\ Cardinality(Silent) \in Nat
  BY FS_Subset, FS_CardinalityType DEF CountIInv, Silent
<1>2. /\ IsFiniteSet(Silent \cup {r}) /\ Cardinality(Silent \cup {r}) \in Nat
      /\ Cardinality(Silent \cup {r}) <= Cardinality(Silent) + 1
  <2>1. CASE r \in Silent
    <3>1. Silent \cup {r} = Silent
      BY <2>1
    <3> QED
      BY <1>1, <3>1
  <2>2. CASE r \notin Silent
    <3>1. /\ IsFiniteSet(Silent \cup {r})
          /\ Cardinality(Silent \cup {r}) = Cardinality(Silent) + 1
      BY <1>1, <2>2, FS_AddElement
    <3> QED
      BY <1>1, <3>1
  <2> QED
    BY <2>1, <2>2
<1>3. Cardinality(Silent') <= Cardinality(Silent \cup {r}) /\ Cardinality(Silent') \in Nat
  BY <1>2, FS_Subset, FS_CardinalityType
<1> QED
  BY <1>1, <1>2, <1>3 DEF CountIInv

LEMMA InitStored == Init => StoredIInv /\ CountIInv
<1> SUFFICES ASSUME Init PROVE StoredIInv /\ CountIInv
  OBVIOUS
<1>1. rows = {} /\ Silent = {} /\ IsFiniteSet({}) /\ Cardinality({}) = 0
  BY FS_EmptySet DEF Init, Silent
<1> QED
  BY <1>1 DEF Init, Idle, NoData, StoredIInv, CountIInv

LEMMA NextStored == StoredIInv /\ CountIInv /\ [Next]_vars => StoredIInv' /\ CountIInv'
<1> SUFFICES ASSUME StoredIInv, CountIInv, [Next]_vars PROVE StoredIInv' /\ CountIInv'
  OBVIOUS
<1> USE DEF StoredIInv
<1>1. NoId \notin Nat /\ NoData.id = NoId
  BY CreationAssumption DEF NoData
<1>2. IsFiniteSet(rows)
  BY DEF CountIInv
<1>3. ASSUME NEW d \in Detectors, Consider(d) PROVE StoredIInv' /\ CountIInv'
  <2>1. /\ detector = NoDetector
        /\ UNCHANGED <<rows, announced, saved, unheard, restarts>>
    BY <1>3 DEF Consider, store
  <2>2. \/ UNCHANGED <<detector, data, calls>>
        \/ detector' = d /\ calls' = calls + 1 /\ data'.id = calls + 1
    BY <1>3 DEF Consider
  <2>3. d # NoDetector
    BY Windows
  <2>4. StoredIInv'
    BY <1>1, <2>1, <2>2, <2>3
  <2>5. Silent' \subseteq Silent
    BY <1>1, <2>1, <2>2 DEF Silent
  <2> QED
    BY <1>2, <2>1, <2>4, <2>5, SilentShrinks
<1>4. ASSUME NEW i \in Ids, SaveKnown(i) PROVE StoredIInv' /\ CountIInv'
  <2>1. /\ saved = NoId /\ saved' = i /\ detector # NoDetector
        /\ UNCHANGED <<rows, announced, unheard, restarts, calls, detector, data>>
    BY <1>4 DEF SaveKnown, Saving, store, bounds
  <2>2. StoredIInv'
    BY <2>1
  <2>3. Silent' \subseteq Silent
    BY <2>1 DEF Silent
  <2> QED
    BY <1>2, <2>1, <2>2, <2>3, SilentShrinks
<1>5. CASE SaveRow
  <2>1. /\ saved = NoId /\ detector # NoDetector
        /\ UNCHANGED <<announced, unheard, restarts, calls, detector, data>>
    BY <1>5 DEF SaveRow, Saving
  <2>2. CASE rows' = rows \cup {Row} /\ saved' = data.id
    <3>1. Row.id = data.id /\ Row.loud = data.loud
      BY DEF Row
    <3>2. StoredIInv'
      BY <1>1, <2>1, <2>2, <3>1
    <3>3. Silent' \subseteq Silent
      BY <2>1, <2>2, <3>1 DEF Silent
    <3>4. IsFiniteSet(rows')
      BY <1>2, <2>2, FS_AddElement
    <3> QED
      BY <2>1, <3>2, <3>3, <3>4, SilentShrinks
  <2>3. CASE saved' \in StoredIds /\ rows' = rows
    <3>1. saved' \in Nat
      BY <2>3 DEF StoredIds
    <3>2. StoredIInv'
      BY <1>1, <2>1, <2>3, <3>1
    <3>3. Silent' \subseteq Silent
      BY <2>1, <2>3 DEF Silent
    <3> QED
      BY <1>2, <2>1, <2>3, <3>2, <3>3, SilentShrinks
  <2> QED
    BY <1>5, <2>2, <2>3 DEF SaveRow
<1>6. CASE SaveFails
  <2>1. /\ saved = NoId /\ detector # NoDetector /\ detector' = NoDetector
        /\ data' = NoData /\ data.id = calls
        /\ UNCHANGED <<saved, announced, restarts, calls>>
    BY <1>6 DEF SaveFails, Saving
  <2>2. \A r \in rows : r.id # data.id
    BY <2>1
  <2>3. CASE UNCHANGED <<rows, unheard>>
    <3>1. StoredIInv'
      BY <1>1, <2>1, <2>3
    <3>2. Silent' \subseteq Silent
      BY <1>1, <2>1, <2>2, <2>3 DEF Silent
    <3> QED
      BY <1>2, <2>1, <2>3, <3>1, <3>2, SilentShrinks
  <2>4. CASE rows' = rows \cup {Row} /\ unheard' = unheard + 1
    <3>1. Row.id = data.id
      BY DEF Row
    <3>2. StoredIInv'
      BY <1>1, <2>1, <2>2, <2>4, <3>1
    <3>3. Silent' \subseteq Silent \cup {Row}
      BY <1>1, <2>1, <2>2, <2>4 DEF Silent
    <3>4. IsFiniteSet(rows')
      BY <1>2, <2>4, FS_AddElement
    <3> QED
      BY <2>1, <2>4, <3>2, <3>3, <3>4, SilentGrows
  <2> QED
    BY <1>6, <2>3, <2>4 DEF SaveFails, store
<1>7. CASE Announce
  <2>1. /\ UNCHANGED <<rows, unheard, restarts, calls>> /\ detector' = NoDetector
        /\ saved' = NoId /\ data' = NoData
        /\ announced' = announced \cup (IF data.loud THEN {data.id} ELSE {})
    BY <1>7 DEF Announce, Loud, store, bounds
  <2>2. StoredIInv'
    BY <1>1, <2>1
  <2>3. Silent' \subseteq Silent
    BY <1>1, <2>1 DEF Silent
  <2> QED
    BY <1>2, <2>1, <2>2, <2>3, SilentShrinks
<1>8. CASE Restart
  <2>1. /\ UNCHANGED <<rows, announced, unheard, calls>> /\ restarts' = restarts + 1
        /\ saved' = NoId /\ detector' = NoDetector /\ data' = NoData
    BY <1>8 DEF Restart, store
  <2>2. StoredIInv'
    BY <1>1, <2>1
  <2>3. \E r : Silent' \subseteq Silent \cup {r}
    <3>1. CASE \E r \in rows : r.id = data.id
      <4>1. PICK r \in rows : r.id = data.id
        BY <3>1
      <4>2. \A q \in rows : q.id = data.id => q = r
        BY <4>1
      <4> QED
        BY <2>1, <4>2 DEF Silent
    <3>2. CASE ~\E r \in rows : r.id = data.id
      BY <2>1, <3>2 DEF Silent
    <3> QED
      BY <3>1, <3>2
  <2> QED
    BY <1>2, <2>1, <2>2, <2>3, SilentGrows
<1>9. CASE (\E e \in Events, S \in Detections : HandleEvent(e, S)) \/ Tick \/ UNCHANGED vars
  <2>1. UNCHANGED <<rows, announced, saved, unheard, restarts, calls, detector, data>>
    BY <1>9 DEF HandleEvent, Tick, vars, store, handling, bounds
  <2>2. StoredIInv'
    BY <2>1
  <2>3. Silent' \subseteq Silent
    BY <2>1 DEF Silent
  <2> QED
    BY <1>2, <2>1, <2>2, <2>3, SilentShrinks
<1> QED
  BY <1>3, <1>4, <1>5, <1>6, <1>7, <1>8, <1>9 DEF Next

\* A HIGH or CRITICAL incident that is stored is announced under its own id, or its call is
\* at work, whichever id its key led save_incident to return; each exception has a lost
\* answer of a commit or a restart of its own (worker/main.py:2445-2460,
\* database/service.py:1101-1167).
THEOREM StoredWasAnnounced == Spec => []StoredIsAnnounced
<1>1. CountIInv => StoredIsAnnounced
  BY DEF CountIInv, Silent, StoredIsAnnounced
<1> QED
  BY <1>1, InitStored, NextStored, PTL DEF Spec
=============================================================================
