------------------------------ MODULE EventBus ------------------------------
(***************************************************************************)
(* EventBus (backend/runtime/event.py): threads publish events to one      *)
(* queue and dispatch them to subscribed handlers.  A handler runs under   *)
(* the bus's reentrant lock, in the dispatching thread, and may itself     *)
(* publish, dispatch, subscribe, unsubscribe and clear; every other thread *)
(* waits meanwhile.  Events have one type here; handlers are subscribed    *)
(* under it or under "*".                                                  *)
(***************************************************************************)
EXTENDS Integers, SequencesExt

CONSTANTS Publishers,   \* the threads that use the bus
          Events,
          Urgency,      \* _priority_value: the lower, the earlier
          Handlers,
          MaxNesting,   \* bound: calls open in a thread
          NoEvent       \* the event of a dispatch_all() that is not in dispatch()

ASSUME BusAssumption ==
    /\ Urgency \in [Events -> Nat]
    /\ MaxNesting \in Nat
    /\ NoEvent \notin Events \cup Publishers

VARIABLES pending,      \* _queue: events with their sequence numbers
          counter,      \* _sequence_counter
          subscribed,   \* _subscribers: two lists, "typed" and "any"
          progress,     \* event.status
          past,         \* _history
          calls,        \* the calls open in each thread, the innermost last
          publisher,    \* history: who published an event
          dropped       \* history: events a clear() took from the queue

busVars == <<pending, counter, subscribed, progress, past, calls, publisher, dropped>>

Lists == {"typed", "any"}

\* A call is a dispatch_all() (no event) or a dispatch() with the handlers
\* still to be called, whether one of them is at work, and whether one failed.
Call == [event : Events \cup {NoEvent}, rest : Seq(Handlers),
         inside : BOOLEAN, failed : BOOLEAN]

BusTypeOK ==
    /\ pending \subseteq Events \X Nat
    /\ counter \in Nat
    /\ subscribed \in [Lists -> Seq(Handlers)]
    /\ progress \in [Events -> {"CREATED", "QUEUED", "PROCESSING", "COMPLETED", "FAILED"}]
    /\ past \in Seq(Events)
    /\ calls \in [Publishers -> Seq(Call)]
    /\ publisher \in [Events -> Publishers \cup {NoEvent}]
    /\ dropped \subseteq Events

BusInit ==
    /\ pending = {}
    /\ counter = 0
    /\ subscribed = [k \in Lists |-> <<>>]
    /\ progress = [e \in Events |-> "CREATED"]
    /\ past = <<>>
    /\ calls = [t \in Publishers |-> <<>>]
    /\ publisher = [e \in Events |-> NoEvent]
    /\ dropped = {}

Innermost(t) == Last(calls[t])
Outer(t) == Front(calls[t])

EventsInHand(t) == {calls[t][i].event : i \in 1..Len(calls[t])} \ {NoEvent}

\* Faulty variant: the handlers are called after the lock is given back.
NobodyHolds(t) == TRUE

\* The lock is free or t's own: a thread holds it as long as it has an event in hand.
LockOpen(t) == \A u \in Publishers : u # t => EventsInHand(u) = {}

\* t runs code of its own: outside the bus, or in a handler the bus called.
AtWork(t) == calls[t] # <<>> => Innermost(t).inside

\* publish
Publish(t, e) ==
    /\ AtWork(t) /\ LockOpen(t)
    /\ progress[e] = "CREATED"
    /\ progress' = [progress EXCEPT ![e] = "QUEUED"]
    /\ counter' = counter + 1
    /\ pending' = pending \cup {<<e, counter + 1>>}
    /\ publisher' = [publisher EXCEPT ![e] = t]
    /\ UNCHANGED <<subscribed, past, calls, dropped>>

\* subscribe; a handler that is on the list already is refused.
Subscribe(t, k, h) ==
    /\ AtWork(t) /\ LockOpen(t)
    /\ \A i \in 1..Len(subscribed[k]) : subscribed[k][i] # h
    /\ subscribed' = [subscribed EXCEPT ![k] = Append(@, h)]
    /\ UNCHANGED <<pending, counter, progress, past, calls, publisher, dropped>>

\* unsubscribe: no list has a handler twice.
Unsubscribe(t, k, h) ==
    /\ AtWork(t) /\ LockOpen(t)
    /\ \E i \in 1..Len(subscribed[k]) :
          /\ subscribed[k][i] = h
          /\ subscribed' = [subscribed EXCEPT ![k] = RemoveAt(@, i)]
    /\ UNCHANGED <<pending, counter, progress, past, calls, publisher, dropped>>

\* clear: an event that is in a dispatching thread's hands stays there.
Clear(t) ==
    /\ AtWork(t) /\ LockOpen(t)
    /\ pending' = {}
    /\ counter' = 0
    /\ subscribed' = [k \in Lists |-> <<>>]
    /\ past' = <<>>
    /\ dropped' = dropped \cup {p[1] : p \in pending}
    /\ UNCHANGED <<progress, calls, publisher>>

Earlier(p, q) ==
    \/ Urgency[p[1]] < Urgency[q[1]]
    \/ Urgency[p[1]] = Urgency[q[1]] /\ p[2] < q[2]

\* _get_handlers_for_event
HandlersForEvent == subscribed["typed"] \o subscribed["any"]

\* dispatch on a queue that is not empty: the first event leaves it and, when
\* somebody listens, its delivery begins.
Take(t) ==
    /\ LockOpen(t)
    /\ Len(calls[t]) < MaxNesting
    /\ \E p \in pending :
          /\ \A q \in pending \ {p} : Earlier(p, q)
          /\ pending' = pending \ {p}
          /\ \/ /\ HandlersForEvent = <<>>
                /\ progress' = [progress EXCEPT ![p[1]] = "COMPLETED"]
                /\ past' = Append(past, p[1])
                /\ UNCHANGED calls
             \/ /\ HandlersForEvent # <<>>
                /\ progress' = [progress EXCEPT ![p[1]] = "PROCESSING"]
                /\ calls' = [calls EXCEPT ![t] =
                      Append(@, [event |-> p[1], rest |-> HandlersForEvent,
                                 inside |-> FALSE, failed |-> FALSE])]
                /\ UNCHANGED past
    /\ UNCHANGED <<counter, subscribed, publisher, dropped>>

Dispatch(t) == AtWork(t) /\ Take(t)

Draining(t) == calls[t] # <<>> /\ Innermost(t).event = NoEvent

\* dispatch_all is called, ...
DispatchAll(t) ==
    /\ AtWork(t)
    /\ Len(calls[t]) < MaxNesting
    /\ calls' = [calls EXCEPT ![t] =
          Append(@, [event |-> NoEvent, rest |-> <<>>, inside |-> FALSE, failed |-> FALSE])]
    /\ UNCHANGED <<pending, counter, subscribed, progress, past, publisher, dropped>>

\* ... calls dispatch until it answers None, ...
TakeNext(t) == Draining(t) /\ Take(t)

\* ... and returns.
DrainEnds(t) ==
    /\ Draining(t) /\ LockOpen(t)
    /\ pending = {}
    /\ calls' = [calls EXCEPT ![t] = Outer(t)]
    /\ UNCHANGED <<pending, counter, subscribed, progress, past, publisher, dropped>>

Delivering(t) == calls[t] # <<>> /\ Innermost(t).event # NoEvent

\* The innermost delivery of t goes on with what is given.
Continue(t, with) == calls' = [calls EXCEPT ![t] = Append(Outer(t), with)]

\* _dispatch_single, one turn of the loop: the filter of the next handler
\* rejects the event, raises, or lets the handler run.
Deliver(t) ==
    /\ Delivering(t)
    /\ LET d == Innermost(t) IN
       /\ ~d.inside /\ d.rest # <<>>
       /\ \E answer \in {"skip", "raise", "run"} :
             Continue(t, [d EXCEPT !.rest = Tail(@), !.inside = answer = "run",
                                   !.failed = @ \/ answer = "raise"])
    /\ UNCHANGED <<pending, counter, subscribed, progress, past, publisher, dropped>>

\* The handler returns or raises.
HandlerEnds(t) ==
    /\ Delivering(t) /\ AtWork(t)
    /\ \E raised \in BOOLEAN :
          Continue(t, [Innermost(t) EXCEPT !.inside = FALSE, !.failed = @ \/ raised])
    /\ UNCHANGED <<pending, counter, subscribed, progress, past, publisher, dropped>>

\* _dispatch_single after its loop: the final status and the history.
Conclude(t) ==
    /\ Delivering(t)
    /\ LET d == Innermost(t) IN
       /\ ~d.inside /\ d.rest = <<>>
       /\ progress' = [progress EXCEPT ![d.event] = IF d.failed THEN "FAILED" ELSE "COMPLETED"]
       /\ past' = Append(past, d.event)
    /\ calls' = [calls EXCEPT ![t] = Outer(t)]
    /\ UNCHANGED <<pending, counter, subscribed, publisher, dropped>>

BusStep(t) ==
    \/ \E e \in Events : Publish(t, e)
    \/ \E k \in Lists, h \in Handlers : Subscribe(t, k, h) \/ Unsubscribe(t, k, h)
    \/ Clear(t) \/ Dispatch(t) \/ DispatchAll(t) \/ TakeNext(t) \/ DrainEnds(t)
    \/ Deliver(t) \/ HandlerEnds(t) \/ Conclude(t)

BusNext == \E t \in Publishers : BusStep(t)

BusSpec == BusInit /\ [][BusNext]_busVars

---------------------------------------------------------------------------
Settled(e) == progress[e] \in {"COMPLETED", "FAILED"}

\* When dispatch_all() returns to a thread, whatever the thread published has
\* been handled to the end, also what another thread took from the queue;
\* but for events a clear() dropped and those whose handler makes this call.
OwnEventsAreHandled ==
    [][\A t \in Publishers : DrainEnds(t) =>
          \A e \in Events : publisher[e] = t => Settled(e) \/ e \in dropped \cup EventsInHand(t)]_busVars
=============================================================================
