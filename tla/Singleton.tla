------------------------------ MODULE Singleton ------------------------------
(***************************************************************************)
(* core/utility/singleton.hpp: one object of a class, constructed by       *)
(* set_instance or, where the class has a default constructor, by the      *)
(* first use.  The owning pointer is only touched under the mutex; readers *)
(* load an atomic copy of it without the mutex.  An object is named by the *)
(* number of its construction, 0 is nullptr.                               *)
(***************************************************************************)
EXTENDS Threads

CONSTANT HasDefaultCtor  \* can the class be constructed without arguments?

ASSUME SingletonAssumption == HasDefaultCtor \in BOOLEAN

VARIABLES owner,      \* instance_accessor()
          published,  \* published_instance()
          mutex,      \* the thread that holds instance_mutex(), or NoThread
          made,       \* objects constructed so far
          pc,         \* where each thread is
          call,       \* the operation it performs, or performed last
          outcome,    \* how its last call ended
          got,        \* the object its last call returned
          calls       \* calls it made

state == <<owner, published, mutex, made>>
vars == <<owner, published, mutex, made, pc, call, outcome, got, calls>>

Operation == {"instance", "instance_ptr", "set_instance"}

Init ==
  /\ owner = 0 /\ published = 0 /\ mutex = NoThread /\ made = 0
  /\ pc = [t \in Thread |-> "idle"]
  /\ call = [t \in Thread |-> "instance"]
  /\ outcome = [t \in Thread |-> "none"]
  /\ got = [t \in Thread |-> 0]
  /\ calls = [t \in Thread |-> 0]

Goto(t, l) == pc' = [pc EXCEPT ![t] = l] /\ UNCHANGED <<outcome, got>>

Return(t, how, object) ==
  /\ pc' = [pc EXCEPT ![t] = "idle"]
  /\ outcome' = [outcome EXCEPT ![t] = how]
  /\ got' = [got EXCEPT ![t] = object]

-----------------------------------------------------------------------------
Begin(t, op) ==
  /\ pc[t] = "idle" /\ calls[t] < MaxCalls
  /\ calls' = [calls EXCEPT ![t] = @ + 1]
  /\ call' = [call EXCEPT ![t] = op]
  /\ pc' = [pc EXCEPT ![t] = IF op = "set_instance" THEN "lock" ELSE "load"]
  /\ outcome' = [outcome EXCEPT ![t] = "none"]
  /\ got' = [got EXCEPT ![t] = 0]
  /\ UNCHANGED state

\* instance() and instance_ptr() load the published pointer without the mutex
LoadFound(t) ==
  /\ pc[t] = "load" /\ published # 0
  /\ Return(t, "instance", published)
  /\ UNCHANGED <<state, call, calls>>

LoadEmpty(t) ==
  /\ pc[t] = "load" /\ published = 0 /\ HasDefaultCtor
  /\ Goto(t, "lock")
  /\ UNCHANGED <<state, call, calls>>

\* nothing can be constructed: instance() throws, instance_ptr() returns nullptr
LoadFails(t) ==
  /\ pc[t] = "load" /\ published = 0 /\ ~HasDefaultCtor
  /\ Return(t, IF call[t] = "instance" THEN "threw" ELSE "null", 0)
  /\ UNCHANGED <<state, call, calls>>

\* Mutant: the mutex is believed to make a second look unnecessary
FoundUnchecked(t) == FALSE

\* under the mutex the owning pointer is looked at once more
Found(t) == owner # 0

\* Mutant: set_instance hands out the object that is there
WhenFoundQuietly(t) == Return(t, "instance", owner)

\* set_default_instance returns the object that is there, set_instance throws
WhenFound(t) ==
  IF call[t] = "set_instance" THEN Return(t, "threw", 0)
                              ELSE Return(t, "instance", owner)

LockFound(t) ==
  /\ pc[t] = "lock" /\ mutex = NoThread
  /\ Found(t)
  /\ WhenFound(t)
  /\ UNCHANGED <<state, call, calls>>

LockEmpty(t) ==
  /\ pc[t] = "lock" /\ mutex = NoThread
  /\ ~Found(t)
  /\ mutex' = t
  /\ Goto(t, "construct")
  /\ UNCHANGED <<owner, published, made, call, calls>>

\* the constructor runs under the mutex; publish() takes ownership of the object
Construct(t) ==
  /\ pc[t] = "construct"
  /\ made' = made + 1
  /\ owner' = made'
  /\ Goto(t, "publish")
  /\ UNCHANGED <<published, mutex, call, calls>>

\* Mutant: the mutex is unlocked by hand, after the constructor
HolderAfterThrowStill(t) == t

\* the scoped lock unlocks the mutex when the constructor throws
HolderAfterThrow(t) == NoThread

\* the constructor may throw instead, which leaves no object
ConstructThrows(t) ==
  /\ pc[t] = "construct"
  /\ mutex' = HolderAfterThrow(t)
  /\ Return(t, "ctor threw", 0)
  /\ UNCHANGED <<owner, published, made, call, calls>>

\* what publish() stores for the readers
PublishedPointer == owner

Publish(t) ==
  /\ pc[t] = "publish"
  /\ published' = PublishedPointer
  /\ mutex' = NoThread
  /\ Return(t, "instance", owner)
  /\ UNCHANGED <<owner, made, call, calls>>

Next ==
  \E t \in Thread : \/ \E op \in Operation : Begin(t, op)
                    \/ LoadFound(t) \/ LoadEmpty(t) \/ LoadFails(t)
                    \/ LockFound(t) \/ LockEmpty(t)
                    \/ Construct(t) \/ ConstructThrows(t) \/ Publish(t)

Spec == Init /\ [][Next]_vars

-----------------------------------------------------------------------------
MutexHeldToConstruct ==
  \A t \in Thread : mutex = t <=> pc[t] \in {"construct", "publish"}

\* the types of the variables; the mutex is held exactly while constructing
TypeOK ==
  /\ owner \in Nat /\ published \in Nat /\ made \in Nat
  /\ mutex \in Thread \cup {NoThread}
  /\ pc \in [Thread -> {"idle", "load", "lock", "construct", "publish"}]
  /\ call \in [Thread -> Operation]
  /\ outcome \in [Thread -> {"none", "instance", "null", "threw", "ctor threw"}]
  /\ got \in [Thread -> Nat]
  /\ calls \in [Thread -> 0 .. MaxCalls]
  /\ MutexHeldToConstruct

\* all calls that return an object return the same one, and it is the one owned:
\* a first use racing another, or racing set_instance, constructs no second one
OneInstance == \A t \in Thread : outcome[t] = "instance" => got[t] = owner /\ owner # 0
=============================================================================
