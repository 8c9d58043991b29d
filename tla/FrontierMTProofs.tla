-------------------------- MODULE FrontierMTProofs --------------------------
(***************************************************************************)
(* What TLAPS proves of FrontierMT, for any number of workers, URLs,       *)
(* domains, priorities and delays: its types, that no URL is lost,         *)
(* duplicated or delivered twice, what is taken after shutdown, and that   *)
(* no wake-up is lost.                                                     *)
(***************************************************************************)
EXTENDS FrontierMT, FiniteSetTheorems, TLAPS

\* The steps in which a worker holds a URL, be it one it has popped or one it
\* adds.
Holding == {"push", "delay", "access", "sleep", "got", "fetch"}

HasUrl == \A w \in Worker : pc[w] \in Holding => url[w] \in Url

Typed == TypeOK /\ HasUrl

IInv == Typed /\ ExactlyOnce

\* The action of the next-state relation, with the worker that takes it.
LEMMA NextCases ==
  ASSUME Next
  PROVE  \/ \E w \in Worker :
              \/ Proceed(w) \/ PopLock(w) \/ AddPush(w) \/ SpuriousWake(w)
         \/ ShutdownFlag \/ ShutdownNotifyAll \/ Tick \/ UNCHANGED vars
  BY DEF Next, Finished

-----------------------------------------------------------------------------
\* Initially every variable has its type.
LEMMA InitTyped == Init => Typed
  <1> SUFFICES ASSUME Init PROVE Typed
    OBVIOUS
  <1>1. queue \in [Entry -> Nat]
    BY DEF Init, Entry
  <1>2. /\ age \in [Domain -> 0..MaxDelay]
        /\ delay \in [Domain -> Delay \cup {DefaultDelay}]
        /\ wait \in [Worker -> 0..MaxDelay]
    BY FrontierAssumption DEF Init
  <1>3. /\ pc \in [Worker -> Step]
        /\ url \in [Worker -> Url \cup {NoUrl}]
        /\ popped \in [Url -> Nat]
    BY DEF Init, Step
  <1>4. TypeOK
    BY <1>1, <1>2, <1>3 DEF Init, TypeOK
  <1>5. HasUrl
    BY DEF Init, HasUrl, Holding
  <1> QED
    BY <1>4, <1>5 DEF Typed

\* A step of a worker preserves the types.
LEMMA WorkerTyped ==
  ASSUME Typed, NEW w \in Worker,
         Proceed(w) \/ PopLock(w) \/ AddPush(w) \/ SpuriousWake(w)
  PROVE  Typed'
  <1> USE FrontierAssumption DEF Typed, TypeOK, HasUrl, Holding, Goto
  <1>1. CASE Loop(w)
    BY <1>1 DEF Loop, Step
  <1>2. CASE PopLock(w)
    BY <1>2 DEF PopLock, Step
  <1>3. CASE PopNull(w)
    BY <1>3 DEF PopNull, Step
  <1>4. CASE PopOpen(w)
    BY <1>4 DEF PopOpen, Step
  <1>5. CASE PopBlock(w)
    BY <1>5 DEF PopBlock, Step
  <1>6. CASE PopTake(w)
    <2>1. PICK e \in Entry : /\ IsTop(e)
                             /\ queue' = [queue EXCEPT ![e] = @ - 1]
                             /\ url' = [url EXCEPT ![w] = e[1]]
      BY <1>6 DEF PopTake
    <2>2. queue[e] \in Nat /\ queue[e] > 0 /\ e[1] \in Url
      BY <2>1 DEF IsTop, Queued, Entry
    <2>3. queue' \in [Entry -> Nat]
      BY <2>1, <2>2
    <2>4. url' \in [Worker -> Url \cup {NoUrl}] /\ url'[w] \in Url
      BY <2>1, <2>2
    <2> QED
      BY <1>6, <2>1, <2>2, <2>3, <2>4 DEF PopTake, Step
  <1>7. CASE SpuriousWake(w)
    BY <1>7 DEF SpuriousWake, Step
  <1>8. CASE ReadDelay(w)
    BY <1>8 DEF ReadDelay, Step
  <1>9. CASE ReadLastAccess(w)
    BY <1>9 DEF ReadLastAccess, Step
  <1>10. CASE PopReturn(w)
    BY <1>10 DEF PopReturn, Step
  <1>11. CASE Reject(w)
    BY <1>11 DEF Reject, Step
  <1>12. CASE SetDomainDelay(w)
    BY <1>12 DEF SetDomainDelay, Step
  <1>13. CASE MarkDomainCrawled(w)
    BY <1>13 DEF MarkDomainCrawled, Step
  <1>14. CASE AddSeen(w)
    BY <1>14 DEF AddSeen, Step
  <1>15. CASE AddPush(w)
    BY <1>15 DEF AddPush, Step, Entry
  <1>16. CASE AddNotify(w)
    BY <1>16 DEF AddNotify, Step, At
  <1>17. CASE LinksDone(w)
    BY <1>17 DEF LinksDone, Step
  <1> QED
    BY <1>1, <1>2, <1>3, <1>4, <1>5, <1>6, <1>7, <1>8, <1>9, <1>10, <1>11, <1>12,
       <1>13, <1>14, <1>15, <1>16, <1>17 DEF Proceed

\* Every step preserves the types.
LEMMA NextTyped == Typed /\ [Next]_vars => Typed'
  <1> SUFFICES ASSUME Typed, [Next]_vars PROVE Typed'
    OBVIOUS
  <1> USE FrontierAssumption DEF Typed, TypeOK, HasUrl, Holding
  <1>1. CASE UNCHANGED vars
    BY <1>1 DEF vars
  <1>2. ASSUME NEW w \in Worker,
               Proceed(w) \/ PopLock(w) \/ AddPush(w) \/ SpuriousWake(w)
        PROVE  Typed'
    BY <1>2, WorkerTyped
  <1>3. CASE ShutdownFlag
    BY <1>3 DEF ShutdownFlag
  <1>4. CASE ShutdownNotifyAll
    BY <1>4 DEF ShutdownNotifyAll, Step
  <1>5. CASE Tick
    BY <1>5 DEF Tick
  <1> QED
    BY <1>1, <1>2, <1>3, <1>4, <1>5, NextCases

\* Every variable of the frontier has its type in every reachable state.
THEOREM TypeCorrect == Spec => []TypeOK
  <1>1. Typed => TypeOK
    BY DEF Typed
  <1> QED
    BY InitTyped, NextTyped, <1>1, PTL DEF Spec
-----------------------------------------------------------------------------
(* Exactly once.  A URL changes its place in four actions only: AddSeen,   *)
(* AddPush, PopTake and PopReturn.                                         *)

\* Initially the URLs in seen_ are queued, once each, and nowhere else.
LEMMA InitExactlyOnce == Init => ExactlyOnce
  <1> SUFFICES ASSUME Init PROVE ExactlyOnce
    OBVIOUS
  <1>1. PICK p \in [seen -> Priority] :
          queue = [e \in Entry |-> IF e[1] \in seen /\ p[e[1]] = e[2] THEN 1 ELSE 0]
    BY DEF Init
  <1>2. \A e \in Entry : /\ e = <<e[1], e[2]>>
                         /\ queue[e] <= 1
                         /\ Queued(e) <=> e[1] \in seen /\ p[e[1]] = e[2]
    BY <1>1 DEF Entry, Queued
  <1>3. \A u \in Url : ~Carried(u) /\ ~Returned(u)
    BY DEF Init, Carried, Carries, Returned
  <1>4. \A w \in Worker, u \in Url : ~Carries(w, u)
    BY DEF Init, Carries
  <1>5. \A u \in seen : p[u] \in Priority /\ <<u, p[u]>> \in Entry
    BY DEF Init, Entry
  <1>6. \A u \in Url : u \in seen <=> Pending(u)
    BY <1>2, <1>5 DEF Pending
  <1>7. NothingLost
    BY <1>3, <1>6 DEF NothingLost
  <1>8. \A e, f \in Entry : Queued(e) /\ Queued(f) /\ e[1] = f[1] => e = f
    BY <1>2
  <1>9. NoSecondCopy
    BY <1>2, <1>3, <1>4, <1>8 DEF NoSecondCopy, Init
  <1> QED
    BY <1>7, <1>9 DEF ExactlyOnce

\* A step that moves no URL preserves the invariant.
LEMMA Unmoved ==
  ASSUME ExactlyOnce, UNCHANGED <<seen, queue, popped>>,
         \A w \in Worker, u \in Url : Carries(w, u)' = Carries(w, u)
  PROVE  ExactlyOnce'
  <1>1. \A u \in Url : Carried(u)' = Carried(u)
    BY DEF Carried
  <1>2. \A u \in Url : Pending(u)' = Pending(u) /\ Returned(u)' = Returned(u)
    BY DEF Pending, Queued, Returned
  <1>3. \A e \in Entry : Queued(e)' = Queued(e)
    BY DEF Queued
  <1> QED
    BY <1>1, <1>2, <1>3 DEF ExactlyOnce, NoSecondCopy, NothingLost

\* add() marks a URL as seen and carries it from then on.
LEMMA AddSeenExactlyOnce ==
  ASSUME Typed, ExactlyOnce, NEW w \in Worker, AddSeen(w)
  PROVE  ExactlyOnce'
  <1>1. PICK u \in Url \ seen : seen' = seen \cup {u} /\ url' = [url EXCEPT ![w] = u]
    BY DEF AddSeen
  <1>2. \A v \in Worker, x \in Url : Carries(v, x)' <=> Carries(v, x) \/ (v = w /\ x = u)
    BY <1>1 DEF AddSeen, Carries, Goto, Typed, TypeOK
  <1>3. \A x \in Url : Carried(x)' <=> Carried(x) \/ x = u
    BY <1>2 DEF Carried
  <1>4. \A x \in Url : Pending(x)' = Pending(x) /\ Returned(x)' = Returned(x)
    BY DEF AddSeen, Pending, Queued, Returned
  <1>5. \A e \in Entry : Queued(e)' = Queued(e) /\ queue'[e] = queue[e]
    BY DEF AddSeen, Queued
  <1>6. ~Carried(u) /\ ~Pending(u) /\ ~Returned(u)
    BY <1>1 DEF ExactlyOnce, NothingLost
  <1>7. \A v \in Worker : ~Carries(v, u)
    BY <1>6 DEF Carried
  <1>8. NothingLost'
    BY <1>1, <1>3, <1>4 DEF ExactlyOnce, NothingLost
  <1>9. \A x \in Url, v1, v2 \in Worker : Carries(v1, x)' /\ Carries(v2, x)' => v1 = v2
    BY <1>2, <1>7 DEF ExactlyOnce, NoSecondCopy
  <1>10. NoSecondCopy'
    BY <1>3, <1>4, <1>5, <1>6, <1>9 DEF ExactlyOnce, NoSecondCopy, AddSeen
  <1> QED
    BY <1>8, <1>10 DEF ExactlyOnce

\* It lays the URL down in the queue, where no other copy is.
LEMMA AddPushExactlyOnce ==
  ASSUME Typed, ExactlyOnce, NEW w \in Worker, AddPush(w)
  PROVE  ExactlyOnce'
  <1> DEFINE u == url[w]
  <1>1. u \in Url /\ Carries(w, u)
    BY DEF AddPush, Typed, HasUrl, Holding, Carries
  <1>2. PICK p \in Priority : queue' = [queue EXCEPT ![<<u, p>>] = @ + 1]
    BY DEF AddPush
  <1>3. <<u, p>> \in Entry
    BY <1>1 DEF Entry
  <1>4. \A v \in Worker, x \in Url : Carries(v, x)' <=> Carries(v, x) /\ v # w
    BY DEF AddPush, Carries, Goto, Typed, TypeOK
  <1>5. Carried(u) /\ ~Pending(u) /\ ~Returned(u)
    BY <1>1 DEF Carried, ExactlyOnce, NoSecondCopy
  <1>6. \A x \in Url : Carried(x)' <=> Carried(x) /\ x # u
    <2>1. \A x \in Url : Carries(w, x) => x = u
      BY DEF Carries
    <2>2. \A v \in Worker : Carries(v, u) => v = w
      BY <1>1 DEF ExactlyOnce, NoSecondCopy
    <2> HIDE DEF u
    <2> QED
      BY <1>4, <2>1, <2>2 DEF Carried
  <1>7. \A e \in Entry : ~(e[1] = u /\ Queued(e)) /\ (e[1] = u => queue[e] = 0)
    BY <1>5 DEF Pending, Queued, Typed, TypeOK
  <1>8. \A e \in Entry : queue'[e] = IF e = <<u, p>> THEN 1 ELSE queue[e]
    BY <1>2, <1>3, <1>7 DEF Typed, TypeOK
  <1> HIDE DEF u
  <1>9. \A e \in Entry : Queued(e)' <=> Queued(e) \/ e = <<u, p>>
    BY <1>8 DEF Queued
  <1>10. \A x \in Url : Pending(x)' <=> Pending(x) \/ x = u
    BY <1>3, <1>9 DEF Pending
  <1>11. \A x \in Url : Returned(x)' = Returned(x)
    BY DEF AddPush, Returned
  <1>12. NothingLost'
    BY <1>5, <1>6, <1>10, <1>11 DEF ExactlyOnce, NothingLost, AddPush
  <1>13. \A e \in Entry : queue'[e] <= 1
    BY <1>8 DEF ExactlyOnce, NoSecondCopy
  <1>14. \A e, f \in Entry : Queued(e)' /\ Queued(f)' /\ e[1] = f[1] => e = f
    BY <1>7, <1>9 DEF ExactlyOnce, NoSecondCopy
  <1>15. NoSecondCopy'
    BY <1>4, <1>5, <1>6, <1>10, <1>11, <1>13, <1>14
       DEF ExactlyOnce, NoSecondCopy, AddPush
  <1> QED
    BY <1>12, <1>15 DEF ExactlyOnce

\* pop() takes the only copy of a URL from the queue.
LEMMA PopTakeExactlyOnce ==
  ASSUME Typed, ExactlyOnce, NEW w \in Worker, PopTake(w)
  PROVE  ExactlyOnce'
  <1>1. PICK e \in Entry : /\ Queued(e)
                           /\ queue' = [queue EXCEPT ![e] = @ - 1]
                           /\ url' = [url EXCEPT ![w] = e[1]]
    BY DEF PopTake, IsTop
  <1> DEFINE u == e[1]
  <1>2. u \in Url /\ Pending(u)
    BY <1>1 DEF Entry, Pending
  <1>3. ~Carried(u) /\ ~Returned(u)
    BY <1>2 DEF ExactlyOnce, NoSecondCopy
  <1>4. queue[e] = 1
    BY <1>1 DEF Queued, ExactlyOnce, NoSecondCopy, Typed, TypeOK
  <1>5. \A f \in Entry : queue'[f] = IF f = e THEN 0 ELSE queue[f]
    BY <1>1, <1>4 DEF Typed, TypeOK
  <1>6. \A f \in Entry : Queued(f)' <=> Queued(f) /\ f # e
    BY <1>5 DEF Queued
  <1>7. \A v \in Worker, x \in Url : Carries(v, x)' <=> Carries(v, x) \/ (v = w /\ x = u)
    BY <1>1 DEF PopTake, Carries, Goto, Typed, TypeOK
  <1>8. \A f \in Entry : Queued(f) /\ f[1] = u => f = e
    BY <1>1 DEF ExactlyOnce, NoSecondCopy
  <1> HIDE DEF u
  <1>9. \A x \in Url : Pending(x)' <=> Pending(x) /\ x # u
    BY <1>6, <1>8 DEF Pending, u
  <1>10. \A x \in Url : Carried(x)' <=> Carried(x) \/ x = u
    BY <1>7 DEF Carried
  <1>11. \A x \in Url : Returned(x)' = Returned(x)
    BY DEF PopTake, Returned
  <1>12. NothingLost'
    BY <1>2, <1>9, <1>10, <1>11 DEF ExactlyOnce, NothingLost, PopTake
  <1>13. \A v \in Worker : ~Carries(v, u)
    BY <1>3 DEF Carried
  <1>14. \A x \in Url, v1, v2 \in Worker : Carries(v1, x)' /\ Carries(v2, x)' => v1 = v2
    BY <1>7, <1>13 DEF ExactlyOnce, NoSecondCopy
  <1>15. NoSecondCopy'
    BY <1>3, <1>5, <1>6, <1>9, <1>10, <1>11, <1>14
       DEF ExactlyOnce, NoSecondCopy, PopTake
  <1> QED
    BY <1>12, <1>15 DEF ExactlyOnce

\* It returns the URL, which it has not returned before.
LEMMA PopReturnExactlyOnce ==
  ASSUME Typed, ExactlyOnce, NEW w \in Worker, PopReturn(w)
  PROVE  ExactlyOnce'
  <1> DEFINE u == url[w]
  <1>1. u \in Url /\ Carries(w, u)
    BY DEF PopReturn, Typed, HasUrl, Holding, Carries
  <1>2. Carried(u) /\ ~Pending(u) /\ ~Returned(u)
    BY <1>1 DEF Carried, ExactlyOnce, NoSecondCopy
  <1>3. \A v \in Worker, x \in Url : Carries(v, x)' <=> Carries(v, x) /\ v # w
    BY DEF PopReturn, Carries, Goto, Typed, TypeOK
  <1>4. \A x \in Url : Carried(x)' <=> Carried(x) /\ x # u
    <2>1. \A x \in Url : Carries(w, x) => x = u
      BY DEF Carries
    <2>2. \A v \in Worker : Carries(v, u) => v = w
      BY <1>1 DEF ExactlyOnce, NoSecondCopy
    <2> HIDE DEF u
    <2> QED
      BY <1>3, <2>1, <2>2 DEF Carried
  <1>5. \A x \in Url : popped'[x] = IF x = u THEN 1 ELSE popped[x]
    BY <1>1, <1>2 DEF PopReturn, Returned, Typed, TypeOK
  <1> HIDE DEF u
  <1>6. \A x \in Url : Returned(x)' <=> Returned(x) \/ x = u
    BY <1>5 DEF Returned
  <1>7. \A x \in Url : Pending(x)' = Pending(x)
    BY DEF PopReturn, Pending, Queued
  <1>8. \A e \in Entry : Queued(e)' = Queued(e)
    BY DEF PopReturn, Queued
  <1>9. NothingLost'
    BY <1>2, <1>4, <1>6, <1>7 DEF ExactlyOnce, NothingLost, PopReturn
  <1>10. NoSecondCopy'
    BY <1>2, <1>3, <1>4, <1>5, <1>6, <1>7, <1>8
       DEF ExactlyOnce, NoSecondCopy, PopReturn
  <1> QED
    BY <1>9, <1>10 DEF ExactlyOnce

\* The other steps of a worker move no URL.
LEMMA WorkerExactlyOnce ==
  ASSUME Typed, ExactlyOnce, NEW w \in Worker,
         Proceed(w) \/ PopLock(w) \/ AddPush(w) \/ SpuriousWake(w)
  PROVE  ExactlyOnce'
  <1> DEFINE Stays == /\ UNCHANGED <<seen, queue, popped>>
                      /\ \A v \in Worker, u \in Url : Carries(v, u)' = Carries(v, u)
  <1>1. Stays => ExactlyOnce'
    BY Unmoved
  <1> USE DEF Carries, Goto, Typed, TypeOK
  <1>2. CASE Loop(w)
    <2>1. Stays
      BY <1>2 DEF Loop
    <2> QED
      BY <1>1, <2>1
  <1>3. CASE PopLock(w) \/ PopNull(w) \/ PopOpen(w) \/ PopBlock(w) \/ SpuriousWake(w)
    <2>1. Stays
      BY <1>3 DEF PopLock, PopNull, PopOpen, PopBlock, SpuriousWake
    <2> QED
      BY <1>1, <2>1
  <1>4. CASE ReadDelay(w) \/ ReadLastAccess(w)
    <2>1. Stays
      BY <1>4 DEF ReadDelay, ReadLastAccess
    <2> QED
      BY <1>1, <2>1
  <1>5. CASE Reject(w) \/ SetDomainDelay(w) \/ MarkDomainCrawled(w) \/ LinksDone(w)
    <2>1. Stays
      BY <1>5 DEF Reject, SetDomainDelay, MarkDomainCrawled, LinksDone
    <2> QED
      BY <1>1, <2>1
  <1>6. CASE AddNotify(w)
    <2>1. Stays
      BY <1>6 DEF AddNotify, At
    <2> QED
      BY <1>1, <2>1
  <1> QED
    BY <1>2, <1>3, <1>4, <1>5, <1>6, AddSeenExactlyOnce, AddPushExactlyOnce,
       PopTakeExactlyOnce, PopReturnExactlyOnce DEF Proceed

\* No step loses or copies a URL.
LEMMA NextExactlyOnce == IInv /\ [Next]_vars => ExactlyOnce'
  <1> SUFFICES ASSUME Typed, ExactlyOnce, [Next]_vars PROVE ExactlyOnce'
    BY DEF IInv
  <1>1. ASSUME NEW w \in Worker,
               Proceed(w) \/ PopLock(w) \/ AddPush(w) \/ SpuriousWake(w)
        PROVE  ExactlyOnce'
    BY <1>1, WorkerExactlyOnce
  <1>2. CASE ShutdownFlag \/ ShutdownNotifyAll \/ Tick \/ UNCHANGED vars
    <2>1. UNCHANGED <<seen, queue, popped>>
      BY <1>2 DEF ShutdownFlag, ShutdownNotifyAll, Tick, vars
    <2>2. \A v \in Worker, u \in Url : Carries(v, u)' = Carries(v, u)
      BY <1>2 DEF ShutdownFlag, ShutdownNotifyAll, Tick, vars, Carries, Typed, TypeOK
    <2> QED
      BY <2>1, <2>2, Unmoved
  <1> QED
    BY <1>1, <1>2, NextCases

\* Every URL that add() has accepted is, in every reachable state, in exactly
\* one place: on its way in, queued, on its way out, or returned once.
THEOREM DeliveredExactlyOnce == Spec => []ExactlyOnce
  <1>1. Init => IInv
    BY InitTyped, InitExactlyOnce DEF IInv
  <1>2. IInv /\ [Next]_vars => IInv'
    BY NextTyped, NextExactlyOnce DEF IInv
  <1>3. IInv => ExactlyOnce
    BY DEF IInv
  <1> QED
    BY <1>1, <1>2, <1>3, PTL DEF Spec

-----------------------------------------------------------------------------
(* The safety part of the promise: the frontier implements UrlDelivery.    *)

\* Each step of the frontier is a step of UrlDelivery: AddSeen accepts a URL,
\* PopReturn delivers one, ShutdownFlag stops, and all the others stutter.
LEMMA StepImplements ==
  IInv /\ [Next]_vars => [Promise!Next]_(Promise!vars)
  <1> SUFFICES ASSUME Typed, ExactlyOnce, [Next]_vars
               PROVE  [Promise!Next]_(Promise!vars)
    BY DEF IInv
  <1>1. ASSUME UNCHANGED <<seen, popped, shutdown>> PROVE UNCHANGED Promise!vars
    BY <1>1 DEF Promise!vars
  <1>2. ASSUME NEW w \in Worker, AddSeen(w) PROVE Promise!Next
    <2>1. PICK u \in Url \ seen : seen' = seen \cup {u}
      BY <1>2 DEF AddSeen
    <2>2. UNCHANGED <<popped, shutdown>>
      BY <1>2 DEF AddSeen
    <2>3. Promise!Accept(u)
      BY <2>1, <2>2 DEF Promise!Accept
    <2> QED
      BY <2>3 DEF Promise!Next
  <1>3. ASSUME NEW w \in Worker, PopReturn(w) PROVE Promise!Next
    <2> DEFINE u == url[w]
    <2>1. u \in Url /\ Carries(w, u)
      BY <1>3 DEF PopReturn, Typed, HasUrl, Holding, Carries
    <2>2. u \in seen /\ ~Returned(u)
      BY <2>1 DEF ExactlyOnce, NothingLost, NoSecondCopy, Carried
    <2>3. popped[u] = 0 /\ popped' = [popped EXCEPT ![u] = 1]
      <3>1. popped[u] = 0 /\ popped[u] + 1 = 1
        BY <2>1, <2>2 DEF Returned, Typed, TypeOK
      <3> QED
        BY <1>3, <3>1 DEF PopReturn
    <2> HIDE DEF u
    <2>4. UNCHANGED <<seen, shutdown>>
      BY <1>3 DEF PopReturn
    <2>5. Promise!Deliver(u)
      BY <2>2, <2>3, <2>4 DEF Promise!Deliver
    <2> QED
      BY <2>1, <2>5 DEF Promise!Next
  <1>4. CASE ShutdownFlag
    <2>1. Promise!Stop
      BY <1>4 DEF ShutdownFlag, Promise!Stop
    <2> QED
      BY <2>1 DEF Promise!Next
  <1>5. ASSUME NEW w \in Worker,
               Proceed(w) \/ PopLock(w) \/ AddPush(w) \/ SpuriousWake(w),
               ~AddSeen(w), ~PopReturn(w)
        PROVE  UNCHANGED <<seen, popped, shutdown>>
    BY <1>5 DEF Proceed, Loop, PopLock, PopNull, PopOpen, PopBlock, PopTake, SpuriousWake,
                ReadDelay, ReadLastAccess, Reject, SetDomainDelay, MarkDomainCrawled,
                AddPush, AddNotify, LinksDone
  <1>6. CASE ShutdownNotifyAll \/ Tick \/ UNCHANGED vars
    BY <1>6, <1>1 DEF ShutdownNotifyAll, Tick, vars
  <1> QED
    BY <1>1, <1>2, <1>3, <1>4, <1>5, <1>6, NextCases

\* The frontier accepts each URL once and delivers it at most once, as
\* UrlDelivery says.
THEOREM ImplementsDelivery == Spec => Promise!Init /\ [][Promise!Next]_(Promise!vars)
  <1>1. Init => IInv
    BY InitTyped, InitExactlyOnce DEF IInv
  <1>2. IInv /\ [Next]_vars => IInv'
    BY NextTyped, NextExactlyOnce DEF IInv
  <1>3. Init => Promise!Init
    BY DEF Init, Promise!Init
  <1> QED
    BY <1>1, <1>2, <1>3, StepImplements, PTL DEF Spec

-----------------------------------------------------------------------------
(* What is taken after shutdown.                                           *)

\* A worker inside the critical section of pop() holds queue_mutex_.
MutexHeld == \A w \in Worker : pc[w] \in {"held", "checked"} => mutex = w

\* queue_mutex_ excludes: preserved by every step.
LEMMA MutexPreserved == Typed /\ MutexHeld /\ [Next]_vars => MutexHeld'
  <1> SUFFICES ASSUME Typed, MutexHeld, [Next]_vars PROVE MutexHeld'
    OBVIOUS
  <1> USE FrontierAssumption DEF MutexHeld, Typed, TypeOK, Goto
  <1>1. ASSUME NEW w \in Worker,
               Loop(w) \/ PopLock(w) \/ PopNull(w) \/ PopOpen(w) \/ SpuriousWake(w)
        PROVE  MutexHeld'
    BY <1>1 DEF Loop, PopLock, PopNull, PopOpen, SpuriousWake
  <1>2. ASSUME NEW w \in Worker, PopBlock(w) \/ PopTake(w) PROVE MutexHeld'
    BY <1>2 DEF PopBlock, PopTake
  <1>3. ASSUME NEW w \in Worker, ReadDelay(w) \/ ReadLastAccess(w) \/ PopReturn(w)
        PROVE  MutexHeld'
    BY <1>3 DEF ReadDelay, ReadLastAccess, PopReturn
  <1>4. ASSUME NEW w \in Worker, Reject(w) \/ SetDomainDelay(w) \/ MarkDomainCrawled(w)
        PROVE  MutexHeld'
    BY <1>4 DEF Reject, SetDomainDelay, MarkDomainCrawled
  <1>5. ASSUME NEW w \in Worker, AddSeen(w) \/ AddPush(w) \/ AddNotify(w) \/ LinksDone(w)
        PROVE  MutexHeld'
    BY <1>5 DEF AddSeen, AddPush, AddNotify, LinksDone, At
  <1>6. CASE ShutdownFlag \/ ShutdownNotifyAll \/ Tick \/ UNCHANGED vars
    BY <1>6 DEF ShutdownFlag, ShutdownNotifyAll, Tick, vars
  <1> QED
    BY <1>1, <1>2, <1>3, <1>4, <1>5, <1>6, NextCases DEF Proceed

\* With shutdown_ set nobody gets past the check, and the one who was past it
\* leaves nobody behind when it takes its URL.
LEMMA StepTaken == Typed /\ MutexHeld /\ [Next]_vars => TakenAfterShutdown
  <1> SUFFICES ASSUME Typed, MutexHeld, [Next]_vars, shutdown PROVE TakenAfterShutdown
    BY DEF TakenAfterShutdown
  <1> USE DEF TakenAfterShutdown, At, Typed, TypeOK, Goto
  <1>1. ASSUME NEW w \in Worker, PopTake(w) PROVE TakenAfterShutdown
    BY <1>1, FrontierAssumption DEF PopTake, MutexHeld
  <1>2. ASSUME NEW w \in Worker, PopOpen(w) PROVE TakenAfterShutdown
    BY <1>2 DEF PopOpen
  <1>3. ASSUME NEW w \in Worker, AddPush(w) PROVE TakenAfterShutdown
    BY <1>3 DEF AddPush
  <1>4. ASSUME NEW w \in Worker,
               Proceed(w) \/ PopLock(w) \/ SpuriousWake(w),
               ~PopTake(w), ~PopOpen(w)
        PROVE  queue' = queue /\ At("checked")' \subseteq At("checked")
    <2>1. CASE Loop(w) \/ PopLock(w) \/ PopNull(w) \/ PopBlock(w) \/ SpuriousWake(w)
      BY <2>1 DEF Loop, PopLock, PopNull, PopBlock, SpuriousWake
    <2>2. CASE ReadDelay(w) \/ ReadLastAccess(w) \/ PopReturn(w)
      BY <2>2 DEF ReadDelay, ReadLastAccess, PopReturn
    <2>3. CASE Reject(w) \/ SetDomainDelay(w) \/ MarkDomainCrawled(w)
      BY <2>3 DEF Reject, SetDomainDelay, MarkDomainCrawled
    <2>4. CASE AddSeen(w) \/ AddNotify(w) \/ LinksDone(w)
      BY <2>4 DEF AddSeen, AddNotify, LinksDone
    <2> QED
      BY <1>4, <2>1, <2>2, <2>3, <2>4 DEF Proceed
  <1>5. CASE ShutdownFlag \/ ShutdownNotifyAll \/ Tick \/ UNCHANGED vars
    BY <1>5 DEF ShutdownFlag, ShutdownNotifyAll, Tick, vars
  <1> QED
    BY <1>1, <1>2, <1>3, <1>4, <1>5, NextCases

\* After shutdown_ is set, at most one URL still leaves the queue.
THEOREM AtMostOneTaken == Spec => AtMostOneTakenAfterShutdown
  <1>1. Init => Typed /\ MutexHeld
    BY InitTyped DEF Init, MutexHeld
  <1>2. Typed /\ MutexHeld /\ [Next]_vars => (Typed /\ MutexHeld)'
    BY NextTyped, MutexPreserved
  <1>3. Typed /\ MutexHeld /\ [Next]_vars => [TakenAfterShutdown]_vars
    BY StepTaken
  <1> QED
    BY <1>1, <1>2, <1>3, PTL DEF Spec, AtMostOneTakenAfterShutdown

-----------------------------------------------------------------------------
(* No wake-up is lost: while a worker is blocked, every queued URL has an  *)
(* attentive worker.                                                       *)

Waiting == {e \in Entry : Queued(e)}

\* There are finitely many entries and workers, so sets of them can be counted.
LEMMA Countable ==
  ASSUME NEW S, S \subseteq Entry \/ S \subseteq Worker
  PROVE  IsFiniteSet(S) /\ Cardinality(S) \in Nat
  <1>1. IsFiniteSet(Entry)
    BY FiniteAssumption, FS_Product DEF Entry
  <1>2. IsFiniteSet(S)
    BY <1>1, FiniteAssumption, FS_Subset
  <1> QED
    BY <1>2, FS_CardinalityType

\* Entries are queued, and workers attentive, among finitely many.
LEMMA Counted ==
  /\ Waiting \subseteq Entry /\ Attentive \subseteq Worker
  /\ Waiting' \subseteq Entry /\ Attentive' \subseteq Worker
  BY DEF Waiting, Attentive, At

\* A step that queues nothing and after which every attentive worker still is.
LEMMA StillAttentive ==
  ASSUME NoStrandedUrl, queue' = queue, Attentive \subseteq Attentive',
         ~shutdown' => ~shutdown /\ At("blocked") # {}
  PROVE  NoStrandedUrl'
  <1> SUFFICES ASSUME ~shutdown' PROVE Cardinality(Waiting') <= Cardinality(Attentive')
    BY DEF NoStrandedUrl, Waiting
  <1>1. Cardinality(Waiting) <= Cardinality(Attentive)
    BY DEF NoStrandedUrl, Waiting
  <1>2. Waiting' = Waiting
    BY DEF Waiting, Queued
  <1>3. /\ Cardinality(Waiting) \in Nat
        /\ Cardinality(Attentive) \in Nat /\ Cardinality(Attentive') \in Nat
        /\ IsFiniteSet(Attentive')
    BY Counted, Countable
  <1>4. Cardinality(Attentive) <= Cardinality(Attentive')
    BY <1>3, FS_Subset
  <1> QED
    BY <1>1, <1>2, <1>3, <1>4

\* A step that takes one URL from the queue and leaves one worker inattentive.
LEMMA OneForOne ==
  ASSUME NoStrandedUrl, NEW w \in Attentive, NEW e \in Waiting,
         Waiting' = Waiting \ {e}, Attentive' = Attentive \ {w},
         ~shutdown' => ~shutdown, At("blocked")' = At("blocked")
  PROVE  NoStrandedUrl'
  <1> SUFFICES ASSUME ~shutdown', At("blocked")' # {}
               PROVE  Cardinality(Waiting') <= Cardinality(Attentive')
    BY DEF NoStrandedUrl, Waiting
  <1>1. Cardinality(Waiting) <= Cardinality(Attentive)
    BY DEF NoStrandedUrl, Waiting
  <1>2. /\ IsFiniteSet(Waiting) /\ IsFiniteSet(Attentive)
        /\ Cardinality(Waiting) \in Nat /\ Cardinality(Attentive) \in Nat
    BY Counted, Countable
  <1>3. /\ Cardinality(Waiting \ {e}) = Cardinality(Waiting) - 1
        /\ Cardinality(Attentive \ {w}) = Cardinality(Attentive) - 1
    BY <1>2, FS_RemoveElement
  <1> QED
    BY <1>1, <1>2, <1>3

\* pop() takes a URL, which is no longer queued since there was one copy only.
LEMMA TakeStrandsNone ==
  ASSUME Typed, ExactlyOnce, NoStrandedUrl, NEW w \in Worker, PopTake(w)
  PROVE  NoStrandedUrl'
  <1>1. PICK e \in Entry : Queued(e) /\ queue' = [queue EXCEPT ![e] = @ - 1]
    BY DEF PopTake, IsTop
  <1>2. queue[e] = 1
    BY <1>1 DEF Queued, ExactlyOnce, NoSecondCopy, Typed, TypeOK
  <1>3. e \in Waiting /\ Waiting' = Waiting \ {e}
    BY <1>1, <1>2 DEF Waiting, Queued, Typed, TypeOK
  <1>4. w \in Attentive /\ Attentive' = Attentive \ {w}
    BY DEF PopTake, Attentive, At, Goto, Typed, TypeOK
  <1>5. At("blocked")' = At("blocked") /\ shutdown' = shutdown
    BY DEF PopTake, At, Goto, Typed, TypeOK
  <1> QED
    BY <1>3, <1>4, <1>5, OneForOne

\* add() queues one URL, and is attentive until it has notified.
LEMMA PushStrandsNone ==
  ASSUME Typed, NoStrandedUrl, NEW w \in Worker, AddPush(w)
  PROVE  NoStrandedUrl'
  <1>1. PICK p \in Priority : queue' = [queue EXCEPT ![<<url[w], p>>] = @ + 1]
    BY DEF AddPush
  <1>2. Waiting' = Waiting \cup {<<url[w], p>>}
    <2>1. <<url[w], p>> \in Entry
      BY DEF AddPush, Typed, HasUrl, Holding, Entry
    <2>2. \A e \in Entry : Queued(e)' <=> Queued(e) \/ e = <<url[w], p>>
      BY <1>1, <2>1 DEF Queued, Typed, TypeOK
    <2> QED
      BY <2>1, <2>2 DEF Waiting
  <1>3. w \notin Attentive /\ Attentive' = Attentive \cup {w}
    BY DEF AddPush, Attentive, At, Goto, Typed, TypeOK
  <1>4. At("blocked")' = At("blocked") /\ shutdown' = shutdown
    BY DEF AddPush, At, Goto, Typed, TypeOK
  <1>5. /\ IsFiniteSet(Waiting) /\ IsFiniteSet(Attentive)
        /\ Cardinality(Waiting) \in Nat /\ Cardinality(Attentive) \in Nat
    BY Counted, Countable
  <1>6. /\ Cardinality(Waiting') <= Cardinality(Waiting) + 1
        /\ Cardinality(Attentive') = Cardinality(Attentive) + 1
    <2>1. Cardinality(Waiting \cup {<<url[w], p>>})
            = IF <<url[w], p>> \in Waiting THEN Cardinality(Waiting)
                                           ELSE Cardinality(Waiting) + 1
      BY <1>5, FS_AddElement
    <2>2. Cardinality(Attentive \cup {w}) = Cardinality(Attentive) + 1
      BY <1>3, <1>5, FS_AddElement
    <2> QED
      BY <1>2, <1>3, <1>5, <2>1, <2>2
  <1>7. Cardinality(Waiting') \in Nat
    BY Counted, Countable
  <1> QED
    BY <1>4, <1>5, <1>6, <1>7 DEF NoStrandedUrl, Waiting

\* notify_one makes a blocked worker attentive in place of the notifier; if
\* none is blocked, there is nobody to be woken.
LEMMA NotifyStrandsNone ==
  ASSUME Typed, NoStrandedUrl, NEW w \in Worker, AddNotify(w)
  PROVE  NoStrandedUrl'
  <1>1. CASE At("blocked") = {} /\ Goto(w, "links")
    <2>1. At("blocked")' = {}
      BY <1>1 DEF At, Goto, Typed, TypeOK
    <2> QED
      BY <2>1 DEF NoStrandedUrl
  <1>2. ASSUME NEW b \in At("blocked"), pc' = [pc EXCEPT ![w] = "links", ![b] = "lock"]
        PROVE  NoStrandedUrl'
    <2>1. /\ pc[w] = "notify" /\ pc[b] = "blocked" /\ b \in Worker /\ w # b
          /\ shutdown' = shutdown /\ queue' = queue
      BY <1>2 DEF AddNotify, At
    <2>2. /\ w \in Attentive /\ b \notin Attentive
          /\ Attentive' = (Attentive \ {w}) \cup {b}
      BY <1>2, <2>1 DEF Attentive, At, Typed, TypeOK
    <2>3. IsFiniteSet(Attentive) /\ Cardinality(Attentive) \in Nat
      BY Counted, Countable
    <2>4. /\ IsFiniteSet(Attentive \ {w})
          /\ Cardinality(Attentive \ {w}) = Cardinality(Attentive) - 1
      BY <2>2, <2>3, FS_RemoveElement
    <2>5. Cardinality(Attentive') = Cardinality(Attentive)
      <3> DEFINE Others == Attentive \ {w}
      <3>1. b \notin Others
        BY <2>2
      <3>2. IsFiniteSet(Others)
        BY <2>4
      <3> HIDE DEF Others
      <3>3. Cardinality(Others \cup {b}) = Cardinality(Others) + 1
        BY <3>1, <3>2, FS_AddElement
      <3> QED
        BY <2>2, <2>3, <2>4, <3>3 DEF Others
    <2>6. Waiting' = Waiting
      BY <2>1 DEF Waiting, Queued
    <2> QED
      BY <1>2, <2>1, <2>5, <2>6 DEF NoStrandedUrl, Waiting
  <1> QED
    BY <1>1, <1>2 DEF AddNotify

\* pop() blocks only while nothing is queued.
LEMMA BlockStrandsNone ==
  ASSUME Typed, NEW w \in Worker, PopBlock(w)
  PROVE  NoStrandedUrl'
  <1>1. Waiting' = {}
    BY DEF PopBlock, QueueEmpty, Waiting, Queued
  <1>2. Cardinality(Waiting') = 0
    BY <1>1, FS_EmptySet
  <1>3. Cardinality(Attentive') \in Nat
    BY Counted, Countable
  <1> QED
    BY <1>2, <1>3 DEF NoStrandedUrl, Waiting

\* The other steps of a worker queue nothing and keep the attentive ones so.
LEMMA WorkerStrandsNone ==
  ASSUME Typed, ExactlyOnce, NoStrandedUrl, NEW w \in Worker,
         Proceed(w) \/ PopLock(w) \/ AddPush(w) \/ SpuriousWake(w)
  PROVE  NoStrandedUrl'
  <1> DEFINE Stays == /\ queue' = queue /\ Attentive \subseteq Attentive'
                      /\ ~shutdown' => ~shutdown
                      /\ At("blocked")' \subseteq At("blocked")
  <1>1. Stays => NoStrandedUrl'
    <2>1. CASE At("blocked") = {}
      BY <2>1 DEF NoStrandedUrl
    <2>2. CASE At("blocked") # {}
      BY <2>2, StillAttentive
    <2> QED
      BY <2>1, <2>2
  <1> USE DEF Attentive, At, Goto, Typed, TypeOK
  <1>2. CASE Loop(w) \/ PopLock(w) \/ PopOpen(w) \/ SpuriousWake(w)
    <2>1. Stays
      BY <1>2 DEF Loop, PopLock, PopOpen, SpuriousWake
    <2> QED
      BY <1>1, <2>1
  <1>3. CASE PopNull(w)
    BY <1>3 DEF PopNull, NoStrandedUrl
  <1>4. CASE ReadDelay(w) \/ ReadLastAccess(w) \/ PopReturn(w)
    <2>1. Stays
      BY <1>4 DEF ReadDelay, ReadLastAccess, PopReturn
    <2> QED
      BY <1>1, <2>1
  <1>5. CASE Reject(w) \/ SetDomainDelay(w) \/ MarkDomainCrawled(w)
    <2>1. Stays
      BY <1>5 DEF Reject, SetDomainDelay, MarkDomainCrawled
    <2> QED
      BY <1>1, <2>1
  <1>6. CASE AddSeen(w) \/ LinksDone(w)
    <2>1. Stays
      BY <1>6 DEF AddSeen, LinksDone
    <2> QED
      BY <1>1, <2>1
  <1> QED
    BY <1>2, <1>3, <1>4, <1>5, <1>6, TakeStrandsNone, PushStrandsNone,
       NotifyStrandsNone, BlockStrandsNone DEF Proceed

\* No step strands a URL.
LEMMA NextStrandsNone == IInv /\ NoStrandedUrl /\ [Next]_vars => NoStrandedUrl'
  <1> SUFFICES ASSUME Typed, ExactlyOnce, NoStrandedUrl, [Next]_vars
               PROVE  NoStrandedUrl'
    BY DEF IInv
  <1>1. ASSUME NEW w \in Worker,
               Proceed(w) \/ PopLock(w) \/ AddPush(w) \/ SpuriousWake(w)
        PROVE  NoStrandedUrl'
    BY <1>1, WorkerStrandsNone
  <1>2. CASE ShutdownFlag
    BY <1>2 DEF ShutdownFlag, NoStrandedUrl
  <1>3. CASE ShutdownNotifyAll
    <2>1. At("blocked")' = {}
      BY <1>3 DEF ShutdownNotifyAll, At
    <2> QED
      BY <2>1 DEF NoStrandedUrl
  <1>4. CASE Tick \/ UNCHANGED vars
    BY <1>4 DEF Tick, vars, NoStrandedUrl, Queued, Attentive, At
  <1> QED
    BY <1>1, <1>2, <1>3, <1>4, NextCases

\* As long as a worker is blocked, every queued URL has a worker that will
\* look at the queue or wake one: no wake-up is lost between add() and pop().
THEOREM NoWakeUpLost == Spec => []NoStrandedUrl
  <1>1. Init => IInv /\ NoStrandedUrl
    <2>1. Init => NoStrandedUrl
      BY DEF Init, NoStrandedUrl, At
    <2> QED
      BY <2>1, InitTyped, InitExactlyOnce DEF IInv
  <1>2. IInv /\ NoStrandedUrl /\ [Next]_vars => (IInv /\ NoStrandedUrl)'
    BY NextTyped, NextExactlyOnce, NextStrandsNone DEF IInv
  <1> QED
    BY <1>1, <1>2, PTL DEF Spec
=============================================================================
