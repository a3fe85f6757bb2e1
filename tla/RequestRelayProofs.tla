------------------------- MODULE RequestRelayProofs -------------------------
(* Proofs about RequestRelay, for any number of requests, devices, links   *)
(* and sequence numbers.                                                   *)
EXTENDS RequestRelay, TLAPS

(* Type correctness needs that a handler knows its key and a registered    *)
(* stream its device.                                                      *)
TypeInv ==
  /\ TypeOK
  /\ \A r \in Requests : pc[r] # "unsent" => key[r] \in Keys
  /\ \A l \in Links : linkpc[l] = "new" <=> did[l] = None

(* The initial state has its types. *)
LEMMA InitTypeInv == Init => TypeInv
BY ConstantsAssumption DEF Init, TypeInv, TypeOK, PCs, LinkPCs

(* Every step of the relay keeps the types. *)
LEMMA NextTypeInv == TypeInv /\ [Next]_vars => TypeInv'
<1> SUFFICES ASSUME TypeInv, [Next]_vars PROVE TypeInv'
  OBVIOUS
<1> USE ConstantsAssumption DEF TypeInv, TypeOK, PCs, LinkPCs, Goto, requestVars,
        inflightVars, linkVars, channelVars, Responses, Answers, Device
<1>1. ASSUME NEW r \in Requests, NEW k \in Keys, Receive(r, k) PROVE TypeInv'
  BY <1>1 DEF Receive
<1>2. ASSUME NEW r \in Requests, CacheGet(r) PROVE TypeInv'
  BY <1>2 DEF CacheGet
<1>3. ASSUME NEW r \in Requests, JoinInflight(r) PROVE TypeInv'
  BY <1>3 DEF JoinInflight
<1>4. ASSUME NEW r \in Requests, CreateInflight(r) PROVE TypeInv'
  BY <1>4 DEF CreateInflight
<1>5. ASSUME NEW r \in Requests, SessionMissing(r) PROVE TypeInv'
  BY <1>5 DEF SessionMissing, TakeAndComplete, Complete
<1>6. ASSUME NEW r \in Requests, SessionFound(r) PROVE TypeInv'
  BY <1>6 DEF SessionFound, Keys
<1>7. ASSUME NEW r \in Requests, BandwidthExceeded(r) PROVE TypeInv'
  BY <1>7 DEF BandwidthExceeded
<1>8. ASSUME NEW r \in Requests, Forward(r) PROVE TypeInv'
  BY <1>8 DEF Forward
<1>9. ASSUME NEW r \in Requests, ForwardFailed(r) PROVE TypeInv'
  BY <1>9 DEF ForwardFailed, TakeAndComplete, Complete
<1>10. ASSUME NEW r \in Requests, Abandon(r) PROVE TypeInv'
  BY <1>10 DEF Abandon, Finish
<1>11. ASSUME NEW r \in Requests, CacheInsert(r) PROVE TypeInv'
  BY <1>11 DEF CacheInsert
<1>12. ASSUME NEW r \in Requests, Reply(r) PROVE TypeInv'
  BY <1>12 DEF Reply, Finish
<1>13. ASSUME NEW r \in Requests, Timeout(r) PROVE TypeInv'
  BY Zenon, <1>13 DEF Timeout, TakeAndComplete, Complete
<1>14. ASSUME NEW k \in Keys, CacheExpire(k) PROVE TypeInv'
  BY <1>14 DEF CacheExpire
<1>15. ASSUME NEW l \in Links, NEW d \in Devices, Register(l, d) PROVE TypeInv'
  BY <1>15 DEF Register
<1>16. ASSUME NEW l \in Links, NEW d \in Devices, RegisterRefused(l, d) PROVE TypeInv'
  BY <1>16 DEF RegisterRefused
<1>17. ASSUME NEW l \in Links, NEW r \in Requests, Execute(l, r) PROVE TypeInv'
  BY <1>17 DEF Execute
<1>18. ASSUME NEW l \in Links, NEW r \in Requests, DataResponse(l, r) PROVE TypeInv'
  BY Zenon, <1>18 DEF DataResponse, TakeAndComplete, Complete
<1>19. ASSUME NEW l \in Links, Disconnect(l) PROVE TypeInv'
  BY <1>19 DEF Disconnect
<1>20. ASSUME NEW l \in Links, StreamEnd(l) PROVE TypeInv'
  BY Zenon, <1>20 DEF StreamEnd
<1>21. ASSUME NEW l \in Links, NEW q \in Seqs, SweepInflight(l, q) PROVE TypeInv'
  BY <1>21 DEF SweepInflight, Keys
<1>22. ASSUME NEW l \in Links, CompleteTaken(l) PROVE TypeInv'
  BY <1>22 DEF CompleteTaken, Complete
<1>23. ASSUME NEW l \in Links, CheckSession(l) PROVE TypeInv'
  BY <1>23 DEF CheckSession
<1>24. ASSUME NEW l \in Links, RemoveSession(l) PROVE TypeInv'
  BY <1>24 DEF RemoveSession
<1>25. CASE UNCHANGED vars
  BY <1>25 DEF vars
<1> QED
  BY Zenon, <1>1, <1>2, <1>3, <1>4, <1>5, <1>6, <1>7, <1>8, <1>9, <1>10, <1>11, <1>12,
     <1>13, <1>14, <1>15, <1>16, <1>17, <1>18, <1>19, <1>20, <1>21, <1>22, <1>23,
     <1>24, <1>25
     DEF Next, HandlerStep, TeardownStep

(* Type correctness of RequestRelay, and that handlers always know the key *)
(* they work on.                                                           *)
THEOREM TypeCorrect == Spec => []TypeInv
BY InitTypeInv, NextTypeInv, PTL DEF Spec

-----------------------------------------------------------------------------
(* The in-flight table.  A step that neither touches the table and its     *)
(* waiters nor lets a handler start or stop waiting keeps InflightInv;     *)
(* the others take an entry and complete it, add a waiter, or move an      *)
(* entry to a teardown.                                                    *)

(* The initial state satisfies the in-flight invariant. *)
LEMMA InitInflightInv == Init => InflightInv
BY DEF Init, InflightInv, WaitersInv, EntryHasTimer, NoLostWaiter, Awaiting

(* Taking the entry of a key and completing it loses no waiter: whoever is *)
(* dropped from a list of waiters has got the response.                    *)
LEMMA TakeKeepsWaiters ==
  ASSUME TypeInv, InflightInv, NEW k, NEW response \in Responses,
         TakeAndComplete(k, response),
         NEW r \in Requests, Awaiting(r), rx'[r] = None, key' = key,
         taken' = taken, linkpc' = linkpc
  PROVE  \E a \in Requests :
           /\ r \in waiters'[a]
           /\ \/ inflight_by_sequence'[key'[r]] = a
              \/ \E l \in Links : a \in taken'[l] /\ linkpc'[l] = "sweep"
<1>1. PICK a \in Requests :
        /\ r \in waiters[a]
        /\ \/ inflight_by_sequence[key[r]] = a
           \/ \E l \in Links : a \in taken[l] /\ linkpc[l] = "sweep"
  BY DEF InflightInv, NoLostWaiter
<1>2. pc[r] # "done" /\ key[r] \in Keys
  BY DEF Awaiting, TypeInv
<1>3. response # None
  BY ConstantsAssumption DEF Responses
<1>4. a # inflight_by_sequence[k] \/ a = None
  <2> SUFFICES ASSUME a = inflight_by_sequence[k], a # None PROVE FALSE
    OBVIOUS
  <2>1. rx'[r] = response
    BY <1>1, <1>2 DEF TakeAndComplete, Complete
  <2> QED
    BY <2>1, <1>3
<1>5. a # None /\ r \in waiters'[a]
  BY Zenon, <1>1, <1>4, ConstantsAssumption DEF TakeAndComplete, Complete, TypeInv, TypeOK
<1>6. CASE inflight_by_sequence[key[r]] = a
  <2>1. key[r] # k
    BY <1>4, <1>5, <1>6
  <2>2. inflight_by_sequence'[key[r]] = a
    BY <2>1, <1>2, <1>6 DEF TakeAndComplete, TypeInv, TypeOK
  <2> QED
    BY <2>2, <1>5
<1>7. CASE \E l \in Links : a \in taken[l] /\ linkpc[l] = "sweep"
  BY <1>5, <1>7
<1> QED
  BY <1>1, <1>6, <1>7

(* So a step that takes and completes an entry keeps the invariant, if it  *)
(* makes no handler wait.                                                  *)
LEMMA TakeKeepsInflight ==
  ASSUME TypeInv, TypeInv', InflightInv, NEW k, NEW response \in Responses,
         TakeAndComplete(k, response), key' = key, taken' = taken,
         linkpc' = linkpc,
         \A r \in Requests : \/ pc'[r] = pc[r]
                             \/ pc[r] \in {"session", "send"} /\ pc'[r] = "abandon",
         \A r \in Requests : \/ timer'[r] = timer[r]
                             \/ timer[r] = "armed" /\ timer'[r] = "fired" /\ key[r] = k
  PROVE  InflightInv'
<1>1. WaitersInv'
  <2>1. \A a \in Requests : waiters'[a] = {} \/ waiters'[a] = waiters[a]
    BY DEF TakeAndComplete, Complete
  <2>2. \A r \in Requests : /\ pc'[r] # "unsent" => pc[r] # "unsent"
                            /\ pc'[r] \in {"unsent", "lookup", "ensure"} <=>
                               pc[r] \in {"unsent", "lookup", "ensure"}
    OBVIOUS
  <2>3. \A r \in Requests : timer[r] = "none" <=> timer'[r] = "none"
    OBVIOUS
  <2> QED
    BY <2>1, <2>2, <2>3 DEF InflightInv, WaitersInv
<1>2. EntryHasTimer'
  <2> SUFFICES ASSUME NEW j \in Keys, inflight_by_sequence'[j] # None
               PROVE  /\ timer'[inflight_by_sequence'[j]] = "armed"
                      /\ key'[inflight_by_sequence'[j]] = j
    BY DEF EntryHasTimer
  <2>1. j # k /\ inflight_by_sequence'[j] = inflight_by_sequence[j]
    BY DEF TakeAndComplete, TypeInv, TypeOK
  <2>2. inflight_by_sequence[j] \in Requests
    <3>1. inflight_by_sequence \in [Keys -> Requests \cup {None}]
      BY Zenon DEF TypeInv, TypeOK
    <3> QED
      BY Zenon, <3>1, <2>1
  <2> QED
    BY <2>1, <2>2 DEF InflightInv, EntryHasTimer
<1>3. NoLostWaiter'
  <2> SUFFICES ASSUME NEW r \in Requests, Awaiting(r)'
               PROVE  \E a \in Requests :
                        /\ r \in waiters'[a]
                        /\ \/ inflight_by_sequence'[key'[r]] = a
                           \/ \E l \in Links : a \in taken'[l] /\ linkpc'[l] = "sweep"
    BY DEF NoLostWaiter
  <2>1. rx'[r] = None /\ pc[r] \in {"session", "send", "wait"}
    BY Zenon DEF Awaiting
  <2>2. rx[r] = None
    <3>1. None # response
      BY Zenon, ConstantsAssumption DEF Responses
    <3>2. rx'[r] \in {rx[r], response}
      BY DEF TakeAndComplete, Complete
    <3> QED
      BY Zenon, <3>1, <3>2, <2>1
  <2> QED
    BY Zenon, <2>1, <2>2, TakeKeepsWaiters DEF Awaiting
<1> QED
  BY <1>1, <1>2, <1>3 DEF InflightInv

(* Every step of the relay keeps the in-flight invariant. *)
LEMMA NextInflightInv == TypeInv /\ TypeInv' /\ InflightInv /\ [Next]_vars => InflightInv'
<1>s. SUFFICES ASSUME TypeInv, TypeInv', InflightInv, [Next]_vars PROVE InflightInv'
  OBVIOUS
<1> USE DEF requestVars, inflightVars, linkVars, channelVars
<1>t. /\ pc \in [Requests -> PCs] /\ key \in [Requests -> Keys \cup {None}]
      /\ inflight_by_sequence \in [Keys -> Requests \cup {None}]
      /\ waiters \in [Requests -> SUBSET Requests]
      /\ timer \in [Requests -> {"none", "armed", "fired"}]
      /\ rx \in [Requests -> Responses \cup {None}]
      /\ linkpc \in [Links -> LinkPCs] /\ taken \in [Links -> SUBSET Requests]
  BY Zenon, <1>s DEF TypeInv, TypeOK
<1>i. WaitersInv /\ EntryHasTimer /\ NoLostWaiter
  BY <1>s DEF InflightInv
<1>e. \A k \in Keys : inflight_by_sequence[k] # None => inflight_by_sequence[k] \in Requests
  BY Zenon, <1>t
<1> DEFINE Benign ==
         /\ UNCHANGED <<key, inflightVars, taken>>
         /\ \A l \in Links : linkpc[l] = "sweep" => linkpc'[l] = "sweep"
         /\ \A r \in Requests :
              \/ pc'[r] = pc[r] /\ rx'[r] = rx[r]
              \/ /\ pc[r] \in {"session", "send", "wait"} /\ rx'[r] = rx[r]
                 /\ pc'[r] \in {"send", "wait", "reply", "abandon"}
              \/ pc[r] = "lookup" /\ pc'[r] \in {"ensure", "reply"}
              \/ pc'[r] = "done" /\ pc[r] \in {"wait", "reply", "abandon"}
<1>a. ASSUME Benign PROVE InflightInv'
  <2>1. /\ key' = key /\ waiters' = waiters /\ timer' = timer /\ taken' = taken
        /\ inflight_by_sequence' = inflight_by_sequence
        /\ \A l \in Links : linkpc[l] = "sweep" => linkpc'[l] = "sweep"
    BY Zenon, <1>a
  <2>2. \A r \in Requests :
          /\ pc'[r] # "unsent" => pc[r] # "unsent"
          /\ pc'[r] \in {"unsent", "lookup", "ensure"} =>
               pc[r] \in {"unsent", "lookup", "ensure"}
          /\ pc[r] \notin {"unsent", "lookup", "ensure"} =>
               pc'[r] \notin {"unsent", "lookup", "ensure"}
    BY <1>a
  <2>3. \A r \in Requests : Awaiting(r)' => Awaiting(r)
    BY Zenon, <1>a DEF Awaiting
  <2> HIDE DEF Benign
  <2>4. WaitersInv'
    BY ZenonT(40), <1>i, <2>1, <2>2 DEF WaitersInv
  <2>5. EntryHasTimer'
    BY Zenon, <1>i, <2>1 DEF EntryHasTimer
  <2>6. NoLostWaiter'
    <3> SUFFICES ASSUME NEW r \in Requests, Awaiting(r)
                 PROVE  \E a \in Requests :
                          /\ r \in waiters'[a]
                          /\ \/ inflight_by_sequence'[key'[r]] = a
                             \/ \E l \in Links : a \in taken'[l] /\ linkpc'[l] = "sweep"
      BY Zenon, <2>3 DEF NoLostWaiter
    <3> QED
      BY Zenon, <1>i, <2>1 DEF NoLostWaiter
  <2> QED
    BY Zenon, <2>4, <2>5, <2>6 DEF InflightInv
<1>1. ASSUME NEW r \in Requests, NEW k \in Keys, Receive(r, k) PROVE InflightInv'
  <2>1. /\ pc[r] = "unsent" /\ pc'[r] = "lookup" /\ key'[r] = k
        /\ \A w \in Requests : w # r => key'[w] = key[w] /\ pc'[w] = pc[w]
        /\ UNCHANGED <<inflight_by_sequence, waiters, timer, rx, taken, linkpc>>
    BY Zenon, <1>t, <1>1 DEF Receive, Goto
  <2>2. timer[r] = "none" /\ waiters[r] = {}
    BY Zenon, <1>i, <2>1 DEF WaitersInv
  <2>3. WaitersInv'
    BY <1>i, <2>1, <2>2 DEF WaitersInv
  <2>4. EntryHasTimer'
    BY ZenonT(40), <1>i, <2>1, <2>2, <1>e DEF EntryHasTimer
  <2>5. NoLostWaiter'
    BY <1>i, <2>1 DEF NoLostWaiter, Awaiting
  <2> QED
    BY Zenon, <2>3, <2>4, <2>5 DEF InflightInv
<1>2. ASSUME NEW r \in Requests, CacheGet(r) PROVE InflightInv'
  BY Zenon, <1>t, <1>2, <1>a DEF CacheGet, Goto
<1>3. ASSUME NEW r \in Requests, SessionFound(r) PROVE InflightInv'
  BY Zenon, <1>t, <1>3, <1>a DEF SessionFound, Goto
<1>4. ASSUME NEW r \in Requests, BandwidthExceeded(r) PROVE InflightInv'
  BY Zenon, <1>t, <1>4, <1>a DEF BandwidthExceeded, Goto
<1>5. ASSUME NEW r \in Requests, Forward(r) PROVE InflightInv'
  BY Zenon, <1>t, <1>5, <1>a DEF Forward, Goto
<1>6. ASSUME NEW r \in Requests, Abandon(r) PROVE InflightInv'
  BY Zenon, <1>t, <1>6, <1>a DEF Abandon, Goto, Finish
<1>7. ASSUME NEW r \in Requests, CacheInsert(r) PROVE InflightInv'
  BY Zenon, <1>t, <1>7, <1>a DEF CacheInsert, Goto
<1>8. ASSUME NEW r \in Requests, Reply(r) PROVE InflightInv'
  BY Zenon, <1>t, <1>8, <1>a DEF Reply, Goto, Finish
<1>9. ASSUME NEW r \in Requests, JoinInflight(r) PROVE InflightInv'
  <2> DEFINE e == inflight_by_sequence[key[r]]
  <2>1. key[r] \in Keys /\ e \in Requests /\ timer[e] = "armed" /\ key[e] = key[r]
    BY Zenon, <1>i, <1>9, <1>e DEF JoinInflight, WaitersInv, EntryHasTimer
  <2>2. /\ pc[r] = "ensure" /\ pc'[r] = "wait"
        /\ waiters'[e] = waiters[e] \cup {r}
        /\ \A w \in Requests : w # r => pc'[w] = pc[w]
        /\ \A a \in Requests : a # e => waiters'[a] = waiters[a]
        /\ UNCHANGED <<key, inflight_by_sequence, timer, rx, taken, linkpc>>
    BY Zenon, <1>t, <1>9, <2>1 DEF JoinInflight, Goto
  <2> HIDE DEF e
  <2>3. WaitersInv'
    <3>1. \A a, w \in Requests : w \in waiters'[a] => w \in waiters[a] \/ (w = r /\ a = e)
      BY ZenonT(40), <2>2
    <3>2. \A a \in Requests : timer[a] = "none" => waiters'[a] = {}
      BY Zenon, <1>i, <2>1, <2>2 DEF WaitersInv
    <3>3. \A a, w \in Requests : w \in waiters'[a] =>
            key[w] = key[a] /\ pc'[w] \notin {"unsent", "lookup", "ensure"}
      BY <1>i, <2>1, <2>2, <3>1 DEF WaitersInv
    <3>4. \A w \in Requests : /\ pc'[w] # "unsent" => key[w] \in Keys
                              /\ pc'[w] \in {"unsent", "lookup", "ensure"} => timer[w] = "none"
      BY Zenon, <1>i, <2>1, <2>2 DEF WaitersInv
    <3> QED
      BY Zenon, <1>i, <2>2, <3>2, <3>3, <3>4 DEF WaitersInv
  <2>4. EntryHasTimer'
    BY Zenon, <1>i, <2>2 DEF EntryHasTimer
  <2>5. NoLostWaiter'
    <3>1. \A a \in Requests : waiters[a] \subseteq waiters'[a]
      BY Zenon, <2>2
    <3>2. r \in waiters'[e] /\ inflight_by_sequence'[key'[r]] = e
      BY Zenon, <2>2 DEF e
    <3>3. \A w \in Requests : w # r /\ Awaiting(w)' => Awaiting(w)
      BY Zenon, <2>2 DEF Awaiting
    <3> QED
      BY <1>i, <2>1, <2>2, <3>1, <3>2, <3>3 DEF NoLostWaiter
  <2> QED
    BY Zenon, <2>3, <2>4, <2>5 DEF InflightInv
<1>10. ASSUME NEW r \in Requests, CreateInflight(r) PROVE InflightInv'
  <2>1. /\ key[r] \in Keys /\ r # None /\ inflight_by_sequence[key[r]] = None
        /\ timer[r] = "none" /\ waiters[r] = {}
    BY Zenon, <1>i, <1>10, ConstantsAssumption DEF CreateInflight, WaitersInv
  <2>2. /\ pc[r] = "ensure" /\ pc'[r] = "session"
        /\ waiters'[r] = {r} /\ timer'[r] = "armed" /\ inflight_by_sequence'[key[r]] = r
        /\ \A w \in Requests : w # r =>
             pc'[w] = pc[w] /\ waiters'[w] = waiters[w] /\ timer'[w] = timer[w]
        /\ \A k \in Keys : k # key[r] => inflight_by_sequence'[k] = inflight_by_sequence[k]
        /\ UNCHANGED <<key, rx, taken, linkpc>>
    BY Zenon, <1>t, <1>10, <2>1 DEF CreateInflight, Goto
  <2>3. WaitersInv'
    <3>1. \A a, w \in Requests : w \in waiters'[a] => w \in waiters[a] \/ (w = r /\ a = r)
      BY <2>2
    <3>2. \A a, w \in Requests : w \in waiters'[a] =>
            key[w] = key[a] /\ pc'[w] \notin {"unsent", "lookup", "ensure"}
      BY <1>i, <2>2, <3>1 DEF WaitersInv
    <3>3. \A w \in Requests : /\ pc'[w] # "unsent" => key[w] \in Keys
                              /\ pc'[w] \in {"unsent", "lookup", "ensure"} => timer'[w] = "none"
                              /\ timer'[w] = "none" => waiters'[w] = {}
      BY <1>i, <2>1, <2>2 DEF WaitersInv
    <3> QED
      BY <1>i, <2>2, <3>2, <3>3 DEF WaitersInv
  <2>4. EntryHasTimer'
    BY <1>i, <2>1, <2>2, <1>e DEF EntryHasTimer
  <2>5. NoLostWaiter'
    <3>1. \A w \in Requests : w # r /\ Awaiting(w)' => Awaiting(w)
      BY Zenon, <2>2 DEF Awaiting
    <3>2. \A a, w \in Requests : w \in waiters[a] => a # r /\ w \in waiters'[a]
      BY Zenon, <2>1, <2>2
    <3>3. \A k \in Keys : \A a \in Requests :
            inflight_by_sequence[k] = a => inflight_by_sequence'[k] = a
      BY <2>1, <2>2, ConstantsAssumption
    <3>4. \A w \in Requests : Awaiting(w) => key[w] \in Keys
      BY Zenon, <1>i DEF Awaiting, WaitersInv
    <3> QED
      BY <1>i, <2>2, <3>1, <3>2, <3>3, <3>4 DEF NoLostWaiter
  <2> QED
    BY Zenon, <2>3, <2>4, <2>5 DEF InflightInv
<1>11. ASSUME NEW r \in Requests, SessionMissing(r) PROVE InflightInv'
  <2> \A w \in Requests : \/ pc'[w] = pc[w]
                          \/ pc[w] \in {"session", "send"} /\ pc'[w] = "abandon"
    BY Zenon, <1>t, <1>11 DEF SessionMissing, Goto
  <2> QED
    BY <1>s, <1>11, TakeKeepsInflight DEF SessionMissing, Responses
<1>12. ASSUME NEW r \in Requests, ForwardFailed(r) PROVE InflightInv'
  <2> \A w \in Requests : \/ pc'[w] = pc[w]
                          \/ pc[w] \in {"session", "send"} /\ pc'[w] = "abandon"
    BY Zenon, <1>t, <1>12 DEF ForwardFailed, Goto
  <2> QED
    BY <1>s, <1>12, TakeKeepsInflight DEF ForwardFailed, Responses
<1>13. ASSUME NEW r \in Requests, Timeout(r) PROVE InflightInv'
  <2> \A w \in Requests : \/ timer'[w] = timer[w]
                          \/ timer[w] = "armed" /\ timer'[w] = "fired" /\ key[w] = key[r]
    BY Zenon, <1>t, <1>13 DEF Timeout
  <2> QED
    BY Zenon, <1>s, <1>13, TakeKeepsInflight DEF Timeout, Responses
<1>14. ASSUME NEW l \in Links, NEW r \in Requests, DataResponse(l, r) PROVE InflightInv'
  BY Zenon, <1>s, <1>14, TakeKeepsInflight DEF DataResponse, Responses
<1>15. ASSUME NEW l \in Links, NEW q \in Seqs, SweepInflight(l, q) PROVE InflightInv'
  <2> DEFINE k == <<did[l], q>>
  <2>d. did[l] \in Devices
    <3>1. did \in [Links -> Devices \cup {None}] /\ did[l] # None
      BY Zenon, <1>s, <1>15 DEF SweepInflight, TypeInv, TypeOK
    <3> QED
      BY Zenon, <3>1
  <2>1. /\ UNCHANGED <<pc, key, rx, waiters, timer, linkpc>>
        /\ linkpc[l] = "sweep" /\ k \in Keys
        /\ inflight_by_sequence' = [inflight_by_sequence EXCEPT ![k] = None]
        /\ taken' = [taken EXCEPT ![l] = @ \cup ({inflight_by_sequence[k]} \ {None})]
    BY Zenon, <1>15, <2>d DEF SweepInflight, Keys
  <2> HIDE DEF k
  <2>2. WaitersInv'
    BY Zenon, <1>t, <1>i, <2>1 DEF WaitersInv
  <2>3. EntryHasTimer'
    BY Zenon, <1>t, <1>i, <2>1 DEF EntryHasTimer
  <2>4. NoLostWaiter'
    <3> SUFFICES ASSUME NEW r \in Requests, Awaiting(r)
                 PROVE  \E a \in Requests :
                          /\ r \in waiters'[a]
                          /\ \/ inflight_by_sequence'[key'[r]] = a
                             \/ \E m \in Links : a \in taken'[m] /\ linkpc'[m] = "sweep"
      BY <1>i, <2>1 DEF NoLostWaiter, Awaiting
    <3>1. PICK a \in Requests :
            /\ r \in waiters[a]
            /\ \/ inflight_by_sequence[key[r]] = a
               \/ \E m \in Links : a \in taken[m] /\ linkpc[m] = "sweep"
      BY Zenon, <1>i DEF NoLostWaiter
    <3>2. r \in waiters'[a] /\ key'[r] = key[r] /\ key[r] \in Keys
      BY Zenon, <1>i, <3>1, <2>1 DEF Awaiting, WaitersInv
    <3>3. CASE key[r] = k /\ inflight_by_sequence[k] = a
      <4>1. a \in taken'[l] /\ linkpc'[l] = "sweep"
        BY Zenon, <1>t, <3>3, <2>1, ConstantsAssumption
      <4> QED
        BY Zenon, <4>1, <3>2
    <3>4. CASE key[r] # k /\ inflight_by_sequence[key[r]] = a
      BY Zenon, <1>t, <3>2, <3>4, <2>1
    <3>5. CASE \E m \in Links : a \in taken[m] /\ linkpc[m] = "sweep"
      BY Zenon, <1>t, <3>2, <3>5, <2>1
    <3> QED
      BY Zenon, <3>1, <3>3, <3>4, <3>5
  <2> QED
    BY Zenon, <2>2, <2>3, <2>4 DEF InflightInv
<1>16. ASSUME NEW l \in Links, CompleteTaken(l) PROVE InflightInv'
  <2>1. /\ linkpc[l] = "sweep" /\ linkpc'[l] = "check" /\ taken'[l] = {}
        /\ \A m \in Links : m # l => linkpc'[m] = linkpc[m] /\ taken'[m] = taken[m]
        /\ UNCHANGED <<pc, key, inflight_by_sequence, timer>>
        /\ Complete(taken[l], "DeviceOffline")
    BY Zenon, <1>t, <1>16 DEF CompleteTaken
  <2>2. \A a \in Requests : waiters'[a] = IF a \in taken[l] THEN {} ELSE waiters[a]
    BY Zenon, <2>1 DEF Complete
  <2>3. \A w \in Requests : rx'[w] = IF pc[w] # "done" /\ \E a \in taken[l] : w \in waiters[a]
                                     THEN "DeviceOffline" ELSE rx[w]
    BY ZenonT(40), <2>1 DEF Complete
  <2>4. WaitersInv'
    <3>1. \A a, w \in Requests : w \in waiters'[a] => w \in waiters[a]
      BY Zenon, <2>2
    <3>2. \A a \in Requests : waiters[a] = {} => waiters'[a] = {}
      BY Zenon, <2>2
    <3>3. \A m \in Links : taken'[m] # {} => linkpc'[m] = "sweep"
      BY Zenon, <1>i, <2>1 DEF WaitersInv
    <3> QED
      BY ZenonT(40), <1>i, <2>1, <3>1, <3>2, <3>3 DEF WaitersInv
  <2>5. EntryHasTimer'
    BY Zenon, <1>i, <2>1 DEF EntryHasTimer
  <2>6. NoLostWaiter'
    <3> SUFFICES ASSUME NEW r \in Requests, Awaiting(r)'
                 PROVE  \E a \in Requests :
                          /\ r \in waiters'[a]
                          /\ \/ inflight_by_sequence'[key'[r]] = a
                             \/ \E m \in Links : a \in taken'[m] /\ linkpc'[m] = "sweep"
      BY Zenon DEF NoLostWaiter
    <3>1. pc[r] # "done" /\ rx'[r] = None
      BY Zenon, <2>1 DEF Awaiting
    <3>2. \A a \in taken[l] : r \notin waiters[a]
      BY Zenon, <3>1, <2>3, ConstantsAssumption
    <3>3. Awaiting(r)
      BY Zenon, <3>1, <3>2, <2>1, <2>3 DEF Awaiting
    <3>4. PICK a \in Requests :
            /\ r \in waiters[a]
            /\ \/ inflight_by_sequence[key[r]] = a
               \/ \E m \in Links : a \in taken[m] /\ linkpc[m] = "sweep"
      BY Zenon, <1>i, <3>3 DEF NoLostWaiter
    <3> QED
      BY <3>2, <3>4, <2>1, <2>2
  <2> QED
    BY Zenon, <2>4, <2>5, <2>6 DEF InflightInv
<1>17. ASSUME NEW k \in Keys, CacheExpire(k) PROVE InflightInv'
  BY Zenon, <1>17, <1>a DEF CacheExpire
<1>18. ASSUME NEW l \in Links, NEW r \in Requests, Execute(l, r) PROVE InflightInv'
  BY Zenon, <1>18, <1>a DEF Execute
<1>19. ASSUME NEW l \in Links, Disconnect(l) PROVE InflightInv'
  BY Zenon, <1>19, <1>a DEF Disconnect
<1>20. ASSUME NEW l \in Links, NEW d \in Devices, Register(l, d) PROVE InflightInv'
  BY Zenon, <1>t, <1>20, <1>a DEF Register
<1>21. ASSUME NEW l \in Links, NEW d \in Devices, RegisterRefused(l, d) PROVE InflightInv'
  BY Zenon, <1>t, <1>21, <1>a DEF RegisterRefused
<1>22. ASSUME NEW l \in Links, StreamEnd(l) PROVE InflightInv'
  BY Zenon, <1>t, <1>22, <1>a DEF StreamEnd
<1>23. ASSUME NEW l \in Links, CheckSession(l) PROVE InflightInv'
  BY Zenon, <1>t, <1>23, <1>a DEF CheckSession
<1>24. ASSUME NEW l \in Links, RemoveSession(l) PROVE InflightInv'
  BY Zenon, <1>t, <1>24, <1>a DEF RemoveSession
<1>25. CASE UNCHANGED vars
  BY Zenon, <1>25, <1>a DEF vars
<1> QED
  BY Zenon, <1>1, <1>2, <1>3, <1>4, <1>5, <1>6, <1>7, <1>8, <1>9, <1>10, <1>11,
     <1>12, <1>13, <1>14, <1>15, <1>16, <1>17, <1>18, <1>19, <1>20, <1>21,
     <1>22, <1>23, <1>24, <1>25, <1>s
     DEF Next, HandlerStep, TeardownStep

(* Every handler that awaits a response will get one: its waiter is in the *)
(* table under its key, or held by a teardown about to complete it, for    *)
(* any number of duplicates, timeouts, takeovers and teardowns.            *)
THEOREM NoWaiterLost == Spec => []NoLostWaiter
<1>1. TypeInv /\ InflightInv /\ [Next]_vars => (TypeInv /\ InflightInv)'
  BY NextTypeInv, NextInflightInv
<1>2. InflightInv => NoLostWaiter
  BY DEF InflightInv
<1> QED
  BY <1>1, <1>2, InitTypeInv, InitInflightInv, PTL DEF Spec

(* No entry of the in-flight table outlives its timeout task. *)
THEOREM EntriesHaveTimers == Spec => []EntryHasTimer
<1>1. TypeInv /\ InflightInv /\ [Next]_vars => (TypeInv /\ InflightInv)'
  BY NextTypeInv, NextInflightInv
<1>2. InflightInv => EntryHasTimer
  BY Zenon DEF InflightInv
<1> QED
  BY <1>1, <1>2, InitTypeInv, InitInflightInv, PTL DEF Spec
-----------------------------------------------------------------------------
(* Responses: from the device's stream through the entry, the waiters and  *)
(* the cache to the controller.                                            *)

(* The initial state satisfies the response invariant. *)
LEMMA InitResponseInv == Init => ResponseInv
BY ConstantsAssumption DEF Init, ResponseInv, Matches

(* Completing the entry of a key with DeviceOffline, or with the result of *)
(* a request forwarded under that key, gives every waiter a response that  *)
(* matches its own key.                                                    *)
LEMMA TakeKeepsMatches ==
  ASSUME TypeInv, InflightInv, ResponseInv, NEW k \in Keys,
         NEW response \in Responses, Matches(response, k),
         TakeAndComplete(k, response), NEW w \in Requests
  PROVE  Matches(rx'[w], key[w])
<1> DEFINE a == inflight_by_sequence[k]
<1>1. CASE pc[w] # "done" /\ a # None /\ w \in waiters[a]
  <2>1. a \in Requests /\ rx'[w] = response
    BY Zenon, <1>1 DEF TakeAndComplete, Complete, TypeInv, TypeOK
  <2>2. key[w] = key[a] /\ key[a] = k
    BY <1>1, <2>1 DEF InflightInv, WaitersInv, EntryHasTimer
  <2> QED
    BY Zenon, <2>1, <2>2
<1>2. CASE ~(pc[w] # "done" /\ a # None /\ w \in waiters[a])
  <2>1. rx'[w] = rx[w]
    BY <1>2 DEF TakeAndComplete, Complete
  <2> QED
    BY <2>1 DEF ResponseInv
<1> QED
  BY <1>1, <1>2

(* A step that opens no session and forwards nothing keeps the invariant   *)
(* if the responses it hands out match, and the session it looks up is the *)
(* device's.                                                               *)
LEMMA MovesKeepResponses ==
  ASSUME TypeInv, TypeInv', ResponseInv,
         UNCHANGED <<key, forwarded, did>>,
         \A d \in Devices : sessions_by_device_id'[d] \in {sessions_by_device_id[d], None},
         \A r \in Requests :
           \/ pc'[r] = pc[r] /\ dest'[r] = dest[r]
           \/ /\ pc'[r] \notin {"unsent", "send"} /\ pc[r] # "unsent"
              /\ dest'[r] \in {dest[r], None}
           \/ /\ pc'[r] = "send" /\ pc[r] # "unsent"
              /\ dest'[r] \in Links /\ did[dest'[r]] = Device(key[r]),
         \A l \in Links : outbound'[l] \cup inbound'[l] \subseteq outbound[l] \cup inbound[l],
         \A r \in Requests : Matches(rx'[r], key[r]) /\ Matches(answer'[r], key[r]),
         \A k \in Keys : Matches(cache'[k], k)
  PROVE  ResponseInv'
<1>2. \A l \in Links : linkpc'[l] = "new" <=> did'[l] = None
  BY Zenon DEF TypeInv
<1>3. \A d \in Devices : sessions_by_device_id'[d] # None => did'[sessions_by_device_id'[d]] = d
  BY Zenon, SMTT(20) DEF ResponseInv
<1>4. ASSUME NEW r \in Requests
      PROVE  /\ dest'[r] # None => did'[dest'[r]] = Device(key'[r])
             /\ pc'[r] = "send" => dest'[r] # None
             /\ pc'[r] = "unsent" => dest'[r] = None /\ key'[r] = None
             /\ pc[r] # "unsent" => pc'[r] # "unsent"
  <2>1. /\ dest[r] # None => did[dest[r]] = Device(key[r])
        /\ pc[r] = "send" => dest[r] # None
        /\ pc[r] = "unsent" => dest[r] = None /\ key[r] = None
    BY Zenon, SMTT(20) DEF ResponseInv
  <2>2. None \notin Links
    BY Zenon, ConstantsAssumption
  <2> QED
    BY Zenon, <2>1, <2>2
<1>5. \A l \in Links : \A r \in outbound'[l] \cup inbound'[l] :
        r \in forwarded' /\ did'[l] = Device(key'[r])
  BY Zenon DEF ResponseInv
<1>6. \A r \in forwarded' : pc'[r] # "unsent"
  BY <1>4 DEF ResponseInv, TypeInv, TypeOK
<1>7. /\ (\A r \in Requests : Matches(rx[r], key[r]) /\ Matches(answer[r], key[r]))'
      /\ (\A k \in Keys : Matches(cache[k], k))'
  BY Zenon DEF Matches
<1> QED
  BY Zenon, <1>2, <1>3, <1>4, <1>5, <1>6, <1>7 DEF ResponseInv

(* Registration sets a stream's device once, and its session is the        *)
(* device's: what was sent to or by the device before stays so.            *)
LEMMA DidKeepsResponses ==
  ASSUME TypeInv, TypeInv', ResponseInv,
         UNCHANGED <<requestVars, cache, outbound, inbound, forwarded>>,
         \A l \in Links : did[l] # None => did'[l] = did[l],
         \A d \in Devices : \/ sessions_by_device_id'[d] = sessions_by_device_id[d]
                            \/ did'[sessions_by_device_id'[d]] = d
  PROVE  ResponseInv'
<1> USE DEF requestVars
<1>1. \A r \in Requests : pc[r] # "unsent" => Device(key[r]) \in Devices
  BY ZenonT(40) DEF TypeInv, Keys, Device
<1>2. \A r \in Requests : dest'[r] # None => did'[dest'[r]] = Device(key'[r])
  BY SMTT(30), <1>1, ConstantsAssumption DEF ResponseInv, TypeInv, TypeOK
<1>3. \A l \in Links : \A r \in outbound'[l] \cup inbound'[l] :
        r \in forwarded' /\ did'[l] = Device(key'[r])
  BY SMTT(30), <1>1, ConstantsAssumption DEF ResponseInv, TypeInv, TypeOK
<1>4. \A d \in Devices : sessions_by_device_id'[d] # None => did'[sessions_by_device_id'[d]] = d
  BY ConstantsAssumption DEF ResponseInv, TypeInv, TypeOK
<1>5. \A l \in Links : linkpc'[l] = "new" <=> did'[l] = None
  BY Zenon, Zenon DEF TypeInv
<1> QED
  BY Zenon, <1>2, <1>3, <1>4, <1>5 DEF ResponseInv, Matches

(* Every step of the relay keeps the response invariant. *)
LEMMA NextResponseInv ==
  TypeInv /\ TypeInv' /\ InflightInv /\ ResponseInv /\ [Next]_vars => ResponseInv'
<1>s. SUFFICES ASSUME TypeInv, TypeInv', InflightInv, ResponseInv, [Next]_vars
               PROVE  ResponseInv'
  BY Zenon
<1>t. /\ pc \in [Requests -> PCs] /\ key \in [Requests -> Keys \cup {None}]
      /\ dest \in [Requests -> Links \cup {None}]
      /\ rx \in [Requests -> Responses \cup {None}]
      /\ answer \in [Requests -> Answers \cup {None}]
      /\ cache \in [Keys -> Responses \cup {None}]
      /\ sessions_by_device_id \in [Devices -> Links \cup {None}]
      /\ did \in [Links -> Devices \cup {None}]
      /\ outbound \in [Links -> SUBSET Requests] /\ inbound \in [Links -> SUBSET Requests]
      /\ forwarded \in SUBSET Requests
      /\ \A r \in Requests : pc[r] # "unsent" => key[r] \in Keys
      /\ \A l \in Links : linkpc[l] = "new" <=> did[l] = None
  BY <1>s DEF TypeInv, TypeOK
<1> USE DEF requestVars, inflightVars, linkVars, channelVars
<1>m. \A r \in Requests : \A k \in Keys : Matches(None, k) /\ Matches("DeviceOffline", k)
                                        /\ Matches(None, key[r]) /\ Matches("RateLimited", key[r])
  BY Zenon, ConstantsAssumption DEF Matches
<1>n. /\ \A r \in Requests : Matches(rx[r], key[r]) /\ Matches(answer[r], key[r])
      /\ \A k \in Keys : Matches(cache[k], k)
  BY <1>s DEF ResponseInv
<1>1. ASSUME NEW r \in Requests, NEW k \in Keys, Receive(r, k) PROVE ResponseInv'
  <2>1. /\ r \notin forwarded /\ dest[r] = None /\ key[r] = None
        /\ rx[r] \notin Requests /\ answer[r] \notin Requests
    <3>1. pc[r] = "unsent" /\ r \notin forwarded /\ dest[r] = None /\ key[r] = None
      BY Zenon, <1>s, <1>1 DEF Receive, ResponseInv
    <3>2. \A q \in Requests : q \in forwarded => key[q] # None
      BY <1>t, <1>s, ConstantsAssumption DEF ResponseInv
    <3> QED
      BY <3>1, <3>2, <1>n DEF Matches
  <2>2. /\ \A w \in Requests : w # r => key'[w] = key[w] /\ pc'[w] = pc[w]
        /\ pc'[r] = "lookup"
        /\ UNCHANGED <<dest, rx, answer, cache, sessions_by_device_id, linkpc, did,
                       outbound, inbound, forwarded>>
    BY <1>t, <1>1 DEF Receive, Goto
  <2>3. \A q \in forwarded : q # r /\ q \in Requests
    BY Zenon, <1>t, <2>1
  <2>4. \A w \in Requests : /\ dest'[w] # None => did'[dest'[w]] = Device(key'[w])
                            /\ pc'[w] = "send" => dest'[w] # None
                            /\ pc'[w] = "unsent" => dest'[w] = None /\ key'[w] = None
    BY SMTT(30), <1>s, <2>1, <2>2 DEF ResponseInv
  <2>5. \A l \in Links : \A w \in outbound'[l] \cup inbound'[l] :
          w \in forwarded' /\ did'[l] = Device(key'[w])
    BY <1>s, <2>2, <2>3 DEF ResponseInv
  <2>6. \A w \in forwarded' : pc'[w] # "unsent"
    BY Zenon, <1>s, <2>2, <2>3 DEF ResponseInv
  <2>7. /\ (\A w \in Requests : Matches(rx[w], key[w]) /\ Matches(answer[w], key[w]))'
        /\ (\A j \in Keys : Matches(cache[j], j))'
    BY <2>1, <2>2, <2>3, <1>n DEF Matches
  <2>8. /\ \A l \in Links : linkpc'[l] = "new" <=> did'[l] = None
        /\ \A d \in Devices : sessions_by_device_id'[d] # None => did'[sessions_by_device_id'[d]] = d
    BY Zenon, <1>s, <2>2 DEF ResponseInv
  <2> QED
    BY Zenon, <2>4, <2>5, <2>6, <2>7, <2>8 DEF ResponseInv
<1>2. ASSUME NEW r \in Requests, CacheGet(r) PROVE ResponseInv'
  BY Zenon, <1>t, <1>s, <1>2, <1>m, <1>n, MovesKeepResponses DEF CacheGet, Goto
<1>3. ASSUME NEW r \in Requests, JoinInflight(r) PROVE ResponseInv'
  BY Zenon, <1>t, <1>s, <1>3, <1>m, <1>n, MovesKeepResponses DEF JoinInflight, Goto
<1>4. ASSUME NEW r \in Requests, CreateInflight(r) PROVE ResponseInv'
  BY Zenon, <1>t, <1>s, <1>4, <1>m, <1>n, MovesKeepResponses DEF CreateInflight, Goto
<1>5. ASSUME NEW r \in Requests, SessionMissing(r) PROVE ResponseInv'
  <2>1. \A w \in Requests : Matches(rx'[w], key[w])
    BY <1>t, <1>s, <1>5, <1>m, TakeKeepsMatches DEF SessionMissing, Responses
  <2> QED
    BY Zenon, <1>t, <1>s, <1>5, <2>1, <1>n, MovesKeepResponses DEF SessionMissing, Goto
<1>6. ASSUME NEW r \in Requests, SessionFound(r) PROVE ResponseInv'
  <2> DEFINE s == sessions_by_device_id[Device(key[r])]
  <2>1. key[r] \in Keys /\ Device(key[r]) \in Devices
    BY Zenon, <1>t, <1>6 DEF SessionFound, Keys, Device
  <2>2. s \in Links /\ did[s] = Device(key[r])
    BY Zenon, <1>t, <1>s, <1>6, <2>1 DEF SessionFound, ResponseInv
  <2>3. /\ dest' = [dest EXCEPT ![r] = s] /\ pc' = [pc EXCEPT ![r] = "send"] /\ pc[r] # "unsent"
        /\ UNCHANGED <<key, rx, answer, cache, sessions_by_device_id, did, outbound,
                       inbound, forwarded>>
    BY Zenon, <1>6 DEF SessionFound, Goto
  <2> HIDE DEF s
  <2>4. \A w \in Requests :
          \/ pc'[w] = pc[w] /\ dest'[w] = dest[w]
          \/ /\ pc'[w] = "send" /\ pc[w] # "unsent"
             /\ dest'[w] \in Links /\ did[dest'[w]] = Device(key[w])
    BY Zenon, <1>t, <2>2, <2>3
  <2> QED
    BY Zenon, <1>s, <2>3, <2>4, <1>n, MovesKeepResponses
<1>7. ASSUME NEW r \in Requests, BandwidthExceeded(r) PROVE ResponseInv'
  BY Zenon, <1>t, <1>s, <1>7, <1>m, <1>n, MovesKeepResponses DEF BandwidthExceeded, Goto
<1>8. ASSUME NEW r \in Requests, Forward(r) PROVE ResponseInv'
  <2>1. pc[r] = "send" /\ dest[r] \in Links /\ did[dest[r]] = Device(key[r])
    BY <1>t, <1>s, <1>8 DEF Forward, ResponseInv
  <2>2. /\ \A w \in Requests : w # r => pc'[w] = pc[w]
        /\ pc'[r] = "wait"
        /\ forwarded' = forwarded \cup {r}
        /\ \A l \in Links : outbound'[l] = IF l = dest[r] THEN outbound[l] \cup {r} ELSE outbound[l]
        /\ UNCHANGED <<key, dest, rx, answer, cache, sessions_by_device_id, linkpc, did, inbound>>
    BY Zenon, <1>t, <1>8, <2>1 DEF Forward, Goto
  <2>3. \A w \in Requests : /\ dest'[w] # None => did'[dest'[w]] = Device(key'[w])
                            /\ pc'[w] = "send" => dest'[w] # None
                            /\ pc'[w] = "unsent" => dest'[w] = None /\ key'[w] = None
    BY ZenonT(40), <1>s, <2>2 DEF ResponseInv
  <2>4. \A l \in Links : \A w \in outbound'[l] \cup inbound'[l] :
          w \in forwarded' /\ did'[l] = Device(key'[w])
    <3>1. \A l \in Links : \A w \in outbound[l] \cup inbound[l] :
            w \in forwarded /\ did[l] = Device(key[w])
      BY Zenon, <1>s DEF ResponseInv
    <3>2. \A l \in Links : \A w \in outbound'[l] \cup inbound'[l] :
            w \in outbound[l] \cup inbound[l] \/ (w = r /\ l = dest[r])
      BY ZenonT(40), <2>2
    <3> QED
      BY ZenonT(40), <3>1, <3>2, <2>1, <2>2
  <2>5. \A w \in forwarded' : pc'[w] # "unsent"
    BY Zenon, <1>t, <1>s, <2>2 DEF ResponseInv
  <2>6. /\ (\A w \in Requests : Matches(rx[w], key[w]) /\ Matches(answer[w], key[w]))'
        /\ (\A k \in Keys : Matches(cache[k], k))'
    BY Zenon, <2>2, <1>n DEF Matches
  <2>7. /\ \A l \in Links : linkpc'[l] = "new" <=> did'[l] = None
        /\ \A d \in Devices : sessions_by_device_id'[d] # None => did'[sessions_by_device_id'[d]] = d
    BY Zenon, <1>s, <2>2 DEF ResponseInv
  <2> QED
    BY Zenon, <2>3, <2>4, <2>5, <2>6, <2>7 DEF ResponseInv
<1>9. ASSUME NEW r \in Requests, ForwardFailed(r) PROVE ResponseInv'
  <2>1. \A w \in Requests : Matches(rx'[w], key[w])
    BY Zenon, <1>t, <1>s, <1>9, <1>m, TakeKeepsMatches DEF ForwardFailed, Responses
  <2> QED
    BY Zenon, <1>t, <1>s, <1>9, <2>1, <1>n, MovesKeepResponses DEF ForwardFailed, Goto
<1>10. ASSUME NEW r \in Requests, Abandon(r) PROVE ResponseInv'
  BY Zenon, <1>t, <1>s, <1>10, <1>m, <1>n, MovesKeepResponses DEF Abandon, Finish, Goto
<1>11. ASSUME NEW r \in Requests, CacheInsert(r) PROVE ResponseInv'
  <2>1. \A k \in Keys : Matches(cache'[k], k)
    BY Zenon, <1>t, <1>11, <1>n DEF CacheInsert
  <2>2. \A w \in Requests : pc'[w] = pc[w] \/ (pc'[w] = "reply" /\ pc[w] = "wait")
    BY <1>t, <1>11 DEF CacheInsert, Goto
  <2> QED
    BY Zenon, <1>s, <1>11, <2>1, <2>2, <1>n, MovesKeepResponses DEF CacheInsert
<1>12. ASSUME NEW r \in Requests, Reply(r) PROVE ResponseInv'
  BY Zenon, <1>t, <1>s, <1>12, <1>m, <1>n, MovesKeepResponses DEF Reply, Finish, Goto
<1>13. ASSUME NEW r \in Requests, Timeout(r) PROVE ResponseInv'
  <2>1. \A w \in Requests : Matches(rx'[w], key[w])
    BY Zenon, <1>t, <1>s, <1>13, <1>m, TakeKeepsMatches DEF Timeout, Responses, InflightInv,
       WaitersInv
  <2> QED
    BY Zenon, <1>t, <1>s, <1>13, <2>1, <1>n, MovesKeepResponses DEF Timeout, Goto
<1>14. ASSUME NEW k \in Keys, CacheExpire(k) PROVE ResponseInv'
  <2>1. \A j \in Keys : Matches(cache'[j], j)
    BY <1>t, <1>14, <1>n, <1>m DEF CacheExpire, Matches
  <2> QED
    BY Zenon, <1>s, <1>14, <2>1, <1>n, MovesKeepResponses DEF CacheExpire
<1>15. ASSUME NEW l \in Links, NEW d \in Devices, Register(l, d) PROVE ResponseInv'
  <2>1. \A m \in Links : did[m] # None => did'[m] = did[m]
    BY Zenon, <1>t, <1>15 DEF Register
  <2> QED
    BY Zenon, <1>t, <1>s, <1>15, <2>1, DidKeepsResponses DEF Register
<1>16. ASSUME NEW l \in Links, NEW d \in Devices, RegisterRefused(l, d) PROVE ResponseInv'
  <2>1. \A m \in Links : did[m] # None => did'[m] = did[m]
    BY ZenonT(40), <1>t, <1>16 DEF RegisterRefused
  <2> QED
    BY Zenon, <1>t, <1>s, <1>16, <2>1, DidKeepsResponses DEF RegisterRefused
<1>17. ASSUME NEW l \in Links, NEW r \in Requests, Execute(l, r) PROVE ResponseInv'
  BY <1>t, <1>s, <1>17, <1>m, <1>n, MovesKeepResponses DEF Execute
<1>18. ASSUME NEW l \in Links, NEW r \in Requests, DataResponse(l, r) PROVE ResponseInv'
  <2>1. /\ Matches(r, key[r]) /\ key[r] \in Keys
        /\ <<did[l], Seq(key[r])>> = key[r]
    <3>1. r \in forwarded /\ did[l] = Device(key[r])
      BY Zenon, <1>s, <1>18 DEF DataResponse, ResponseInv
    <3>2. key[r] \in Keys
      BY <1>t, <1>s, <3>1 DEF ResponseInv
    <3> QED
      BY <3>1, <3>2 DEF Matches, Keys, Device, Seq
  <2>2. TakeAndComplete(key[r], r)
    BY ZenonT(40), <1>18, <2>1 DEF DataResponse
  <2>3. \A w \in Requests : Matches(rx'[w], key[w])
    BY ZenonT(40), <1>s, <2>1, <2>2, TakeKeepsMatches DEF Responses
  <2> QED
    BY Zenon, <1>t, <1>s, <1>18, <2>3, <1>n, MovesKeepResponses DEF DataResponse
<1>19. ASSUME NEW l \in Links, Disconnect(l) PROVE ResponseInv'
  BY SMTT(20), <1>t, <1>s, <1>19, <1>m, <1>n, MovesKeepResponses DEF Disconnect
<1>20. ASSUME NEW l \in Links, StreamEnd(l) PROVE ResponseInv'
  BY Zenon, <1>t, <1>s, <1>20, <1>m, <1>n, MovesKeepResponses DEF StreamEnd
<1>21. ASSUME NEW l \in Links, NEW q \in Seqs, SweepInflight(l, q) PROVE ResponseInv'
  BY ZenonT(40), <1>t, <1>s, <1>21, <1>m, <1>n, MovesKeepResponses DEF SweepInflight
<1>22. ASSUME NEW l \in Links, CompleteTaken(l) PROVE ResponseInv'
  <2>1. \A w \in Requests : rx'[w] \in {rx[w], "DeviceOffline"}
    BY Zenon, <1>22 DEF CompleteTaken, Complete
  <2>2. \A w \in Requests : Matches(rx'[w], key[w])
    BY <2>1, <1>n, ConstantsAssumption DEF Matches
  <2> QED
    BY ZenonT(40), <1>s, <1>22, <2>2, <1>n, MovesKeepResponses DEF CompleteTaken
<1>23. ASSUME NEW l \in Links, CheckSession(l) PROVE ResponseInv'
  BY Zenon, <1>t, <1>s, <1>23, <1>m, <1>n, MovesKeepResponses DEF CheckSession
<1>24. ASSUME NEW l \in Links, RemoveSession(l) PROVE ResponseInv'
  BY Zenon, <1>t, <1>s, <1>24, <1>n, MovesKeepResponses DEF RemoveSession
<1>25. CASE UNCHANGED vars
  BY <1>s, <1>25, <1>n, MovesKeepResponses DEF vars
<1> QED
  BY Zenon, <1>1, <1>2, <1>3, <1>4, <1>5, <1>6, <1>7, <1>8, <1>9, <1>10, <1>11,
     <1>12, <1>13, <1>14, <1>15, <1>16, <1>17, <1>18, <1>19, <1>20, <1>21,
     <1>22, <1>23, <1>24, <1>25, <1>s
     DEF Next, HandlerStep, TeardownStep

(* Responses are never mixed up, whatever the devices, duplicates and      *)
(* takeovers: a controller is answered with the result of a request that   *)
(* was sent to its device under its own sequence number.                   *)
THEOREM AnswersMatch == Spec => []AnswerMatchesRequest
<1>1. TypeInv /\ InflightInv /\ ResponseInv /\ [Next]_vars
        => (TypeInv /\ InflightInv /\ ResponseInv)'
  BY NextTypeInv, NextInflightInv, NextResponseInv
<1>2. ResponseInv => AnswerMatchesRequest
  BY Zenon DEF ResponseInv, Matches, AnswerMatchesRequest
<1> QED
  BY <1>1, <1>2, InitTypeInv, InitInflightInv, InitResponseInv, PTL DEF Spec

-----------------------------------------------------------------------------
(* RequestRelay implements RequestService.  The proof rests on the         *)
(* invariants above and on one more.                                       *)

(* What the handler's position says of its message: it has been sent only  *)
(* once the handler waits or is past that, it is answered only at the end  *)
(* (a refusal just before), and a handler about to reply has a response.   *)
ServiceInv ==
  /\ \A r \in forwarded : pc[r] \in {"wait", "reply", "done"}
  /\ \A r \in Requests : pc[r] \notin {"abandon", "done"} => answer[r] = None
  /\ \A r \in Requests : pc[r] = "reply" => rx[r] # None

(* The initial state satisfies it. *)
LEMMA InitServiceInv == Init => ServiceInv
BY DEF Init, ServiceInv

(* Completing an entry takes no response away. *)
LEMMA CompleteKeepsResponses ==
  ASSUME TypeInv, NEW S, NEW response \in Responses, Complete(S, response),
         NEW r \in Requests, rx[r] # None
  PROVE  rx'[r] # None
<1>1. response # None
  BY ConstantsAssumption DEF Responses
<1>2. rx'[r] \in {rx[r], response}
  BY DEF Complete
<1> QED
  BY <1>1, <1>2

(* Every step of the relay keeps it. *)
LEMMA NextServiceInv == TypeInv /\ ServiceInv /\ [Next]_vars => ServiceInv'
<1>s. SUFFICES ASSUME TypeInv, ServiceInv, [Next]_vars PROVE ServiceInv'
  OBVIOUS
<1> USE DEF requestVars, channelVars
<1>t. /\ pc \in [Requests -> PCs] /\ answer \in [Requests -> Answers \cup {None}]
      /\ rx \in [Requests -> Responses \cup {None}]
      /\ forwarded \in SUBSET Requests
  BY Zenon, <1>s DEF TypeInv, TypeOK
<1>i. /\ \A r \in forwarded : pc[r] \in {"wait", "reply", "done"}
      /\ \A r \in Requests : pc[r] \notin {"abandon", "done"} => answer[r] = None
      /\ \A r \in Requests : pc[r] = "reply" => rx[r] # None
  BY <1>s DEF ServiceInv
(* Steps of other tasks *)
<1>a. ASSUME pc' = pc, answer' = answer, forwarded' = forwarded,
             \A r \in Requests : rx[r] # None => rx'[r] # None
      PROVE  ServiceInv'
  BY <1>a, <1>i DEF ServiceInv
<1>b. ASSUME NEW S, NEW response \in Responses, Complete(S, response)
      PROVE  \A r \in Requests : rx[r] # None => rx'[r] # None
  BY <1>s, <1>b, CompleteKeepsResponses
<1>o. "DeviceOffline" \in Responses /\ Requests \subseteq Responses
  BY DEF Responses
<1>1. ASSUME NEW r \in Requests, NEW k \in Keys, Receive(r, k) PROVE ServiceInv'
  BY <1>t, <1>i, <1>1 DEF Receive, Goto, ServiceInv
<1>2. ASSUME NEW r \in Requests, CacheGet(r) PROVE ServiceInv'
  BY <1>t, <1>i, <1>2 DEF CacheGet, Goto, ServiceInv
<1>3. ASSUME NEW r \in Requests, JoinInflight(r) PROVE ServiceInv'
  BY <1>t, <1>i, <1>3 DEF JoinInflight, Goto, ServiceInv
<1>4. ASSUME NEW r \in Requests, CreateInflight(r) PROVE ServiceInv'
  BY <1>t, <1>i, <1>4 DEF CreateInflight, Goto, ServiceInv
<1>5. ASSUME NEW r \in Requests, SessionMissing(r) PROVE ServiceInv'
  <2>1. \A w \in Requests : rx[w] # None => rx'[w] # None
    BY <1>5, <1>b, <1>o DEF SessionMissing, TakeAndComplete
  <2> QED
    BY <1>t, <1>i, <1>5, <2>1 DEF SessionMissing, Goto, ServiceInv
<1>6. ASSUME NEW r \in Requests, SessionFound(r) PROVE ServiceInv'
  BY <1>t, <1>i, <1>6 DEF SessionFound, Goto, ServiceInv
<1>7. ASSUME NEW r \in Requests, BandwidthExceeded(r) PROVE ServiceInv'
  BY <1>t, <1>i, <1>7 DEF BandwidthExceeded, Goto, ServiceInv
<1>8. ASSUME NEW r \in Requests, Forward(r) PROVE ServiceInv'
  BY <1>t, <1>i, <1>8 DEF Forward, Goto, ServiceInv
<1>9. ASSUME NEW r \in Requests, ForwardFailed(r) PROVE ServiceInv'
  <2>1. \A w \in Requests : rx[w] # None => rx'[w] # None
    BY <1>9, <1>b, <1>o DEF ForwardFailed, TakeAndComplete
  <2> QED
    BY <1>t, <1>i, <1>9, <2>1 DEF ForwardFailed, Goto, ServiceInv
<1>10. ASSUME NEW r \in Requests, Abandon(r) PROVE ServiceInv'
  BY <1>t, <1>i, <1>10 DEF Abandon, Finish, Goto, ServiceInv
<1>11. ASSUME NEW r \in Requests, CacheInsert(r) PROVE ServiceInv'
  BY <1>t, <1>i, <1>11 DEF CacheInsert, Goto, ServiceInv
<1>12. ASSUME NEW r \in Requests, Reply(r) PROVE ServiceInv'
  BY <1>t, <1>i, <1>12 DEF Reply, Finish, Goto, ServiceInv
<1>13. ASSUME NEW r \in Requests, Timeout(r) PROVE ServiceInv'
  BY <1>13, <1>a, <1>b, <1>o DEF Timeout, TakeAndComplete
<1>14. ASSUME NEW k \in Keys, CacheExpire(k) PROVE ServiceInv'
  BY <1>14, <1>a DEF CacheExpire
<1>15. ASSUME NEW l \in Links, NEW d \in Devices,
              Register(l, d) \/ RegisterRefused(l, d)
       PROVE  ServiceInv'
  BY <1>15, <1>a DEF Register, RegisterRefused
<1>16. ASSUME NEW l \in Links, NEW r \in Requests, Execute(l, r) PROVE ServiceInv'
  BY <1>16, <1>a DEF Execute
<1>17. ASSUME NEW l \in Links, NEW r \in Requests, DataResponse(l, r) PROVE ServiceInv'
  BY <1>17, <1>a, <1>b, <1>o DEF DataResponse, TakeAndComplete
<1>18. ASSUME NEW l \in Links, Disconnect(l) \/ StreamEnd(l) PROVE ServiceInv'
  BY <1>18, <1>a DEF Disconnect, StreamEnd
<1>19. ASSUME NEW l \in Links, NEW q \in Seqs, SweepInflight(l, q) PROVE ServiceInv'
  BY <1>19, <1>a DEF SweepInflight
<1>20. ASSUME NEW l \in Links, CompleteTaken(l) PROVE ServiceInv'
  BY <1>20, <1>a, <1>b, <1>o DEF CompleteTaken
<1>21. ASSUME NEW l \in Links, CheckSession(l) \/ RemoveSession(l) PROVE ServiceInv'
  BY <1>21, <1>a DEF CheckSession, RemoveSession
<1>22. CASE UNCHANGED vars
  BY <1>22, <1>a DEF vars
<1> QED
  BY Zenon, <1>s, <1>1, <1>2, <1>3, <1>4, <1>5, <1>6, <1>7, <1>8, <1>9, <1>10, <1>11,
     <1>12, <1>13, <1>14, <1>15, <1>16, <1>17, <1>18, <1>19, <1>20, <1>21, <1>22
     DEF Next, HandlerStep, TeardownStep

(* A step that moves no message in or out of "pending", and leaves keys,   *)
(* answers and the set of sent messages alone, is a stutter of the service. *)
LEMMA StutterMaps ==
  ASSUME \A w \in Requests : Status(w)' = Status(w),
         UNCHANGED <<key, answer, forwarded>>
  PROVE  UNCHANGED Service!vars
BY DEF Service!vars

(* The status of the messages when one handler moves. *)
LEMMA StatusAfterGoto ==
  ASSUME TypeInv, NEW r \in Requests, NEW p \in PCs, Goto(r, p)
  PROVE  /\ Status(r)' = IF p \in {"unsent", "done"} THEN p ELSE "pending"
         /\ \A w \in Requests \ {r} : Status(w)' = Status(w)
<1>1. pc \in [Requests -> PCs]
  BY Zenon DEF TypeInv, TypeOK
<1> QED
  BY <1>1 DEF Goto, Status

(* A handler's step between two pending positions is a stutter. *)
LEMMA PendingMoveMaps ==
  ASSUME TypeInv, NEW r \in Requests, pc[r] \notin {"unsent", "done"},
         NEW p \in PCs \ {"unsent", "done"}, Goto(r, p),
         UNCHANGED <<key, answer, forwarded>>
  PROVE  UNCHANGED Service!vars
<1>1. Status(r)' = "pending" /\ Status(r) = "pending"
  BY StatusAfterGoto DEF Status
<1>2. \A w \in Requests : Status(w)' = Status(w)
  BY <1>1, StatusAfterGoto
<1> QED
  BY <1>2, StutterMaps

(* A step that moves no handler is a stutter. *)
LEMMA IdleMaps ==
  ASSUME UNCHANGED <<pc, key, answer, forwarded>>
  PROVE  UNCHANGED Service!vars
BY StutterMaps DEF Status

(* The initial states of the relay are initial states of the service. *)
LEMMA InitMaps == Init => Service!Init
BY DEF Init, Service!Init, Status

(* Every step of the relay is a step of the service or a stutter: taking a *)
(* message in, forwarding it, refusing it, replying and giving up are the  *)
(* service's five steps, and everything else is invisible.                 *)
LEMMA NextMaps ==
  TypeInv /\ ResponseInv /\ ServiceInv /\ [Next]_vars
    => [Service!Next]_(Service!vars)
<1>s. SUFFICES ASSUME TypeInv, ResponseInv, ServiceInv, [Next]_vars
               PROVE  Service!Next \/ UNCHANGED Service!vars
  OBVIOUS
<1> USE DEF requestVars, channelVars
<1>t. /\ pc \in [Requests -> PCs] /\ rx \in [Requests -> Responses \cup {None}]
      /\ forwarded \in SUBSET Requests
  BY Zenon, <1>s DEF TypeInv, TypeOK
<1>p. /\ {"lookup", "ensure", "session", "send", "wait", "reply", "abandon"}
           \subseteq PCs \ {"unsent", "done"}
      /\ "done" \in PCs
  BY DEF PCs
<1>1. ASSUME NEW r \in Requests, NEW k \in Keys, Receive(r, k) PROVE Service!Next
  <2>1. Status(r) = "unsent" /\ Status(r)' = "pending"
    BY <1>s, <1>1, <1>p, StatusAfterGoto DEF Receive, Status
  <2>2. \A w \in Requests \ {r} : Status(w)' = Status(w)
    BY <1>s, <1>1, <1>p, StatusAfterGoto DEF Receive
  <2>3. Service!Accept(r, k)
    BY Zenon, <1>1, <2>1, <2>2 DEF Service!Accept, Receive
  <2> QED
    BY <2>3 DEF Service!Next
<1>2. ASSUME NEW r \in Requests,
             \/ CacheGet(r) \/ JoinInflight(r) \/ CreateInflight(r)
             \/ SessionMissing(r) \/ SessionFound(r)
             \/ ForwardFailed(r) \/ CacheInsert(r)
      PROVE  UNCHANGED Service!vars
  <2>1. CASE CacheGet(r)
    BY <1>s, <1>p, <2>1, PendingMoveMaps DEF CacheGet
  <2>2. CASE JoinInflight(r)
    BY <1>s, <1>p, <2>2, PendingMoveMaps DEF JoinInflight
  <2>3. CASE CreateInflight(r)
    BY <1>s, <1>p, <2>3, PendingMoveMaps DEF CreateInflight
  <2>4. CASE SessionMissing(r)
    BY <1>s, <1>p, <2>4, PendingMoveMaps DEF SessionMissing
  <2>5. CASE SessionFound(r)
    BY <1>s, <1>p, <2>5, PendingMoveMaps DEF SessionFound
  <2>6. CASE ForwardFailed(r)
    BY <1>s, <1>p, <2>6, PendingMoveMaps DEF ForwardFailed
  <2>7. CASE CacheInsert(r)
    BY <1>s, <1>p, <2>7, PendingMoveMaps DEF CacheInsert
  <2> QED
    BY <1>2, <2>1, <2>2, <2>3, <2>4, <2>5, <2>6, <2>7
<1>3. ASSUME NEW r \in Requests, BandwidthExceeded(r) PROVE Service!Next
  <2>1. Status(r) = "pending" /\ answer[r] = None /\ r \notin forwarded
    BY <1>s, <1>3 DEF BandwidthExceeded, Status, ServiceInv
  <2>2. \A w \in Requests : Status(w)' = Status(w)
    BY <1>s, <1>3, <1>p, <2>1, StatusAfterGoto DEF BandwidthExceeded
  <2>3. Service!Refuse(r)
    BY <1>3, <2>1, <2>2 DEF Service!Refuse, Service!Open, BandwidthExceeded
  <2> QED
    BY <2>3 DEF Service!Next
<1>4. ASSUME NEW r \in Requests, Forward(r) PROVE Service!Next
  <2>1. Status(r) = "pending" /\ answer[r] = None /\ r \notin forwarded
    BY <1>s, <1>4 DEF Forward, Status, ServiceInv
  <2>2. \A w \in Requests : Status(w)' = Status(w)
    BY <1>s, <1>4, <1>p, <2>1, StatusAfterGoto DEF Forward
  <2>3. Service!Send(r)
    BY <1>4, <2>1, <2>2 DEF Service!Send, Service!Open, Forward
  <2> QED
    BY <2>3 DEF Service!Next
<1>5. ASSUME NEW r \in Requests, Abandon(r) PROVE Service!Next
  <2>1. Status(r) = "pending" /\ r \notin forwarded
    BY <1>s, <1>5 DEF Abandon, Status, ServiceInv
  <2>2. Status(r)' = "done" /\ \A w \in Requests \ {r} : Status(w)' = Status(w)
    BY <1>s, <1>5, <1>p, StatusAfterGoto DEF Abandon, Finish
  <2>3. Service!GiveUp(r)
    BY Zenon, <1>5, <2>1, <2>2 DEF Service!GiveUp, Abandon
  <2> QED
    BY <2>3 DEF Service!Next
<1>6. ASSUME NEW r \in Requests, Reply(r) PROVE Service!Next
  <2>1. Status(r) = "pending" /\ answer[r] = None /\ rx[r] # None
    BY Zenon, <1>s, <1>6 DEF Reply, Status, ServiceInv
  <2>2. Status(r)' = "done" /\ \A w \in Requests \ {r} : Status(w)' = Status(w)
    BY <1>s, <1>6, <1>p, StatusAfterGoto DEF Reply, Finish
  <2>3. rx[r] \in Responses /\ Matches(rx[r], key[r])
    BY Zenon, <1>s, <1>t, <2>1 DEF ResponseInv
  <2>4. rx[r] \in Service!Results(r) \cup {"DeviceOffline"}
    BY <2>3 DEF Responses, Matches, Service!Results
  <2>5. Service!Answer(r)
    BY Zenon, <1>6, <2>1, <2>2, <2>4 DEF Service!Answer, Service!Open, Reply
  <2> QED
    BY <2>5 DEF Service!Next
<1>7. ASSUME NEW r \in Requests, Timeout(r) PROVE UNCHANGED Service!vars
  BY <1>7, IdleMaps DEF Timeout
<1>8. ASSUME NEW k \in Keys, CacheExpire(k) PROVE UNCHANGED Service!vars
  BY <1>8, IdleMaps DEF CacheExpire
<1>9. ASSUME NEW l \in Links, NEW d \in Devices,
             Register(l, d) \/ RegisterRefused(l, d)
      PROVE  UNCHANGED Service!vars
  BY <1>9, IdleMaps DEF Register, RegisterRefused
<1>10. ASSUME NEW l \in Links, NEW r \in Requests, Execute(l, r) \/ DataResponse(l, r)
       PROVE  UNCHANGED Service!vars
  BY <1>10, IdleMaps DEF Execute, DataResponse
<1>11. ASSUME NEW l \in Links, Disconnect(l) \/ StreamEnd(l)
       PROVE  UNCHANGED Service!vars
  BY <1>11, IdleMaps DEF Disconnect, StreamEnd
<1>12. ASSUME NEW l \in Links, NEW q \in Seqs, SweepInflight(l, q)
       PROVE  UNCHANGED Service!vars
  BY <1>12, IdleMaps DEF SweepInflight
<1>13. ASSUME NEW l \in Links, CompleteTaken(l) \/ CheckSession(l) \/ RemoveSession(l)
       PROVE  UNCHANGED Service!vars
  BY <1>13, IdleMaps DEF CompleteTaken, CheckSession, RemoveSession
<1>14. CASE UNCHANGED vars
  BY <1>14, IdleMaps DEF vars
<1> QED
  BY Zenon, <1>s, <1>1, <1>2, <1>3, <1>4, <1>5, <1>6, <1>7, <1>8, <1>9, <1>10, <1>11,
     <1>12, <1>13, <1>14 DEF Next, HandlerStep, TeardownStep

(* The relay keeps the promises of RequestService, whatever the numbers of *)
(* requests, devices, connections and sequence numbers: a message is sent  *)
(* at most once, a sent message ends with the result of a message of its   *)
(* own device and sequence number or with DeviceOffline, and an answer is  *)
(* final (handle_controller_data_request with the in-flight table).        *)
THEOREM RelayImplementsService == Spec => ImplementsService
<1>1. TypeInv /\ InflightInv /\ ResponseInv /\ ServiceInv /\ [Next]_vars
        => (TypeInv /\ InflightInv /\ ResponseInv /\ ServiceInv)'
  BY NextTypeInv, NextInflightInv, NextResponseInv, NextServiceInv
<1> QED
  BY <1>1, InitTypeInv, InitInflightInv, InitResponseInv, InitServiceInv,
     InitMaps, NextMaps, PTL DEF Spec, ImplementsService, Service!Spec
=============================================================================
