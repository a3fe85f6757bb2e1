------------------------- MODULE DeviceClientProofs -------------------------
(* Proofs about DeviceClient, for any capacities, limits and intervals,    *)
(* any number of permits and any requests.                                 *)
EXTENDS DeviceClient, SequenceTheorems, NaturalsInduction, WellFoundedInduction, TLAPS

(* What the proofs use of the constants. *)
Constants ==
  /\ heartbeat_interval \in Nat /\ heartbeat_interval > 0
  /\ heartbeat_timeout \in Nat /\ heartbeat_interval < heartbeat_timeout
  /\ MAX_CONCURRENT_DATA_HANDLERS \in Nat
  /\ DeviceCapacity \in Nat /\ DeviceCapacity > 0 /\ MaxMissed \in Nat
  /\ device_limit \in Nat /\ device_window \in Nat /\ device_window > 0
  /\ None \notin Int /\ None \notin Requests
  /\ None # "loop" /\ None # "answer"
  /\ Requests \cap {"Register", "Heartbeat", "RegisterResponse", "HeartbeatResponse"} = {}

(* It holds of every configuration. *)
LEMMA ClientConstants == Constants
BY ClientAssumption DEF ClientParameters, Constants

-----------------------------------------------------------------------------
(* Heartbeats *)

ToRelay == Requests \cup {"Register", "Heartbeat"}
ToDevice == Requests \cup {"RegisterResponse", "HeartbeatResponse"}

In(m, s) == \E i \in 1..Len(s) : s[i] = m

(* The types that the proofs use. *)
ClientTypes ==
  /\ tx \in Seq(ToRelay) /\ out \in Seq(ToDevice)
  /\ relay = "answer" => owed \in {"RegisterResponse", "HeartbeatResponse"}
  /\ reading \in Requests \cup {None}
  /\ handling \subseteq Requests /\ sent \subseteq Requests /\ waiting \subseteq sent
  /\ permits \in Nat /\ silence \in Nat
  /\ heartbeat \in Int \cup {None}
  /\ heartbeat # None => heartbeat <= heartbeat_interval

(* Without a stream of its own the client sends nothing; with one that is  *)
(* registered it has a heartbeat.                                          *)
ActiveInv ==
  /\ pc \notin {"register", "open"} =>
       tx = <<>> /\ reading = None /\ handling = {} /\ relay # "answer"
  /\ pc = "open" <=> heartbeat # None

(* The registration that a client waits for is under way. *)
RegisterInv ==
  pc = "register" /\ relay \in {"loop", "answer"} =>
    \/ In("Register", tx)
    \/ relay = "answer" /\ owed = "RegisterResponse"
    \/ In("RegisterResponse", out)

(* While the network is up and the relay waits for a message, time passes  *)
(* only if the client waits for a permit, or until its next heartbeat.     *)
SilenceInv ==
  relay = "loop" /\ network = "up" /\ tx = <<>> =>
    /\ pc = "register" /\ silence > 0 => HoldsRequest /\ permits = 0
    /\ pc = "open" => /\ silence + heartbeat <= heartbeat_interval
                      /\ silence > 0 => heartbeat >= 0

-----------------------------------------------------------------------------

(* Sending a message. *)
LEMMA AppendIn ==
  ASSUME NEW S, NEW s \in Seq(S), NEW m \in S
  PROVE  /\ Append(s, m) \in Seq(S) /\ Append(s, m) # <<>> /\ In(m, Append(s, m))
         /\ \A n : In(n, s) => In(n, Append(s, m))
<1>1. /\ Append(s, m) \in Seq(S) /\ Len(Append(s, m)) = Len(s) + 1 /\ Len(s) \in Nat
      /\ Append(s, m)[Len(s) + 1] = m
      /\ \A i \in 1..Len(s) : Append(s, m)[i] = s[i]
  BY AppendProperties, LenProperties
<1>2. In(m, Append(s, m))
  BY <1>1 DEF In
<1>3. \A n : In(n, s) => In(n, Append(s, m))
  BY <1>1 DEF In
<1> QED
  BY <1>1, <1>2, <1>3 DEF In

(* Taking one. *)
LEMMA TailIn ==
  ASSUME NEW S, NEW s \in Seq(S), s # <<>>
  PROVE  /\ Head(s) \in S /\ Tail(s) \in Seq(S)
         /\ \A n : In(n, s) /\ n # Head(s) => In(n, Tail(s))
<1>1. /\ Head(s) \in S /\ Tail(s) \in Seq(S) /\ Len(s) \in Nat /\ Len(s) >= 1
      /\ Len(Tail(s)) = Len(s) - 1
      /\ \A i \in 1..Len(Tail(s)) : Tail(s)[i] = s[i + 1]
      /\ Head(s) = s[1]
  BY HeadTailProperties, EmptySeq, LenProperties
<1>2. ASSUME NEW n, In(n, s), n # Head(s) PROVE In(n, Tail(s))
  <2>1. PICK i \in 1..Len(s) : s[i] = n
    BY <1>2 DEF In
  <2>2. i # 1 /\ i - 1 \in 1..Len(Tail(s)) /\ Tail(s)[i - 1] = n
    BY <1>1, <1>2, <2>1
  <2> QED
    BY <2>2 DEF In
<1> QED
  BY <1>1, <1>2

(* An empty channel. *)
LEMMA EmptyIn == \A S : <<>> \in Seq(S) /\ Len(<<>>) = 0 /\ \A n : ~In(n, <<>>)
BY EmptySeq DEF In

(* What a send leaves in tx. *)
LEMMA TxWithFacts ==
  ASSUME tx \in Seq(ToRelay), NEW m \in ToRelay
  PROVE  /\ TxWith(m) \in Seq(ToRelay)
         /\ relay = "loop" => TxWith(m) # <<>>
         /\ \A n : In(n, tx) => In(n, TxWith(m))
BY AppendIn DEF TxWith

(* Types are kept. *)
LEMMA NextClientTypes ==
  Constants /\ ClientTypes /\ [Next]_vars
    => ClientTypes'
<1>s. SUFFICES ASSUME Constants, ClientTypes, [Next]_vars
               PROVE  ClientTypes'
  OBVIOUS
<1> USE DEF clientVars, streamVars, relayVars, limitVars, requestVars,
      worldVars
<1>c. Constants
  BY <1>s
<1>m. /\ \A r \in Requests : r \in ToRelay /\ r \in ToDevice
      /\ "Register" \in ToRelay /\ "Heartbeat" \in ToRelay
      /\ "RegisterResponse" \in ToDevice /\ "HeartbeatResponse" \in ToDevice
  BY DEF ToRelay, ToDevice
<1>t. /\ tx \in Seq(ToRelay) /\ out \in Seq(ToDevice)
      /\ tx # <<>> => Head(tx) \in ToRelay /\ Tail(tx) \in Seq(ToRelay)
      /\ out # <<>> => Head(out) \in ToDevice /\ Tail(out) \in Seq(ToDevice)
  BY <1>s, TailIn DEF ClientTypes
<1>1. ASSUME Wake PROVE ClientTypes'
  BY <1>s, <1>1 DEF Wake, ClientTypes
<1>2. ASSUME Connect PROVE ClientTypes'
  BY <1>s, <1>2 DEF Connect, ClientTypes
<1>3. ASSUME CallFails PROVE ClientTypes'
  BY <1>s, <1>3 DEF CallFails, ClientTypes
<1>4. ASSUME DeviceConnect PROVE ClientTypes'
  <2>1. relay' \in {relay, "loop"} /\ silence' \in {silence, 0}
    BY Zenon, <1>4 DEF DeviceConnect
  <2> QED
    BY <1>s, <1>4, <2>1 DEF DeviceConnect, ClientTypes
<1>5. ASSUME Register PROVE ClientTypes'
  <2>1. tx' \in Seq(ToRelay)
    BY Zenon, <1>t, <1>m, <1>5, AppendIn DEF Register
  <2>2. relay' \in {relay, None}
    BY <1>5 DEF Register
  <2> QED
    BY <1>s, <1>5, <2>1, <2>2, <1>c DEF Constants, Register, ClientTypes
<1>6. ASSUME ReadMessage PROVE ClientTypes'
  <2>1. out' \in Seq(ToDevice) /\ Head(out) \in ToDevice
    BY <1>t, <1>6 DEF ReadMessage
  <2>2. /\ reading' \in Requests \cup {None}
        /\ heartbeat' \in {heartbeat, 0}
    BY <1>s, <1>6, <2>1 DEF ReadMessage, ClientTypes, ToDevice
  <2>3. UNCHANGED <<tx, relay, owed, handling, permits, silence, sent, waiting>>
    BY <1>6 DEF ReadMessage
  <2> QED
    BY <1>s, <2>1, <2>2, <2>3, <1>c DEF Constants, ClientTypes
<1>7. ASSUME NEW r \in Requests, OrphanEnds(r) PROVE ClientTypes'
  BY <1>s, <1>7 DEF OrphanEnds, ClientTypes
<1>8. ASSUME StartHandler PROVE ClientTypes'
  BY <1>s, <1>8 DEF StartHandler, HoldsRequest, ClientTypes
<1>9. ASSUME StreamEnds PROVE ClientTypes'
  BY <1>s, <1>9, <1>c, EmptyIn DEF Constants, StreamEnds, Reset, ClientTypes
<1>10. ASSUME ReadOversized PROVE ClientTypes'
  BY <1>s, <1>10, <1>c, EmptyIn DEF Constants, ReadOversized, Reset, ClientTypes
<1>11. ASSUME Heartbeat PROVE ClientTypes'
  <2>1. tx' \in Seq(ToRelay)
    BY <1>t, <1>m, <1>11, TxWithFacts DEF Heartbeat
  <2>2. /\ heartbeat' \in Int /\ heartbeat' <= heartbeat_interval
    BY <1>s, <1>11, <1>c DEF Constants, Heartbeat, HeartbeatDue, ClientTypes
  <2> QED
    BY <1>s, <1>11, <2>1, <2>2, <1>c DEF Constants, Heartbeat, ClientTypes
<1>12. ASSUME ReceiveRegister PROVE ClientTypes'
  <2>1. tx' \in Seq(ToRelay) /\ (relay' = "answer" => owed' = "RegisterResponse")
    BY Zenon, <1>t, <1>m, <1>12, EmptyIn DEF ReceiveRegister, Receiving
  <2> QED
    BY <1>s, <1>12, <2>1 DEF ReceiveRegister, Heard, ClientTypes
<1>13. ASSUME ReceiveHeartbeat PROVE ClientTypes'
  BY <1>s, <1>t, <1>m, <1>13 DEF ReceiveHeartbeat, Receiving, Heard, ClientTypes
<1>14. ASSUME ReceiveData PROVE ClientTypes'
  BY <1>s, <1>t, <1>m, <1>14 DEF ReceiveData, Receiving, Heard, ClientTypes
<1>15. ASSUME SendOwed PROVE ClientTypes'
  <2>1. out' \in Seq(ToDevice)
    BY <1>s, <1>t, <1>15, AppendIn DEF SendOwed, ClientTypes, ToDevice
  <2> QED
    BY <1>s, <1>15, <2>1 DEF SendOwed, ClientTypes
<1>16. ASSUME HeartbeatTimeout PROVE ClientTypes'
  BY <1>s, <1>16, EmptyIn DEF HeartbeatTimeout, ClientTypes
<1>17. ASSUME SendRequest PROVE ClientTypes'
  <2> DEFINE r == CHOOSE q \in Requests \ sent : TRUE
  <2>0. \E q \in Requests \ sent : TRUE
    BY Zenon, <1>s, <1>17 DEF SendRequest, ClientTypes
  <2>1. r \in Requests
    BY <2>0
  <2>3. out' = Append(out, r) /\ sent' = sent \cup {r} /\ waiting' = waiting \cup {r}
    BY <1>17 DEF SendRequest
  <2> HIDE DEF r
  <2>2. out' \in Seq(ToDevice)
    BY <1>t, <1>m, <2>1, <2>3, AppendIn
  <2>4. UNCHANGED <<tx, relay, owed, reading, handling, permits, silence, heartbeat>>
    BY <1>17 DEF SendRequest
  <2> QED
    BY <1>s, <2>1, <2>2, <2>3, <2>4 DEF ClientTypes
<1>18. ASSUME Tick PROVE ClientTypes'
  <2>1. heartbeat' \in Int \cup {None} /\ (heartbeat' # None => heartbeat' <= heartbeat_interval)
    BY <1>s, <1>18, <1>c DEF Constants, Tick, ClientTypes
  <2> QED
    BY <1>s, <1>18, <2>1 DEF Tick, ClientTypes
<1>19. ASSUME NEW r \in Requests, Respond(r) PROVE ClientTypes'
  <2>1. tx' \in Seq(ToRelay)
    BY <1>t, <1>m, <1>19, TxWithFacts DEF Respond
  <2> QED
    BY <1>s, <1>19, <2>1 DEF Respond, ClientTypes
<1>20. ASSUME NetworkChanges PROVE ClientTypes'
  BY <1>s, <1>20 DEF NetworkChanges, ClientTypes
<1>21. ASSUME StreamBreaks PROVE ClientTypes'
  BY <1>s, <1>21, EmptyIn DEF StreamBreaks, ClientTypes
<1>22. ASSUME OtherConnects PROVE ClientTypes'
  BY <1>s, <1>22 DEF OtherConnects, ClientTypes
<1>23. ASSUME Calm PROVE ClientTypes'
  BY <1>s, <1>23 DEF Calm, ClientTypes
<1>24. CASE UNCHANGED vars
  BY <1>s, <1>24 DEF vars, ClientTypes
<1> QED
  BY Zenon, <1>s, <1>1, <1>2, <1>3, <1>4, <1>5, <1>6, <1>7, <1>8, <1>9,
     <1>10, <1>11, <1>12, <1>13, <1>14, <1>15, <1>16, <1>17, <1>18, <1>19,
     <1>20, <1>21, <1>22, <1>23, <1>24 DEF Next, ClientStep, RelayStep

(* The client keeps to its stream. *)
LEMMA NextActiveInv ==
  Constants /\ ClientTypes /\ ActiveInv /\ [Next]_vars
    => ActiveInv'
<1>s. SUFFICES ASSUME Constants, ClientTypes, ActiveInv, [Next]_vars
               PROVE  ActiveInv'
  OBVIOUS
<1> USE DEF clientVars, streamVars, relayVars, limitVars, requestVars,
      worldVars
<1>c. Constants
  BY <1>s
<1>1. ASSUME Wake PROVE ActiveInv'
  BY <1>s, <1>1 DEF Wake, ActiveInv
<1>2. ASSUME Connect PROVE ActiveInv'
  BY <1>s, <1>2 DEF Connect, ActiveInv
<1>3. ASSUME CallFails PROVE ActiveInv'
  BY <1>s, <1>3 DEF CallFails, Retry, ActiveInv
<1>4. ASSUME DeviceConnect PROVE ActiveInv'
  BY <1>s, <1>4 DEF DeviceConnect, Retry, ActiveInv
<1>5. ASSUME Register PROVE ActiveInv'
  BY <1>s, <1>5, <1>c DEF Constants, Register, ActiveInv
<1>6. ASSUME ReadMessage PROVE ActiveInv'
  BY <1>s, <1>6, <1>c DEF Constants, ReadMessage, ReaderFree, ActiveInv, ClientTypes
<1>7. ASSUME NEW r \in Requests, OrphanEnds(r) PROVE ActiveInv'
  BY <1>s, <1>7 DEF OrphanEnds, ActiveInv
<1>8. ASSUME StartHandler PROVE ActiveInv'
  BY <1>s, <1>8 DEF StartHandler, HoldsRequest, ActiveInv
<1>9. ASSUME StreamEnds PROVE ActiveInv'
  BY <1>s, <1>9, <1>c DEF Constants, StreamEnds, Reset, Retry, ActiveInv
<1>10. ASSUME ReadOversized PROVE ActiveInv'
  BY <1>s, <1>10, <1>c DEF Constants, ReadOversized, Reset, Retry, ActiveInv
<1>11. ASSUME Heartbeat PROVE ActiveInv'
  BY <1>s, <1>11, <1>c DEF Constants, Heartbeat, HeartbeatDue, ClientTypes, ActiveInv
<1>12. ASSUME ReceiveRegister PROVE ActiveInv'
  BY <1>s, <1>12 DEF ReceiveRegister, Receiving, ActiveInv
<1>13. ASSUME ReceiveHeartbeat PROVE ActiveInv'
  BY <1>s, <1>13 DEF ReceiveHeartbeat, Receiving, ActiveInv
<1>14. ASSUME ReceiveData PROVE ActiveInv'
  BY <1>s, <1>14 DEF ReceiveData, Receiving, ActiveInv
<1>15. ASSUME SendOwed PROVE ActiveInv'
  BY <1>s, <1>15 DEF SendOwed, ActiveInv
<1>16. ASSUME HeartbeatTimeout PROVE ActiveInv'
  BY <1>s, <1>16 DEF HeartbeatTimeout, ActiveInv
<1>17. ASSUME SendRequest PROVE ActiveInv'
  BY <1>s, <1>17 DEF SendRequest, ActiveInv
<1>18. ASSUME Tick PROVE ActiveInv'
  BY <1>s, <1>18, <1>c DEF Constants, Tick, ClientTypes, ActiveInv
<1>19. ASSUME NEW r \in Requests, Respond(r) PROVE ActiveInv'
  BY <1>s, <1>19 DEF Respond, ActiveInv
<1>20. ASSUME NetworkChanges PROVE ActiveInv'
  BY <1>s, <1>20 DEF NetworkChanges, ActiveInv
<1>21. ASSUME StreamBreaks PROVE ActiveInv'
  BY <1>s, <1>21 DEF StreamBreaks, ActiveInv
<1>22. ASSUME OtherConnects PROVE ActiveInv'
  BY <1>s, <1>22 DEF OtherConnects, ActiveInv
<1>23. ASSUME Calm PROVE ActiveInv'
  BY <1>s, <1>23 DEF Calm, ActiveInv
<1>24. CASE UNCHANGED vars
  BY <1>s, <1>24 DEF vars, ActiveInv
<1> QED
  BY Zenon, <1>s, <1>1, <1>2, <1>3, <1>4, <1>5, <1>6, <1>7, <1>8, <1>9,
     <1>10, <1>11, <1>12, <1>13, <1>14, <1>15, <1>16, <1>17, <1>18, <1>19,
     <1>20, <1>21, <1>22, <1>23, <1>24 DEF Next, ClientStep, RelayStep

(* A registration does not get lost while the relay's handler lives. *)
LEMMA NextRegisterInv ==
  Constants /\ ClientTypes /\ ActiveInv /\ RegisterInv /\ [Next]_vars
    => RegisterInv'
<1>s. SUFFICES ASSUME Constants, ClientTypes, ActiveInv, RegisterInv, [Next]_vars
               PROVE  RegisterInv'
  OBVIOUS
<1> USE DEF clientVars, streamVars, relayVars, limitVars, requestVars,
      worldVars
<1>c. Constants
  BY <1>s
<1>t. /\ tx \in Seq(ToRelay) /\ out \in Seq(ToDevice)
      /\ \A r \in Requests : r \in ToRelay /\ r \in ToDevice
      /\ "Register" \in ToRelay /\ "Heartbeat" \in ToRelay
  BY <1>s DEF ClientTypes, ToRelay, ToDevice
<1>1. ASSUME Wake PROVE RegisterInv'
  BY <1>s, <1>1 DEF Wake, RegisterInv
<1>2. ASSUME Connect PROVE RegisterInv'
  BY <1>s, <1>2 DEF Connect, RegisterInv
<1>3. ASSUME CallFails PROVE RegisterInv'
  BY <1>s, <1>3, <1>c DEF Constants, CallFails, Retry, RegisterInv
<1>4. ASSUME DeviceConnect PROVE RegisterInv'
  BY <1>s, <1>4, <1>c DEF Constants, DeviceConnect, Retry, RegisterInv
<1>5. ASSUME Register PROVE RegisterInv'
  <2>1. In("Register", Append(tx, "Register"))
    BY <1>t, AppendIn
  <2> QED
    BY <1>s, <1>5, <2>1, <1>c DEF Constants, Register, RegisterInv, ActiveInv
<1>6. ASSUME ReadMessage PROVE RegisterInv'
  <2>1. \A n : In(n, out) /\ n # Head(out) => In(n, Tail(out))
    BY <1>t, <1>6, TailIn DEF ReadMessage
  <2>2. /\ out' = Tail(out) /\ UNCHANGED <<tx, relay, owed>>
        /\ Head(out) = "RegisterResponse" => pc' = "open"
        /\ Head(out) # "RegisterResponse" => pc' = pc
    BY <1>6 DEF ReadMessage
  <2> QED
    BY <1>s, <2>1, <2>2 DEF RegisterInv
<1>7. ASSUME NEW r \in Requests, OrphanEnds(r) PROVE RegisterInv'
  BY <1>s, <1>7 DEF OrphanEnds, RegisterInv
<1>8. ASSUME StartHandler PROVE RegisterInv'
  BY <1>s, <1>8 DEF StartHandler, RegisterInv
<1>9. ASSUME StreamEnds PROVE RegisterInv'
  BY <1>s, <1>9, <1>c DEF Constants, StreamEnds, Reset, Retry, RegisterInv
<1>10. ASSUME ReadOversized PROVE RegisterInv'
  BY <1>s, <1>10, <1>c DEF Constants, ReadOversized, Reset, Retry, RegisterInv
<1>11. ASSUME Heartbeat PROVE RegisterInv'
  <2>1. /\ \A n : In(n, tx) => In(n, tx')
        /\ UNCHANGED <<pc, relay, owed, out>>
    BY <1>t, <1>11, TxWithFacts DEF Heartbeat
  <2> QED
    BY <1>s, <2>1 DEF RegisterInv
<1>12. ASSUME ReceiveRegister PROVE RegisterInv'
  BY <1>s, <1>12 DEF ReceiveRegister, RegisterInv
<1>13. ASSUME ReceiveHeartbeat PROVE RegisterInv'
  <2>1. /\ \A n : In(n, tx) /\ n # Head(tx) => In(n, Tail(tx))
        /\ Head(tx) # "Register"
    BY <1>t, <1>13, <1>c, TailIn DEF Constants, ReceiveHeartbeat, Receiving
  <2>2. /\ UNCHANGED <<pc, out>> /\ tx' = Tail(tx)
        /\ relay = "loop"
    BY <1>13 DEF ReceiveHeartbeat, Receiving
  <2> QED
    BY <1>s, <2>1, <2>2 DEF RegisterInv
<1>14. ASSUME ReceiveData PROVE RegisterInv'
  <2>1. /\ \A n : In(n, tx) /\ n # Head(tx) => In(n, Tail(tx))
        /\ Head(tx) # "Register"
    BY <1>t, <1>14, <1>c, TailIn DEF Constants, ReceiveData, Receiving
  <2>2. /\ UNCHANGED <<pc, out>> /\ tx' = Tail(tx)
        /\ relay = "loop"
    BY <1>14 DEF ReceiveData, Receiving
  <2> QED
    BY <1>s, <2>1, <2>2 DEF RegisterInv
<1>15. ASSUME SendOwed PROVE RegisterInv'
  <2>1. In(owed, out') /\ \A n : In(n, out) => In(n, out')
    BY <1>s, <1>t, <1>15, AppendIn DEF SendOwed, ClientTypes, ToDevice
  <2> QED
    BY <1>s, <1>15, <2>1 DEF SendOwed, RegisterInv
<1>16. ASSUME HeartbeatTimeout PROVE RegisterInv'
  BY <1>s, <1>16 DEF HeartbeatTimeout, RegisterInv
<1>17. ASSUME SendRequest PROVE RegisterInv'
  <2> DEFINE r == CHOOSE q \in Requests \ sent : TRUE
  <2>0. \E q \in Requests \ sent : TRUE
    BY Zenon, <1>s, <1>17 DEF SendRequest, ClientTypes
  <2>1. r \in Requests
    BY <2>0
  <2>2. out' = Append(out, r) /\ UNCHANGED <<pc, relay, owed, tx>>
    BY <1>17 DEF SendRequest
  <2> HIDE DEF r
  <2>3. \A n : In(n, out) => In(n, out')
    BY <1>t, <2>1, <2>2, AppendIn
  <2> QED
    BY <1>s, <2>2, <2>3 DEF RegisterInv
<1>18. ASSUME Tick PROVE RegisterInv'
  BY <1>s, <1>18 DEF Tick, RegisterInv
<1>19. ASSUME NEW r \in Requests, Respond(r) PROVE RegisterInv'
  <2>1. /\ \A n : In(n, tx) => In(n, tx')
        /\ UNCHANGED <<pc, relay, owed, out>>
    BY <1>t, <1>19, TxWithFacts DEF Respond
  <2> QED
    BY <1>s, <2>1 DEF RegisterInv
<1>20. ASSUME NetworkChanges PROVE RegisterInv'
  BY <1>s, <1>20 DEF NetworkChanges, RegisterInv
<1>21. ASSUME StreamBreaks PROVE RegisterInv'
  BY <1>s, <1>21 DEF StreamBreaks, RegisterInv
<1>22. ASSUME OtherConnects PROVE RegisterInv'
  BY <1>s, <1>22 DEF OtherConnects, RegisterInv
<1>23. ASSUME Calm PROVE RegisterInv'
  BY <1>s, <1>23 DEF Calm, RegisterInv
<1>24. CASE UNCHANGED vars
  BY <1>s, <1>24 DEF vars, RegisterInv
<1> QED
  BY Zenon, <1>s, <1>1, <1>2, <1>3, <1>4, <1>5, <1>6, <1>7, <1>8, <1>9,
     <1>10, <1>11, <1>12, <1>13, <1>14, <1>15, <1>16, <1>17, <1>18, <1>19,
     <1>20, <1>21, <1>22, <1>23, <1>24 DEF Next, ClientStep, RelayStep

(* The relay's wait is bounded by the device's next heartbeat. *)
LEMMA NextSilenceInv ==
  Constants /\ ClientTypes /\ ActiveInv /\ RegisterInv /\ SilenceInv /\ [Next]_vars
    => SilenceInv'
<1>s. SUFFICES ASSUME Constants, ClientTypes, ActiveInv, RegisterInv, SilenceInv, [Next]_vars
               PROVE  SilenceInv'
  OBVIOUS
<1> USE DEF clientVars, streamVars, relayVars, limitVars, requestVars,
      worldVars
<1>c. Constants
  BY <1>s
<1>t. /\ tx \in Seq(ToRelay) /\ out \in Seq(ToDevice)
      /\ \A r \in Requests : r \in ToRelay /\ r \in ToDevice
      /\ "Register" \in ToRelay /\ "Heartbeat" \in ToRelay
  BY <1>s DEF ClientTypes, ToRelay, ToDevice
<1>h. pc = "open" => heartbeat \in Int /\ heartbeat <= heartbeat_interval
  BY <1>s DEF ClientTypes, ActiveInv
<1>n. silence \in Nat /\ permits \in Nat /\ heartbeat_interval \in Nat /\ None # "loop"
  BY <1>s, <1>c DEF Constants, ClientTypes
<1>1. ASSUME Wake PROVE SilenceInv'
  BY <1>s, <1>1 DEF Wake, HoldsRequest, SilenceInv
<1>2. ASSUME Connect PROVE SilenceInv'
  BY <1>s, <1>2 DEF Connect, HoldsRequest, SilenceInv
<1>3. ASSUME CallFails PROVE SilenceInv'
  BY <1>s, <1>3 DEF CallFails, Retry, HoldsRequest, SilenceInv
<1>4. ASSUME DeviceConnect PROVE SilenceInv'
  BY <1>s, <1>4 DEF DeviceConnect, Retry, HoldsRequest, SilenceInv
<1>5. ASSUME Register PROVE SilenceInv'
  BY <1>s, <1>t, <1>n, <1>5, AppendIn DEF Register, SilenceInv
<1>6. ASSUME ReadMessage PROVE SilenceInv'
  <2>1. /\ reading = None /\ UNCHANGED <<relay, network, tx, permits, silence>>
        /\ \/ pc' = "open" /\ heartbeat' = 0
           \/ UNCHANGED <<pc, heartbeat>>
    BY <1>6 DEF ReadMessage, ReaderFree
  <2>2. pc = "register" /\ relay = "loop" /\ network = "up" /\ tx = <<>> => silence = 0
    BY <1>s, <1>n, <2>1 DEF SilenceInv, HoldsRequest
  <2>3. pc \in {"register", "open"}
    BY <1>6 DEF ReadMessage, ReaderFree
  <2> QED
    BY <1>s, <1>n, <1>h, <2>1, <2>2, <2>3 DEF SilenceInv
<1>7. ASSUME NEW r \in Requests, OrphanEnds(r) PROVE SilenceInv'
  BY <1>s, <1>7 DEF OrphanEnds, HoldsRequest, SilenceInv
<1>8. ASSUME StartHandler PROVE SilenceInv'
  BY <1>s, <1>n, <1>8 DEF StartHandler, HoldsRequest, SilenceInv
<1>9. ASSUME StreamEnds PROVE SilenceInv'
  BY <1>s, <1>n, <1>9 DEF StreamEnds, Reset, SilenceInv
<1>10. ASSUME ReadOversized PROVE SilenceInv'
  BY <1>s, <1>n, <1>10 DEF ReadOversized, Reset, SilenceInv
<1>11. ASSUME Heartbeat PROVE SilenceInv'
  <2>1. relay = "loop" => tx' # <<>>
    BY <1>t, <1>11, TxWithFacts DEF Heartbeat
  <2> QED
    BY <1>11, <2>1 DEF Heartbeat, SilenceInv
<1>12. ASSUME ReceiveRegister PROVE SilenceInv'
  <2>1. silence' = 0 /\ UNCHANGED <<pc, heartbeat>>
    BY <1>12 DEF ReceiveRegister, Heard
  <2> QED
    BY <1>h, <2>1 DEF SilenceInv
<1>13. ASSUME ReceiveHeartbeat PROVE SilenceInv'
  <2>1. silence' = 0 /\ UNCHANGED <<pc, heartbeat>>
    BY <1>13 DEF ReceiveHeartbeat, Heard
  <2> QED
    BY <1>h, <2>1 DEF SilenceInv
<1>14. ASSUME ReceiveData PROVE SilenceInv'
  <2>1. silence' = 0 /\ UNCHANGED <<pc, heartbeat>>
    BY <1>14 DEF ReceiveData, Heard
  <2> QED
    BY <1>h, <2>1 DEF SilenceInv
<1>15. ASSUME SendOwed PROVE SilenceInv'
  <2>1. silence' = 0 /\ UNCHANGED <<pc, heartbeat>>
    BY <1>15 DEF SendOwed
  <2> QED
    BY <1>h, <2>1 DEF SilenceInv
<1>16. ASSUME HeartbeatTimeout PROVE SilenceInv'
  BY <1>s, <1>16 DEF HeartbeatTimeout, SilenceInv
<1>17. ASSUME SendRequest PROVE SilenceInv'
  BY <1>s, <1>17 DEF SendRequest, HoldsRequest, SilenceInv
<1>18. ASSUME Tick PROVE SilenceInv'
  <2>1. /\ ~Busy /\ UNCHANGED <<pc, relay, network, tx, reading, permits>>
        /\ relay = "loop" => silence' = silence + 1
    BY <1>18 DEF Tick
  <2>2. SUFFICES ASSUME relay = "loop", network = "up", tx = <<>>
                 PROVE  /\ pc = "register" => HoldsRequest /\ permits = 0
                        /\ pc = "open" => /\ silence' + heartbeat' <= heartbeat_interval
                                          /\ heartbeat' >= 0
    BY <2>1 DEF SilenceInv, HoldsRequest
  <2>3. Sendable /\ ~stalled
    BY <2>2, <1>c, EmptyIn DEF Constants, Sendable, stalled
  <2>4. ASSUME pc = "register" PROVE HoldsRequest /\ permits = 0
    <3>1. In("RegisterResponse", out)
      BY <1>s, <2>2, <2>4, EmptyIn DEF RegisterInv
    <3>2. out # <<>>
      BY <3>1, EmptyIn
    <3> QED
      BY <1>n, <2>1, <2>3, <2>4, <3>2 DEF Busy, ReaderFree, HoldsRequest
  <2>5. ASSUME pc = "open"
        PROVE  silence' + heartbeat' <= heartbeat_interval /\ heartbeat' >= 0
    <3>1. heartbeat \in Int /\ heartbeat # None /\ silence + heartbeat <= heartbeat_interval
      BY <1>s, <1>h, <2>2, <2>5 DEF SilenceInv, ActiveInv
    <3>2. heartbeat > 0
      BY <2>1, <2>3, <3>1 DEF Busy, HeartbeatDue
    <3>3. heartbeat' = heartbeat - 1
      BY <1>18, <3>1, <3>2, <1>c DEF Constants, Tick
    <3> QED
      BY <1>n, <2>1, <2>2, <3>1, <3>2, <3>3
  <2> QED
    BY <2>4, <2>5
<1>19. ASSUME NEW r \in Requests, Respond(r) PROVE SilenceInv'
  <2>1. relay = "loop" => tx' # <<>>
    BY <1>t, <1>19, TxWithFacts DEF Respond
  <2> QED
    BY <1>19, <2>1 DEF Respond, SilenceInv
<1>20. ASSUME NetworkChanges PROVE SilenceInv'
  BY <1>s, <1>20 DEF NetworkChanges, SilenceInv
<1>21. ASSUME StreamBreaks PROVE SilenceInv'
  BY <1>s, <1>21 DEF StreamBreaks, SilenceInv
<1>22. ASSUME OtherConnects PROVE SilenceInv'
  BY <1>s, <1>22 DEF OtherConnects, HoldsRequest, SilenceInv
<1>23. ASSUME Calm PROVE SilenceInv'
  BY <1>s, <1>23 DEF Calm, stalled, HoldsRequest, SilenceInv
<1>24. CASE UNCHANGED vars
  BY <1>s, <1>24 DEF vars, HoldsRequest, SilenceInv
<1> QED
  BY Zenon, <1>s, <1>1, <1>2, <1>3, <1>4, <1>5, <1>6, <1>7, <1>8, <1>9,
     <1>10, <1>11, <1>12, <1>13, <1>14, <1>15, <1>16, <1>17, <1>18, <1>19,
     <1>20, <1>21, <1>22, <1>23, <1>24 DEF Next, ClientStep, RelayStep

(* The initial state satisfies the invariants. *)
LEMMA InitClientInv ==
  Constants /\ Init => ClientTypes /\ ActiveInv /\ RegisterInv /\ SilenceInv
BY EmptyIn DEF Constants, Init, ClientTypes, ActiveInv, RegisterInv, SilenceInv

(* A registered device is heard of in time (the heartbeat task, Sendable   *)
(* and run_device_connect_stream's timeout): as long as the network is up, *)
(* the relay does not time it out, whatever its handlers and its reader    *)
(* wait for, however many permits and slots there are, and for every       *)
(* heartbeat interval shorter than the relay's timeout.                    *)
THEOREM DevicesHeardInTime == Spec => []HeardInTime
<1>c. Constants
  BY ClientConstants
<1>1. Init => ClientTypes /\ ActiveInv /\ RegisterInv /\ SilenceInv
  BY <1>c, InitClientInv
<1>2. ClientTypes /\ ActiveInv /\ RegisterInv /\ SilenceInv /\ [Next]_vars
      => (ClientTypes /\ ActiveInv /\ RegisterInv /\ SilenceInv)'
  BY <1>c, NextClientTypes, NextActiveInv, NextRegisterInv, NextSilenceInv
<1>3. ClientTypes /\ ActiveInv /\ SilenceInv => HeardInTime
  <2> SUFFICES ASSUME ClientTypes, ActiveInv, SilenceInv, TimedOut, pc = "open",
                      network = "up"
               PROVE  FALSE
    BY DEF HeardInTime
  <2>1. relay = "loop" /\ tx = <<>> /\ silence >= heartbeat_timeout
    BY DEF TimedOut, stalled
  <2>2. /\ silence \in Nat /\ heartbeat \in Int
        /\ silence + heartbeat <= heartbeat_interval
        /\ silence > 0 => heartbeat >= 0
    BY <2>1 DEF SilenceInv, ClientTypes, ActiveInv
  <2> QED
    BY <1>c, <2>1, <2>2 DEF Constants
<1> QED
  BY <1>1, <1>2, <1>3, PTL DEF Spec

-----------------------------------------------------------------------------
(* Requests and their responses *)

(* Between streams no request is under way; with OneAnswer, which only the *)
(* next stream's device_connect has to establish again, it is inductive.   *)
IdleInv ==
  pc \notin {"register", "open"} => out = <<>> /\ waiting = {} /\ ~session

AnswerInv == IdleInv /\ OneAnswer

(* Taking a message from a channel. *)
LEMMA TailOutstanding ==
  ASSUME NEW S, NEW s \in Seq(S), s # <<>>, Distinct(s)
  PROVE  /\ Distinct(Tail(s)) /\ Outstanding(Tail(s)) = Outstanding(s) \ {Head(s)}
         /\ Head(s) \in Requests => Head(s) \in Outstanding(s)
<1>1. /\ Len(s) \in Nat /\ Len(s) >= 1 /\ Len(Tail(s)) = Len(s) - 1
      /\ \A i \in 1..Len(Tail(s)) : Tail(s)[i] = s[i + 1]
      /\ Head(s) = s[1]
  BY HeadTailProperties, EmptySeq, LenProperties
<1>2. \A i \in 1..Len(Tail(s)) : i + 1 \in 1..Len(s) /\ i + 1 # 1
  BY <1>1
<1>6. 1 \in 1..Len(s)
  BY <1>1
<1>3. Distinct(Tail(s))
  <2> SUFFICES ASSUME NEW i \in 1..Len(Tail(s)), NEW j \in 1..Len(Tail(s)),
                      Tail(s)[i] \in Requests, Tail(s)[i] = Tail(s)[j]
               PROVE  i = j
    BY DEF Distinct
  <2>1. i + 1 = j + 1
    BY Zenon, <1>1, <1>2 DEF Distinct
  <2> QED
    BY <2>1, <1>1
<1>4. Outstanding(Tail(s)) \subseteq Outstanding(s)
  BY Zenon, <1>1, <1>2 DEF Outstanding
<1>5. ASSUME Head(s) \in Outstanding(Tail(s)) PROVE FALSE
  <2>1. PICK i \in 1..Len(Tail(s)) : Tail(s)[i] = s[1]
    BY Zenon, <1>1, <1>5 DEF Outstanding
  <2>2. s[1] \in Requests /\ s[1] = s[i + 1]
    BY Zenon, <1>1, <1>5, <2>1 DEF Outstanding
  <2>3. 1 = i + 1
    BY Zenon, <1>2, <1>6, <2>1, <2>2 DEF Distinct
  <2> QED
    BY <1>2, <2>3
<1>7. Head(s) \in Requests => Head(s) \in Outstanding(s)
  BY Zenon, <1>1, <1>6 DEF Outstanding
<1>8. ASSUME NEW x \in Outstanding(s), x # Head(s) PROVE x \in Outstanding(Tail(s))
  <2>1. PICK i \in 1..Len(s) : s[i] = x
    BY Zenon, <1>8 DEF Outstanding
  <2>2. i # 1
    BY Zenon, <1>1, <1>8, <2>1
  <2>3. i - 1 \in 1..Len(Tail(s)) /\ (i - 1) + 1 = i
    BY <1>1, <2>2
  <2>4. Tail(s)[i - 1] = x
    BY Zenon, <1>1, <2>1, <2>3
  <2> QED
    BY Zenon, <1>8, <2>3, <2>4 DEF Outstanding
<1> QED
  BY Zenon, <1>3, <1>4, <1>5, <1>7, <1>8

(* Putting one into it. *)
LEMMA AppendOutstanding ==
  ASSUME NEW S, NEW s \in Seq(S), NEW m \in S, Distinct(s), m \notin Outstanding(s)
  PROVE  /\ Distinct(Append(s, m))
         /\ Outstanding(Append(s, m)) = Outstanding(s) \cup ({m} \cap Requests)
<1> DEFINE a == Append(s, m)
<1>1. /\ Len(a) = Len(s) + 1 /\ Len(s) \in Nat /\ a[Len(s) + 1] = m
      /\ \A i \in 1..Len(s) : a[i] = s[i]
  BY AppendProperties, LenProperties
<1> HIDE DEF a
<1>2. /\ \A i \in 1..Len(a) : i = Len(s) + 1 \/ i \in 1..Len(s)
      /\ Len(s) + 1 \in 1..Len(a) /\ \A i \in 1..Len(s) : i \in 1..Len(a)
  BY <1>1
<1>3. Distinct(a)
  <2> SUFFICES ASSUME NEW i \in 1..Len(a), NEW j \in 1..Len(a),
                      a[i] \in Requests, a[i] = a[j]
               PROVE  i = j
    BY DEF Distinct
  <2>1. ASSUME NEW k \in 1..Len(s), s[k] = m, m \in Requests PROVE FALSE
    BY Zenon, <2>1 DEF Outstanding
  <2>2. CASE i \in 1..Len(s) /\ j \in 1..Len(s)
    BY Zenon, <1>1, <2>2 DEF Distinct
  <2>3. CASE i = Len(s) + 1 \/ j = Len(s) + 1
    BY Zenon, <1>1, <1>2, <2>1, <2>3
  <2> QED
    BY Zenon, <1>2, <2>2, <2>3
<1>4. \A i \in 1..Len(a) : a[i] = m \/ (\E j \in 1..Len(s) : a[i] = s[j])
  BY Zenon, <1>1, <1>2
<1>5. Outstanding(a) \subseteq Outstanding(s) \cup ({m} \cap Requests)
  BY Zenon, <1>4 DEF Outstanding
<1>6. Outstanding(s) \subseteq Outstanding(a)
  BY Zenon, <1>1, <1>2 DEF Outstanding
<1>7. {m} \cap Requests \subseteq Outstanding(a)
  BY Zenon, <1>1, <1>2 DEF Outstanding
<1>8. Outstanding(a) = Outstanding(s) \cup ({m} \cap Requests)
  BY Zenon, <1>5, <1>6, <1>7
<1> QED
  BY <1>3, <1>8 DEF a

(* An empty channel. *)
LEMMA EmptyOutstanding == Outstanding(<<>>) = {} /\ Distinct(<<>>)
<1>1. \A i : i \notin 1..Len(<<>>)
  BY EmptySeq
<1> QED
  BY Zenon, <1>1 DEF Outstanding, Distinct

(* A message that is no request joins or leaves a channel. *)
LEMMA OtherMessages ==
  ASSUME NEW A, NEW m, m \notin Requests, A \subseteq Requests
  PROVE  A \cup ({m} \cap Requests) = A /\ A \ {m} = A /\ m \notin A
<1>1. {m} \cap Requests = {}
  OBVIOUS
<1> QED
  BY Zenon, <1>1
(* Steps that touch no request, and the ways in which a stream ends. *)
LEMMA QuietStep ==
  ASSUME AnswerInv, UNCHANGED <<pc, out, tx, reading, handling, waiting, session>>,
         relay' \in {"loop", "answer"} => relay \in {"loop", "answer"}
  PROVE  AnswerInv'
BY DEF AnswerInv, IdleInv, OneAnswer, InReader

LEMMA DeadStep ==
  ASSUME IdleInv', relay' \notin {"loop", "answer"}
  PROVE  AnswerInv'
BY DEF AnswerInv, OneAnswer

(* Every step keeps requests in their places. *)
LEMMA NextAnswerInv ==
  Constants /\ ClientTypes /\ ActiveInv /\ AnswerInv /\ [Next]_vars => AnswerInv'
<1>s. SUFFICES ASSUME Constants, ClientTypes, ActiveInv, AnswerInv, [Next]_vars
               PROVE  AnswerInv'
  OBVIOUS
<1> USE DEF clientVars, streamVars, relayVars, limitVars, requestVars, worldVars
<1> DEFINE O == Outstanding(out)
           T == Outstanding(tx)
           live == relay \in {"loop", "answer"}
<1>t. /\ tx \in Seq(ToRelay) /\ out \in Seq(ToDevice) /\ waiting \subseteq sent
      /\ \A r \in Requests : r \in ToRelay /\ r \in ToDevice
      /\ "Register" \in ToRelay /\ "Heartbeat" \in ToRelay
      /\ "Register" \notin Requests /\ "Heartbeat" \notin Requests
      /\ "RegisterResponse" \notin Requests /\ "HeartbeatResponse" \notin Requests
      /\ None \notin Requests /\ None \notin {"loop", "answer"}
  BY <1>s DEF ClientTypes, ToRelay, ToDevice, Constants
<1>i. pc \notin {"register", "open"} =>
        /\ out = <<>> /\ waiting = {} /\ ~session
        /\ tx = <<>> /\ reading = None /\ handling = {} /\ relay # "answer"
  BY <1>s DEF AnswerInv, IdleInv, ActiveInv
<1>o. live => /\ waiting = O \cup InReader \cup handling \cup T
              /\ Apart(O, InReader, handling, T) /\ Distinct(out) /\ Distinct(tx)
  BY <1>s DEF AnswerInv, OneAnswer
<1>r. O \subseteq Requests /\ T \subseteq Requests
  BY DEF Outstanding
<1>1. CASE Wake \/ Connect \/ CallFails
  <2>1. /\ UNCHANGED <<out, tx, reading, handling, waiting, session, relay>>
        /\ pc \notin {"register", "open"}
    BY Zenon, <1>1 DEF Wake, Connect, CallFails
  <2> QED
    BY <1>s, <1>i, <2>1 DEF AnswerInv, IdleInv, OneAnswer, InReader
<1>2. ASSUME DeviceConnect PROVE AnswerInv'
  <2>1. /\ UNCHANGED <<out, tx, reading, handling, waiting, session>>
        /\ pc = "call"
    BY <1>2 DEF DeviceConnect
  <2>2. /\ out = <<>> /\ waiting = {} /\ ~session
        /\ tx = <<>> /\ reading = None /\ handling = {}
    BY <1>i, <2>1
  <2>3. IdleInv'
    BY <2>1, <2>2 DEF IdleInv
  <2>4. OneAnswer'
    BY <2>1, <2>2, EmptyOutstanding DEF OneAnswer, InReader, Apart
  <2> QED
    BY <2>3, <2>4 DEF AnswerInv
<1>3. ASSUME Register PROVE AnswerInv'
  <2>1. /\ UNCHANGED <<out, reading, handling, waiting, session>> /\ pc = "opened"
        /\ tx' \in {tx, Append(tx, "Register")} /\ relay' \in {relay, None}
    BY <1>3 DEF Register
  <2>2. /\ out = <<>> /\ waiting = {} /\ ~session
        /\ tx = <<>> /\ reading = None /\ handling = {}
    BY <1>i, <2>1
  <2>3. IdleInv'
    BY <2>1, <2>2 DEF IdleInv
  <2>4. Outstanding(tx) = {} /\ Distinct(tx)
    BY <2>2, EmptyOutstanding
  <2>5. /\ Distinct(Append(tx, "Register"))
        /\ Outstanding(Append(tx, "Register")) = {}
    <3>1. /\ Distinct(Append(tx, "Register"))
          /\ Outstanding(Append(tx, "Register")) = {} \cup ({"Register"} \cap Requests)
      BY <1>t, <2>4, AppendOutstanding
    <3> QED
      BY <1>t, <3>1
  <2>6. Outstanding(tx') = {} /\ Distinct(tx')
    BY Zenon, <2>1, <2>4, <2>5
  <2> QED
    BY <2>1, <2>2, <2>3, <2>6, EmptyOutstanding
       DEF AnswerInv, OneAnswer, InReader, Apart
<1>4. ASSUME ReadMessage PROVE AnswerInv'
  <2> DEFINE q == Head(out)
  <2>1. /\ out # <<>> /\ out' = Tail(out) /\ reading = None
        /\ pc' \in {"register", "open"}
        /\ UNCHANGED <<handling, tx, relay, waiting>>
    BY <1>4 DEF ReadMessage, ReaderFree
  <2>2. q \in ToDevice
    BY <1>t, <2>1, TailIn
  <2>3. /\ q \in Requests => reading' = q
        /\ q \notin Requests => reading' = None
    BY <1>4, <1>t, <2>1, <2>2 DEF ReadMessage, ToDevice
  <2>4. IdleInv'
    BY <2>1 DEF IdleInv
  <2>5. SUFFICES ASSUME live PROVE OneAnswer'
    BY <2>1, <2>4, DeadStep DEF AnswerInv
  <2>6. /\ Distinct(out') /\ Outstanding(out') = O \ {q}
        /\ q \in Requests => q \in O
    BY <1>t, <1>o, <2>1, <2>5, TailOutstanding
  <2>7. InReader = {}
    BY <2>1 DEF InReader
  <2> HIDE DEF q, O, T
  <2>8. CASE q \in Requests
    <3>1. InReader' = {q}
      BY <1>t, <2>3, <2>8 DEF InReader
    <3>2. q \in O
      BY Zenon, <2>6, <2>8
    <3>3. waiting = (O \ {q}) \cup {q} \cup handling \cup T /\ Apart(O \ {q}, {q}, handling, T)
      BY <1>o, <2>5, <2>7, <3>2 DEF Apart
    <3> QED
      BY Zenon, <1>o, <2>1, <2>5, <2>6, <3>1, <3>3 DEF OneAnswer, T
  <2>9. CASE q \notin Requests
    <3>1. InReader' = {}
      BY <2>3, <2>9 DEF InReader
    <3>2. O \ {q} = O
      BY Zenon, <1>r, <2>9, OtherMessages
    <3> QED
      BY Zenon, <1>o, <2>1, <2>5, <2>6, <2>7, <3>1, <3>2 DEF OneAnswer, T
  <2> QED
    BY <2>8, <2>9
<1>5. ASSUME StartHandler PROVE AnswerInv'
  <2>1. /\ reading # None /\ handling' = handling \cup {reading} /\ reading' = None
        /\ UNCHANGED <<pc, out, tx, relay, waiting, session>>
    BY <1>5 DEF StartHandler, HoldsRequest
  <2>2. InReader = {reading} /\ InReader' = {}
    BY <2>1 DEF InReader
  <2>3. IdleInv'
    BY <1>s, <2>1 DEF AnswerInv, IdleInv
  <2>4. SUFFICES ASSUME live PROVE OneAnswer'
    BY <2>1, <2>3, DeadStep DEF AnswerInv
  <2> HIDE DEF O, T
  <2>5. /\ waiting = O \cup {} \cup (handling \cup {reading}) \cup T
        /\ Apart(O, {}, handling \cup {reading}, T)
    BY <1>o, <2>2, <2>4 DEF Apart
  <2> QED
    BY <1>o, <2>1, <2>2, <2>4, <2>5 DEF OneAnswer, O, T
<1>6. CASE StreamEnds \/ ReadOversized
  <2>1. Reset
    BY Zenon, <1>6 DEF StreamEnds, ReadOversized
  <2>2. out' = <<>> /\ waiting' = {} /\ ~session' /\ relay' = None
    BY <2>1 DEF Reset
  <2> QED
    BY <1>t, <2>2, DeadStep DEF IdleInv
<1>7. ASSUME Heartbeat PROVE AnswerInv'
  <2>1. /\ tx' = TxWith("Heartbeat")
        /\ UNCHANGED <<pc, out, reading, handling, relay, waiting, session>>
    BY <1>7 DEF Heartbeat
  <2>2. IdleInv'
    BY <1>s, <2>1 DEF AnswerInv, IdleInv
  <2>3. SUFFICES ASSUME live PROVE OneAnswer'
    BY <2>1, <2>2, DeadStep DEF AnswerInv
  <2>4. "Heartbeat" \notin T /\ T \cup ({"Heartbeat"} \cap Requests) = T
    BY Zenon, <1>t, <1>r, OtherMessages
  <2>5. Distinct(tx') /\ Outstanding(tx') = T
    <3>1. tx' = Append(tx, "Heartbeat")
      BY <2>1, <2>3 DEF TxWith
    <3>2. /\ Distinct(Append(tx, "Heartbeat"))
          /\ Outstanding(Append(tx, "Heartbeat")) = T \cup ({"Heartbeat"} \cap Requests)
      BY <1>t, <1>o, <2>3, <2>4, AppendOutstanding
    <3> QED
      BY Zenon, <2>4, <3>1, <3>2
  <2>6. InReader' = InReader
    BY <2>1 DEF InReader
  <2> HIDE DEF T
  <2> QED
    BY <1>o, <2>1, <2>3, <2>5, <2>6 DEF OneAnswer
<1>8. ASSUME ReceiveRegister \/ ReceiveHeartbeat PROVE AnswerInv'
  <2>1. /\ live /\ tx # <<>> /\ Head(tx) \in {"Register", "Heartbeat"}
        /\ UNCHANGED <<pc, out, reading, handling, waiting>>
    BY <1>8 DEF ReceiveRegister, ReceiveHeartbeat, Receiving
  <2>2. relay' \in {"loop", "answer"} => tx' = Tail(tx)
    BY Zenon, <1>8 DEF ReceiveRegister, ReceiveHeartbeat
  <2>3. IdleInv'
    BY <1>i, <2>1 DEF IdleInv
  <2>4. SUFFICES ASSUME tx' = Tail(tx) PROVE OneAnswer'
    BY <2>2, <2>3, DeadStep DEF AnswerInv
  <2>5. Distinct(tx') /\ Outstanding(tx') = T \ {Head(tx)}
    BY <1>t, <1>o, <2>1, <2>4, TailOutstanding
  <2>6. T \ {Head(tx)} = T
    BY Zenon, <1>t, <1>r, <2>1, OtherMessages
  <2>7. InReader' = InReader
    BY <2>1 DEF InReader
  <2> HIDE DEF T
  <2> QED
    BY Zenon, <1>o, <2>1, <2>5, <2>6, <2>7 DEF OneAnswer
<1>9. ASSUME ReceiveData PROVE AnswerInv'
  <2> DEFINE q == Head(tx)
  <2>1. /\ live /\ tx # <<>> /\ q \in Requests /\ tx' = Tail(tx)
        /\ waiting' = waiting \ {q}
        /\ UNCHANGED <<pc, out, reading, handling, session, relay>>
    BY <1>9 DEF ReceiveData, Receiving
  <2>2. IdleInv'
    BY <1>i, <2>1 DEF IdleInv
  <2>3. Distinct(tx') /\ Outstanding(tx') = T \ {q} /\ q \in T
    BY <1>t, <1>o, <2>1, TailOutstanding
  <2>4. InReader' = InReader
    BY <2>1 DEF InReader
  <2> HIDE DEF q, O, T
  <2>5. /\ waiting \ {q} = O \cup InReader \cup handling \cup (T \ {q})
        /\ Apart(O, InReader, handling, T \ {q})
    BY <1>o, <2>1, <2>3 DEF Apart
  <2> QED
    BY Zenon, <1>o, <2>1, <2>2, <2>3, <2>4, <2>5 DEF AnswerInv, OneAnswer, O
<1>10. ASSUME SendOwed PROVE AnswerInv'
  <2>1. /\ relay = "answer" /\ out' = Append(out, owed)
        /\ UNCHANGED <<pc, tx, reading, handling, waiting, session>>
    BY <1>10 DEF SendOwed
  <2>2. owed \in ToDevice /\ owed \notin Requests
    BY <1>s, <1>t, <2>1 DEF ClientTypes, ToDevice
  <2>3. owed \notin O /\ O \cup ({owed} \cap Requests) = O
    BY Zenon, <1>r, <2>2, OtherMessages
  <2>4. Distinct(out') /\ Outstanding(out') = O
    <3>1. /\ Distinct(Append(out, owed))
          /\ Outstanding(Append(out, owed)) = O \cup ({owed} \cap Requests)
      BY <1>t, <1>o, <2>1, <2>2, <2>3, AppendOutstanding
    <3> QED
      BY Zenon, <2>1, <2>3, <3>1
  <2>5. IdleInv'
    BY <1>i, <2>1 DEF IdleInv
  <2>6. InReader' = InReader
    BY <2>1 DEF InReader
  <2> HIDE DEF O
  <2> QED
    BY <1>o, <2>1, <2>4, <2>5, <2>6 DEF AnswerInv, OneAnswer
<1>11. CASE HeartbeatTimeout \/ StreamBreaks
  <2>1. /\ out' \in {out, <<>>} /\ waiting' = {} /\ ~session' /\ pc' = pc
        /\ relay' \in {"closed", "broken"}
    BY <1>11 DEF HeartbeatTimeout, StreamBreaks
  <2> QED
    BY <1>i, <2>1, DeadStep DEF IdleInv
<1>12. ASSUME SendRequest PROVE AnswerInv'
  <2> DEFINE q == CHOOSE x \in Requests \ sent : TRUE
  <2>0. \E x \in Requests \ sent : TRUE
    BY Zenon, <1>s, <1>12 DEF SendRequest, ClientTypes
  <2>1. q \in Requests \ sent
    BY <2>0
  <2>2. /\ session /\ out' = Append(out, q) /\ waiting' = waiting \cup {q}
        /\ UNCHANGED <<pc, tx, reading, handling, relay>>
    BY <1>12 DEF SendRequest
  <2> HIDE DEF q
  <2>3. IdleInv'
    BY <1>i, <2>2 DEF IdleInv
  <2>4. SUFFICES ASSUME live PROVE OneAnswer'
    BY <2>2, <2>3, DeadStep DEF AnswerInv
  <2>5. q \in ToDevice /\ q \notin waiting /\ q \notin O /\ {q} \cap Requests = {q}
    BY <1>t, <1>o, <2>1, <2>4
  <2>6. Distinct(out') /\ Outstanding(out') = O \cup {q}
    BY <1>t, <1>o, <2>2, <2>4, <2>5, AppendOutstanding
  <2>7. InReader' = InReader
    BY <2>2 DEF InReader
  <2> HIDE DEF O, T
  <2>8. /\ waiting \cup {q} = (O \cup {q}) \cup InReader \cup handling \cup T
        /\ Apart(O \cup {q}, InReader, handling, T)
    BY <1>o, <2>4, <2>5 DEF Apart
  <2> QED
    BY <1>o, <2>2, <2>4, <2>6, <2>7, <2>8 DEF OneAnswer, T
<1>13. ASSUME NEW r \in Requests, Respond(r) PROVE AnswerInv'
  <2>1. /\ r \in handling /\ tx' = TxWith(r) /\ handling' = handling \ {r}
        /\ UNCHANGED <<pc, out, reading, relay, waiting, session>>
    BY <1>13 DEF Respond
  <2>2. IdleInv'
    BY <1>s, <2>1 DEF AnswerInv, IdleInv
  <2>3. SUFFICES ASSUME live PROVE OneAnswer'
    BY <2>1, <2>2, DeadStep DEF AnswerInv
  <2>4. r \notin T /\ {r} \cap Requests = {r}
    BY <1>o, <2>1, <2>3 DEF Apart
  <2>5. Distinct(tx') /\ Outstanding(tx') = T \cup {r}
    <3>1. tx' = Append(tx, r)
      BY <2>1, <2>3 DEF TxWith
    <3>2. /\ Distinct(Append(tx, r))
          /\ Outstanding(Append(tx, r)) = T \cup ({r} \cap Requests)
      BY <1>t, <1>o, <2>3, <2>4, AppendOutstanding
    <3> QED
      BY Zenon, <2>4, <3>1, <3>2
  <2>6. InReader' = InReader
    BY <2>1 DEF InReader
  <2> HIDE DEF O, T
  <2>7. /\ waiting = O \cup InReader \cup (handling \ {r}) \cup (T \cup {r})
        /\ Apart(O, InReader, handling \ {r}, T \cup {r})
    BY <1>o, <2>1, <2>3 DEF Apart
  <2> QED
    BY <1>o, <2>1, <2>3, <2>5, <2>6, <2>7 DEF OneAnswer, O
<1>14. ASSUME NEW r \in Requests, OrphanEnds(r) PROVE AnswerInv'
  BY <1>s, <1>14, QuietStep DEF OrphanEnds
<1>15. CASE Tick \/ NetworkChanges \/ OtherConnects \/ Calm \/ UNCHANGED vars
  <2>1. UNCHANGED <<pc, out, tx, reading, handling, waiting, session, relay>>
    BY Zenon, <1>15 DEF Tick, NetworkChanges, OtherConnects, Calm, vars
  <2> QED
    BY <1>s, <2>1, QuietStep
<1> QED
  BY Zenon, <1>s, <1>1, <1>2, <1>3, <1>4, <1>5, <1>6, <1>7, <1>8, <1>9, <1>10,
     <1>11, <1>12, <1>13, <1>14, <1>15 DEF Next, ClientStep, RelayStep

(* While the relay's handler lives, every request it waits for is in one   *)
(* place (connect_once's reader and data handlers, the two channels): for  *)
(* any number of requests and of permits and any capacities, the device    *)
(* drops none and answers none twice, and no handler that outlives its     *)
(* stream answers on the next one.                                         *)
THEOREM RequestsHaveOneAnswer == Spec => []OneAnswer
<1>c. Constants
  BY ClientConstants
<1>1. Init => ClientTypes /\ ActiveInv /\ AnswerInv
  <2> SUFFICES ASSUME Init PROVE ClientTypes /\ ActiveInv /\ AnswerInv
    OBVIOUS
  <2>1. ClientTypes /\ ActiveInv
    BY <1>c, InitClientInv
  <2>2. out = <<>> /\ waiting = {} /\ ~session /\ relay = None
    BY DEF Init
  <2> QED
    BY <1>c, <2>1, <2>2 DEF AnswerInv, IdleInv, OneAnswer, Constants
<1>2. ClientTypes /\ ActiveInv /\ AnswerInv /\ [Next]_vars
      => (ClientTypes /\ ActiveInv /\ AnswerInv)'
  BY <1>c, NextClientTypes, NextActiveInv, NextAnswerInv
<1>3. AnswerInv => OneAnswer
  BY DEF AnswerInv
<1> QED
  BY <1>1, <1>2, <1>3, PTL DEF Spec

-----------------------------------------------------------------------------
(* The limit on registrations *)

OldestFirst(s) == \A i, j \in 1..Len(s) : i < j => s[i] >= s[j]

(* Counted from the newest, each entry of r is at least as old as that of w. *)
Covered(r, w) ==
  /\ Len(r) <= Len(w)
  /\ \A i \in 1..Len(r) : r[i] >= w[i + (Len(w) - Len(r))]

(* The entries that prune_and_check pops: CHOOSE finds their number. *)
LEMMA ExpiredFacts ==
  ASSUME NEW d \in Nat, NEW w \in Seq(Nat)
  PROVE  /\ Expired(w, d) \in 0..Len(w)
         /\ \A i \in 1..Expired(w, d) : w[i] >= d
         /\ Expired(w, d) < Len(w) => w[Expired(w, d) + 1] < d
<1> DEFINE T == {n \in 0..Len(w) : n < Len(w) => w[n + 1] < d}
           Fits(n) == /\ \A i \in 1..n : w[i] >= d
                      /\ n < Len(w) => w[n + 1] < d
<1>0. Len(w) \in Nat /\ \A i \in 1..Len(w) : w[i] \in Nat
  BY LenProperties, ElementOfSeq
<1>1. T \subseteq Nat /\ T # {}
  <2>1. Len(w) \in T
    BY <1>0
  <2> QED
    BY <2>1, <1>0
<1>2. \E x \in T : \A y \in T : ~(y < x)
  <2> DEFINE R == {p \in Nat \X Nat : p[1] < p[2]}
  <2>1. IsWellFoundedOn(R, Nat)
    BY NatLessThanWellFounded DEF OpToRel
  <2> HIDE DEF R, T
  <2>2. PICK x \in T : \A y \in T : ~(<<y, x>> \in R)
    BY Zenon, <1>1, <2>1, WFMin
  <2>3. \A y \in T : ~(y < x)
    BY Zenon, <1>1, <2>2 DEF R
  <2> QED
    BY <2>3
<1>3. PICK x \in T : \A y \in T : ~(y < x)
  BY <1>2
<1>4. x \in 0..Len(w) /\ Fits(x)
  <2>1. ASSUME NEW i \in 1..x PROVE w[i] >= d
    <3>1. i - 1 \in 0..Len(w) /\ i - 1 < x /\ i - 1 < Len(w) /\ (i - 1) + 1 = i /\ i \in 1..Len(w)
      BY <1>0, <2>1
    <3>2. i - 1 \notin T
      BY <3>1, <1>3
    <3>3. ~(w[i] < d)
      BY <3>1, <3>2
    <3> QED
      BY <3>1, <3>3, <1>0
  <2> QED
    BY <2>1
<1>5. Expired(w, d) = CHOOSE n \in 0..Len(w) : Fits(n)
  BY DEF Expired
<1> HIDE DEF T, Fits
<1>6. Expired(w, d) \in 0..Len(w) /\ Fits(Expired(w, d))
  BY Zenon, <1>4, <1>5
<1> QED
  BY <1>6 DEF Fits

(* What pruning leaves of a window. *)
LEMMA PruneFacts ==
  ASSUME NEW d \in Nat, NEW w \in Seq(Nat)
  PROVE  /\ Prune(w, d) \in Seq(Nat) /\ Expired(w, d) \in Nat
         /\ Len(Prune(w, d)) \in Nat
         /\ Len(w) = Len(Prune(w, d)) + Expired(w, d)
         /\ \A i \in 1..Len(Prune(w, d)) : Prune(w, d)[i] = w[i + Expired(w, d)]
         /\ OldestFirst(w) => /\ OldestFirst(Prune(w, d))
                              /\ \A i \in 1..Len(Prune(w, d)) : Prune(w, d)[i] < d
<1> DEFINE n == Expired(w, d)
           p == Prune(w, d)
<1>0. Len(w) \in Nat /\ \A i \in 1..Len(w) : w[i] \in Nat
  BY LenProperties, ElementOfSeq
<1>1. n \in Nat /\ n <= Len(w) /\ (n < Len(w) => w[n + 1] < d)
  BY <1>0, ExpiredFacts
<1>2. p = SubSeq(w, n + 1, Len(w))
  BY DEF Prune
<1> HIDE DEF n, p
<1>3. \A i \in (n + 1)..Len(w) : w[i] \in Nat
  BY <1>0, <1>1
<1>4. /\ p \in Seq(Nat)
      /\ Len(p) = IF n + 1 <= Len(w) THEN Len(w) - (n + 1) + 1 ELSE 0
      /\ \A i \in 1..Len(w) - (n + 1) + 1 : p[i] = w[(n + 1) + i - 1]
  <2>1. n + 1 \in Int /\ Len(w) \in Int
    BY <1>0, <1>1
  <2> QED
    BY <1>2, <1>3, <2>1, SubSeqProperties
<1>5. Len(p) = Len(w) - n
  BY <1>0, <1>1, <1>4
<1>6. \A i \in 1..Len(p) : p[i] = w[i + n] /\ i + n \in 1..Len(w)
  <2> SUFFICES ASSUME NEW i \in 1..Len(p) PROVE p[i] = w[i + n] /\ i + n \in 1..Len(w)
    OBVIOUS
  <2>1. i \in 1..Len(w) - (n + 1) + 1 /\ (n + 1) + i - 1 = i + n /\ i + n \in 1..Len(w)
    BY <1>0, <1>1, <1>5
  <2> QED
    BY <2>1, <1>4
<1>7. ASSUME OldestFirst(w) PROVE OldestFirst(p) /\ \A i \in 1..Len(p) : p[i] < d
  <2>1. OldestFirst(p)
    <3> SUFFICES ASSUME NEW i \in 1..Len(p), NEW j \in 1..Len(p), i < j PROVE p[i] >= p[j]
      BY DEF OldestFirst
    <3>1. i + n < j + n
      BY <1>1
    <3> QED
      BY Zenon, <1>6, <1>7, <3>1 DEF OldestFirst
  <2>2. ASSUME NEW i \in 1..Len(p) PROVE p[i] < d
    <3>1. n < Len(w) /\ n + 1 \in 1..Len(w) /\ i + n \in 1..Len(w) /\ (n + 1 = i + n \/ n + 1 < i + n)
      BY <1>0, <1>1, <1>5, <1>6
    <3>2. w[n + 1] \in Nat /\ w[i + n] \in Nat /\ w[n + 1] < d
      BY <1>0, <1>1, <3>1
    <3>3. w[i + n] <= w[n + 1]
      BY <3>1, <3>2, <1>7 DEF OldestFirst
    <3> QED
      BY <3>2, <3>3, <1>6
  <2> QED
    BY <2>1, <2>2
<1>8. /\ p \in Seq(Nat) /\ n \in Nat /\ Len(p) \in Nat /\ Len(w) = Len(p) + n
      /\ \A i \in 1..Len(p) : p[i] = w[i + n]
  BY <1>0, <1>1, <1>4, <1>5, <1>6
<1> QED
  BY <1>7, <1>8 DEF n, p

(* Pruning a window keeps the entries that cover registrations. *)
LEMMA PrunedCovers ==
  ASSUME NEW d \in Nat, NEW r \in Seq(Nat), NEW w \in Seq(Nat), Covered(r, w),
         \A i \in 1..Len(r) : r[i] < d
  PROVE  Covered(r, Prune(w, d))
<1> DEFINE n == Expired(w, d)
           p == Prune(w, d)
<1>0. /\ Len(w) \in Nat /\ Len(r) \in Nat
      /\ \A i \in 1..Len(w) : w[i] \in Nat
      /\ \A i \in 1..Len(r) : r[i] \in Nat
  BY LenProperties, ElementOfSeq
<1>1. /\ n \in Nat /\ Len(p) \in Nat /\ Len(w) = Len(p) + n
      /\ \A i \in 1..Len(p) : p[i] = w[i + n]
  BY PruneFacts
<1>2. \A i \in 1..n : w[i] >= d
  BY ExpiredFacts
<1> HIDE DEF n, p
<1>3. Len(r) <= Len(p)
  <2> SUFFICES ASSUME Len(r) > Len(p) PROVE FALSE
    BY <1>0, <1>1
  <2>0. Len(r) <= Len(w)
    BY DEF Covered
  <2>1. /\ 1 \in 1..Len(r) /\ 1 + (Len(w) - Len(r)) \in 1..n
        /\ 1 + (Len(w) - Len(r)) \in 1..Len(w)
    BY <1>0, <1>1, <2>0
  <2>2. r[1] >= w[1 + (Len(w) - Len(r))]
    BY <2>1 DEF Covered
  <2>3. r[1] \in Nat /\ r[1] < d /\ w[1 + (Len(w) - Len(r))] \in Nat
        /\ w[1 + (Len(w) - Len(r))] >= d
    BY <1>0, <1>2, <2>1
  <2> QED
    BY <2>2, <2>3
<1>4. ASSUME NEW i \in 1..Len(r) PROVE r[i] >= p[i + (Len(p) - Len(r))]
  <2>1. /\ i + (Len(p) - Len(r)) \in 1..Len(p)
        /\ (i + (Len(p) - Len(r))) + n = i + (Len(w) - Len(r))
    BY <1>0, <1>1, <1>3
  <2>2. p[i + (Len(p) - Len(r))] = w[i + (Len(w) - Len(r))]
    BY Zenon, <1>1, <2>1
  <2> QED
    BY <2>2 DEF Covered
<1>5. Covered(r, p)
  BY <1>3, <1>4 DEF Covered
<1> QED
  BY <1>5 DEF p

(* So does pruning the registrations. *)
LEMMA CoversPruned ==
  ASSUME NEW d \in Nat, NEW r \in Seq(Nat), NEW w \in Seq(Nat), Covered(r, w)
  PROVE  Covered(Prune(r, d), w)
<1> DEFINE n == Expired(r, d)
           p == Prune(r, d)
<1>0. Len(w) \in Nat /\ Len(r) \in Nat /\ Len(r) <= Len(w)
  BY LenProperties DEF Covered
<1>1. /\ n \in Nat /\ Len(p) \in Nat /\ Len(r) = Len(p) + n
      /\ \A i \in 1..Len(p) : p[i] = r[i + n]
  BY PruneFacts
<1> HIDE DEF n, p
<1>2. Len(p) <= Len(w)
  BY <1>0, <1>1
<1>3. ASSUME NEW i \in 1..Len(p) PROVE p[i] >= w[i + (Len(w) - Len(p))]
  <2>1. i + n \in 1..Len(r) /\ (i + n) + (Len(w) - Len(r)) = i + (Len(w) - Len(p))
    BY <1>0, <1>1
  <2>2. r[i + n] >= w[(i + n) + (Len(w) - Len(r))]
    BY <2>1 DEF Covered
  <2> QED
    BY <1>1, <2>1, <2>2
<1>4. Covered(p, w)
  BY <1>2, <1>3 DEF Covered
<1> QED
  BY <1>4 DEF p

(* A connection is admitted. *)
LEMMA AdmittedFacts ==
  ASSUME NEW w \in Seq(Nat)
  PROVE  /\ Append(w, 0) \in Seq(Nat) /\ Len(Append(w, 0)) = Len(w) + 1
         /\ \A i \in 1..Len(w) : Append(w, 0)[i] = w[i]
         /\ Append(w, 0)[Len(w) + 1] = 0
         /\ Len(w) \in Nat /\ \A i \in 1..Len(w) : w[i] \in Nat
         /\ OldestFirst(w) => OldestFirst(Append(w, 0))
<1> DEFINE a == Append(w, 0)
<1>1. /\ a \in Seq(Nat) /\ Len(a) = Len(w) + 1
      /\ \A i \in 1..Len(w) : a[i] = w[i]
      /\ a[Len(w) + 1] = 0
  BY AppendProperties
<1>2. Len(w) \in Nat /\ \A i \in 1..Len(w) : w[i] \in Nat
  BY LenProperties, ElementOfSeq
<1> HIDE DEF a
<1>3. ASSUME OldestFirst(w), NEW i \in 1..Len(a), NEW j \in 1..Len(a), i < j
      PROVE  a[i] >= a[j]
  <2>0. Len(a) = Len(w) + 1 /\ Len(w) \in Nat
    BY Zenon, <1>1, <1>2
  <2>1. i \in 1..Len(w) /\ (j = Len(w) + 1 \/ j \in 1..Len(w))
    BY <1>3, <2>0
  <2>2. CASE j = Len(w) + 1
    BY <1>1, <1>2, <2>1, <2>2
  <2>3. CASE j \in 1..Len(w)
    BY <1>1, <1>3, <2>1, <2>3 DEF OldestFirst
  <2> QED
    BY <2>1, <2>2, <2>3
<1>4. OldestFirst(w) => OldestFirst(a)
  BY <1>3 DEF OldestFirst
<1> QED
  BY <1>1, <1>2, <1>4 DEF a

(* An admitted connection that registers, and one that does not. *)
LEMMA AdmittedCovers ==
  ASSUME NEW r \in Seq(Nat), NEW w \in Seq(Nat), Covered(r, w), OldestFirst(w)
  PROVE  Covered(Append(r, 0), Append(w, 0)) /\ Covered(r, Append(w, 0))
<1> DEFINE a == Append(w, 0)
           b == Append(r, 0)
<1>1. /\ Len(a) = Len(w) + 1 /\ \A i \in 1..Len(w) : a[i] = w[i] /\ w[i] \in Nat
      /\ a[Len(w) + 1] = 0 /\ Len(w) \in Nat
  BY AdmittedFacts
<1>2. /\ Len(b) = Len(r) + 1 /\ \A i \in 1..Len(r) : b[i] = r[i] /\ r[i] \in Nat
      /\ b[Len(r) + 1] = 0 /\ Len(r) \in Nat
  BY AdmittedFacts
<1> HIDE DEF a, b
<1>3. Len(r) <= Len(w)
  BY DEF Covered
<1>4. ASSUME NEW i \in 1..Len(b) PROVE b[i] >= a[i + (Len(a) - Len(b))]
  <2>1. Len(a) - Len(b) = Len(w) - Len(r)
    BY <1>1, <1>2
  <2>2. CASE i = Len(r) + 1
    <3>1. i + (Len(w) - Len(r)) = Len(w) + 1
      BY <1>1, <1>2, <2>2
    <3> QED
      BY <1>1, <1>2, <2>1, <2>2, <3>1
  <2>3. CASE i \in 1..Len(r)
    <3>1. i + (Len(w) - Len(r)) \in 1..Len(w)
      BY <1>1, <1>2, <1>3, <2>3
    <3>2. r[i] >= w[i + (Len(w) - Len(r))]
      BY <2>3 DEF Covered
    <3> QED
      BY Zenon, <1>1, <1>2, <2>1, <2>3, <3>1, <3>2
  <2> QED
    BY <1>2, <2>2, <2>3
<1>5. ASSUME NEW i \in 1..Len(r) PROVE r[i] >= a[i + (Len(a) - Len(r))]
  <2> DEFINE k == i + (Len(w) - Len(r))
  <2>1. k \in 1..Len(w) /\ i + (Len(a) - Len(r)) = k + 1 /\ r[i] \in Nat
    BY <1>1, <1>2, <1>3
  <2>2. r[i] >= w[k] /\ w[k] \in Nat
    BY <1>1, <2>1 DEF Covered
  <2> HIDE DEF k
  <2>3. CASE k = Len(w)
    BY <1>1, <2>1, <2>3
  <2>4. CASE k # Len(w)
    <3>1. k + 1 \in 1..Len(w) /\ k < k + 1
      BY <1>1, <2>1, <2>4
    <3>2. w[k] >= w[k + 1] /\ w[k + 1] \in Nat
      BY <1>1, <2>1, <3>1 DEF OldestFirst
    <3>3. a[i + (Len(a) - Len(r))] = w[k + 1]
      BY <1>1, <2>1, <3>1
    <3>4. \A x, y, z \in Nat : x >= y /\ y >= z => x >= z
      OBVIOUS
    <3>5. r[i] >= w[k + 1]
      BY Zenon, <2>1, <2>2, <3>2, <3>4
    <3> QED
      BY Zenon, <3>3, <3>5
  <2> QED
    BY <2>3, <2>4
<1>6. Covered(b, a) /\ Covered(r, a)
  BY <1>1, <1>2, <1>3, <1>4, <1>5 DEF Covered
<1> QED
  BY <1>6 DEF a, b

(* Time passes. *)
LEMMA OlderFacts ==
  ASSUME NEW d \in Nat, NEW w \in Seq(Nat)
  PROVE  /\ Older(w, d) \in Seq(Nat) /\ Len(Older(w, d)) = Len(w)
         /\ \A i \in 1..Len(w) : Older(w, d)[i] = Min2(w[i] + 1, d)
         /\ OldestFirst(w) => OldestFirst(Older(w, d))
<1>0. /\ Len(w) \in Nat /\ DOMAIN w = 1..Len(w)
      /\ \A i \in 1..Len(w) : w[i] \in Nat
  BY LenProperties, ElementOfSeq
<1>1. Older(w, d) = [i \in 1..Len(w) |-> Min2(w[i] + 1, d)]
  BY <1>0 DEF Older
<1>2. \A i \in 1..Len(w) : Min2(w[i] + 1, d) \in Nat
  BY <1>0 DEF Min2
<1>3. Older(w, d) \in Seq(Nat) /\ Len(Older(w, d)) = Len(w)
  BY <1>0, <1>1, <1>2
<1>4. \A i \in 1..Len(w) : Older(w, d)[i] = Min2(w[i] + 1, d)
  BY <1>1
<1>5. ASSUME OldestFirst(w), NEW i \in 1..Len(w), NEW j \in 1..Len(w), i < j
      PROVE  Older(w, d)[i] >= Older(w, d)[j]
  <2>1. w[i] >= w[j] /\ w[i] \in Nat /\ w[j] \in Nat
    BY <1>0, <1>5 DEF OldestFirst
  <2> QED
    BY <2>1, <1>4 DEF Min2
<1> QED
  BY <1>3, <1>4, <1>5 DEF OldestFirst

LEMMA OlderCovers ==
  ASSUME NEW d \in Nat, NEW r \in Seq(Nat), NEW w \in Seq(Nat), Covered(r, w)
  PROVE  Covered(Older(r, d), Older(w, d))
<1>0. /\ Len(w) \in Nat /\ Len(r) \in Nat /\ Len(r) <= Len(w)
      /\ \A i \in 1..Len(w) : w[i] \in Nat
      /\ \A i \in 1..Len(r) : r[i] \in Nat
  BY LenProperties, ElementOfSeq DEF Covered
<1>1. /\ Len(Older(w, d)) = Len(w) /\ Len(Older(r, d)) = Len(r)
      /\ \A i \in 1..Len(w) : Older(w, d)[i] = Min2(w[i] + 1, d)
      /\ \A i \in 1..Len(r) : Older(r, d)[i] = Min2(r[i] + 1, d)
  BY OlderFacts
<1>m. \A x, y \in Nat : x >= y => Min2(x + 1, d) >= Min2(y + 1, d)
  BY DEF Min2
<1>2. ASSUME NEW i \in 1..Len(r)
      PROVE  Older(r, d)[i] >= Older(w, d)[i + (Len(w) - Len(r))]
  <2>1. i + (Len(w) - Len(r)) \in 1..Len(w)
    BY <1>0
  <2>2. /\ r[i] >= w[i + (Len(w) - Len(r))] /\ r[i] \in Nat
        /\ w[i + (Len(w) - Len(r))] \in Nat
    BY <1>0, <2>1 DEF Covered
  <2>3. Min2(r[i] + 1, d) >= Min2(w[i + (Len(w) - Len(r))] + 1, d)
    BY Zenon, <1>m, <2>2
  <2> QED
    BY Zenon, <1>1, <2>1, <2>3
<1> QED
  BY <1>0, <1>1, <1>2 DEF Covered
(* The windows of the device are as prune_and_check leaves them, and each  *)
(* registration of the last device_window is covered by an entry.          *)
LimitInv ==
  /\ device_windows \in Seq(Nat) /\ OldestFirst(device_windows)
  /\ registrations \in Seq(Nat) /\ OldestFirst(registrations)
  /\ Len(device_windows) <= device_limit
  /\ \A i \in 1..Len(registrations) : registrations[i] < device_window
  /\ Covered(registrations, device_windows)

(* Few actions touch them. *)
LEMMA LimitSteps ==
  [Next]_vars => ReceiveRegister \/ Tick \/ UNCHANGED <<device_windows, registrations>>
<1> SUFFICES ASSUME [Next]_vars, ~ReceiveRegister, ~Tick
             PROVE  UNCHANGED <<device_windows, registrations>>
  OBVIOUS
<1> USE DEF limitVars
<1>1. CASE Wake
  BY <1>1 DEF Wake
<1>2. CASE Connect
  BY <1>2 DEF Connect
<1>3. CASE CallFails
  BY <1>3 DEF CallFails
<1>4. CASE DeviceConnect
  BY <1>4 DEF DeviceConnect
<1>5. CASE Register
  BY <1>5 DEF Register
<1>6. CASE ReadMessage
  BY <1>6 DEF ReadMessage
<1>7. ASSUME NEW r \in Requests, OrphanEnds(r) PROVE UNCHANGED <<device_windows, registrations>>
  BY <1>7 DEF OrphanEnds
<1>8. CASE StartHandler
  BY <1>8 DEF StartHandler
<1>9. CASE StreamEnds
  BY <1>9 DEF StreamEnds, Reset
<1>10. CASE ReadOversized
  BY <1>10 DEF ReadOversized, Reset
<1>11. CASE Heartbeat
  BY <1>11 DEF Heartbeat
<1>12. CASE ReceiveHeartbeat
  BY <1>12 DEF ReceiveHeartbeat
<1>13. CASE ReceiveData
  BY <1>13 DEF ReceiveData
<1>14. CASE SendOwed
  BY <1>14 DEF SendOwed
<1>15. CASE HeartbeatTimeout
  BY <1>15 DEF HeartbeatTimeout
<1>16. CASE SendRequest
  BY <1>16 DEF SendRequest
<1>17. ASSUME NEW r \in Requests, Respond(r) PROVE UNCHANGED <<device_windows, registrations>>
  BY <1>17 DEF Respond
<1>18. CASE NetworkChanges
  BY <1>18 DEF NetworkChanges
<1>19. CASE StreamBreaks
  BY <1>19 DEF StreamBreaks
<1>20. CASE OtherConnects
  BY <1>20 DEF OtherConnects
<1>21. CASE Calm
  BY <1>21 DEF Calm
<1>22. CASE UNCHANGED vars
  BY <1>22 DEF vars
<1> QED
  BY Zenon, <1>1, <1>2, <1>3, <1>4, <1>5, <1>6, <1>7, <1>8, <1>9, <1>10, <1>11,
     <1>12, <1>13, <1>14, <1>15, <1>16, <1>17, <1>18, <1>19, <1>20, <1>21, <1>22
     DEF Next, ClientStep, RelayStep

(* Every step keeps to the limit. *)
LEMMA NextLimitInv ==
  Constants /\ LimitInv /\ [Next]_vars => LimitInv'
<1>s. SUFFICES ASSUME Constants, LimitInv, [Next]_vars PROVE LimitInv'
  OBVIOUS
<1> DEFINE w == device_windows
           r == registrations
           d == device_window
           p == Prune(w, d)
<1>0. d \in Nat /\ d > 0 /\ device_limit \in Nat
  BY <1>s DEF Constants
<1>1. /\ w \in Seq(Nat) /\ OldestFirst(w) /\ r \in Seq(Nat) /\ OldestFirst(r)
      /\ Len(w) <= device_limit /\ (\A i \in 1..Len(r) : r[i] < d) /\ Covered(r, w)
      /\ Len(w) \in Nat
  BY <1>s, LenProperties DEF LimitInv
<1>2. CASE ReceiveRegister
  <2>1. /\ p \in Seq(Nat) /\ OldestFirst(p) /\ Len(p) \in Nat /\ Len(p) <= Len(w)
    <3>1. /\ p \in Seq(Nat) /\ OldestFirst(p) /\ Len(p) \in Nat /\ Expired(w, d) \in Nat
          /\ Len(w) = Len(p) + Expired(w, d)
      BY <1>0, <1>1, PruneFacts
    <3> QED
      BY <3>1
  <2>2. Covered(r, p)
    BY <1>0, <1>1, PrunedCovers
  <2>3. \/ Len(p) < device_limit /\ w' = Append(p, 0) /\ r' \in {r, Append(r, 0)}
        \/ w' = p /\ r' = r
    BY <1>2 DEF ReceiveRegister, HasRoom, prune_and_check
  <2> HIDE DEF p
  <2>4. CASE Len(p) < device_limit /\ w' = Append(p, 0) /\ r' \in {r, Append(r, 0)}
    <3>1. /\ w' \in Seq(Nat) /\ OldestFirst(w') /\ Len(w') = Len(p) + 1
      BY <2>1, <2>4, AdmittedFacts
    <3>2. /\ r' \in Seq(Nat) /\ OldestFirst(r')
      BY Zenon, <1>1, <2>4, AdmittedFacts
    <3>3. \A i \in 1..Len(r') : r'[i] < d
      <4>1. CASE r' = r
        BY <1>1, <4>1
      <4>2. CASE r' = Append(r, 0)
        <5>1. /\ Len(r') = Len(r) + 1 /\ Len(r) \in Nat /\ r'[Len(r) + 1] = 0
              /\ \A i \in 1..Len(r) : r'[i] = r[i]
          BY <1>1, <4>2, AdmittedFacts
        <5>2. ASSUME NEW i \in 1..Len(r') PROVE i = Len(r) + 1 \/ i \in 1..Len(r)
          BY <5>1
        <5> QED
          BY <1>0, <1>1, <5>1, <5>2
      <4> QED
        BY <2>4, <4>1, <4>2
    <3>4. Covered(r', w')
      BY Zenon, <1>1, <2>1, <2>2, <2>4, AdmittedCovers
    <3>5. Len(w') <= device_limit
      BY <1>0, <2>1, <2>4, <3>1
    <3> QED
      BY <3>1, <3>2, <3>3, <3>4, <3>5 DEF LimitInv
  <2>5. CASE w' = p /\ r' = r
    <3>1. Len(p) <= device_limit
      BY <1>0, <1>1, <2>1
    <3> QED
      BY <1>1, <2>1, <2>2, <2>5, <3>1 DEF LimitInv
  <2> QED
    BY <2>3, <2>4, <2>5
<1>3. CASE Tick
  <2> DEFINE o == Older(w, d)
             q == Older(r, d)
  <2>1. w' = o /\ r' = Prune(q, d)
    BY <1>3 DEF Tick, Recent, Prune
  <2>2. /\ o \in Seq(Nat) /\ OldestFirst(o) /\ Len(o) = Len(w)
        /\ q \in Seq(Nat) /\ OldestFirst(q)
    BY <1>0, <1>1, OlderFacts
  <2>3. Covered(q, o)
    BY <1>0, <1>1, OlderCovers
  <2> HIDE DEF o, q
  <2>4. /\ r' \in Seq(Nat) /\ OldestFirst(r') /\ \A i \in 1..Len(r') : r'[i] < d
    BY <1>0, <2>1, <2>2, PruneFacts
  <2>5. Covered(r', w')
    BY <1>0, <2>1, <2>2, <2>3, CoversPruned
  <2> QED
    BY <1>1, <2>1, <2>2, <2>4, <2>5 DEF LimitInv
<1>4. CASE UNCHANGED <<device_windows, registrations>>
  BY <1>s, <1>4 DEF LimitInv
<1> QED
  BY Zenon, <1>s, <1>2, <1>3, <1>4, LimitSteps

(* The device limit holds over every window of time                        *)
(* (ConnectionRateLimiter::allow_device): for any limit and any window,    *)
(* the device registers at most device_limit times within device_window,   *)
(* however it is disconnected, refused and retries.                        *)
THEOREM RegistrationsAreLimited == Spec => []RegistrationsLimited
<1>c. Constants
  BY ClientConstants
<1>1. Init => LimitInv
  BY EmptySeq, <1>c DEF Init, LimitInv, OldestFirst, Covered, Constants
<1>2. LimitInv /\ [Next]_vars => LimitInv'
  BY <1>c, NextLimitInv
<1>3. LimitInv => RegistrationsLimited
  <2>1. LimitInv => /\ Len(registrations) \in Nat /\ Len(device_windows) \in Nat
                    /\ Len(registrations) <= Len(device_windows)
                    /\ Len(device_windows) <= device_limit
    BY LenProperties DEF LimitInv, Covered
  <2>2. device_limit \in Nat
    BY <1>c DEF Constants
  <2> QED
    BY <2>1, <2>2 DEF RegistrationsLimited
<1> QED
  BY <1>1, <1>2, <1>3, PTL DEF Spec
=============================================================================
