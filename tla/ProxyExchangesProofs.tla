------------------------ MODULE ProxyExchangesProofs ------------------------
(***************************************************************************)
(* No placeholder reaches a client as it is, whatever the number of        *)
(* connections and secrets and whatever the interleaving.                  *)
(*                                                                         *)
(* The invariant follows a placeholder on its way: a text in hand spells   *)
(* registered secrets only, so does all that upstream has been sent, and   *)
(* the restorer of a response under way knows every registered secret.     *)
(* The last part is where the lock matters: the registry changes in one    *)
(* step only, which no reader admits.                                      *)
(***************************************************************************)
EXTENDS ProxyExchanges, TLAPS

\* The variables have their types, and who streams holds the read lock.
TypeInv ==
    /\ pc \in [Clients -> Places]
    /\ text \in [Clients -> SUBSET Secrets]
    /\ snapshot \in [Clients -> SUBSET Secrets]
    /\ known \subseteq Secrets
    /\ readers = {c \in Clients : pc[c] = "stream"}

\* A placeholder exists for registered secrets only.
SentIsKnown == sent \subseteq known
TextsAreKnown == \A c \in Clients : pc[c] \in {"forward", "restore"} => text[c] \subseteq known

\* The registry stands still under a response under way.
StreamsAreCurrent == \A c \in Clients : pc[c] = "stream" => snapshot[c] = known

\* Between two texts there is none in hand.
IdleSaysNothing ==
    \A c \in Clients :
        pc[c] \in {"idle", "head", "begin", "stream", "relay"} => text[c] = {}

Inv ==
    /\ TypeInv
    /\ IdleSaysNothing
    /\ TextsAreKnown
    /\ SentIsKnown
    /\ StreamsAreCurrent
    /\ NoPlaceholderReachesAClient

LEMMA InvInit == Init => Inv
  BY DEF Init, Inv, TypeInv, Places, Waiting, IdleSaysNothing, TextsAreKnown, SentIsKnown,
         StreamsAreCurrent, NoPlaceholderReachesAClient

\* Steps that leave the registry and what has been sent alone.
LEMMA QuietStep ==
    ASSUME Inv, NEW c \in Clients,
           Upgrade(c) \/ ReceiveText(c) \/ ReceiveOther(c) \/ LockSanitizer(c)
             \/ AnswerOther(c) \/ AnswerChunked(c) \/ Disconnect(c)
    PROVE  Inv'
  <1> USE DEF Inv, TypeInv, Places, Waiting, IdleSaysNothing, TextsAreKnown, SentIsKnown,
              StreamsAreCurrent, NoPlaceholderReachesAClient, GoTo, Say
  <1>1. CASE Upgrade(c)
    BY <1>1 DEF Upgrade
  <1>2. CASE ReceiveText(c)
    BY <1>2 DEF ReceiveText
  <1>3. CASE ReceiveOther(c)
    BY <1>3 DEF ReceiveOther
  <1>4. CASE LockSanitizer(c)
    BY <1>4 DEF LockSanitizer
  <1>5. CASE AnswerOther(c)
    BY <1>5 DEF AnswerOther
  <1>6. CASE AnswerChunked(c)
    BY <1>6 DEF AnswerChunked
  <1>7. CASE Disconnect(c)
    BY <1>7 DEF Disconnect
  <1>. QED
    BY <1>1, <1>2, <1>3, <1>4, <1>5, <1>6, <1>7

\* The steps that register secrets: no response is under way.
LEMMA RegisteringStep ==
    ASSUME Inv, NEW c \in Clients, Sanitize(c) \/ FailToSanitize(c)
    PROVE  Inv'
  <1>1. readers = {} /\ pc[c] = "write"
    BY DEF Sanitize, FailToSanitize, Admits
  <1>2. \A d \in Clients : pc[d] # "stream"
    BY <1>1 DEF Inv, TypeInv
  <1> USE DEF Inv, TypeInv, Places, Waiting, IdleSaysNothing, TextsAreKnown, SentIsKnown,
              StreamsAreCurrent, NoPlaceholderReachesAClient, GoTo, Say
  <1>3. CASE Sanitize(c)
    BY <1>1, <1>2, <1>3, ExchangeAssumption DEF Sanitize
  <1>4. CASE FailToSanitize(c)
    BY <1>1, <1>2, <1>4, ExchangeAssumption DEF FailToSanitize
  <1>. QED
    BY <1>3, <1>4

\* What is sent is what was in hand, and what comes back has been sent.
LEMMA TrafficStep ==
    ASSUME Inv, NEW c \in Clients,
           Forward(c) \/ AnswerWhole(c) \/ RestoreWhole(c)
             \/ BeginStream(c) \/ Chunk(c) \/ EndStream(c)
    PROVE  Inv'
  <1> USE DEF Inv, TypeInv, Places, Waiting, IdleSaysNothing, TextsAreKnown, SentIsKnown,
              StreamsAreCurrent, NoPlaceholderReachesAClient, GoTo, Say
  <1>1. CASE Forward(c)
    BY <1>1 DEF Forward
  <1>2. CASE AnswerWhole(c)
    BY <1>2 DEF AnswerWhole
  <1>3. CASE RestoreWhole(c)
    BY <1>3 DEF RestoreWhole, NextText
  <1>4. CASE BeginStream(c)
    BY <1>4 DEF BeginStream
  <1>5. CASE Chunk(c)
    BY <1>5 DEF Chunk
  <1>6. CASE EndStream(c)
    BY <1>6 DEF EndStream
  <1>. QED
    BY <1>1, <1>2, <1>3, <1>4, <1>5, <1>6

\* No placeholder that upstream sends back reaches a client as it is, in any connection.
THEOREM EveryPlaceholderIsRestored == Spec => []NoPlaceholderReachesAClient
  <1>1. Inv /\ [Next]_vars => Inv'
    <2> SUFFICES ASSUME Inv, [Next]_vars PROVE Inv'
      OBVIOUS
    <2>1. ASSUME NEW c \in Clients, Step(c) PROVE Inv'
      BY <2>1, QuietStep, RegisteringStep, TrafficStep DEF Step
    <2>2. CASE UNCHANGED vars
      BY <2>2 DEF vars, Inv, TypeInv, IdleSaysNothing, TextsAreKnown, SentIsKnown,
                  StreamsAreCurrent, NoPlaceholderReachesAClient
    <2>. QED
      BY <2>1, <2>2 DEF Next
  <1>2. Inv => NoPlaceholderReachesAClient
    BY DEF Inv
  <1>. QED
    BY InvInit, <1>1, <1>2, PTL DEF Spec
-----------------------------------------------------------------------------

\* A step of one connection keeps the types and the correspondence of places and locks.
LEMMA TypeStep ==
    ASSUME TypeOK, NEW c \in Clients, Step(c)
    PROVE  TypeOK'
  <1> USE ExchangeAssumption DEF TypeOK, Places, Waiting, GoTo, Say
  <1>1. CASE Upgrade(c)
    BY <1>1 DEF Upgrade
  <1>2. CASE ReceiveText(c)
    BY <1>2 DEF ReceiveText
  <1>3. CASE ReceiveOther(c)
    BY <1>3 DEF ReceiveOther
  <1>4. CASE LockSanitizer(c)
    BY <1>4 DEF LockSanitizer, JoinRegistry
  <1>5. CASE Sanitize(c)
    BY <1>5 DEF Sanitize, Admits
  <1>6. CASE FailToSanitize(c)
    BY <1>6 DEF FailToSanitize, Admits
  <1>7. CASE Forward(c)
    BY <1>7 DEF Forward
  <1>8. CASE AnswerOther(c)
    BY <1>8 DEF AnswerOther
  <1>9. CASE AnswerWhole(c)
    BY <1>9 DEF AnswerWhole, JoinRegistry
  <1>10. CASE RestoreWhole(c)
    BY <1>10 DEF RestoreWhole, Admits, NextText
  <1>11. CASE AnswerChunked(c)
    BY <1>11 DEF AnswerChunked, JoinRegistry
  <1>12. CASE BeginStream(c)
    BY <1>12 DEF BeginStream, Admits
  <1>13. CASE Chunk(c)
    BY <1>13 DEF Chunk
  <1>14. CASE EndStream(c)
    BY <1>14 DEF EndStream
  <1>15. CASE Disconnect(c)
    BY <1>15 DEF Disconnect
  <1>. QED
    BY <1>1, <1>2, <1>3, <1>4, <1>5, <1>6, <1>7, <1>8,
       <1>9, <1>10, <1>11, <1>12, <1>13, <1>14, <1>15 DEF Step

\* The variables keep their types; the sanitizer's holder is the one task that waits for the
\* write lock, and the readers are the tasks with a response under way.
THEOREM ExchangesTypeCorrect == Spec => []TypeOK
  <1>1. Init => TypeOK
    BY ExchangeAssumption DEF Init, TypeOK, Places, Waiting
  <1>2. TypeOK /\ [Next]_vars => TypeOK'
    <2> SUFFICES ASSUME TypeOK, [Next]_vars PROVE TypeOK'
      OBVIOUS
    <2>1. CASE Next
      BY <2>1, TypeStep DEF Next
    <2>2. CASE UNCHANGED vars
      BY <2>2 DEF vars, TypeOK
    <2>. QED
      BY <2>1, <2>2
  <1>. QED
    BY <1>1, <1>2, PTL DEF Spec
=============================================================================
