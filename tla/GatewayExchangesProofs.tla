----------------------- MODULE GatewayExchangesProofs -----------------------
(***************************************************************************)
(* No placeholder reaches a client of the gateway as it is, whatever the   *)
(* number of connections and secrets and whatever the interleaving.        *)
(*                                                                         *)
(* As in ProxyExchangesProofs, the invariant follows a placeholder on its  *)
(* way.  What is new is the guard in a streamed body: its chunks register  *)
(* secrets long after the lock was taken, and no step of theirs looks at   *)
(* the readers.  That the body still holds the writer's place, and that    *)
(* the place excludes readers, has to be invariant.                        *)
(***************************************************************************)
EXTENDS GatewayExchanges, TLAPS

\* The variables have their types, and who streams a response holds a read lock.
TypeInv ==
    /\ pc \in [Clients -> Places]
    /\ feed \in [Clients -> {"none", "open", "waiting"}]
    /\ text \in [Clients -> SUBSET Secrets]
    /\ snapshot \in [Clients -> SUBSET Secrets]
    /\ known \subseteq Secrets
    /\ readers = {c \in Clients : pc[c] = "stream"}

\* A body under way owns the write lock, and the write lock excludes the readers.
BodiesOwnTheRegistry == \A c \in Clients : feed[c] # "none" => writer = c
WriterIsAlone == writer # NoClient => readers = {}

\* A placeholder exists for registered secrets only.
SentIsKnown == sent \subseteq known
TextsAreKnown == \A c \in Clients : pc[c] \in {"ready", "attach"} => text[c] \subseteq known

\* The registry stands still under a response under way.
StreamsAreCurrent == \A c \in Clients : pc[c] = "stream" => snapshot[c] = known

\* A handler has a text in hand from the time it read the body to the time it sends it.
NothingInHand ==
    \A c \in Clients :
        pc[c] \notin {"sanitizer", "sanitize", "ready", "attach"} => text[c] = {}

Inv ==
    /\ TypeInv
    /\ BodiesOwnTheRegistry
    /\ WriterIsAlone
    /\ NothingInHand
    /\ TextsAreKnown
    /\ SentIsKnown
    /\ StreamsAreCurrent
    /\ NoPlaceholderReachesAClient

LEMMA InvInit == Init => Inv
  BY DEF Init, Inv, TypeInv, Places, Waiting, BodiesOwnTheRegistry, WriterIsAlone,
         NothingInHand, TextsAreKnown, SentIsKnown, StreamsAreCurrent,
         NoPlaceholderReachesAClient

\* Steps that leave the registry and its lock and what has been sent alone.
LEMMA QuietStep ==
    ASSUME Inv, NEW c \in Clients,
           Receive(c) \/ PassBody(c) \/ ReadWhole(c) \/ LockSanitizer(c) \/ QueueForPeek(c)
             \/ Peek(c) \/ PollBody(c) \/ QueueForAuth(c) \/ Respond(c)
    PROVE  Inv'
  <1> USE DEF Inv, TypeInv, Places, Waiting, BodiesOwnTheRegistry, WriterIsAlone,
              NothingInHand, TextsAreKnown, SentIsKnown, StreamsAreCurrent,
              NoPlaceholderReachesAClient, GoTo
  <1>1. CASE Receive(c)
    BY <1>1 DEF Receive
  <1>2. CASE PassBody(c)
    BY <1>2 DEF PassBody
  <1>3. CASE ReadWhole(c)
    BY <1>3 DEF ReadWhole
  <1>4. CASE LockSanitizer(c)
    BY <1>4 DEF LockSanitizer
  <1>5. CASE QueueForPeek(c)
    BY <1>5 DEF QueueForPeek
  <1>6. CASE Peek(c)
    BY <1>6 DEF Peek
  <1>7. CASE PollBody(c)
    BY <1>7 DEF PollBody
  <1>8. CASE QueueForAuth(c)
    BY <1>8 DEF QueueForAuth
  <1>9. CASE Respond(c)
    BY <1>9 DEF Respond
  <1>. QED
    BY <1>1, <1>2, <1>3, <1>4, <1>5, <1>6, <1>7, <1>8, <1>9

\* The steps that register secrets under a lock of their own: no response is under way.
LEMMA RegisteringStep ==
    ASSUME Inv, NEW c \in Clients, RegisterHeader(c) \/ SanitizeWhole(c) \/ FailWhole(c)
    PROVE  Inv'
  <1>1. readers = {}
    BY DEF RegisterHeader, SanitizeWhole, FailWhole, Admits
  <1>2. \A d \in Clients : pc[d] # "stream"
    BY <1>1 DEF Inv, TypeInv
  <1> USE GatewayAssumption
      DEF Inv, TypeInv, Places, Waiting, BodiesOwnTheRegistry, WriterIsAlone,
          NothingInHand, TextsAreKnown, SentIsKnown, StreamsAreCurrent,
          NoPlaceholderReachesAClient, GoTo
  <1>3. CASE RegisterHeader(c)
    BY <1>1, <1>2, <1>3 DEF RegisterHeader
  <1>4. CASE SanitizeWhole(c)
    BY <1>1, <1>2, <1>4 DEF SanitizeWhole
  <1>5. CASE FailWhole(c)
    BY <1>1, <1>2, <1>5 DEF FailWhole
  <1>. QED
    BY <1>3, <1>4, <1>5

\* The steps of a streamed body: it owns the write lock from the first to the last of them.
LEMMA BodyStep ==
    ASSUME Inv, NEW c \in Clients, OpenBody(c) \/ PushChunk(c) \/ EndBody(c) \/ FailBody(c)
    PROVE  Inv'
  <1>1. readers = {}
    BY GatewayAssumption
       DEF OpenBody, PushChunk, EndBody, FailBody, Admits, Inv, BodiesOwnTheRegistry,
           WriterIsAlone
  <1>2. \A d \in Clients : pc[d] # "stream"
    BY <1>1 DEF Inv, TypeInv
  <1>3. \A d \in Clients \ {c} : feed[d] = "none"
    BY GatewayAssumption
       DEF OpenBody, PushChunk, EndBody, FailBody, Admits, Inv, BodiesOwnTheRegistry
  <1> USE GatewayAssumption
      DEF Inv, TypeInv, Places, Waiting, BodiesOwnTheRegistry, WriterIsAlone,
          NothingInHand, TextsAreKnown, SentIsKnown, StreamsAreCurrent,
          NoPlaceholderReachesAClient, GoTo, CloseBody
  <1>4. CASE OpenBody(c)
    BY <1>1, <1>2, <1>3, <1>4 DEF OpenBody
  <1>5. CASE PushChunk(c)
    BY <1>1, <1>2, <1>3, <1>5 DEF PushChunk
  <1>6. CASE EndBody(c)
    BY <1>1, <1>2, <1>3, <1>6 DEF EndBody
  <1>7. CASE FailBody(c)
    BY <1>1, <1>2, <1>3, <1>7 DEF FailBody
  <1>. QED
    BY <1>4, <1>5, <1>6, <1>7

\* What is sent is what was in hand, and what comes back has been sent.
LEMMA TrafficStep ==
    ASSUME Inv, NEW c \in Clients,
           Send(c) \/ BeginResponse(c) \/ RestoreChunk(c) \/ EndResponse(c) \/ Drop(c)
    PROVE  Inv'
  <1> USE DEF Inv, TypeInv, Places, Waiting, BodiesOwnTheRegistry, WriterIsAlone,
              NothingInHand, TextsAreKnown, SentIsKnown, StreamsAreCurrent,
              NoPlaceholderReachesAClient, GoTo
  <1>1. CASE Send(c)
    BY <1>1 DEF Send
  <1>2. CASE BeginResponse(c)
    BY <1>2 DEF BeginResponse, Admits
  <1>3. CASE RestoreChunk(c)
    BY <1>3 DEF RestoreChunk
  <1>4. CASE EndResponse(c)
    BY <1>4 DEF EndResponse
  <1>5. CASE Drop(c)
    BY <1>5 DEF Drop
  <1>. QED
    BY <1>1, <1>2, <1>3, <1>4, <1>5

\* No placeholder that upstream sends back reaches a client as it is: neither a body that is
\* still being sent nor another request's credential gets past the guards.
THEOREM GatewayRestoresEveryPlaceholder == Spec => []NoPlaceholderReachesAClient
  <1>1. Inv /\ [Next]_vars => Inv'
    <2> SUFFICES ASSUME Inv, [Next]_vars PROVE Inv'
      OBVIOUS
    <2>1. ASSUME NEW c \in Clients, Step(c) PROVE Inv'
      BY <2>1, QuietStep, RegisteringStep, BodyStep, TrafficStep DEF Step
    <2>2. CASE UNCHANGED vars
      BY <2>2 DEF vars, Inv, TypeInv, BodiesOwnTheRegistry, WriterIsAlone, NothingInHand,
                  TextsAreKnown, SentIsKnown, StreamsAreCurrent, NoPlaceholderReachesAClient
    <2>. QED
      BY <2>1, <2>2 DEF Next
  <1>2. Inv => NoPlaceholderReachesAClient
    BY DEF Inv
  <1>. QED
    BY InvInit, <1>1, <1>2, PTL DEF Spec
=============================================================================
