------------------------ MODULE ControlService_proofs ------------------------
(***************************************************************************)
(* The shutdown protocol of a daemon, for any number of clients and        *)
(* requests: one owner of the resources, released once and in order.       *)
(* SInv is the inductive invariant.                                        *)
(***************************************************************************)
EXTENDS ControlService, TLAPS

Live == mounted /\ session = "active" /\ locked /\ socket

\* `serve` holds the resources from the moment it starts to release them.
HeldSteps == held = (IF spc \in {"select", "detach", "receive"} THEN 0 ELSE 1)

\* What each step of the release has behind it.
ReleaseSteps ==
    /\ spc \in {"select", "detach", "receive", "unmount"} => Live
    /\ spc \in {"close", "unlink"} => ~mounted /\ socket
    /\ spc = "unlink" => session = "closed" /\ ~locked
    /\ spc \in {"stop", "drain"} => release # "none"
    /\ release = "ok" => ~mounted /\ session = "closed" /\ ~locked /\ ~socket
    /\ spc \notin {"stop", "drain", "ok", "failed"} => release = "none"

SInv ==
    /\ TypeOK
    /\ OneOwner
    /\ HeldSteps
    /\ ReleaseSteps
    /\ HandoffNeverFails
    /\ OkMeansReleased

USE RequestAssumption

\* serve starts with the resources in the slot and nothing asked.
LEMMA InitSInv == Init => SInv
  <1> SUFFICES ASSUME Init PROVE SInv
      OBVIOUS
  <1>1. TypeOK
    <2>1. /\ signal \in BOOLEAN /\ mounted \in BOOLEAN
          /\ locked \in BOOLEAN /\ socket \in BOOLEAN
      BY Zenon DEF Init
    <2>2. sent \in [Client -> Nat]
      BY DEF Init
    <2>3. /\ slot \in 0..1 /\ chan \in 0..1 /\ held \in Nat
      BY DEF Init
    <2> QED BY <2>1, <2>2, <2>3, Zenon DEF Init, TypeOK
  <1>2. HandoffNeverFails
    BY DEF Init, HandoffNeverFails, NoRequest
  <1>3. OneOwner /\ HeldSteps
    BY DEF Init, OneOwner, HeldSteps
  <1>4. ReleaseSteps /\ OkMeansReleased
    BY DEF Init, ReleaseSteps, OkMeansReleased, Live
  <1> QED BY <1>1, <1>2, <1>3, <1>4 DEF SInv

\* An answer has its type, and the answer to a request is what ActiveInfo and
\* the handoff make it.
LEMMA ReplyType ==
  ASSUME TypeOK, HandoffNeverFails, NEW c \in Client, req[c].st = "asked",
         NEW a \in {"ok", "unavailable", "precondition", "unimplemented"},
         Reply(c, a)
  PROVE  /\ req' \in [Client ->
                  {NoRequest}
                  \cup [st : {"asked"}, endpoint : Endpoint,
                        compatible : BOOLEAN]
                  \cup [st : {"answered"}, endpoint : Endpoint,
                        answer : {"ok", "unavailable", "precondition",
                                  "unimplemented", "internal"}]]
         /\ HandoffNeverFails'
  <1>1. req[c].endpoint \in Endpoint
    BY DEF TypeOK, NoRequest
  <1>2. Answered(req[c].endpoint, a) \in
          [st : {"answered"}, endpoint : Endpoint,
           answer : {"ok", "unavailable", "precondition", "unimplemented", "internal"}]
    BY <1>1 DEF Answered
  <1>3. req' = [req EXCEPT ![c] = Answered(req[c].endpoint, a)]
    BY DEF Reply
  <1>4. HandoffNeverFails'
    BY <1>3 DEF TypeOK, HandoffNeverFails, Answered
  <1> QED BY <1>2, <1>3, <1>4 DEF TypeOK

\* Requests, signals, the server and serve all preserve the invariant.
LEMMA NextSInv ==
  ASSUME SInv, [Next]_vars
  PROVE  SInv'
  <1> USE DEF control, resources
  <1>1. /\ TypeOK /\ OneOwner /\ HeldSteps /\ ReleaseSteps
        /\ HandoffNeverFails /\ OkMeansReleased
    BY DEF SInv
  <1>2. ASSUME NEW c \in Client, Ask(c) PROVE SInv'
    <2>1. PICK e \in Endpoint, v \in BOOLEAN : req' = [req EXCEPT ![c] = Asked(e, v)]
      BY <1>2, ZenonT(30) DEF Ask
    <2>2. HandoffNeverFails'
      BY <1>1, <2>1 DEF TypeOK, HandoffNeverFails, Asked
    <2>3. TypeOK'
      BY <1>1, <1>2, <2>1 DEF Ask, TypeOK, Asked
    <2> QED BY <1>1, <1>2, <2>2, <2>3 DEF Ask, SInv, OneOwner, HeldSteps,
            ReleaseSteps, Live, OkMeansReleased
  <1>3. ASSUME NEW c \in Client, Cancel(c) PROVE SInv'
    <2>1. TypeOK' /\ HandoffNeverFails'
      BY <1>1, <1>3 DEF Cancel, TypeOK, HandoffNeverFails, NoRequest
    <2> QED BY <1>1, <1>3, <2>1 DEF Cancel, SInv, OneOwner, HeldSteps,
            ReleaseSteps, Live, OkMeansReleased
  <1>4. ASSUME NEW c \in Client, HandleQuery(c) PROVE SInv'
    <2>1. TypeOK' /\ HandoffNeverFails'
      BY <1>1, <1>4, ReplyType DEF HandleQuery, ActiveInfo, TypeOK
    <2> QED BY <1>1, <1>4, <2>1 DEF HandleQuery, SInv, OneOwner, HeldSteps,
            ReleaseSteps, Live, OkMeansReleased
  <1>5. ASSUME NEW c \in Client, HandleShutdown(c) PROVE SInv'
    <2>1. CASE ActiveInfo(c) # "ok"
      <3>1. TypeOK' /\ HandoffNeverFails'
        BY <1>1, <1>5, <2>1, ReplyType DEF HandleShutdown, ActiveInfo, TypeOK
      <3> QED BY <1>1, <1>5, <2>1, <3>1 DEF HandleShutdown, SInv, OneOwner,
              HeldSteps, ReleaseSteps, Live, OkMeansReleased
    <2>2. CASE ActiveInfo(c) = "ok"
      <3>1. slot = 1 /\ chan = 0 /\ held = 0
        BY <1>1, <2>2 DEF ActiveInfo, OneOwner, TypeOK
      <3>2. slot' = 0 /\ chan' = 1 /\ held' = 0 /\ Reply(c, "ok")
        BY <1>5, <2>2, <3>1 DEF HandleShutdown
      <3>3. TypeOK' /\ HandoffNeverFails'
        BY <1>1, <1>5, <3>2, ReplyType DEF HandleShutdown, TypeOK
      <3> QED BY <1>1, <1>5, <3>1, <3>2, <3>3 DEF HandleShutdown, SInv, OneOwner,
              HeldSteps, ReleaseSteps, Live, OkMeansReleased
    <2> QED BY <2>1, <2>2
  <1>6. CASE Kill
    BY <1>1, <1>6 DEF Kill, SInv, TypeOK, OneOwner, HeldSteps, ReleaseSteps,
       Live, HandoffNeverFails, OkMeansReleased
  <1>7. CASE ServerEnds
    <2>1. TypeOK' /\ HandoffNeverFails'
      BY <1>1, <1>7 DEF ServerEnds, TypeOK, HandoffNeverFails, NoRequest
    <2> QED BY <1>1, <1>7, <2>1 DEF ServerEnds, SInv, OneOwner, HeldSteps,
            ReleaseSteps, Live, OkMeansReleased
  <1>8. CASE Receive
    <2>1. TypeOK' /\ HandoffNeverFails'
      BY <1>1, <1>8 DEF Receive, TypeOK, HandoffNeverFails, OneOwner, HeldSteps
    <2>2. OneOwner' /\ HeldSteps'
      BY <1>1, <1>8 DEF Receive, OneOwner, HeldSteps, TypeOK
    <2>3. ReleaseSteps' /\ OkMeansReleased'
      BY <1>1, <1>8 DEF Receive, ReleaseSteps, Live, OkMeansReleased
    <2> QED BY <2>1, <2>2, <2>3 DEF SInv
  <1>9. CASE SelectSignal
    <2>1. TypeOK' /\ HandoffNeverFails'
      BY <1>1, <1>9 DEF SelectSignal, TypeOK, HandoffNeverFails, OneOwner, HeldSteps
    <2>2. OneOwner' /\ HeldSteps'
      BY <1>1, <1>9 DEF SelectSignal, OneOwner, HeldSteps, TypeOK
    <2>3. ReleaseSteps' /\ OkMeansReleased'
      BY <1>1, <1>9 DEF SelectSignal, ReleaseSteps, Live, OkMeansReleased
    <2> QED BY <2>1, <2>2, <2>3 DEF SInv
  <1>10. CASE Detach
    <2>1. TypeOK' /\ HandoffNeverFails'
      BY <1>1, <1>10 DEF Detach, TypeOK, HandoffNeverFails, OneOwner, HeldSteps
    <2>2. OneOwner' /\ HeldSteps'
      BY <1>1, <1>10 DEF Detach, OneOwner, HeldSteps, TypeOK
    <2>3. ReleaseSteps' /\ OkMeansReleased'
      BY <1>1, <1>10 DEF Detach, ReleaseSteps, Live, OkMeansReleased
    <2> QED BY <2>1, <2>2, <2>3 DEF SInv
  <1>11. CASE Unmount
    <2>1. TypeOK' /\ HandoffNeverFails'
      BY <1>1, <1>11, ZenonT(30) DEF Unmount, TypeOK, HandoffNeverFails
    <2>2. OneOwner' /\ HeldSteps'
      BY <1>1, <1>11 DEF Unmount, OneOwner, HeldSteps, TypeOK
    <2>3. ReleaseSteps' /\ OkMeansReleased'
      BY <1>1, <1>11 DEF Unmount, ReleaseSteps, Live, OkMeansReleased
    <2> QED BY <2>1, <2>2, <2>3 DEF SInv
  <1>12. CASE CloseSession
    <2>1. TypeOK' /\ HandoffNeverFails'
      BY <1>1, <1>12, ZenonT(30) DEF CloseSession, TypeOK, HandoffNeverFails
    <2>2. OneOwner' /\ HeldSteps'
      BY <1>1, <1>12 DEF CloseSession, OneOwner, HeldSteps, TypeOK
    <2>3. ReleaseSteps' /\ OkMeansReleased'
      BY <1>1, <1>12 DEF CloseSession, ReleaseSteps, Live, OkMeansReleased
    <2> QED BY <2>1, <2>2, <2>3 DEF SInv
  <1>13. CASE RemoveSocket
    <2>1. TypeOK' /\ HandoffNeverFails'
      BY <1>1, <1>13, ZenonT(30) DEF RemoveSocket, TypeOK, HandoffNeverFails
    <2>2. OneOwner' /\ HeldSteps'
      BY <1>1, <1>13 DEF RemoveSocket, OneOwner, HeldSteps, TypeOK
    <2>3. ReleaseSteps' /\ OkMeansReleased'
      BY <1>1, <1>13 DEF RemoveSocket, ReleaseSteps, Live, OkMeansReleased
    <2> QED BY <2>1, <2>2, <2>3 DEF SInv
  <1>14. CASE ReleaseFails
    <2>1. TypeOK' /\ HandoffNeverFails'
      BY <1>1, <1>14, ZenonT(30) DEF ReleaseFails, TypeOK, HandoffNeverFails
    <2>2. OneOwner' /\ HeldSteps'
      BY <1>1, <1>14 DEF ReleaseFails, OneOwner, HeldSteps, TypeOK
    <2>3. ReleaseSteps' /\ OkMeansReleased'
      BY <1>1, <1>14 DEF ReleaseFails, ReleaseSteps, Live, OkMeansReleased
    <2> QED BY <2>1, <2>2, <2>3 DEF SInv
  <1>15. CASE Stop
    <2>1. TypeOK' /\ HandoffNeverFails'
      BY <1>1, <1>15 DEF Stop, TypeOK, HandoffNeverFails, OneOwner, HeldSteps
    <2>2. OneOwner' /\ HeldSteps'
      BY <1>1, <1>15 DEF Stop, OneOwner, HeldSteps, TypeOK
    <2>3. ReleaseSteps' /\ OkMeansReleased'
      BY <1>1, <1>15 DEF Stop, ReleaseSteps, Live, OkMeansReleased
    <2> QED BY <2>1, <2>2, <2>3 DEF SInv
  <1>16. CASE Return
    <2>1. TypeOK' /\ HandoffNeverFails'
      BY <1>1, <1>16 DEF Return, TypeOK, HandoffNeverFails, OneOwner, HeldSteps
    <2>2. OneOwner' /\ HeldSteps'
      BY <1>1, <1>16 DEF Return, OneOwner, HeldSteps, TypeOK
    <2>3. ReleaseSteps' /\ OkMeansReleased'
      BY <1>1, <1>16 DEF Return, ReleaseSteps, Live, OkMeansReleased
    <2> QED BY <2>1, <2>2, <2>3 DEF SInv
  <1>17. CASE UNCHANGED vars
    BY <1>1, <1>17 DEF vars, SInv, TypeOK, OneOwner, HeldSteps, ReleaseSteps,
       Live, HandoffNeverFails, OkMeansReleased
  <1> QED BY <1>2, <1>3, <1>4, <1>5, <1>6, <1>7, <1>8, <1>9, <1>10, <1>11, <1>12,
          <1>13, <1>14, <1>15, <1>16, <1>17
          DEF Next, Serve, Handle

\* The invariant holds in every reachable state.
THEOREM ShutdownInvariant == Spec => []SInv
  BY InitSInv, NextSInv, PTL DEF Spec

\* Type correctness of the control service.
THEOREM ControlTypes == Spec => []TypeOK
  <1>1. SInv => TypeOK
    BY DEF SInv
  <1> QED BY <1>1, ShutdownInvariant, PTL

\* The slot, the handoff channel and serve never hold the resources twice,
\* and never lose them.
THEOREM ResourcesHaveOneOwner == Spec => []OneOwner
  <1>1. SInv => OneOwner
    BY DEF SInv
  <1> QED BY <1>1, ShutdownInvariant, PTL

\* An endpoint that finds the resources attached answers for a live mount.
THEOREM AttachedLive == Spec => []AttachedIsLive
  <1>1. SInv => AttachedIsLive
    BY DEF SInv, TypeOK, OneOwner, HeldSteps, ReleaseSteps, Live, AttachedIsLive
  <1> QED BY <1>1, ShutdownInvariant, PTL

\* The channel of capacity 1 has room whenever shutdown sends.
THEOREM HandoffSucceeds == Spec => []HandoffNeverFails
  <1>1. SInv => HandoffNeverFails
    BY DEF SInv
  <1> QED BY <1>1, ShutdownInvariant, PTL

\* serve returns Ok only with everything released and the session closed.
THEOREM OkReleased == Spec => []OkMeansReleased
  <1>1. SInv => OkMeansReleased
    BY SMTT(30) DEF SInv
  <1> QED BY <1>1, ShutdownInvariant, PTL

\* release closes the session after the unmount, and unlinks after the close.
THEOREM ReleaseOrdered == Spec => ReleaseInOrder
  <1> DEFINE Ordered == /\ session' # session => ~mounted
                        /\ socket' # socket => session = "closed"
  <1>1. SInv /\ [Next]_vars => [Ordered]_<<session, socket>>
    BY Zenon DEF SInv, ReleaseSteps, Next, Serve, Handle, Ask, Cancel, HandleQuery,
       HandleShutdown, Kill, ServerEnds, Receive, SelectSignal, Detach, Unmount,
       CloseSession, RemoveSocket, ReleaseFails, Stop, Return, resources, vars
  <1> QED BY <1>1, ShutdownInvariant, PTL DEF Spec, ReleaseInOrder

\* An incompatible or refused request detaches nothing: when the slot is
\* emptied outside detach_or_receive, a compatible client is told "ok".
THEOREM OnlyAcceptedRequestsDetach == Spec => OnlyAcceptedDetaches
  <1> DEFINE Accepted ==
         \/ spc = "detach"
         \/ \E c \in Client :
               /\ req[c].st = "asked" /\ req[c].compatible
               /\ req'[c] = Answered("shutdown", "ok")
  <1>1. SInv /\ [Next]_vars => [Accepted]_slot
    <2> SUFFICES ASSUME SInv, [Next]_vars, slot' # slot PROVE Accepted
      BY Zenon
    <2>1. Detach \/ \E c \in Client : HandleShutdown(c)
      BY Zenon DEF Next, Serve, Handle, Ask, Cancel, HandleQuery, Kill, ServerEnds, Receive,
         SelectSignal, Unmount, CloseSession, RemoveSocket, ReleaseFails, Stop, Return,
         control, vars
    <2>2. CASE Detach
      BY Zenon, <2>2 DEF Detach
    <2>3. ASSUME NEW c \in Client, HandleShutdown(c) PROVE Accepted
      <3>1. ActiveInfo(c) = "ok"
        BY Zenon, <2>3 DEF HandleShutdown, control
      <3>2. slot = 1 /\ req[c].compatible
        <4>1. slot # 0 /\ req[c].compatible
          BY <3>1 DEF ActiveInfo
        <4> QED BY <4>1 DEF SInv, TypeOK
      <3>3. chan = 0
        BY <3>2 DEF SInv, TypeOK, OneOwner
      <3>4. req[c].st = "asked" /\ req[c].endpoint = "shutdown" /\ Reply(c, "ok")
        BY Zenon, <2>3, <3>1, <3>3 DEF HandleShutdown
      <3>5. req'[c] = Answered("shutdown", "ok")
        BY Zenon, <3>4 DEF Reply, SInv, TypeOK
      <3> QED BY Zenon, <3>2, <3>4, <3>5
    <2> QED BY Zenon, <2>1, <2>2, <2>3
  <1> QED BY <1>1, ShutdownInvariant, PTL DEF Spec, OnlyAcceptedDetaches
===============================================================================
