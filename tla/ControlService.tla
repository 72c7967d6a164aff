--------------------------- MODULE ControlService ---------------------------
(***************************************************************************)
(* Shutdown of one daemon (crates/rfsd/src/control_service.rs).  The       *)
(* daemon's resources (session, FUSE mount, socket) sit in one slot.  A    *)
(* Shutdown request, a termination signal or the end of the control server *)
(* detaches them, and `serve` releases them step by step.  Request         *)
(* handlers hold the slot's mutex and do not await, so each is one step.   *)
(***************************************************************************)
EXTENDS Integers

CONSTANTS
    Client,        \* control clients
    MaxRequests    \* bound: requests of one client

ASSUME RequestAssumption == MaxRequests \in Nat

VARIABLES
    slot,          \* resources in ControlService.resources: 0 or 1
    chan,          \* resources in the handoff channel, capacity 1
    held,          \* resources `serve` took for release
    spc,           \* control point of `serve`
    release,       \* the release result
    signal,        \* a SIGINT or SIGTERM is pending
    server,        \* the tonic server future
    mounted, session, locked, socket,  \* the resources themselves
    req, sent      \* client -> its request; number of requests

control == <<slot, chan, held>>
resources == <<mounted, session, locked, socket>>
vars == <<control, spc, release, signal, server, resources, req, sent>>

Endpoint == {"check", "status", "snapshot", "shutdown"}
NoRequest == [st |-> "none"]
Asked(e, v) == [st |-> "asked", endpoint |-> e, compatible |-> v]
Answered(e, a) == [st |-> "answered", endpoint |-> e, answer |-> a]

\* serve starts with a fully constructed daemon.
Init ==
    /\ slot = 1 /\ chan = 0 /\ held = 0
    /\ spc = "select"
    /\ release = "none"
    /\ signal = FALSE
    /\ server = "running"
    /\ mounted = TRUE /\ session = "active" /\ locked = TRUE /\ socket = TRUE
    /\ req = [c \in Client |-> NoRequest]
    /\ sent = [c \in Client |-> 0]

-----------------------------------------------------------------------------
\* A request reaches the server; a stopped server takes no new one.
Ask(c) ==
    /\ server = "running"
    /\ req[c].st # "asked"
    /\ sent[c] < MaxRequests
    /\ sent' = [sent EXCEPT ![c] = @ + 1]
    /\ \E e \in Endpoint, v \in BOOLEAN :
          req' = [req EXCEPT ![c] = Asked(e, v)]
    /\ UNCHANGED <<control, spc, release, signal, server, resources>>

\* The client gives up, or its connection breaks, before the handler ran.
Cancel(c) ==
    /\ req[c].st = "asked"
    /\ req' = [req EXCEPT ![c] = NoRequest]
    /\ UNCHANGED <<control, spc, release, signal, server, resources, sent>>

Reply(c, a) ==
    req' = [req EXCEPT ![c] = Answered(req[c].endpoint, a)]

\* active_info: unavailable once detached, then the protocol version.
ActiveInfo(c) ==
    IF slot = 0 THEN "unavailable"
    ELSE IF ~req[c].compatible THEN "precondition"
    ELSE "ok"

\* check_protocol, status, snapshot
HandleQuery(c) ==
    /\ server # "done"
    /\ req[c].st = "asked"
    /\ req[c].endpoint # "shutdown"
    /\ Reply(c, IF ActiveInfo(c) = "ok" /\ req[c].endpoint = "snapshot"
                THEN "unimplemented" ELSE ActiveInfo(c))
    /\ UNCHANGED <<control, spc, release, signal, server, resources, sent>>

\* Mutants of HandleShutdown: the slot is not emptied; the version is checked
\* after taking; the resources are not sent.
ShutdownKeeps(c) ==
    /\ server # "done"
    /\ req[c].st = "asked" /\ req[c].endpoint = "shutdown"
    /\ IF ActiveInfo(c) # "ok"
       THEN Reply(c, ActiveInfo(c)) /\ UNCHANGED chan
       ELSE /\ chan' = IF chan = 0 THEN 1 ELSE chan
            /\ Reply(c, IF chan = 0 THEN "ok" ELSE "internal")
    /\ UNCHANGED <<slot, held, spc, release, signal, server, resources, sent>>
ShutdownThenCheck(c) ==
    /\ server # "done"
    /\ req[c].st = "asked" /\ req[c].endpoint = "shutdown"
    /\ Reply(c, ActiveInfo(c))
    /\ slot' = 0
    /\ chan' = IF slot = 1 THEN 1 ELSE chan
    /\ UNCHANGED <<held, spc, release, signal, server, resources, sent>>
ShutdownDrops(c) ==
    /\ server # "done"
    /\ req[c].st = "asked" /\ req[c].endpoint = "shutdown"
    /\ Reply(c, ActiveInfo(c))
    /\ slot' = IF ActiveInfo(c) = "ok" THEN 0 ELSE slot
    /\ UNCHANGED <<chan, held, spc, release, signal, server, resources, sent>>

\* shutdown: take the resources and try_send them, under one lock.
HandleShutdown(c) ==
    /\ server # "done"
    /\ req[c].st = "asked"
    /\ req[c].endpoint = "shutdown"
    /\ IF ActiveInfo(c) # "ok"
       THEN Reply(c, ActiveInfo(c)) /\ UNCHANGED control
       ELSE /\ slot' = 0
            /\ chan' = IF chan = 0 THEN 1 ELSE chan
            /\ Reply(c, IF chan = 0 THEN "ok" ELSE "internal")
            /\ UNCHANGED held
    /\ UNCHANGED <<spc, release, signal, server, resources, sent>>

Kill ==
    /\ ~signal
    /\ signal' = TRUE
    /\ UNCHANGED <<control, spc, release, server, resources, req, sent>>

\* The server future resolves: on its own at any time, or after stop_tx once
\* the requests in flight are answered.
ServerEnds ==
    /\ server # "done"
    /\ server = "stopping" => \A c \in Client : req[c].st # "asked"
    /\ server' = "done"
    /\ req' = [c \in Client |-> IF req[c].st = "asked" THEN NoRequest ELSE req[c]]
    /\ UNCHANGED <<control, spc, release, signal, resources, sent>>

\* serve: the arms of select!.  A request's resources, or a reason to detach.
Receive ==
    /\ spc \in {"select", "receive"}
    /\ chan = 1
    /\ chan' = 0 /\ held' = held + 1
    /\ spc' = "unmount"
    /\ UNCHANGED <<slot, release, signal, server, resources, req, sent>>

SelectSignal ==
    /\ spc = "select"
    /\ signal \/ server = "done"
    /\ spc' = "detach"
    /\ UNCHANGED <<control, release, signal, server, resources, req, sent>>

\* detach_or_receive
Detach ==
    /\ spc = "detach"
    /\ IF slot = 1
       THEN slot' = 0 /\ held' = held + 1 /\ spc' = "unmount"
       ELSE spc' = "receive" /\ UNCHANGED <<slot, held>>
    /\ UNCHANGED <<chan, release, signal, server, resources, req, sent>>

\* Mutant of Unmount: the socket is removed next.
UnmountThenUnlink ==
    /\ spc = "unmount"
    /\ mounted' = FALSE
    /\ spc' = "unlink"
    /\ UNCHANGED <<control, release, signal, server, session, locked, socket,
                   req, sent>>

\* DaemonResources::release: the first failure drops what is left.  Dropping
\* the session releases the home lock.
Unmount ==
    /\ spc = "unmount"
    /\ mounted' = FALSE
    /\ spc' = "close"
    /\ UNCHANGED <<control, release, signal, server, session, locked, socket,
                   req, sent>>

CloseSession ==
    /\ spc = "close"
    /\ session' = "closed"
    /\ locked' = FALSE
    /\ spc' = "unlink"
    /\ UNCHANGED <<control, release, signal, server, mounted, socket, req, sent>>

RemoveSocket ==
    /\ spc = "unlink"
    /\ socket' = FALSE
    /\ release' = "ok"
    /\ spc' = "stop"
    /\ UNCHANGED <<control, signal, server, mounted, session, locked, req, sent>>

ReleaseFails ==
    /\ spc \in {"unmount", "close", "unlink"}
    /\ mounted' \in IF spc = "unmount" THEN BOOLEAN ELSE {mounted}
    /\ locked' = FALSE
    /\ release' = "err"
    /\ spc' = "stop"
    /\ UNCHANGED <<control, signal, server, session, socket, req, sent>>

\* stop_tx.send
Stop ==
    /\ spc = "stop"
    /\ server' = IF server = "running" THEN "stopping" ELSE server
    /\ spc' = "drain"
    /\ UNCHANGED <<control, release, signal, resources, req, sent>>

\* Mutant of Return: the release result is ignored.
ReturnOk ==
    /\ spc = "drain"
    /\ server = "done"
    /\ spc' \in {"ok", "failed"}
    /\ UNCHANGED <<control, release, signal, server, resources, req, sent>>

\* server.await; the server's own result may be a transport error.
Return ==
    /\ spc = "drain"
    /\ server = "done"
    /\ spc' \in (IF release = "ok" THEN {"ok", "failed"} ELSE {"failed"})
    /\ UNCHANGED <<control, release, signal, server, resources, req, sent>>

Handle(c) == HandleQuery(c) \/ HandleShutdown(c)

Serve ==
    \/ Receive \/ SelectSignal \/ Detach \/ Unmount \/ CloseSession
    \/ RemoveSocket \/ ReleaseFails \/ Stop \/ Return

Next ==
    \/ \E c \in Client : Ask(c) \/ Cancel(c) \/ Handle(c)
    \/ Kill \/ ServerEnds \/ Serve

Spec == Init /\ [][Next]_vars

\* The runtime polls serve and the handlers, and a stopped server that owes no
\* answer ends.
FairSpec ==
    /\ Spec
    /\ WF_vars(Serve)
    /\ \A c \in Client : WF_vars(Handle(c))
    /\ WF_vars(server = "stopping" /\ ServerEnds)
-----------------------------------------------------------------------------
Done == spc \in {"ok", "failed"}

\* Every variable has its type.
TypeOK ==
    /\ slot \in 0..1 /\ chan \in 0..1 /\ held \in Nat
    /\ spc \in {"select", "detach", "receive", "unmount", "close", "unlink",
                "stop", "drain", "ok", "failed"}
    /\ release \in {"none", "ok", "err"}
    /\ signal \in BOOLEAN
    /\ server \in {"running", "stopping", "done"}
    /\ mounted \in BOOLEAN /\ session \in {"active", "closed"}
    /\ locked \in BOOLEAN /\ socket \in BOOLEAN
    /\ req \in [Client ->
                  {NoRequest}
                  \cup [st : {"asked"}, endpoint : Endpoint,
                        compatible : BOOLEAN]
                  \cup [st : {"answered"}, endpoint : Endpoint,
                        answer : {"ok", "unavailable", "precondition",
                                  "unimplemented", "internal"}]]
    /\ sent \in [Client -> Nat]

\* "detaches the resources exactly once": whichever of the requests, the
\* signal and the server's end come first, the resources are in one place.
OneOwner == slot + chan + held = 1

\* While an endpoint can still answer for the session, the mount is live, the
\* session active, the home locked and the socket in place.
AttachedIsLive ==
    slot = 1 => mounted /\ session = "active" /\ locked /\ socket

\* try_send in shutdown "Cannot fail".
HandoffNeverFails ==
    \A c \in Client : req[c].st = "answered" => req[c].answer # "internal"

\* "An incompatible request never detaches anything": outside
\* detach_or_receive, the slot is emptied only by a request that is told so.
OnlyAcceptedDetaches ==
    [][\/ spc = "detach"
       \/ \E c \in Client :
             /\ req[c].st = "asked" /\ req[c].compatible
             /\ req'[c] = Answered("shutdown", "ok")]_slot

\* release unmounts first, closes the session only then, and removes the
\* socket only of a closed session.
ReleaseInOrder ==
    [][/\ session' # session => ~mounted
       /\ socket' # socket => session = "closed"]_<<session, socket>>

\* run returns Ok only after everything was released and the session closed.
OkMeansReleased ==
    spc = "ok" => ~mounted /\ session = "closed" /\ ~locked /\ ~socket

\* Once detached or signalled, or once its server ended, the daemon exits:
\* no order of requests and signals leaves serve waiting for resources that
\* nobody will send.
ShutdownCompletes == (slot = 0 \/ signal \/ server = "done") ~> Done
=============================================================================
