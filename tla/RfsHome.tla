------------------------------- MODULE RfsHome -------------------------------
(***************************************************************************)
(* One RFS_HOME and the processes that use it: `rfs mount` commands, the   *)
(* daemons they spawn, and `rfs unmount` commands (crates/rfs/src/cli.rs,  *)
(* crates/rfsd/src/lib.rs, Session::open and Session::inspect).  They      *)
(* share the session lock, the session tree, the control socket in it and  *)
(* the mountpoints, and may be killed at any step.  A mount command and    *)
(* its daemon have the same name.                                          *)
(***************************************************************************)
EXTENDS Naturals

CONSTANTS
    Daemon,      \* mount commands and their daemons
    NoDaemon,
    Unmounter,   \* rfs unmount commands
    Target,      \* daemon -> the mount it is asked for: [root, mountpoint]
    Overlap,     \* may mount commands run at the same time?
    MaxCrashes   \* bound: daemons killed from outside

ASSUME DaemonAssumption == NoDaemon \notin Daemon
ASSUME HomeAssumption == Overlap \in BOOLEAN /\ MaxCrashes \in Nat

VARIABLES
    lock,        \* who holds the flock on session.lock
    tree, treeOf,\* the session tree, and the daemon that created it
    sock,        \* the daemon whose bind created control.sock, if it exists
    mount,       \* daemon -> its FUSE mount: "none", "live" or "dead"
    dpc,         \* daemon -> how far it is
    mpc, pid,    \* mount command -> control point, daemon it asked, then reported
    late,        \* mount commands past DAEMON_READY_TIMEOUT
    upc, upid,   \* unmount command -> control point, daemon it talks to
    crashes

home == <<lock, tree, treeOf, sock, mount>>
cli == <<mpc, pid, late, upc, upid>>
vars == <<home, dpc, cli, crashes>>

Init ==
    /\ lock = NoDaemon
    /\ tree = "missing" /\ treeOf = NoDaemon
    /\ sock = NoDaemon
    /\ mount = [d \in Daemon |-> "none"]
    /\ dpc = [d \in Daemon |-> "none"]
    /\ mpc = [d \in Daemon |-> "idle"]
    /\ pid = [d \in Daemon |-> NoDaemon]
    /\ late = {}
    /\ upc = [u \in Unmounter |-> "idle"]
    /\ upid = [u \in Unmounter |-> NoDaemon]
    /\ crashes = 0

-----------------------------------------------------------------------------
Running(d) == dpc[d] \notin {"none", "exited"}

\* A connection to the socket answers Status: its name is there and leads to
\* a daemon that serves and has not detached its resources.
Answers(d) == sock = d /\ dpc[d] = "serving"

Advance(d, label) == dpc' = [dpc EXCEPT ![d] = label]
DaemonOnly == UNCHANGED <<cli, crashes>>

\* The process is gone: the kernel drops its lock and orphans its mount.
Dies(d) ==
    /\ Advance(d, "exited")
    /\ lock' = IF lock = d THEN NoDaemon ELSE lock
    /\ mount' = [mount EXCEPT ![d] = IF @ = "live" THEN "dead" ELSE @]

\* validate_mountpoint: metadata of an orphaned mount cannot be read.
Usable(mountpoint) ==
    \A e \in Daemon : Target[e].mountpoint = mountpoint => mount[e] # "dead"

\* construct_daemon up to Session::open, and the check of the mountpoint.
ValidateMountpoint(d) ==
    /\ dpc[d] = "spawned"
    /\ Advance(d, IF Usable(Target[d].mountpoint) THEN "locking" ELSE "exited")
    /\ UNCHANGED home /\ DaemonOnly

\* A mutant of AcquireLock: the old tree is removed before the lock is taken.
RemoveThenAcquire(d) ==
    /\ dpc[d] = "locking"
    /\ tree' = "missing" /\ treeOf' = NoDaemon /\ sock' = NoDaemon
    /\ IF lock = NoDaemon
       THEN lock' = d /\ Advance(d, "locked")
       ELSE Advance(d, "exited") /\ UNCHANGED lock
    /\ UNCHANGED mount /\ DaemonOnly

\* SessionLock::acquire: LOCK_EX | LOCK_NB.
AcquireLock(d) ==
    /\ dpc[d] = "locking"
    /\ IF lock = NoDaemon
       THEN lock' = d /\ Advance(d, "locked")
       ELSE Advance(d, "exited") /\ UNCHANGED lock
    /\ UNCHANGED <<tree, treeOf, sock, mount>> /\ DaemonOnly

\* remove_if_present: the old tree goes, and with it any socket name.
RemoveTree(d) ==
    /\ dpc[d] = "locked"
    /\ tree' = "missing" /\ treeOf' = NoDaemon /\ sock' = NoDaemon
    /\ Advance(d, "removed")
    /\ UNCHANGED <<lock, mount>> /\ DaemonOnly

\* The directory, the empty database, the cache and the overlay.
CreateTree(d) ==
    /\ dpc[d] = "removed"
    /\ tree' = "empty" /\ treeOf' = d
    /\ Advance(d, "created")
    /\ UNCHANGED <<lock, sock, mount>> /\ DaemonOnly

\* SessionStore::create commits the metadata row and the root inode.
CreateStore(d) ==
    /\ dpc[d] = "created"
    /\ tree' = "active"
    /\ Advance(d, "open")
    /\ UNCHANGED <<lock, treeOf, sock, mount>> /\ DaemonOnly

\* A mutant of MountFuse: the daemon goes on when the mount fails.
MountFuseUnchecked(d) ==
    /\ dpc[d] = "open"
    /\ \E state \in {"none", "live"} : mount' = [mount EXCEPT ![d] = state]
    /\ Advance(d, "mounted")
    /\ UNCHANGED <<lock, tree, treeOf, sock>> /\ DaemonOnly

\* The root directory is validated and FUSE mounted.
MountFuse(d) ==
    /\ dpc[d] = "open"
    /\ mount' = [mount EXCEPT ![d] = "live"]
    /\ Advance(d, "mounted")
    /\ UNCHANGED <<lock, tree, treeOf, sock>> /\ DaemonOnly

\* bind_control_socket, then serve.
Bind(d) ==
    /\ dpc[d] = "mounted"
    /\ sock = NoDaemon
    /\ sock' = d
    /\ Advance(d, "serving")
    /\ UNCHANGED <<lock, tree, treeOf, mount>> /\ DaemonOnly

\* A step of construct_daemon fails: what was acquired is dropped, the mount
\* first, and nothing is marked closed.
StartFails(d) ==
    /\ dpc[d] \in {"spawned", "locking", "locked", "removed", "created", "open", "mounted"}
    /\ mount' = [mount EXCEPT ![d] = "none"]
    /\ lock' = IF lock = d THEN NoDaemon ELSE lock
    /\ Advance(d, "exited")
    /\ UNCHANGED <<tree, treeOf, sock>> /\ DaemonOnly

\* A termination signal detaches the resources.
Terminate(d) ==
    /\ dpc[d] = "serving"
    /\ Advance(d, "detached")
    /\ UNCHANGED home /\ DaemonOnly

\* DaemonResources::release
UnmountFuse(d) ==
    /\ dpc[d] = "detached"
    /\ mount' = [mount EXCEPT ![d] = "none"]
    /\ Advance(d, "unmounted")
    /\ UNCHANGED <<lock, tree, treeOf, sock>> /\ DaemonOnly

\* The close transaction; the blocking task owns the last Arc of the session,
\* so the lock is released with it.
CloseSession(d) ==
    /\ dpc[d] = "unmounted"
    /\ tree' = IF treeOf = d THEN "closed" ELSE tree
    /\ lock' = IF lock = d THEN NoDaemon ELSE lock
    /\ Advance(d, "closed")
    /\ UNCHANGED <<treeOf, sock, mount>> /\ DaemonOnly

\* remove_socket: whatever has the name.
RemoveSocket(d) ==
    /\ dpc[d] = "closed"
    /\ sock' = NoDaemon
    /\ Advance(d, "stopping")
    /\ UNCHANGED <<lock, tree, treeOf, mount>> /\ DaemonOnly

\* A step of release fails: what is left is dropped, the socket stays.
ReleaseFails(d) ==
    /\ dpc[d] \in {"detached", "unmounted", "closed"}
    /\ mount' = [mount EXCEPT ![d] = "none"]
    /\ lock' = IF lock = d THEN NoDaemon ELSE lock
    /\ Advance(d, "stopping")
    /\ UNCHANGED <<tree, treeOf, sock>> /\ DaemonOnly

Exit(d) ==
    /\ dpc[d] = "stopping"
    /\ Advance(d, "exited")
    /\ UNCHANGED home /\ DaemonOnly

Crash(d) ==
    /\ Running(d)
    /\ crashes < MaxCrashes
    /\ crashes' = crashes + 1
    /\ Dies(d)
    /\ UNCHANGED <<tree, treeOf, sock, cli>>

-----------------------------------------------------------------------------
\* ensure_no_active_daemon
Probe(d) ==
    /\ mpc[d] = "idle"
    /\ Overlap \/ \A e \in Daemon : mpc[e] \in {"idle", "ok", "failed"}
    /\ mpc' = [mpc EXCEPT ![d] =
                 IF \E e \in Daemon : Answers(e) THEN "failed" ELSE "spawn"]
    /\ UNCHANGED <<home, dpc, pid, late, upc, upid, crashes>>

Spawn(d) ==
    /\ mpc[d] = "spawn"
    /\ mpc' = [mpc EXCEPT ![d] = "wait"]
    /\ Advance(d, "spawned")
    /\ UNCHANGED <<home, pid, late, upc, upid, crashes>>

\* The log cannot be created or rfsd not started.
SpawnFails(d) ==
    /\ mpc[d] = "spawn"
    /\ mpc' = [mpc EXCEPT ![d] = "failed"]
    /\ UNCHANGED <<home, dpc, pid, late, upc, upid, crashes>>

\* wait_for_daemon_ready: child.try_wait, then the status request.
TryWait(d) ==
    /\ mpc[d] = "wait"
    /\ mpc' = [mpc EXCEPT ![d] = IF dpc[d] = "exited" THEN "failed" ELSE "query"]
    /\ UNCHANGED <<home, dpc, pid, late, upc, upid, crashes>>

\* A mutant of NoAnswer: no deadline.
NoAnswerEver(d) ==
    /\ mpc' = [mpc EXCEPT ![d] = "wait"]
    /\ pid' = [pid EXCEPT ![d] = NoDaemon]

\* No status: the deadline is looked at after the request failed.
NoAnswer(d) ==
    /\ mpc' = [mpc EXCEPT ![d] = IF d \in late THEN "kill" ELSE "wait"]
    /\ pid' = [pid EXCEPT ![d] = NoDaemon]

\* The connection is refused without a socket name or a listener behind it.
Connect(d) ==
    /\ mpc[d] = "query"
    /\ \/ /\ sock # NoDaemon /\ Running(sock)
          /\ mpc' = [mpc EXCEPT ![d] = "asked"]
          /\ pid' = [pid EXCEPT ![d] = sock]
       \/ /\ sock # NoDaemon => dpc[sock] \in {"stopping", "exited"}
          /\ NoAnswer(d)
    /\ UNCHANGED <<home, dpc, late, upc, upid, crashes>>

\* The status of the daemon connected to, whenever it gives it: the request has
\* no timeout.
Query(d) ==
    /\ mpc[d] = "asked" /\ dpc[pid[d]] = "serving"
    /\ IF Target[pid[d]] = Target[d]
       THEN mpc' = [mpc EXCEPT ![d] = "ok"] /\ UNCHANGED pid
       ELSE /\ mpc' = [mpc EXCEPT ![d] = "kill"]
            /\ pid' = [pid EXCEPT ![d] = NoDaemon]
    /\ UNCHANGED <<home, dpc, late, upc, upid, crashes>>

\* A daemon that has detached its resources answers "unavailable".
Unavailable(d) ==
    /\ mpc[d] = "asked" /\ Running(pid[d]) /\ dpc[pid[d]] # "serving"
    /\ NoAnswer(d)
    /\ UNCHANGED <<home, dpc, late, upc, upid, crashes>>

\* The connection breaks when the daemon is gone.
Disconnected(d) ==
    /\ mpc[d] = "asked" /\ ~Running(pid[d])
    /\ NoAnswer(d)
    /\ UNCHANGED <<home, dpc, late, upc, upid, crashes>>

Deadline(d) ==
    /\ mpc[d] \in {"wait", "query", "asked"}
    /\ d \notin late
    /\ late' = late \cup {d}
    /\ UNCHANGED <<home, dpc, mpc, pid, upc, upid, crashes>>

\* A mutant of KillChild: the command fails and leaves its daemon running.
KeepChild(d) ==
    /\ mpc[d] = "kill"
    /\ mpc' = [mpc EXCEPT ![d] = "failed"]
    /\ UNCHANGED <<home, dpc, pid, late, upc, upid, crashes>>

\* child.kill and child.wait
KillChild(d) ==
    /\ mpc[d] = "kill"
    /\ mpc' = [mpc EXCEPT ![d] = "failed"]
    /\ Dies(d)
    /\ UNCHANGED <<tree, treeOf, sock, pid, late, upc, upid, crashes>>

-----------------------------------------------------------------------------
\* run_unmount: connect and status.
AskStatus(u) ==
    /\ upc[u] = "idle"
    /\ IF \E d \in Daemon : Answers(d)
       THEN /\ upc' = [upc EXCEPT ![u] = "shutdown"]
            /\ upid' = [upid EXCEPT ![u] = sock]
       ELSE upc' = [upc EXCEPT ![u] = "failed"] /\ UNCHANGED upid
    /\ UNCHANGED <<home, dpc, mpc, pid, late, crashes>>

\* Shutdown on the same connection, again without a timeout.  A daemon that has
\* detached its resources refuses, and one may die before its reply is sent.
AskShutdown(u) ==
    /\ upc[u] = "shutdown" /\ Running(upid[u])
    /\ IF dpc[upid[u]] = "serving"
       THEN /\ \E label \in {"waiting", "failed"} :
                  upc' = [upc EXCEPT ![u] = label]
            /\ Advance(upid[u], "detached")
       ELSE upc' = [upc EXCEPT ![u] = "failed"] /\ UNCHANGED dpc
    /\ UNCHANGED <<home, mpc, pid, late, upid, crashes>>

ShutdownLost(u) ==
    /\ upc[u] = "shutdown" /\ ~Running(upid[u])
    /\ upc' = [upc EXCEPT ![u] = "failed"]
    /\ UNCHANGED <<home, dpc, mpc, pid, late, upid, crashes>>

\* wait_for_process_exit returns true, or false at its deadline.
WaitExit(u) ==
    /\ upc[u] = "waiting"
    /\ upc' = [upc EXCEPT ![u] =
                 IF dpc[upid[u]] = "exited" THEN "inspect" ELSE "timeout"]
    /\ UNCHANGED <<home, dpc, mpc, pid, late, upid, crashes>>

\* A mutant of Inspect: any retained session will do.
InspectAny(u) ==
    /\ upc[u] \in {"inspect", "timeout"}
    /\ upc' = [upc EXCEPT ![u] =
                 IF upc[u] = "inspect" /\ tree # "missing" THEN "ok" ELSE "failed"]
    /\ UNCHANGED <<home, dpc, mpc, pid, late, upid, crashes>>

\* Session::inspect: the retained lifecycle decides.
Inspect(u) ==
    /\ upc[u] \in {"inspect", "timeout"}
    /\ upc' = [upc EXCEPT ![u] =
                 IF upc[u] = "inspect" /\ tree = "closed" THEN "ok" ELSE "failed"]
    /\ UNCHANGED <<home, dpc, mpc, pid, late, upid, crashes>>

Starting(d) ==
    \/ ValidateMountpoint(d) \/ AcquireLock(d) \/ RemoveTree(d)
    \/ CreateTree(d) \/ CreateStore(d) \/ MountFuse(d) \/ Bind(d)
    \/ StartFails(d)
Stopping(d) ==
    \/ UnmountFuse(d) \/ CloseSession(d) \/ RemoveSocket(d)
    \/ ReleaseFails(d) \/ Exit(d)
MountCommand(d) ==
    \/ Spawn(d) \/ SpawnFails(d) \/ TryWait(d)
    \/ Connect(d) \/ Disconnected(d) \/ KillChild(d)
UnmountCommand(u) == ShutdownLost(u) \/ WaitExit(u) \/ Inspect(u)
\* Steps of a command that wait for a daemon to answer it.
MountAnswered(d) == Query(d) \/ Unavailable(d)
UnmountAnswered(u) == AskStatus(u) \/ AskShutdown(u)

Next ==
    \/ \E d \in Daemon :
          \/ Starting(d) \/ Terminate(d) \/ Stopping(d) \/ Crash(d)
          \/ Probe(d) \/ MountCommand(d) \/ MountAnswered(d) \/ Deadline(d)
    \/ \E u \in Unmounter : UnmountCommand(u) \/ UnmountAnswered(u)

Spec == Init /\ [][Next]_vars

\* Commands keep running and time passes.  Nothing is assumed of daemons: one
\* may hang at any step, and then answers nobody.
FairSpec ==
    /\ Spec
    /\ \A d \in Daemon : WF_vars(MountCommand(d)) /\ WF_vars(Deadline(d))
    /\ \A u \in Unmounter : WF_vars(UnmountCommand(u))
-----------------------------------------------------------------------------
Owns(d) == dpc[d] \in {"locked", "removed", "created", "open", "mounted",
                       "serving", "detached", "unmounted"}

\* Every variable has its type, and an unmount that got a status from the
\* socket knows which daemon it waits for.
TypeOK ==
    /\ lock \in Daemon \cup {NoDaemon}
    /\ tree \in {"missing", "empty", "active", "closed"}
    /\ treeOf \in Daemon \cup {NoDaemon}
    /\ sock \in Daemon \cup {NoDaemon}
    /\ mount \in [Daemon -> {"none", "live", "dead"}]
    /\ dpc \in [Daemon -> {"none", "spawned", "locking", "locked", "removed",
                           "created", "open", "mounted", "serving", "detached",
                           "unmounted", "closed", "stopping", "exited"}]
    /\ mpc \in [Daemon -> {"idle", "spawn", "wait", "query", "asked", "kill",
                           "ok", "failed"}]
    /\ pid \in [Daemon -> Daemon \cup {NoDaemon}]
    /\ late \subseteq Daemon
    /\ upc \in [Unmounter -> {"idle", "shutdown", "waiting", "inspect",
                              "timeout", "ok", "failed"}]
    /\ upid \in [Unmounter -> Daemon \cup {NoDaemon}]
    /\ \A u \in Unmounter :
          upc[u] \notin {"idle", "failed"} => upid[u] \in Daemon
    /\ crashes \in 0..MaxCrashes

\* At most one session per home: a daemon between Session::open and the close
\* of its session holds the lock, and nobody else does, however many mounts
\* race and whoever is killed.
OneSession == \A d \in Daemon : Owns(d) <=> lock = d

\* "the session lock still protects session state": the tree a live session
\* created is not removed, replaced or closed under it.
OwnerKeepsTree ==
    \A d \in Daemon :
        /\ dpc[d] = "created" => tree = "empty" /\ treeOf = d
        /\ dpc[d] \in {"open", "mounted", "serving", "detached", "unmounted"}
              => tree = "active" /\ treeOf = d

\* A working mount belongs to the daemon that holds the lock: a home never has
\* two, and no daemon gives up its session before its mount.
LiveMountIsOwned == \A d \in Daemon : mount[d] = "live" => lock = d

\* `rfs mount` reports success only when the daemon it names serves the mount
\* asked for: the root validated and FUSE mounted on a session of its own.
MountMeansMounted ==
    [][\A d \in Daemon : mpc[d] # "ok" /\ mpc'[d] = "ok" =>
          LET e == pid'[d] IN
          /\ mount[e] = "live" /\ tree = "active" /\ treeOf = e
          /\ Target[e] = Target[d]]_mpc

\* After a successful `rfs unmount` the daemon is gone, and if the retained
\* tree is the one it left, that says closed and its mount is gone too.  Of a
\* tree of another daemon, whose pid run_unmount does not compare, it says nothing.
UnmountIsHonest ==
    \A u \in Unmounter : upc[u] = "ok" =>
        /\ dpc[upid[u]] = "exited"
        /\ treeOf = upid[u] => tree = "closed" /\ mount[upid[u]] = "none"

\* A daemon that serves has its socket in place ("Control socket path created
\* by this daemon's bind").
ServingIsReachable == \A d \in Daemon : dpc[d] = "serving" => sock = d

\* wait_for_daemon_ready "Polls until the spawned daemon `child` serves the
\* requested mount": the daemon reported is the one that was spawned.
MountReportsChild == \A d \in Daemon : mpc[d] = "ok" => pid[d] = d

\* A command past its first status request ends, unless a daemon that listens
\* keeps it waiting: DAEMON_READY_TIMEOUT gives up on a daemon that hangs before
\* it binds, dies, shuts down or loses its socket, but no request has a timeout
\* of its own.
CommandsReturn ==
    /\ \A d \in Daemon :
          \/ mpc[d] \in {"spawn", "wait", "query", "asked", "kill"}
                ~> mpc[d] \in {"ok", "failed"}
          \/ <>[](mpc[d] = "asked" /\ Running(pid[d]))
    /\ \A u \in Unmounter :
          \/ upc[u] \in {"shutdown", "waiting", "inspect", "timeout"}
                ~> upc[u] \in {"ok", "failed"}
          \/ <>[](upc[u] = "shutdown" /\ Running(upid[u]))
=============================================================================
