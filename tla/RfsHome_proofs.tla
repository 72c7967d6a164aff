---------------------------- MODULE RfsHome_proofs ----------------------------
(***************************************************************************)
(* What the session lock guarantees, for any number of mounts, unmounts    *)
(* and crashes.  HInv is inductive; the properties of RfsHome follow.      *)
(***************************************************************************)
EXTENDS RfsHome, TLAPS

\* A mount command has no daemon before it spawns one.
NotSpawned == \A d \in Daemon : mpc[d] \in {"idle", "spawn"} => dpc[d] = "none"

\* A daemon's FUSE mount works exactly from MountFuse to UnmountFuse, and is
\* orphaned only by a daemon that is gone.
MountSteps ==
    \A d \in Daemon :
        /\ mount[d] = "live" <=> dpc[d] \in {"mounted", "serving", "detached"}
        /\ mount[d] = "dead" => dpc[d] = "exited"

\* A tree is marked closed by the daemon that made it, after it unmounted.
ClosedIsReleased ==
    \A d \in Daemon : tree = "closed" /\ treeOf = d =>
        dpc[d] \in {"closed", "stopping", "exited"} /\ mount[d] = "none"

\* An unmount inspects the tree once its daemon is gone.
InspectsAfterExit ==
    \A u \in Unmounter : upc[u] = "inspect" => dpc[upid[u]] = "exited"

\* How far a daemon is once it has bound the socket.
Bound == {"serving", "detached", "unmounted", "closed", "stopping", "exited"}

\* The socket leads to a daemon that has bound it, and so does the connection of
\* a mount command that waits for a status.
SocketIsBound == \A d \in Daemon : sock = d => dpc[d] \in Bound
AsksBound ==
    \A d \in Daemon : mpc[d] = "asked" => pid[d] \in Daemon /\ dpc[pid[d]] \in Bound

HInv ==
    /\ TypeOK
    /\ OneSession
    /\ OwnerKeepsTree
    /\ NotSpawned
    /\ MountSteps
    /\ ClosedIsReleased
    /\ InspectsAfterExit
    /\ UnmountIsHonest
    /\ SocketIsBound
    /\ AsksBound

USE DaemonAssumption, HomeAssumption

\* Init establishes the inductive invariant: the home is empty, nothing runs.
LEMMA InitHInv == Init => HInv
  BY DEF Init, HInv, TypeOK, OneSession, Owns, OwnerKeepsTree, NotSpawned,
     MountSteps, ClosedIsReleased, InspectsAfterExit, UnmountIsHonest,
         SocketIsBound, AsksBound, Bound

\* Every step of a daemon, a mount or an unmount command preserves it.
LEMMA NextHInv == HInv /\ [Next]_vars => HInv'
  <1> SUFFICES ASSUME HInv, [Next]_vars PROVE HInv'
      OBVIOUS
  <1> USE DEF HInv, home, cli, Advance, DaemonOnly, Dies
  <1>1. ASSUME NEW d \in Daemon, Starting(d) PROVE HInv'
    <2>1. CASE ValidateMountpoint(d)
      BY <2>1 DEF ValidateMountpoint, TypeOK, OneSession, Owns, OwnerKeepsTree,
         NotSpawned, MountSteps, ClosedIsReleased, InspectsAfterExit, UnmountIsHonest,
         SocketIsBound, AsksBound, Bound
    <2>2. CASE AcquireLock(d)
      BY <2>2 DEF AcquireLock, TypeOK, OneSession, Owns, OwnerKeepsTree,
         NotSpawned, MountSteps, ClosedIsReleased, InspectsAfterExit, UnmountIsHonest,
         SocketIsBound, AsksBound, Bound
    <2>3. CASE RemoveTree(d)
      BY <2>3 DEF RemoveTree, TypeOK, OneSession, Owns, OwnerKeepsTree,
         NotSpawned, MountSteps, ClosedIsReleased, InspectsAfterExit, UnmountIsHonest,
         SocketIsBound, AsksBound, Bound
    <2>4. CASE CreateTree(d)
      BY <2>4 DEF CreateTree, TypeOK, OneSession, Owns, OwnerKeepsTree,
         NotSpawned, MountSteps, ClosedIsReleased, InspectsAfterExit, UnmountIsHonest,
         SocketIsBound, AsksBound, Bound
    <2>5. CASE CreateStore(d)
      BY <2>5 DEF CreateStore, TypeOK, OneSession, Owns, OwnerKeepsTree,
         NotSpawned, MountSteps, ClosedIsReleased, InspectsAfterExit, UnmountIsHonest,
         SocketIsBound, AsksBound, Bound
    <2>6. CASE MountFuse(d)
      BY <2>6 DEF MountFuse, TypeOK, OneSession, Owns, OwnerKeepsTree,
         NotSpawned, MountSteps, ClosedIsReleased, InspectsAfterExit, UnmountIsHonest,
         SocketIsBound, AsksBound, Bound
    <2>7. CASE Bind(d)
      BY <2>7 DEF Bind, TypeOK, OneSession, Owns, OwnerKeepsTree,
         NotSpawned, MountSteps, ClosedIsReleased, InspectsAfterExit, UnmountIsHonest,
         SocketIsBound, AsksBound, Bound
    <2>8. CASE StartFails(d)
      BY <2>8 DEF StartFails, TypeOK, OneSession, Owns, OwnerKeepsTree,
         NotSpawned, MountSteps, ClosedIsReleased, InspectsAfterExit, UnmountIsHonest,
         SocketIsBound, AsksBound, Bound
    <2> QED BY <1>1, <2>1, <2>2, <2>3, <2>4, <2>5, <2>6, <2>7, <2>8 DEF Starting
  <1>2. ASSUME NEW d \in Daemon, Stopping(d) PROVE HInv'
    <2>1. CASE UnmountFuse(d)
      BY <2>1 DEF UnmountFuse, TypeOK, OneSession, Owns, OwnerKeepsTree,
         NotSpawned, MountSteps, ClosedIsReleased, InspectsAfterExit, UnmountIsHonest,
         SocketIsBound, AsksBound, Bound
    <2>2. CASE CloseSession(d)
      BY <2>2 DEF CloseSession, TypeOK, OneSession, Owns, OwnerKeepsTree,
         NotSpawned, MountSteps, ClosedIsReleased, InspectsAfterExit, UnmountIsHonest,
         SocketIsBound, AsksBound, Bound
    <2>3. CASE RemoveSocket(d)
      BY <2>3 DEF RemoveSocket, TypeOK, OneSession, Owns, OwnerKeepsTree,
         NotSpawned, MountSteps, ClosedIsReleased, InspectsAfterExit, UnmountIsHonest,
         SocketIsBound, AsksBound, Bound
    <2>4. CASE ReleaseFails(d)
      BY <2>4 DEF ReleaseFails, TypeOK, OneSession, Owns, OwnerKeepsTree,
         NotSpawned, MountSteps, ClosedIsReleased, InspectsAfterExit, UnmountIsHonest,
         SocketIsBound, AsksBound, Bound
    <2>5. CASE Exit(d)
      BY <2>5 DEF Exit, TypeOK, OneSession, Owns, OwnerKeepsTree,
         NotSpawned, MountSteps, ClosedIsReleased, InspectsAfterExit, UnmountIsHonest,
         SocketIsBound, AsksBound, Bound
    <2> QED BY <1>2, <2>1, <2>2, <2>3, <2>4, <2>5 DEF Stopping
  <1>3. ASSUME NEW d \in Daemon, MountCommand(d) PROVE HInv'
    <2>1. CASE Spawn(d)
      BY <2>1 DEF Spawn, TypeOK, OneSession, Owns, OwnerKeepsTree,
         NotSpawned, MountSteps, ClosedIsReleased, InspectsAfterExit, UnmountIsHonest,
         SocketIsBound, AsksBound, Bound
    <2>2. CASE SpawnFails(d)
      BY <2>2 DEF SpawnFails, TypeOK, OneSession, Owns, OwnerKeepsTree,
         NotSpawned, MountSteps, ClosedIsReleased, InspectsAfterExit, UnmountIsHonest,
         SocketIsBound, AsksBound, Bound
    <2>3. CASE TryWait(d)
      BY <2>3 DEF TryWait, TypeOK, OneSession, Owns, OwnerKeepsTree,
         NotSpawned, MountSteps, ClosedIsReleased, InspectsAfterExit, UnmountIsHonest,
         SocketIsBound, AsksBound, Bound
    <2>4. CASE Connect(d)
      BY <2>4 DEF Connect, NoAnswer, Running, TypeOK, OneSession, Owns, OwnerKeepsTree,
         NotSpawned, MountSteps, ClosedIsReleased, InspectsAfterExit, UnmountIsHonest,
         SocketIsBound, AsksBound, Bound
    <2>5. CASE Disconnected(d)
      BY <2>5 DEF Disconnected, NoAnswer, TypeOK, OneSession, Owns, OwnerKeepsTree,
         NotSpawned, MountSteps, ClosedIsReleased, InspectsAfterExit, UnmountIsHonest,
         SocketIsBound, AsksBound, Bound
    <2>6. CASE KillChild(d)
      BY <2>6 DEF KillChild, TypeOK, OneSession, Owns, OwnerKeepsTree,
         NotSpawned, MountSteps, ClosedIsReleased, InspectsAfterExit, UnmountIsHonest,
         SocketIsBound, AsksBound, Bound
    <2> QED BY <1>3, <2>1, <2>2, <2>3, <2>4, <2>5, <2>6 DEF MountCommand
  <1>4. ASSUME NEW u \in Unmounter, UnmountCommand(u) PROVE HInv'
    <2>1. CASE ShutdownLost(u)
      BY <2>1 DEF ShutdownLost, TypeOK, OneSession, Owns, OwnerKeepsTree,
         NotSpawned, MountSteps, ClosedIsReleased, InspectsAfterExit, UnmountIsHonest,
         SocketIsBound, AsksBound, Bound
    <2>2. CASE WaitExit(u)
      BY <2>2 DEF WaitExit, TypeOK, OneSession, Owns, OwnerKeepsTree,
         NotSpawned, MountSteps, ClosedIsReleased, InspectsAfterExit, UnmountIsHonest,
         SocketIsBound, AsksBound, Bound
    <2>3. CASE Inspect(u)
      BY <2>3 DEF Inspect, TypeOK, OneSession, Owns, OwnerKeepsTree,
         NotSpawned, MountSteps, ClosedIsReleased, InspectsAfterExit, UnmountIsHonest,
         SocketIsBound, AsksBound, Bound
    <2> QED BY <1>4, <2>1, <2>2, <2>3 DEF UnmountCommand
  <1>5. ASSUME NEW d \in Daemon, Terminate(d) PROVE HInv'
    BY <1>5 DEF Terminate, TypeOK, OneSession, Owns, OwnerKeepsTree,
         NotSpawned, MountSteps, ClosedIsReleased, InspectsAfterExit, UnmountIsHonest,
         SocketIsBound, AsksBound, Bound
  <1>6. ASSUME NEW d \in Daemon, Crash(d) PROVE HInv'
    BY <1>6 DEF Crash, Running, TypeOK, OneSession, Owns, OwnerKeepsTree,
         NotSpawned, MountSteps, ClosedIsReleased, InspectsAfterExit, UnmountIsHonest,
         SocketIsBound, AsksBound, Bound
  <1>7. ASSUME NEW d \in Daemon, Probe(d) PROVE HInv'
    BY <1>7 DEF Probe, TypeOK, OneSession, Owns, OwnerKeepsTree,
         NotSpawned, MountSteps, ClosedIsReleased, InspectsAfterExit, UnmountIsHonest,
         SocketIsBound, AsksBound, Bound
  <1>8. ASSUME NEW d \in Daemon, Deadline(d) PROVE HInv'
    BY <1>8 DEF Deadline, TypeOK, OneSession, Owns, OwnerKeepsTree,
         NotSpawned, MountSteps, ClosedIsReleased, InspectsAfterExit, UnmountIsHonest,
         SocketIsBound, AsksBound, Bound
  <1>9. ASSUME NEW d \in Daemon, MountAnswered(d) PROVE HInv'
    <2>1. CASE Query(d)
      BY <2>1 DEF Query, TypeOK, OneSession, Owns, OwnerKeepsTree,
         NotSpawned, MountSteps, ClosedIsReleased, InspectsAfterExit, UnmountIsHonest,
         SocketIsBound, AsksBound, Bound
    <2>2. CASE Unavailable(d)
      BY <2>2 DEF Unavailable, NoAnswer, TypeOK, OneSession, Owns, OwnerKeepsTree,
         NotSpawned, MountSteps, ClosedIsReleased, InspectsAfterExit, UnmountIsHonest,
         SocketIsBound, AsksBound, Bound
    <2> QED BY <1>9, <2>1, <2>2 DEF MountAnswered
  <1>10. ASSUME NEW u \in Unmounter, UnmountAnswered(u) PROVE HInv'
    <2>1. CASE AskStatus(u)
      BY <2>1 DEF AskStatus, Answers, TypeOK, OneSession, Owns, OwnerKeepsTree,
         NotSpawned, MountSteps, ClosedIsReleased, InspectsAfterExit, UnmountIsHonest,
         SocketIsBound, AsksBound, Bound
    <2>2. CASE AskShutdown(u)
      BY <2>2 DEF AskShutdown, TypeOK, OneSession, Owns, OwnerKeepsTree,
         NotSpawned, MountSteps, ClosedIsReleased, InspectsAfterExit, UnmountIsHonest,
         SocketIsBound, AsksBound, Bound
    <2> QED BY <1>10, <2>1, <2>2 DEF UnmountAnswered
  <1>11. CASE UNCHANGED vars
    BY <1>11 DEF vars, TypeOK, OneSession, Owns, OwnerKeepsTree,
         NotSpawned, MountSteps, ClosedIsReleased, InspectsAfterExit, UnmountIsHonest,
         SocketIsBound, AsksBound, Bound
  <1> QED BY <1>1, <1>2, <1>3, <1>4, <1>5, <1>6, <1>7, <1>8, <1>9, <1>10, <1>11 DEF Next

\* The invariant holds in every reachable state.
THEOREM HomeInvariant == Spec => []HInv
  BY InitHInv, NextHInv, PTL DEF Spec

\* Type correctness of the home and of every command's state.
THEOREM HomeTypes == Spec => []TypeOK
  <1>1. HInv => TypeOK
    BY DEF HInv
  <1> QED BY <1>1, HomeInvariant, PTL

\* SessionLock::acquire: a daemon is inside its session exactly while it holds
\* the flock, so two daemons never are at once.
THEOREM LockExcludes == Spec => []OneSession
  <1>1. HInv => OneSession
    BY DEF HInv
  <1> QED BY <1>1, HomeInvariant, PTL

\* Session::open of one daemon never replaces the tree of another's session.
THEOREM TreeIsOwned == Spec => []OwnerKeepsTree
  <1>1. HInv => OwnerKeepsTree
    BY DEF HInv
  <1> QED BY <1>1, HomeInvariant, PTL

\* DaemonResources::release and the failure paths unmount before they unlock.
THEOREM MountIsOwned == Spec => []LiveMountIsOwned
  <1>1. HInv => LiveMountIsOwned
    BY DEF HInv, MountSteps, OneSession, Owns, LiveMountIsOwned
  <1> QED BY <1>1, HomeInvariant, PTL

\* run_unmount succeeds only when the daemon it stopped has exited, and what
\* that daemon left behind is closed and unmounted.
THEOREM UnmountHonest == Spec => []UnmountIsHonest
  <1>1. HInv => UnmountIsHonest
    BY DEF HInv
  <1> QED BY <1>1, HomeInvariant, PTL

\* Only a step of a mount command changes how far one is: the daemons and the
\* unmount commands leave it alone.
LEMMA OnlyCommands ==
  ASSUME Next, mpc' # mpc
  PROVE  \E d \in Daemon : Probe(d) \/ MountCommand(d) \/ MountAnswered(d)
  <1>1. ASSUME NEW d \in Daemon, Starting(d) PROVE UNCHANGED mpc
    BY <1>1 DEF Starting, ValidateMountpoint, AcquireLock, RemoveTree, CreateTree,
       CreateStore, MountFuse, Bind, StartFails, DaemonOnly, cli
  <1>2. ASSUME NEW d \in Daemon, Terminate(d) \/ Stopping(d) \/ Crash(d)
        PROVE  UNCHANGED mpc
    BY <1>2 DEF Terminate, Stopping, UnmountFuse, CloseSession, RemoveSocket,
       ReleaseFails, Exit, Crash, DaemonOnly, cli
  <1>3. ASSUME NEW u \in Unmounter, UnmountCommand(u) \/ UnmountAnswered(u)
        PROVE  UNCHANGED mpc
    BY <1>3 DEF UnmountCommand, UnmountAnswered, AskStatus, AskShutdown, ShutdownLost,
       WaitExit, Inspect
  <1>4. ASSUME NEW d \in Daemon, Deadline(d) PROVE UNCHANGED mpc
    BY <1>4 DEF Deadline
  <1> QED BY SMTT(30), <1>1, <1>2, <1>3, <1>4 DEF Next

\* wait_for_daemon_ready succeeds only when the daemon that answered has its
\* session open and its mount working.
THEOREM MountReady == Spec => MountMeansMounted
  <1> DEFINE Reports ==
        \A d \in Daemon : mpc[d] # "ok" /\ mpc'[d] = "ok" =>
          LET e == pid'[d] IN
          /\ mount[e] = "live" /\ tree = "active" /\ treeOf = e
          /\ Target[e] = Target[d]
  <1>0. Next /\ mpc' # mpc
           => \E d \in Daemon : Probe(d) \/ MountCommand(d) \/ MountAnswered(d)
    BY OnlyCommands
  <1>1. HInv /\ [Next]_vars => [Reports]_mpc
    <2> SUFFICES ASSUME HInv, Next, NEW d \in Daemon, mpc[d] # "ok", mpc'[d] = "ok"
                 PROVE  LET e == pid'[d] IN
                        /\ mount[e] = "live" /\ tree = "active" /\ treeOf = e
                        /\ Target[e] = Target[d]
      BY SMTT(30) DEF vars, cli
    <2>1. Query(d)
      <3>1. PICK e \in Daemon : Probe(e) \/ MountCommand(e) \/ MountAnswered(e)
        BY <1>0 DEF HInv, TypeOK
      <3>2. ~Probe(e)
        BY DEF Probe, HInv, TypeOK
      <3>3. ~MountCommand(e)
        BY DEF MountCommand, Spawn, SpawnFails, TryWait, Connect, Disconnected,
           NoAnswer, KillChild, HInv, TypeOK
      <3>4. ~Unavailable(e)
        BY DEF Unavailable, NoAnswer, HInv, TypeOK
      <3> QED BY <3>1, <3>2, <3>3, <3>4 DEF MountAnswered, Query, HInv, TypeOK
    <2>2. /\ pid[d] \in Daemon /\ dpc[pid[d]] = "serving"
          /\ Target[pid[d]] = Target[d] /\ pid' = pid
      BY SMTT(30), <2>1 DEF Query, HInv, TypeOK, AsksBound
    <2> QED BY <2>2 DEF HInv, MountSteps, OwnerKeepsTree
  <1> QED BY <1>1, HomeInvariant, PTL DEF Spec, MountMeansMounted

-----------------------------------------------------------------------------
\* A mount command at work, from the probe to its outcome.
Busy(d) == mpc[d] \in {"spawn", "wait", "query", "asked", "kill"}

\* Mount commands that do not overlap: one is at work at a time, no daemon but
\* its own answers meanwhile, and no other daemon is on its way to the socket,
\* since those of failed commands are gone and those that were reported have
\* bound theirs.
Alone ==
    /\ \A d, e \in Daemon : Busy(d) /\ (Busy(e) \/ Answers(e)) => d = e
    /\ \A d \in Daemon : mpc[d] = "failed" => dpc[d] \in {"none", "exited"}
    /\ \A d \in Daemon : mpc[d] = "ok" => dpc[d] \in Bound
    /\ \A d \in Daemon : mpc[d] = "asked" /\ dpc[pid[d]] = "serving" => pid[d] = d
    /\ MountReportsChild

\* A step preserves it, if a command waits for the others to end.
LEMMA NextAlone == ~Overlap /\ HInv /\ Alone /\ [Next]_vars => Alone'
  <1> SUFFICES ASSUME ~Overlap, HInv, Alone, [Next]_vars PROVE Alone'
      OBVIOUS
  <1> USE DEF home, cli, Advance, DaemonOnly, Dies, Alone, MountReportsChild, Busy,
        Answers, TypeOK, Bound, AsksBound
  <1>1. ASSUME NEW d \in Daemon, Starting(d) PROVE Alone'
    <2>1. CASE ValidateMountpoint(d)
      BY <2>1 DEF ValidateMountpoint, HInv
    <2>2. CASE AcquireLock(d)
      BY <2>2 DEF AcquireLock, HInv
    <2>3. CASE RemoveTree(d)
      BY <2>3 DEF RemoveTree, HInv
    <2>4. CASE CreateTree(d)
      BY <2>4 DEF CreateTree, HInv
    <2>5. CASE CreateStore(d)
      BY <2>5 DEF CreateStore, HInv
    <2>6. CASE MountFuse(d)
      BY <2>6 DEF MountFuse, HInv
    <2>7. CASE Bind(d)
      BY <2>7 DEF Bind, HInv, NotSpawned
    <2>8. CASE StartFails(d)
      BY SMTT(30), <2>8 DEF StartFails, HInv
    <2> QED BY ZenonT(30), <1>1, <2>1, <2>2, <2>3, <2>4, <2>5, <2>6, <2>7, <2>8 DEF Starting
  <1>2. ASSUME NEW d \in Daemon, Stopping(d) PROVE Alone'
    <2>1. CASE UnmountFuse(d)
      BY <2>1 DEF UnmountFuse, HInv
    <2>2. CASE CloseSession(d)
      BY <2>2 DEF CloseSession, HInv
    <2>3. CASE RemoveSocket(d)
      BY <2>3 DEF RemoveSocket, HInv
    <2>4. CASE ReleaseFails(d)
      BY <2>4 DEF ReleaseFails, HInv
    <2>5. CASE Exit(d)
      BY SMTT(30), <2>5 DEF Exit, HInv
    <2> QED BY <1>2, <2>1, <2>2, <2>3, <2>4, <2>5 DEF Stopping
  <1>3. ASSUME NEW d \in Daemon, MountCommand(d) PROVE Alone'
    <2>1. CASE Spawn(d)
      BY <2>1 DEF Spawn, HInv
    <2>2. CASE SpawnFails(d)
      BY <2>2 DEF SpawnFails, HInv, NotSpawned
    <2>3. CASE TryWait(d)
      BY <2>3 DEF TryWait, HInv
    <2>4. CASE Connect(d)
      BY <2>4 DEF Connect, NoAnswer, HInv
    <2>5. CASE Disconnected(d)
      BY <2>5 DEF Disconnected, NoAnswer, HInv
    <2>6. CASE KillChild(d)
      BY <2>6 DEF KillChild, HInv
    <2> QED BY <1>3, <2>1, <2>2, <2>3, <2>4, <2>5, <2>6 DEF MountCommand
  <1>4. ASSUME NEW d \in Daemon, Terminate(d) PROVE Alone'
    BY <1>4 DEF Terminate, HInv
  <1>5. ASSUME NEW d \in Daemon, Crash(d) PROVE Alone'
    BY <1>5 DEF Crash, Running, HInv
  <1>6. ASSUME NEW d \in Daemon, Probe(d) PROVE Alone'
    BY <1>6 DEF Probe, NotSpawned, HInv
  <1>7. ASSUME NEW d \in Daemon, Deadline(d) PROVE Alone'
    BY <1>7 DEF Deadline, HInv
  <1>8. ASSUME NEW d \in Daemon, MountAnswered(d) PROVE Alone'
    <2>1. CASE Query(d)
      BY <2>1 DEF Query, HInv
    <2>2. CASE Unavailable(d)
      BY <2>2 DEF Unavailable, NoAnswer, HInv
    <2> QED BY SMTT(30), <1>8, <2>1, <2>2 DEF MountAnswered
  <1>9. ASSUME NEW u \in Unmounter, UnmountCommand(u) PROVE Alone'
    BY SMTT(30), <1>9 DEF UnmountCommand, ShutdownLost, WaitExit, Inspect, HInv
  <1>10. ASSUME NEW u \in Unmounter, UnmountAnswered(u) PROVE Alone'
    <2>1. CASE AskStatus(u)
      BY <2>1 DEF AskStatus, HInv
    <2>2. CASE AskShutdown(u)
      BY <2>2 DEF AskShutdown, HInv
    <2> QED BY SMTT(30), <1>10, <2>1, <2>2 DEF UnmountAnswered
  <1>11. CASE UNCHANGED vars
    BY <1>11 DEF vars
  <1> QED BY Zenon, <1>1, <1>2, <1>3, <1>4, <1>5, <1>6, <1>7, <1>8, <1>9, <1>10, <1>11 DEF Next

\* wait_for_daemon_ready, when mount commands of a home run one after the
\* other: the daemon that `rfs mount` reports is the one it spawned.
THEOREM ReportsChild ==
  ASSUME ~Overlap
  PROVE  Spec => []MountReportsChild
  <1>1. Init => Alone
    BY DEF Init, Alone, MountReportsChild, Busy
  <1>2. HInv /\ Alone /\ [Next]_vars => Alone'
    BY NextAlone
  <1>3. Alone => MountReportsChild
    BY DEF Alone
  <1> QED BY <1>1, <1>2, <1>3, HomeInvariant, PTL DEF Spec
===============================================================================
