--------------------------- MODULE SingleInstance ---------------------------
(***************************************************************************)
(* The single-instance lock of utils/process.rs on Unix and the commands   *)
(* that use its file: `start` takes an flock on the PID file and writes    *)
(* its PID there, a stopping hub unlocks and unlinks it, `status` and      *)
(* `stop` read the PID back, and both may unlink a file they think stale.  *)
(*                                                                         *)
(* A lock belongs to an inode, not to a path: every unlink lets the next   *)
(* File::create make a new inode with a lock of its own.  A process is     *)
(* named by its PID; a PID is used again once its process is gone.         *)
(* ProxyLifecycle is what the winner of the lock goes on to do.            *)
(***************************************************************************)
EXTENDS Integers, FiniteSets

CONSTANTS
  Procs,        \* PIDs
  Commands,     \* subset of {"start", "status", "stop"}
  MaxInodes,    \* bound: files created at the path, never below MaxLaunches
  MaxLaunches,  \* bound: commands launched
  NoProc        \* no process, no PID in a file

ASSUME InstanceConstants ==
  /\ Commands \subseteq {"start", "status", "stop"}
  /\ MaxLaunches \in Nat /\ MaxInodes \in Nat /\ MaxInodes >= MaxLaunches
  /\ NoProc \notin Procs

Inodes == 1..MaxInodes

VARIABLES
  path,      \* the inode the PID file path names, 0 when there is no file
  inodes,    \* inodes created so far
  content,   \* content[i]: the PID written in inode i, NoProc when empty
  flock,     \* flock[i]: the process holding the lock of inode i, or NoProc
  doing,     \* what each process does next
  cmd,       \* the command each process runs
  fd,        \* the inode a starting or running instance has open, or 0
  seen,      \* the PID a status or stop has read
  launches,  \* commands launched so far
  orphaned,  \* history: a file was unlinked that a start or a hub had open
  truncated  \* history: a start opened, and so emptied, the file of a running hub

fileVars == <<path, inodes, content, flock>>
history == <<orphaned, truncated>>
lockVars == <<fileVars, doing, cmd, fd, seen, launches, history>>

Doings == {"gone", "create", "flock", "write", "running", "unlock", "unlink",
           "read", "act"}

\* The process is past acquire_single_instance and serves as the hub.
Instances == {p \in Procs : doing[p] \in {"running", "unlock"}}

Alive(p) == doing[p] # "gone"

Proceed(p, label) == doing' = [doing EXCEPT ![p] = label]

LockInit ==
  /\ path = 0
  /\ inodes = 0
  /\ content = [i \in Inodes |-> NoProc]
  /\ flock = [i \in Inodes |-> NoProc]
  /\ doing = [p \in Procs |-> "gone"]
  /\ cmd = [p \in Procs |-> "start"]
  /\ fd = [p \in Procs |-> 0]
  /\ seen = [p \in Procs |-> NoProc]
  /\ launches = 0
  /\ orphaned = FALSE /\ truncated = FALSE

\* A command is launched; start goes to try_lock, the others to read_pid_file.
Launch(p, c) ==
  /\ ~Alive(p)
  /\ c \in Commands
  /\ launches < MaxLaunches
  /\ launches' = launches + 1
  /\ cmd' = [cmd EXCEPT ![p] = c]
  /\ Proceed(p, IF c = "start" THEN "create" ELSE "read")
  /\ UNCHANGED <<fileVars, fd, seen, history>>

\* File::create(pid_file): truncates the file that is there, or makes a new one.
TryLockCreate(p) ==
  /\ doing[p] = "create"
  /\ \/ /\ path # 0
        /\ content' = [content EXCEPT ![path] = NoProc]
        /\ fd' = [fd EXCEPT ![p] = path]
        /\ UNCHANGED <<path, inodes>>
     \/ /\ path = 0 /\ inodes < MaxInodes
        /\ inodes' = inodes + 1
        /\ path' = inodes + 1
        /\ fd' = [fd EXCEPT ![p] = inodes + 1]
        /\ UNCHANGED content
  /\ truncated' = (truncated \/ \E q \in Procs : doing[q] = "running" /\ fd[q] = path)
  /\ Proceed(p, "flock")
  /\ UNCHANGED <<flock, cmd, seen, launches, orphaned>>

\* Mutant: the result of flock is not looked at.
TryLockFlock_Unchecked(p) ==
  /\ doing[p] = "flock"
  /\ flock' = [flock EXCEPT ![fd[p]] = p]
  /\ Proceed(p, "write")
  /\ UNCHANGED <<path, inodes, content, cmd, fd, seen, launches, history>>

\* flock(LOCK_EX | LOCK_NB): on failure the file is closed and start bails out.
TryLockFlock(p) ==
  /\ doing[p] = "flock"
  /\ \/ /\ flock[fd[p]] = NoProc
        /\ flock' = [flock EXCEPT ![fd[p]] = p]
        /\ Proceed(p, "write")
        /\ UNCHANGED fd
     \/ /\ flock[fd[p]] # NoProc
        /\ fd' = [fd EXCEPT ![p] = 0]
        /\ Proceed(p, "gone")
        /\ UNCHANGED flock
  /\ UNCHANGED <<path, inodes, content, cmd, seen, launches, history>>

\* Mutant: the PID is not written.
TryLockWrite_Nothing(p) ==
  /\ doing[p] = "write"
  /\ Proceed(p, "running")
  /\ UNCHANGED <<fileVars, cmd, fd, seen, launches, history>>

\* The PID is written and the guard stored: the instance runs.
TryLockWrite(p) ==
  /\ doing[p] = "write"
  /\ content' = [content EXCEPT ![fd[p]] = p]
  /\ Proceed(p, "running")
  /\ UNCHANGED <<path, inodes, flock, cmd, fd, seen, launches, history>>

\* A signal reaches the running hub, which then shuts down.
Signal(p) ==
  /\ doing[p] = "running"
  /\ Proceed(p, "unlock")
  /\ UNCHANGED <<fileVars, cmd, fd, seen, launches, history>>

\* release_single_instance drops the guard, which closes the file ...
ReleaseUnlock(p) ==
  /\ doing[p] = "unlock"
  /\ flock' = [flock EXCEPT ![fd[p]] = NoProc]
  /\ fd' = [fd EXCEPT ![p] = 0]
  /\ Proceed(p, "unlink")
  /\ UNCHANGED <<path, inodes, content, cmd, seen, launches, history>>

\* ... and then removes whatever file is at the path; read_pid_file and status
\* do the same with a file they could not use.  The process then exits.
RemovePidFile(p) ==
  /\ doing[p] = "unlink"
  /\ path' = 0
  /\ orphaned' = (orphaned \/ (path # 0 /\ \E q \in Procs : fd[q] = path))
  /\ Proceed(p, "gone")
  /\ UNCHANGED <<inodes, content, flock, cmd, fd, seen, launches, truncated>>

\* read_pid_file: no file ends the command, an empty file is removed.
ReadPidFile(p) ==
  /\ doing[p] = "read"
  /\ seen' = [seen EXCEPT ![p] = IF path = 0 THEN NoProc ELSE content[path]]
  /\ Proceed(p, IF path = 0 THEN "gone" ELSE IF content[path] = NoProc THEN "unlink" ELSE "act")
  /\ UNCHANGED <<fileVars, cmd, fd, launches, history>>

\* status: kill(pid, 0) tells whether the process exists; if not, the file goes.
StatusCheck(p) ==
  /\ doing[p] = "act" /\ cmd[p] = "status"
  /\ Proceed(p, IF Alive(seen[p]) THEN "gone" ELSE "unlink")
  /\ UNCHANGED <<fileVars, cmd, fd, seen, launches, history>>

\* Every process that dies loses its lock, wherever it was.
Died(p) == [i \in Inodes |-> IF flock[i] = p THEN NoProc ELSE flock[i]]

\* stop: SIGTERM.  A running hub shuts down, any other process is killed by it;
\* a PID without a process is ignored.
StopKill(p) ==
  LET q == seen[p] IN
  /\ doing[p] = "act" /\ cmd[p] = "stop"
  /\ \/ /\ doing[q] = "running"
        /\ doing' = [doing EXCEPT ![p] = "gone", ![q] = "unlock"]
        /\ UNCHANGED <<flock, fd>>
     \/ /\ doing[q] # "running"
        /\ doing' = [doing EXCEPT ![p] = "gone",
                            ![q] = IF @ \in {"unlock", "unlink"} THEN @ ELSE "gone"]
        /\ flock' = IF doing[q] \in {"unlock", "unlink"} THEN flock ELSE Died(q)
        /\ fd' = IF doing[q] \in {"unlock", "unlink"} THEN fd ELSE [fd EXCEPT ![q] = 0]
  /\ UNCHANGED <<path, inodes, content, cmd, seen, launches, history>>

\* A process is killed outright, or start fails after taking the lock: the
\* kernel closes its files, the PID file stays.
Dies(p) ==
  /\ Alive(p)
  /\ flock' = Died(p)
  /\ fd' = [fd EXCEPT ![p] = 0]
  /\ Proceed(p, "gone")
  /\ UNCHANGED <<path, inodes, content, cmd, seen, launches, history>>

\* The bound on launches is used up.
AllLaunched ==
  /\ launches = MaxLaunches /\ \A p \in Procs : ~Alive(p)
  /\ UNCHANGED lockVars

ProcStep(p) ==
  \/ TryLockCreate(p) \/ TryLockFlock(p) \/ TryLockWrite(p)
  \/ Signal(p) \/ ReleaseUnlock(p) \/ RemovePidFile(p)
  \/ ReadPidFile(p) \/ StatusCheck(p) \/ StopKill(p) \/ Dies(p)

LockNext ==
  \/ \E p \in Procs : ProcStep(p) \/ \E c \in Commands : Launch(p, c)
  \/ AllLaunched

LockSpec == LockInit /\ [][LockNext]_lockVars

-----------------------------------------------------------------------------
(* Properties *)

\* Every variable keeps its type.
TypeOK ==
  /\ path \in 0..MaxInodes
  /\ inodes \in 0..MaxInodes
  /\ content \in [Inodes -> Procs \cup {NoProc}]
  /\ flock \in [Inodes -> Procs \cup {NoProc}]
  /\ doing \in [Procs -> Doings]
  /\ cmd \in [Procs -> {"start", "status", "stop"}]
  /\ fd \in [Procs -> 0..MaxInodes]
  /\ seen \in [Procs -> Procs \cup {NoProc}]
  /\ launches \in Nat
  /\ orphaned \in BOOLEAN /\ truncated \in BOOLEAN

\* "已有另一个 Hakimi Hub 实例在运行": a second instance never runs.
MutualExclusion == \A p, q \in Instances : p = q

\* As long as nobody unlinks a file that a starting or running hub has open, at
\* most one instance runs, however often hubs start, stop, crash and are asked
\* for their status.  release_single_instance unlocks before it unlinks, and a
\* status or stop unlinks a file it finds empty or stale: either can hit the
\* file of a start that came in between, and then a third start gets a lock of
\* its own.
ExclusiveUntilOrphaned == ~orphaned => MutualExclusion

\* "停止运行中的代理服务器": the file at the path names the running hub, so that
\* stop reaches it, unless its file was unlinked under it or a second start,
\* which try_lock refuses only after File::create, has emptied it.
StopFindsInstance ==
  ~orphaned /\ ~truncated =>
    \A p \in Procs : doing[p] = "running" => path # 0 /\ content[path] = p

=============================================================================
