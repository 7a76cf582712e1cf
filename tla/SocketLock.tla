----------------------------- MODULE SocketLock -----------------------------
(***************************************************************************)
(* Listener::bind and its Drop (vitrin-ipc/src/listener.rs): processes     *)
(* that bind one socket path, hold the lock file beside it for as long as  *)
(* they listen, and remove both on the way out.  Each file operation is a  *)
(* step; between two of them any other process may run, and a process may  *)
(* end, when the kernel closes its files and the paths stay as they are.   *)
(*                                                                         *)
(* Files are inodes: naturals, 0 for none.  An inode that some process     *)
(* holds open is never given out again, so a fresh one is a new number.    *)
(***************************************************************************)
EXTENDS Naturals

CONSTANTS
    Process,
    LOCK_RETRY_LIMIT,
    MaxInodes               \* bound: lock files ever created

VARIABLES
    pc,             \* where each process is in bind, or in the drop
    tries,          \* turns of the loop of lock_at left
    inode,          \* the lock file each process has open
    locked,         \* the processes that hold the flock of their inode
    lock_path,      \* the inode at <socket>.lock
    socket_path,    \* whose socket is at the path, if any
    next_inode

vars == <<pc, tries, inode, locked, lock_path, socket_path, next_inode>>

goto(p, at) == pc' = [pc EXCEPT ![p] = at]

Init ==
    /\ pc = [p \in Process |-> "idle"]
    /\ tries = [p \in Process |-> 0]
    /\ inode = [p \in Process |-> 0]
    /\ locked = {}
    /\ lock_path = 0 /\ socket_path = {} /\ next_inode = 1

(* The lock file is closed, and its flock with it.                         *)
release(p, at) ==
    /\ locked' = locked \ {p}
    /\ inode' = [inode EXCEPT ![p] = 0]
    /\ goto(p, at)
    /\ UNCHANGED <<lock_path, socket_path, next_inode>>

bind(p) ==
    /\ pc[p] = "idle"
    /\ tries' = [tries EXCEPT ![p] = LOCK_RETRY_LIMIT]
    /\ goto(p, "open")
    /\ UNCHANGED <<inode, locked, lock_path, socket_path, next_inode>>

(* One turn of lock_at: open or create the file, ...                       *)
open_lock(p) ==
    /\ pc[p] = "open" /\ tries[p] > 0
    /\ tries' = [tries EXCEPT ![p] = @ - 1]
    /\ \/ /\ lock_path # 0
          /\ inode' = [inode EXCEPT ![p] = lock_path]
          /\ UNCHANGED <<lock_path, next_inode>>
       \/ /\ lock_path = 0 /\ next_inode <= MaxInodes
          /\ inode' = [inode EXCEPT ![p] = next_inode]
          /\ lock_path' = next_inode
          /\ next_inode' = next_inode + 1
    /\ goto(p, "flock")
    /\ UNCHANGED <<locked, socket_path>>

gives_up(p) ==
    /\ pc[p] = "open" /\ tries[p] = 0
    /\ release(p, "idle")
    /\ UNCHANGED tries

(* ... take its flock, or fail with AddrInUse, ...                         *)
flock(p) ==
    /\ pc[p] = "flock"
    /\ IF \E q \in locked : inode[q] = inode[p]
       THEN release(p, "idle")
       ELSE /\ locked' = locked \cup {p}
            /\ goto(p, "stat")
            /\ UNCHANGED <<inode, lock_path, socket_path, next_inode>>
    /\ UNCHANGED tries

(* ... and start over unless the file it locked is the one at the path.    *)
stat_unchecked(p) ==
    /\ pc[p] = "stat"
    /\ goto(p, "unlink")
    /\ UNCHANGED <<inode, locked, lock_path, socket_path, next_inode, tries>>

stat(p) ==
    /\ pc[p] = "stat"
    /\ IF lock_path = inode[p]
       THEN /\ goto(p, "unlink")
            /\ UNCHANGED <<inode, locked, lock_path, socket_path, next_inode>>
       ELSE release(p, "open")
    /\ UNCHANGED tries

remove_stale_socket(p) ==
    /\ pc[p] = "unlink"
    /\ socket_path' = {}
    /\ goto(p, "bind")
    /\ UNCHANGED <<inode, locked, lock_path, next_inode, tries>>

(* bind(2), which refuses a path that is taken, and listen(2).             *)
listen(p) ==
    /\ pc[p] = "bind" /\ socket_path = {}
    /\ socket_path' = {p}
    /\ goto(p, "listening")
    /\ UNCHANGED <<inode, locked, lock_path, next_inode, tries>>

(* Drop: the socket, the lock file, and then the lock.                     *)
drop_socket(p) ==
    /\ pc[p] = "listening"
    /\ socket_path' = {}
    /\ goto(p, "drop_lock")
    /\ UNCHANGED <<inode, locked, lock_path, next_inode, tries>>

drop_lock(p) ==
    /\ pc[p] = "drop_lock"
    /\ lock_path' = 0
    /\ goto(p, "close")
    /\ UNCHANGED <<inode, locked, socket_path, next_inode, tries>>

close(p) ==
    /\ pc[p] = "close"
    /\ release(p, "idle")
    /\ UNCHANGED tries

(* The process ends, or a call of bind fails, with the files left behind.  *)
crash(p) ==
    /\ pc[p] # "idle"
    /\ release(p, "idle")
    /\ UNCHANGED tries

Next ==
    \E p \in Process :
        \/ bind(p) \/ open_lock(p) \/ gives_up(p) \/ flock(p) \/ stat(p)
        \/ remove_stale_socket(p) \/ listen(p)
        \/ drop_socket(p) \/ drop_lock(p) \/ close(p) \/ crash(p)

Spec == Init /\ [][Next]_vars

-----------------------------------------------------------------------------
(* A process that has got through lock_at owns the path until it has       *)
(* dropped its lock file: what bind(2) is given is free, and the socket at *)
(* the path of a listening process is its own, which no other process has  *)
(* removed or replaced.                                                    *)
ListenerOwnsThePath ==
    \A p \in Process :
        /\ pc[p] = "bind" => socket_path = {}
        /\ pc[p] = "listening" => socket_path = {p}
=============================================================================
