-------------------------- MODULE SocketLockProofs --------------------------
(***************************************************************************)
(* The lock of a listener, for any set of processes: whoever is past       *)
(* lock_at holds the flock of the inode at the lock path, and no two       *)
(* processes hold the flock of one inode.                                  *)
(***************************************************************************)
EXTENDS SocketLock, TLAPS

Places == {"idle", "open", "flock", "stat", "unlink", "bind", "listening", "drop_lock", "close"}

(* The places at which a process owns the two paths.                       *)
Owning == {"unlink", "bind", "listening", "drop_lock"}

Types ==
    /\ pc \in [Process -> Places]
    /\ inode \in [Process -> Nat]
    /\ locked \subseteq Process
    /\ lock_path \in Nat
    /\ next_inode \in Nat \ {0}

(* The inductive strengthening.                                            *)
LockInv ==
    /\ Types
    /\ \A p \in Process : pc[p] \in Owning => p \in locked /\ inode[p] = lock_path
    /\ \A p \in Process : pc[p] \in Owning \cup {"flock", "stat"} => inode[p] # 0
    /\ \A p \in Process : pc[p] = "stat" => p \in locked
    /\ \A p, q \in locked : inode[p] = inode[q] => p = q
    /\ \A p \in locked : pc[p] \notin {"idle", "open", "flock"}
    /\ ListenerOwnsThePath

(* At most one process owns the paths.                                     *)
LEMMA OneOwner ==
    ASSUME LockInv, NEW p \in Process, NEW q \in Process,
           pc[p] \in Owning, pc[q] \in Owning
    PROVE  p = q
BY DEF LockInv

(* Nobody owns anything at the start.                                      *)
LEMMA InitLock == Init => LockInv
BY DEF Init, LockInv, Types, Places, Owning, ListenerOwnsThePath

(* A process that closes its lock file leaves what the others own alone.   *)
LEMMA ReleaseLock ==
    ASSUME LockInv, NEW p \in Process, NEW at \in {"idle", "open"}, release(p, at)
    PROVE  LockInv'
<1>1. Types'
  BY DEF LockInv, Types, release, goto, Places
<1>2. \A q \in Process : pc'[q] \notin {"idle", "open"} =>
          q # p /\ pc'[q] = pc[q] /\ inode'[q] = inode[q] /\ (q \in locked => q \in locked')
  BY DEF LockInv, Types, release, goto, Owning
<1>3. \A q \in locked' : q # p /\ q \in locked /\ inode'[q] = inode[q] /\ pc'[q] = pc[q]
  BY DEF LockInv, Types, release, goto
<1>4. ListenerOwnsThePath'
  BY <1>2 DEF LockInv, release, ListenerOwnsThePath, Owning
<1> QED
  BY <1>1, <1>2, <1>3, <1>4 DEF LockInv, release, Owning

(* Every step keeps it.  A new lock file is made only when there is none,  *)
(* so while nobody owns the paths, and the lock file is removed only by    *)
(* their owner.                                                            *)
LEMMA NextLock == LockInv /\ [Next]_vars => LockInv'
<1> SUFFICES ASSUME LockInv, [Next]_vars PROVE LockInv'
  OBVIOUS
<1>1. CASE UNCHANGED vars
  BY <1>1 DEF LockInv, Types, ListenerOwnsThePath, vars
<1> SUFFICES ASSUME NEW p \in Process,
                    \/ bind(p) \/ open_lock(p) \/ gives_up(p) \/ flock(p) \/ stat(p)
                    \/ remove_stale_socket(p) \/ listen(p)
                    \/ drop_socket(p) \/ drop_lock(p) \/ close(p) \/ crash(p)
             PROVE  LockInv'
  BY <1>1 DEF Next
<1>2. CASE bind(p)
  BY <1>2 DEF bind, goto, LockInv, Types, Places, Owning, ListenerOwnsThePath
<1>3. CASE open_lock(p)
  BY <1>3 DEF open_lock, goto, LockInv, Types, Places, Owning, ListenerOwnsThePath
<1>4. CASE gives_up(p)
  BY <1>4, ReleaseLock DEF gives_up
<1>5. CASE flock(p)
  <2>1. CASE \E q \in locked : inode[q] = inode[p]
    BY <1>5, <2>1, ReleaseLock DEF flock
  <2>2. CASE ~ \E q \in locked : inode[q] = inode[p]
    BY <1>5, <2>2 DEF flock, goto, LockInv, Types, Places, Owning, ListenerOwnsThePath
  <2> QED  BY <2>1, <2>2
<1>6. CASE stat(p)
  <2>1. CASE lock_path = inode[p]
    BY <1>6, <2>1 DEF stat, goto, LockInv, Types, Places, Owning, ListenerOwnsThePath
  <2>2. CASE lock_path # inode[p]
    BY <1>6, <2>2, ReleaseLock DEF stat
  <2> QED  BY <2>1, <2>2
<1>7. CASE remove_stale_socket(p)
  BY <1>7, OneOwner DEF remove_stale_socket, goto, LockInv, Types, Places, Owning, ListenerOwnsThePath
<1>8. CASE listen(p)
  BY <1>8, OneOwner DEF listen, goto, LockInv, Types, Places, Owning, ListenerOwnsThePath
<1>9. CASE drop_socket(p)
  BY <1>9, OneOwner DEF drop_socket, goto, LockInv, Types, Places, Owning, ListenerOwnsThePath
<1>10. CASE drop_lock(p)
  BY <1>10, OneOwner DEF drop_lock, goto, LockInv, Types, Places, Owning, ListenerOwnsThePath
<1>11. CASE close(p)
  BY <1>11, ReleaseLock DEF close
<1>12. CASE crash(p)
  BY <1>12, ReleaseLock DEF crash
<1> QED
  BY <1>2, <1>3, <1>4, <1>5, <1>6, <1>7, <1>8, <1>9, <1>10, <1>11, <1>12

(* However many processes race for a socket path, crash or leave, the      *)
(* socket at the path of a listener is its own (Listener::bind and Drop).  *)
THEOREM ListenersOwnTheirPath == Spec => []ListenerOwnsThePath
<1>1. LockInv => ListenerOwnsThePath
  BY DEF LockInv
<1> QED
  BY <1>1, InitLock, NextLock, PTL DEF Spec
=============================================================================
